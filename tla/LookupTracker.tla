---------------------------- MODULE LookupTracker ----------------------------
(***************************************************************************)
(* What the request tracker of the network database promises, stated      *)
(* without its timers, messages or threads: a table from keys to pending  *)
(* lookups.  A lookup is an object (gen) of a kind (exploratory or not)   *)
(* with the set of floodfills it has tried.  While the same object stays  *)
(* in the table its kind is fixed and its tried set only grows, so a      *)
(* floodfill once excluded is never asked again by that lookup; an object *)
(* leaves the table for good, and a key may then get a new object.  One   *)
(* step may touch any number of keys (ManageRequests walks them all) and  *)
(* may close a key and open it anew (ManageRequests, then Explore).       *)
(***************************************************************************)
EXTENDS FiniteSets

CONSTANTS Keys, Peers, Gens

VARIABLE lookups

Lookup == [gen : Gens, exploratory : BOOLEAN, tried : SUBSET Peers]

Init == lookups = [k \in {} |-> CHOOSE l \in Lookup : TRUE]

\* The fate of key k in a step from table old to table new.
Idle(old, new, k) == k \notin DOMAIN old /\ k \notin DOMAIN new
Opened(old, new, k) == k \notin DOMAIN old /\ k \in DOMAIN new
Closed(old, new, k) == k \in DOMAIN old /\ k \notin DOMAIN new
Grown(old, new, k) ==
  /\ k \in DOMAIN old /\ k \in DOMAIN new
  /\ new[k].gen = old[k].gen
  /\ new[k].exploratory = old[k].exploratory
  /\ old[k].tried \subseteq new[k].tried
Replaced(old, new, k) ==
  /\ k \in DOMAIN old /\ k \in DOMAIN new
  /\ new[k].gen # old[k].gen

Next ==
  LET old == lookups
      new == lookups'
  IN /\ DOMAIN new \subseteq Keys
     /\ \A k \in DOMAIN new : new[k] \in Lookup
     /\ \A k \in Keys : \/ Idle(old, new, k) \/ Opened(old, new, k)
                        \/ Closed(old, new, k) \/ Grown(old, new, k)
                        \/ Replaced(old, new, k)

Spec == Init /\ [][Next]_lookups
=============================================================================
