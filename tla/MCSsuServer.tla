---------------------------- MODULE MCSsuServer ----------------------------
(***************************************************************************)
(* SsuServer for TLC: two remote endpoints, a router reached directly, one *)
(* reached through an introducer, one that lists no introducers and one   *)
(* without an SSU address; one relay tag, one peer-test nonce; timers a    *)
(* second or two apart, so that each fires and an introducer session can  *)
(* age past ToIntroducerSessionDuration before the clock stops.            *)
(***************************************************************************)
EXTENDS SsuServer

MCEndpoints == {1, 2}
RDirect == [ep |-> 1, usesIntroducer |-> FALSE, introducers |-> <<>>]
RIntroduced == [ep |-> 2, usesIntroducer |-> TRUE, introducers |-> <<1>>]
RNoIntroducers == [ep |-> 2, usesIntroducer |-> TRUE, introducers |-> <<>>]
RNoAddress == [ep |-> NoAddress, usesIntroducer |-> FALSE, introducers |-> <<>>]
MCRouters == {RDirect, RIntroduced, RNoIntroducers, RNoAddress}
MCIntroducerRouters == {RDirect}
\* One endpoint, reached directly: enough for the peer-test table and its timer.
MCOneEndpoint == {1}
MCDirectRouters == {RDirect}
MCRouterStates == {"testing", "ok", "firewalled"}

====
