---------------------------- MODULE MCTunnelBuild ----------------------------
(* TunnelBuild instantiated for TLC.                                        *)
EXTENDS TunnelBuild

\* A transit limit of one: the second tunnel still passes the size() test.
MCMaxTransit == 1

\* A TunnelBuild message has NUM_TUNNEL_BUILD_RECORDS records (8 in the
\* code); two keep the record sets small while leaving a record before and
\* after ours.
MCNumRecords == 2

\* At most two records physically present, and a record count byte of up
\* to three, one more than the buffer holds.
MCMaxLen == 2
MCMaxCount == 3

\* One reply message ID: it is a stranger's until our own build takes it.
MCReplyIds == {1}
=============================================================================
