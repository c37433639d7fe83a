---------------------------- MODULE MCByteStream ----------------------------
(***************************************************************************)
(* A 3-byte buffer written and read back with two byte values.  Lengths    *)
(* run to 4, one past the buffer, so every Advance guard is tried on both  *)
(* sides; size_t is 3 bits wide, so a missed guard shows as wrap-around.   *)
(***************************************************************************)
EXTENDS ByteStream

MCCap == 3
MCBytes == {1, 2}
MCMaxLen == 4
MCSizeMax == 8

=============================================================================
