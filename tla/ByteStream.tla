----------------------------- MODULE ByteStream -----------------------------
(***************************************************************************)
(* The cursor classes of src/core/util/byte_stream.cc.                     *)
(*                                                                         *)
(* A ByteStream is a cursor over a caller's buffer (or its own reserved    *)
(* m_Data): m_DataPtr, the bytes still available m_Length and the bytes    *)
(* consumed m_Counter.  Every OutputByteStream write and InputByteStream   *)
(* read goes through Advance, whose guard is the only bound check (the     *)
(* asserts vanish in a release build).  One output stream writes a         *)
(* message into the buffer and one input stream, built afterwards over the *)
(* same buffer, parses it back.  (i2np.cc and impl.cc use only the static  *)
(* Write and Read, which have no cursor and are modelled in I2NPCodec.)    *)
(* m_DataPtr is an offset into the buffer; m_Length and m_Counter          *)
(* are size_t, kept modulo SizeMax.  A thrown exception leaves the object  *)
(* as it was and is recorded in err.                                       *)
(***************************************************************************)
EXTENDS Integers, Sequences, SequencesExt

CONSTANTS
  Cap,      \* bytes of the underlying buffer
  Bytes,    \* byte values a caller writes (0 excluded: memset's value)
  MaxLen,   \* largest len argument tried (above Cap, so Advance throws)
  SizeMax,  \* 2^w for the width w of std::size_t
  Null      \* nullptr

ASSUME Cap \in Nat \ {0} /\ MaxLen > Cap /\ SizeMax > MaxLen /\ 0 \notin Bytes

Octet == Bytes \cup {0}
Lens == 0..MaxLen
\* A pointer argument: a buffer, or nullptr.
Ptrs == {"buf", Null}
Errors == {"none", "invalid_argument", "length_error"}
Cursor == [ptr : Nat, length : 0..(SizeMax - 1), counter : 0..(SizeMax - 1),
           size : 0..Cap]

VARIABLES
  buf,      \* contents of the underlying buffer
  phase,    \* "idle", "output" (writer live), "input" (reader live)
  out,      \* the OutputByteStream cursor
  in,       \* the InputByteStream cursor
  err,      \* the exception the last call threw, or "none"
  written,  \* the bytes the writer's successful calls asked for, in order
  reads     \* every ReadBytes result with the reader's offset before it

vars == <<buf, phase, out, in, err, written, reads>>

NoCursor == [ptr |-> 0, length |-> 0, counter |-> 0, size |-> 0]

\* buf with the bytes s stored from offset p; a byte outside the buffer is
\* lost (it would land in someone else's memory).
Store(b, p, s) ==
  [i \in DOMAIN b |-> IF p <= i /\ i < p + Len(s) THEN s[i - p + 1] ELSE b[i]]

\* The len bytes at offset p; a byte outside the buffer reads as -1.
Load(b, p, len) ==
  [k \in 1..len |-> IF p + k - 1 \in DOMAIN b THEN b[p + k - 1] ELSE -1]

\* The constructors ByteStream(data, len) and ByteStream(len): a null data
\* pointer throws invalid_argument, a zero length length_error.
CtorError(p, len) ==
  IF p = Null THEN "invalid_argument"
  ELSE IF len = 0 THEN "length_error" ELSE "none"

NewCursor(len) == [ptr |-> 0, length |-> len, counter |-> 0, size |-> len]

\* Mutant: the guard one byte too generous (len > m_Length + 1).
AdvanceOkOffByOne(s, len) == len # 0 /\ len <= s.length + 1

\* Advance's guard: !len || len > m_Length throws length_error.
AdvanceOk(s, len) == len # 0 /\ len <= s.length

\* Advance's three assignments.
Advanced(s, len) ==
  [s EXCEPT !.ptr = @ + len,
            !.counter = (@ + len) % SizeMax,
            !.length = (@ - len) % SizeMax]

-----------------------------------------------------------------------------
Init ==
  /\ buf \in [0..(Cap - 1) -> Octet]   \* whatever the buffer held before
  /\ phase = "idle"
  /\ out = NoCursor
  /\ in = NoCursor
  /\ err = "none"
  /\ written = <<>>
  /\ reads = {}

\* OutputByteStream(data, len) or OutputByteStream(len), over the first len
\* bytes of the buffer.
NewOutput(p, len) ==
  /\ phase = "idle"
  /\ err' = CtorError(p, len)
  /\ IF err' = "none"
       THEN phase' = "output" /\ out' = NewCursor(len)
       ELSE UNCHANGED <<phase, out>>
  /\ UNCHANGED <<buf, in, written, reads>>

\* Mutant: the bytes copied to the saved pointer before Advance checks.
WriteDataCopyFirst(d, len, allowNull) ==
  /\ phase = "output"
  /\ err' = IF d = Null /\ ~allowNull THEN "invalid_argument"
            ELSE IF len = 0 \/ ~AdvanceOk(out, len) THEN "length_error"
            ELSE "none"
  /\ LET bytes == IF d = Null THEN [k \in 1..len |-> 0] ELSE d
     IN /\ buf' = IF err' = "invalid_argument" THEN buf
                  ELSE Store(buf, out.ptr, bytes)
        /\ IF err' = "none"
             THEN out' = Advanced(out, len) /\ written' = written \o bytes
             ELSE UNCHANGED <<out, written>>
  /\ UNCHANGED <<phase, in, reads>>

\* WriteData(data, len, allow_null_data): a null data pointer is refused
\* unless allowed, a zero len throws, then the pointer is saved, Advance
\* checks and moves the cursor, and only then the bytes are copied (or
\* zeroed by memset when data is null).  d is the data, or Null.
WriteData(d, len, allowNull) ==
  /\ phase = "output"
  /\ err' = IF d = Null /\ ~allowNull THEN "invalid_argument"
            ELSE IF len = 0 \/ ~AdvanceOk(out, len) THEN "length_error"
            ELSE "none"
  /\ IF err' = "none"
       THEN LET bytes == IF d = Null THEN [k \in 1..len |-> 0] ELSE d
            IN /\ buf' = Store(buf, out.ptr, bytes)
               /\ out' = Advanced(out, len)
               /\ written' = written \o bytes
       ELSE UNCHANGED <<buf, out, written>>
  /\ UNCHANGED <<phase, in, reads>>

\* OutputByteStream::SkipBytes(len) is WriteData(nullptr, len, true).
OutSkipBytes(len) == WriteData(Null, len, TRUE)

\* InputByteStream(data, len) over the first len bytes of the buffer, once
\* the writer is done.
NewInput(p, len) ==
  /\ phase = "output"
  /\ err' = CtorError(p, len)
  /\ IF err' = "none"
       THEN phase' = "input" /\ in' = NewCursor(len)
       ELSE UNCHANGED <<phase, in>>
  /\ UNCHANGED <<buf, out, written, reads>>

\* Mutant: the pointer taken after Advance instead of before it.
ReadBytesAfterAdvance(len) ==
  /\ phase = "input"
  /\ IF AdvanceOk(in, len)
       THEN /\ reads' = reads \cup
                 {[at |-> in.counter,
                   bytes |-> Load(buf, Advanced(in, len).ptr, len)]}
            /\ in' = Advanced(in, len)
            /\ err' = "none"
       ELSE err' = "length_error" /\ UNCHANGED <<in, reads>>
  /\ UNCHANGED <<buf, phase, out, written>>

\* ReadBytes(len): the pointer is saved before Advance and the caller reads
\* len bytes from it.
ReadBytes(len) ==
  /\ phase = "input"
  /\ IF AdvanceOk(in, len)
       THEN /\ reads' = reads \cup
                 {[at |-> in.counter, bytes |-> Load(buf, in.ptr, len)]}
            /\ in' = Advanced(in, len)
            /\ err' = "none"
       ELSE err' = "length_error" /\ UNCHANGED <<in, reads>>
  /\ UNCHANGED <<buf, phase, out, written>>

\* InputByteStream::SkipBytes(len) is Advance(len).
InSkipBytes(len) ==
  /\ phase = "input"
  /\ IF AdvanceOk(in, len)
       THEN in' = Advanced(in, len) /\ err' = "none"
       ELSE err' = "length_error" /\ UNCHANGED in
  /\ UNCHANGED <<buf, phase, out, written, reads>>

Next ==
  \/ \E p \in Ptrs, len \in 0..Cap : NewOutput(p, len) \/ NewInput(p, len)
  \/ \E len \in Lens :
       \/ \E d \in {Null} \cup [1..len -> Bytes], a \in BOOLEAN :
            WriteData(d, len, a)
       \/ OutSkipBytes(len)
       \/ ReadBytes(len)
       \/ InSkipBytes(len)

Spec == Init /\ [][Next]_vars

-----------------------------------------------------------------------------
\* Type invariant; a read returns bytes of the buffer only (no -1 from
\* outside it).
TypeOK ==
  /\ buf \in [0..(Cap - 1) -> Octet]
  /\ phase \in {"idle", "output", "input"}
  /\ out \in Cursor /\ in \in Cursor
  /\ err \in Errors
  /\ written \in Seq(Octet)
  /\ \A r \in reads : r.at \in Nat /\ r.bytes \in Seq(Octet)

\* No overrun (Advance): whatever sequence of writes, skips and reads the
\* callers make, a cursor never passes the end of its stream, and the bytes
\* consumed plus the bytes left are the stream's length (m_Counter +
\* m_Length = len, with no size_t wrap-around).
NoOverrun ==
  \A s \in {out, in} :
    /\ s.ptr <= s.size
    /\ s.counter = s.ptr
    /\ s.counter + s.length = s.size

\* Round trip (WriteData, OutputByteStream::SkipBytes, ReadBytes): every
\* byte the reader gets from the part of the buffer the writer filled is the
\* byte the writer put there, the zero of a skip included.
RoundTrip ==
  \A r \in reads :
    \A k \in 1..Len(r.bytes) :
      r.at + k <= Len(written) => r.bytes[k] = written[r.at + k]

\* A call that throws leaves the buffer and both cursors as they were
\* (WriteData checks before it copies, Advance before it assigns).
FailedCallUnchanged ==
  [][err' # "none" => UNCHANGED <<buf, out, in>>]_vars

=============================================================================
