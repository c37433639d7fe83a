\* ByteStream: a writer fills a buffer, a reader parses it back.
CONSTANTS
  Cap <- MCCap
  Bytes <- MCBytes
  MaxLen <- MCMaxLen
  SizeMax <- MCSizeMax
  Null = Null
SPECIFICATION Spec
INVARIANT NoOverrun
INVARIANT RoundTrip
PROPERTY FailedCallUnchanged
