CONSTANTS
  Me = Me
  Other = Other
  MaxTransit <- MCMaxTransit
  NumRecords <- MCNumRecords
  MaxLen <- MCMaxLen
  MaxCount <- MCMaxCount
  ReplyIds <- MCReplyIds
SPECIFICATION Spec
INVARIANT TypeOK
INVARIANT ForwardedBatchWellFormed
