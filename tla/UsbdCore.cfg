SPECIFICATION FairSpec
CONSTANTS
  MaxPacket = 3
  DescLen <- Descriptors
  Requests <- AllRequests
  Prompt = TRUE
INVARIANTS TypeOK ClassWhenConfigured NoNullUse OwnCompletion ReadExact HostAgrees AnsweredOrNamed BulkKept
PROPERTIES Ends
