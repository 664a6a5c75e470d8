SPECIFICATION PathSpec
CONSTANTS
  Ip = {0, 1, 2}
  Port = {0, 53, 80}
  Protocol = {6, 17}
  InclLen <- CapturedLengths
  BufferSize = 120
  Ihl = {0, 4, 5, 6, 15}
  TotalLen <- TotalLengths
  DataOffset = {4, 5, 6, 15}
  SlotSize = 60
  Octet = {0, 1, 12, 100, 192}
  DnsPayload <- ShortPayloads
  MaxJumps = 2
  MaxQuestions = 12
  TlsOctet = {0, 1, 5, 22, 255}
  SniPayload <- LongPayloads
  BlankHeader <- ZeroHeader
INVARIANTS
  TupleIdentifiesConnection
  ReadsCaptured
  PayloadIsData
  DnsReadsInside
  QuestionsAsEncoded
  SniReadsInside
PROPERTIES
  DnsEnds
  SniAdvances
CHECK_DEADLOCK FALSE
