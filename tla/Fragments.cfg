SPECIFICATION FairSpec
CONSTANTS
  q1 = q1
  q2 = q2
  k1 = k1
  k2 = k2
  Conn = {c1,c2,c3}
  Query = {q1,q2}
  Key = {k1,k2}
  KeyOf <- KeyApart
  PiecesOf <- Two
  MaxPieces = 2
  FragmentTimeout = 2
  ResolveTimeout = 1
  WriteDeadline = 2
  Prompt = TRUE
  Ack = Ack
  ServFail = ServFail
  None = None
INVARIANTS
  CompletesOnce
  FullSetServed
  RepliesAgree
  OwnAnswer
  ResultDelivered
PROPERTIES
  HandlersFinish
  RefinesOneShot
