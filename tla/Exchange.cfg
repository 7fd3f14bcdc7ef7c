SPECIFICATION Spec
CONSTANTS
  None = None
  VarIntBytes = 4
  MaxString = 64
  TLDs <- MCTLDs
  Suffix <- MCSuffix
  Passphrase <- MCPassphrase
  MaxAddress = 44
  MaxFragmentPieces = 3
  MaxLabelLength = 10
  MinPieceLength = 8
  Name <- MCName
  MaxQuestions = 1
  MaxRecords = 4
  Queries <- MCQueries
  Visits <- MCVisits
  Noise <- MCNoise
  Nonce <- MCNonce
  Owner <- MCOwner
  MaxFrameSize = 80
  ReplyLimit = 200
  DNSLength = 130
  VanillaLength = 123
  Stamp <- MCStamp
INVARIANTS
  FramesInSync
  NeverWaitsForMore
  QueryUnderstood
  AddressesFit
  NamesRestored
