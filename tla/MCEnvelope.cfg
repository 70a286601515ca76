SPECIFICATION Spec
CONSTANTS
  Radix = 4
  DomainTagLen = 1
  VersionLen = 1
  LengthLen = 2
  ChecksumLen = 2
  Version = 1
  ChunkSize = 2
  UsizeMax = 8
  Maxima = {2, 9, 10}
  Versions = {1, 2}
  Domains <- MCDomains
  Payloads <- MCPayloads
  MaxHarm = 2
INVARIANTS
  ReadBack
  DecodersAgree
  AcceptsOnlyEnvelopes
  OneDamageIsNamed
CHECK_DEADLOCK FALSE
