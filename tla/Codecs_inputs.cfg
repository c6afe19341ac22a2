SPECIFICATION Spec
CONSTANTS
  Unit = 1
  Digits <- MCDigits
  Micro = 2
  Milli = 4
  Second = 8
  Minute = 2
  Hour = 14
  MaxU64 = 14
  MaxI64 = 6
  MaxNameBytes = 4
  MaxCertificate = 46
  MaxToken = 2
  MaxPrincipals = 2
  MaxExtensions = 2
  MaxField = 2
  Forever = 40
  MaxHeader = 3
  MaxSignatureBytes = 2
  MaxEvidence = 20
  Rounds = 2
  CellBase = 8
  Modulus <- MCModulus
  Exponent = 3
  PrivateExponent = 3
  Candidates = 6
  MaxRetry = 3
  MaxGrowth <- MCMaxGrowth
  MaxOutput = 4
  MaxFaults = 2
INVARIANTS
  TextsAreExact
  DurationsAreExact
  CertificatesAreExact
  EvidenceIsExact
CHECK_DEADLOCK FALSE
