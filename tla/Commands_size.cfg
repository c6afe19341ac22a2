SPECIFICATION Spec
CONSTANTS
  Digits <- MCDigits
  Micro = 1
  Milli = 1
  Second = 2
  Minute = 2
  Hour = 4
  MaxU64 = 63
  MaxI64 = 31
  MaxPolicies = 3
  MaxRules = 3
  MaxSize <- MCMaxSize
  MaxBytes = 8
  Compact <- MCCompact
  Indented <- MCIndented
  MaxDeadline = 4
  MaxSkew = 6
  MinFreshness = 4
  MaxFreshness = 16
  PolicyIds = {"p1", "p2", "p3", "p4"}
  HttpsUris = {"https://a", "https://b", "https://c"}
  PlainNames = {"me", "you", "sub", "email"}
  AbsolutePaths = {"/cache", "/k", "/bad", "/l"}
  Facilities = {"authpriv", "local0"}
  Spelling <- MCSpelling
  DefaultOptions <- MCDefaults
  Scenarios <- LongScenarios
INVARIANT InitializerOutputIsAccepted
CHECK_DEADLOCK FALSE
