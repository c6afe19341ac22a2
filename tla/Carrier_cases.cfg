SPECIFICATION Spec
CONSTANTS
    MaxInt = 15
    MaxDate = 8
    Absent = Absent
    Invalid = Invalid
    MaxNow = 5
    Cases <- MCCases
INVARIANTS AuthorityIsBounded TimesAreExact TighteningNeverAdmits CoreIsAuthentic ForgedClaimsAreUnread OnlyAdmittedDecide
PROPERTY ValidOnce
