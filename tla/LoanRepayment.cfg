SPECIFICATION Spec
CONSTANTS
    RoundingStep = 3
    Principals <- MCPrincipals
    Terms <- MCTerms
    StartPeriod = 1
INVARIANTS
    TypeOK
    RecoversPrincipal
    EarlySettlementQuotation
    NeverLongerThanAgreed
PROPERTY RebuildIsIdempotent
CHECK_DEADLOCK FALSE
