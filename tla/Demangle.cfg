SPECIFICATION Spec
CONSTANTS
    Names <- MCNames
    NamePrefix <- MCNamePrefix
    Declarations <- MCDeclarations
    MoreDeclarations <- MCMoreDeclarations
    CallerBuffers = {0, 4}
    MaxCalls = 2
INVARIANTS
    SubstitutionsAgree
    RoundTrip
    BufferHoldsText
\* the caller stops calling
CHECK_DEADLOCK FALSE
