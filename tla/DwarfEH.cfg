SPECIFICATION Spec
CONSTANTS
    DigitBits = 3
    IntBits = 14
    WordBits = 28
    Tables <- SmallTables
    SiteEncodings <- SmallSiteEncodings
    TypeEncodings <- SmallTypeEncodings
    MaxIP = 30
INVARIANTS
    FindsTheCallSite
    FindsTheChain
    OctetsReadBack
\* the lookup ends
CHECK_DEADLOCK FALSE
