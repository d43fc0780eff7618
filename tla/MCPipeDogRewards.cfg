\* Two holders with up to three units (a fourth is refused) and four PIPEDOG wei; a precision of 4
\* makes both divisions (by the precision and by the unit total) inexact.
SPECIFICATION Spec
CONSTANTS
    Accounts = {a1, a2}
    ACC_PRECISION = 4
    MaxUint64 = 3
    MaxUnits = 4
    MaxMinted = 4
SYMMETRY Symmetric
INVARIANTS
    TypeOK
    Solvent
    BooksBalance
PROPERTIES
    EarningsKept
    OnlyDustIsLost
