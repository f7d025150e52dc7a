SPECIFICATION Spec
CONSTANTS
    b1 = b1
    b2 = b2
    NoPib = NoPib
    Pib = {b1, b2}
    MinDepth = 2
    MaxDepth = 5
SYMMETRY PibSymmetry
INVARIANT TypeOK
INVARIANT ReleaseHasRoom
INVARIANT OwnResponse
PROPERTY ImplementsExchange
