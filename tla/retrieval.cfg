SPECIFICATION Spec
CONSTANTS
    u1 = u1
    u2 = u2
    u3 = u3
    s1 = s1
    s2 = s2
    a1 = a1
    a2 = a2
    a3 = a3
    b1 = b1
    b2 = b2
    b3 = b3
    A = A
    B = B
    near = near
    far = far
    Upserts = {u1, u2, u3}
    Searches = {s1, s2}
    Documents = {a1, a2, a3, b1, b2, b3}
    Batch <- MCBatch
    IdOf <- MCIdOf
    TextOf <- MCTextOf
    Matching <- MCMatching
    Score <- MCScore
    K <- MCK
INVARIANTS
    TypeOK
    VectorsMatchDocuments
    UpsertIsVisible
    SearchMissesNothing
CHECK_DEADLOCK FALSE
