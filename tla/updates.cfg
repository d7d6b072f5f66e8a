SPECIFICATION MCSpec
CONSTANTS
    User = {u1}
    Condo = {c1, c2}
    Member = {m1}
    Storable <- MCStorable
    Falsy = 0
    Request = {q1, q2}
SYMMETRY Symmetry
INVARIANTS
    TokensShowTheAccount
PROPERTIES
    UpdatesAreAtomic
