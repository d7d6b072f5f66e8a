SPECIFICATION Spec
CONSTANTS
    RegistryId = {r1, r2, r3}
    UserId = {u1, u2, u3}
    CondoId = {c1, c2}
    MemberId = {m1, m2, m3}
    Email = {e1, e2, e3}
    Cpf = {p1, p2}
    Cnpj = {n1, n2}
    NoCpf = NoCpf
    NoUser = NoUser
    MaxBatch = 2
SYMMETRY KeySymmetry
INVARIANT InvitedPersonCanRegister
