----------------------- MODULE MCCondominiumRegistry -----------------------
(* Model values and symmetry for checking CondominiumReads with TLC.        *)
EXTENDS CondominiumReads, TLC

\* The keys are interchangeable, and so are the e-mails and numbers.
KeySymmetry ==
    Permutations(RegistryId) \cup Permutations(UserId) \cup
    Permutations(CondoId) \cup Permutations(MemberId) \cup
    Permutations(Email) \cup Permutations(Cpf) \cup Permutations(Cnpj)
=============================================================================
