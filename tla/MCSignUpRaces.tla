---------------------------- MODULE MCSignUpRaces ----------------------------
(* Symmetry for checking SignUpRaces with TLC.                             *)
EXTENDS SignUpRaces, TLC

RaceSymmetry ==
    Permutations(SignUps) \cup Permutations(Removals) \cup
    Permutations(Uploads) \cup Permutations(Memberships)
=============================================================================
