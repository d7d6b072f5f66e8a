--------------------------- MODULE MCPartialUpdates ---------------------------
(* Tables for checking PartialUpdates with TLC.                            *)
EXTENDS PartialUpdates, TLC

\* A falsy value where there can be one, and two others where a lost update
\* would not show with one.
MCStorable ==
    [c \in {"name", "CEP"} |-> {1, 2}] @@
    [c \in {"phoneNumber", "num", "apartmentNumber", "block"} |-> {0, 1}]

\* No request reads or writes rows of two tables, so one table at a time is
\* enough.
MCInit == \E X \in {User, Condo, Member} : StartWith(X)

MCSpec == MCInit /\ [][Next]_vars

Symmetry == Permutations(Request)
=============================================================================
