------------------------------- MODULE Tables -------------------------------
(***************************************************************************)
(* Database tables as functions from the primary keys in use to rows.      *)
(* (With is the @@ of module TLC, spelt out because the provers have no    *)
(* definition of that operator.)                                           *)
(***************************************************************************)
EXTENDS Functions

EmptyTable == [k \in {} |-> k]

\* t is a table with keys from Keys and rows from Rows.
IsTable(t, Keys, Rows) == DOMAIN t \subseteq Keys /\ t \in [DOMAIN t -> Rows]

\* Insertion of rows whose keys are new; a key in use keeps its row.
With(t, rows) ==
    [k \in DOMAIN t \cup DOMAIN rows |-> IF k \in DOMAIN t THEN t[k] ELSE rows[k]]

Row(k, row) == [x \in {k} |-> row]

\* Deletion of the rows with these keys.
Without(t, keys) == Restrict(t, DOMAIN t \ keys)
=============================================================================
