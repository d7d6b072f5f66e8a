---------------------------- MODULE AtomicUpdates ----------------------------
(***************************************************************************)
(* What a PATCH promises: at one instant between the request and the       *)
(* answer, the columns it asks for, and no others, get the values it asks  *)
(* for; or nothing happens.  A row that is gone stays gone.                *)
(***************************************************************************)
EXTENDS Tables

CONSTANTS
    RowId,      \* primary keys
    Ask,        \* what can be asked: [row, writes], writes a partial row
    Request,
    NoAsk       \* nothing is asked

VARIABLES
    cells,      \* the rows, as a table
    asked       \* each request -> what it still has to do

vars == <<cells, asked>>

\* A row after a write of some of its columns.
Overwritten(row, writes) ==
    [c \in DOMAIN row |-> IF c \in DOMAIN writes THEN writes[c] ELSE row[c]]

Init == DOMAIN cells \subseteq RowId /\ asked = [r \in Request |-> NoAsk]

Begin(r) ==
    /\ asked[r] = NoAsk /\ asked'[r] \in Ask
    /\ asked' = [asked EXCEPT ![r] = asked'[r]]
    /\ UNCHANGED cells

Write(r) ==
    /\ asked[r] # NoAsk
    /\ cells' = [x \in DOMAIN cells |->
         IF x = asked[r].row THEN Overwritten(cells[x], asked[r].writes) ELSE cells[x]]
    /\ asked' = [asked EXCEPT ![r] = NoAsk]

\* Refused, or lost with the process.
GiveUp(R) ==
    /\ asked' = [r \in Request |-> IF r \in R THEN NoAsk ELSE asked[r]]
    /\ UNCHANGED cells

Remove(x) == cells' = Without(cells, {x}) /\ UNCHANGED asked

Next ==
    \/ \E r \in Request : Begin(r) \/ Write(r)
    \/ \E R \in SUBSET Request : GiveUp(R)
    \/ \E x \in RowId : Remove(x)

Spec == Init /\ [][Next]_vars
=============================================================================
