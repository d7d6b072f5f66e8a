--------------------------- MODULE MCLoginSessions ---------------------------
(* Uuids for checking LoginSessions with TLC.                              *)
EXTENDS LoginSessions, Naturals, FiniteSets

\* New uuids are interchangeable: it is enough to hand them out in order.
UuidsInOrder ==
    \A u \in DOMAIN address' \ DOMAIN address : u = Cardinality(DOMAIN address) + 1
=============================================================================
