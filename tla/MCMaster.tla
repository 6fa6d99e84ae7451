------------------------------ MODULE MCMaster ------------------------------
(***************************************************************************)
(* The bounds of the runs of Master.                                       *)
(***************************************************************************)
EXTENDS Master

\* Node 1 may be removed and come back on a second stream, the others not.
Streams    == [n \in Node |-> IF n = 1 THEN 2 ELSE 1]
Handshakes == [n \in Node |-> IF n = 1 THEN 3 ELSE 1]
=============================================================================
