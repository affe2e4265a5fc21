------------------------------- MODULE Venues -------------------------------
(***************************************************************************)
(* The banks of the three integrations and what goes on around them: a     *)
(* bank deposits into one venue for good, and any handler of it, of the    *)
(* accounts or of the admins may come next.                                *)
(***************************************************************************)
EXTENDS Kamino, Solend, Drift

Next == KaminoNext \/ SolendNext \/ DriftNext \/ Around

Spec == Init /\ [][Next]_vars
=============================================================================
