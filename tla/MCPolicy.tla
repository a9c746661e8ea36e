------------------------------- MODULE MCPolicy -------------------------------
(* A score below all thresholds, one between them and one above, with and    *)
(* without a fitted value, and a raw value that is no probability.           *)
EXTENDS Policy

mcTop     == 10
mcReport  == {[raw |-> 1, fitted |-> 1], [raw |-> 6, fitted |-> 6], [raw |-> 10, fitted |-> 10],
              [raw |-> 10, fitted |-> Absent], [raw |-> 1, fitted |-> Absent],
              [raw |-> Invalid, fitted |-> 10]}
mcDefault == [conflictAsk |-> 5, conflictDeny |-> 9, goal |-> 2, evidence |-> 5]
mcFitted  == [conflictAsk |-> 3, conflictDeny |-> 6, goal |-> 2, evidence |-> 8]
=============================================================================
