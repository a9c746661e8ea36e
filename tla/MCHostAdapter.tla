---------------------------- MODULE MCHostAdapter ----------------------------
(* Two attempts on one path, of one scope, under the configurations that      *)
(* differ in what the layer may do.                                           *)
EXTENDS HostAdapter

mcCall     == {"c1", "c2"}
mcScopeOf  == [c \in mcCall |-> "session"]
mcPathOf   == [c \in mcCall |-> "deploy"]
mcRootOf   == [c1 |-> "r1", c2 |-> "r2"]
mcHostSays == [c \in mcCall |-> Decision]

mcEnforce ==
  [mode |-> "enforce", toolAssessment |-> TRUE, failClosed |-> TRUE, service |-> TRUE,
   approvalRequests |-> TRUE]
mcConfig ==
  {mcEnforce,
   [mcEnforce EXCEPT !.mode = "shadow"],
   [mcEnforce EXCEPT !.approvalRequests = FALSE],
   [mcEnforce EXCEPT !.failClosed = FALSE, !.service = FALSE, !.approvalRequests = FALSE],
   [mcEnforce EXCEPT !.toolAssessment = FALSE]}

mcTop     == 10
mcReport  == {[raw |-> 1, fitted |-> 1], [raw |-> 10, fitted |-> 10]}
mcDefault == [conflictAsk |-> 5, conflictDeny |-> 9, goal |-> 2, evidence |-> 5]
mcFitted  == [conflictAsk |-> 3, conflictDeny |-> 6, goal |-> 2, evidence |-> 8]

No  == [kind |-> "boolean", raw |-> 1, fitted |-> 1]
Yes == [kind |-> "boolean", raw |-> 10, fitted |-> 10]

\* An answer that adds nothing and one that denies; no answer is a reason to ask.
mcReply ==
  {[q \in Layer!Question |-> Yes],
   [q \in Layer!Question |-> IF q = "conflicts-with-constraint" THEN No ELSE Yes]}
==============================================================================
