---------------------------- MODULE MCCoordinator ----------------------------
(* Two sessions competing for one slot.  a1 and a3 carry the same request  *)
(* identity; the runs of session A span one turn, b1 is a turn of its own. *)
(* The callers are restricted, the coordinator's own steps are not: a2     *)
(* comes after a1 and a3 last, the provider is in trouble only with a2 and *)
(* b1, only a2's caller may cancel, not after it was answered, and only    *)
(* b1's calls apply().                                                     *)
EXTENDS Coordinator

mcRun         == {"a1", "a2", "a3", "b1"}
mcSession     == {"A", "B"}
mcTurn        == {"A.0", "B.0"}
mcKey         == {"A|1", "A|2", "B|1"}
mcSessionOf   == [r \in mcRun |-> IF r = "b1" THEN "B" ELSE "A"]
mcTurnOf      == [r \in mcRun |-> IF r = "b1" THEN "B.0" ELSE "A.0"]
mcKeyOf       == [a1 |-> "A|1", a2 |-> "A|2", a3 |-> "A|1", b1 |-> "B|1"]
mcCancellable == {"a2"}

Came(r) == co.phase[r] # "created" \/ co.outcome[r] # "none"
InOrder == /\ Came("a2") => Came("a1")
           /\ Came("a3") => Came("a2") /\ Came("b1")

AnswersTo(r) == IF r \in {"a2", "b1"} THEN Answers ELSE {"ok"}

mcNext ==
  /\ \/ \E r \in mcRun : \/ Submit(r) \/ DeadlineFires(r) \/ Settle(r)
                         \/ \E how \in AnswersTo(r) : ProviderAnswers(r, how)
     \/ co.outcome["a2"] = "none" /\ Cancel("a2")
     \/ \E fresh \in BOOLEAN : Apply("b1", fresh)
     \/ Tick \/ Close
  /\ InOrder'

\* The event loop is as fair as in FairSpec.
mcSpec == Init /\ [][mcNext]_vars /\ WF_vars(EventLoop)
=============================================================================
