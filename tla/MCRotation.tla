---------------------------- MODULE MCRotation ----------------------------
(* One slot: two chatty sessions A and B keep submitting while K places    *)
(* its only run; B's second may be cancelled, out of its turn or out of    *)
(* the middle of the list of three.  No deadline passes, every answer is   *)
(* ok, and a session's runs, which differ in nothing but their number,     *)
(* come in order.                                                          *)
EXTENDS CoordinatorRotation

mcRun         == {"A", "B"} \X (1..4) \cup {<<"K", 1>>}
mcSession     == {"A", "B", "K"}
mcSessionOf   == [r \in mcRun |-> r[1]]
mcKeyOf       == [r \in mcRun |-> r]
mcCancellable == {<<"B", 2>>}

Came(r) == co.phase[r] # "created"
InOrder == \A q, r \in mcRun : q[1] = r[1] /\ q[2] < r[2] /\ Came(r) => Came(q)

mcNext ==
  /\ \E r \in mcRun : Submit(r) \/ ProviderAnswers(r, "ok") \/ Settle(r) \/ Cancel(r)
  /\ Counts /\ InOrder'

mcSpec == RInit /\ [][mcNext]_rvars
=============================================================================
