-------------------------- MODULE HostAdapterProofs --------------------------
(***************************************************************************)
(* Proofs about HostAdapter, for any number of calls, scopes, paths and    *)
(* configurations, any answers and tables of any size: no call runs        *)
(* unrecorded where rows are required, or without the host, or on an       *)
(* answer about an old snapshot, or beyond the limit of its path; and the  *)
(* rows about what was executed tell the truth.                            *)
(***************************************************************************)
EXTENDS HostAdapter, FiniteSetTheorems, SequenceTheorems, TLAPS

-----------------------------------------------------------------------------
(* What is known of a call at its stage.                                   *)

LiveState ==
  [stage : Stages \ {"done"}, host : Decision, verdict : Decision, ref : Ref,
   row : {None, "written", "lost"}, by : {None, "host", "verdict", "approval", "guard"},
   execution : {None}]

\* The guard stops every call.
Blocked == auditBlocked /\ Active

\* What a verdict may make of the host's decision.
Withholds(host, verdict) ==
  /\ verdict = "allow" => host = "allow"
  /\ verdict = "ask"   => host \in {"allow", "ask"}

\* Only what is assessed is probed for and submitted.
Assessed(c) == call[c].stage \in {"probing", "submitted"} => Active

\* A verdict that was made without the host's decision is stopped by the guard.
Backed(c) ==
  /\ call[c].stage = "returned" => Withholds(call[c].host, call[c].verdict) \/ Blocked
  /\ call[c].stage = "returned" /\ call[c].verdict = "allow" => call[c].host = "allow"
  /\ call[c].stage \in {"asking", "approved"} => call[c].host \in {"allow", "ask"} \/ Blocked

\* A call that lost a required row is refused by its verdict, or stopped by the guard.
Recorded(c) ==
  call[c].row = "lost" /\ config.failClosed =>
    /\ call[c].stage = "returned" => call[c].verdict \in {"deny", "cancel"} \/ Blocked
    /\ call[c].stage \in {"asking", "approved"} => Blocked

CallInv(c) ==
  /\ call[c].stage = "done" \/ call[c] \in LiveState
  /\ Assessed(c) /\ Backed(c) /\ Recorded(c)

Function == call = [c \in Call |-> call[c]]

Shape ==
  /\ sequence \in [Scope -> Nat]
  /\ catalog \in [Scope -> Digest \cup {Unseen}] /\ catalogGlobal \in Digest

Calls == Function /\ Shape /\ \A c \in Call : CallInv(c)

\* What a step on one call leaves alone, and what no step takes back.
OthersStay(c) ==
  /\ call' = [d \in Call |-> call'[d]]
  /\ \A d \in Call \ {c} : call'[d] = call[d]

StillBlocked == auditBlocked => auditBlocked'

-----------------------------------------------------------------------------
(* The tables of Policy.                                                   *)

LEMMA Decisions == Decision = {"allow", "ask", "deny", "cancel"}
BY DEF Decision, Layer!Decision, Layer!Rank

LEMMA ActionRange ==
  ASSUME NEW facts
  PROVE  /\ Layer!Action(facts) \in {"abstain", "ask", "deny", "cancel"}
         /\ ActionOf(facts) \in {"abstain", "ask", "deny", "cancel"}
         /\ config.mode # "enforce" => ActionOf(facts) = "abstain"
BY DEF Layer!Action, Layer!Escalate, ActionOf

LEMMA CombineWithholds ==
  ASSUME NEW host \in Decision, NEW action \in {"abstain", "ask", "deny", "cancel"}
  PROVE  /\ Layer!Combine(host, action) \in Decision
         /\ Withholds(host, Layer!Combine(host, action))
         /\ Layer!Combine(host, "abstain") = host
BY Decisions DEF Layer!Combine, Withholds

LEMMA FactsRead ==
  ASSUME NEW host, NEW reply, NEW fresh
  PROVE  /\ Facts(host, reply, fresh).mode = config.mode
         /\ Facts(host, reply, fresh).host = host
         /\ Facts(host, reply, fresh).answers = reply
         /\ ~Facts(host, reply, fresh).cancelled
         /\ ~Facts(host, reply, fresh).hardRule
<1> DEFINE no == FALSE
           yes == TRUE
           facts == [mode |-> config.mode, host |-> host, answers |-> reply, fresh |-> fresh,
                     channel |-> Channel, fittedFor |-> yes, hardRule |-> no, cancelled |-> no]
<1>1. Facts(host, reply, fresh) = facts
  BY Zenon DEF Facts
<1>2. /\ facts.mode = config.mode /\ facts.host = host /\ facts.answers = reply
      /\ facts.cancelled = no /\ facts.hardRule = no
  <2> HIDE DEF no, yes
  <2> QED
    OBVIOUS
<1>3. ~facts.cancelled /\ ~facts.hardRule
  BY <1>2, Zenon
<1> HIDE DEF facts
<1>4. QED
  BY <1>1, <1>2, <1>3

\* A check that was not made: shadow mode leaves the host's decision as it is, and
\* enforcing, nothing passes.
LEMMA UnansweredVerdict ==
  ASSUME NEW host \in Decision
  PROVE  LET verdict == Layer!Evaluate(Facts(host, Unanswered, TRUE)) IN
         /\ verdict \in Decision /\ Withholds(host, verdict)
         /\ config.mode # "enforce" => verdict = host
         /\ config.mode = "enforce" => verdict # "allow"
<1> DEFINE yes   == TRUE
           facts == Facts(host, Unanswered, yes)
<1> HIDE DEF yes
<1>1. /\ facts.mode = config.mode /\ facts.host = host /\ facts.answers = Unanswered
      /\ ~facts.cancelled /\ ~facts.hardRule
  BY FactsRead
<1> HIDE DEF facts
<1>2. Layer!Evaluate(facts) =
        IF config.mode = "enforce" THEN Layer!Combine(host, Layer!Action(facts)) ELSE host
  BY <1>1 DEF Layer!Evaluate
<1>3. Layer!Action(facts) # "abstain" /\ Layer!Action(facts) \in {"abstain", "ask", "deny", "cancel"}
  <2>1. "advances-goal" \in Layer!Unusable(facts)
    BY <1>1 DEF Layer!Unusable, Layer!Question, Unanswered
  <2>2. QED
    BY <1>1, <2>1 DEF Layer!Action, Layer!Escalate
<1>4. /\ Layer!Evaluate(facts) \in Decision /\ Withholds(host, Layer!Evaluate(facts))
  BY <1>2, <1>3, CombineWithholds DEF Withholds
<1>5. config.mode = "enforce" => Layer!Evaluate(facts) # "allow"
  BY <1>2, <1>3, Decisions DEF Layer!Combine
<1>6. QED
  BY <1>2, <1>4, <1>5, Zenon DEF facts, yes

LEMMA StaleIsWithheld ==
  ASSUME NEW host \in Decision
  PROVE  /\ StaleVerdict(host) \in Decision
         /\ Withholds(host, StaleVerdict(host))
         /\ config.mode = "shadow" => StaleVerdict(host) = host
         /\ config.mode = "enforce" => StaleVerdict(host) # "allow"
BY Decisions DEF StaleVerdict, Withholds

-----------------------------------------------------------------------------
(* Steps on one call.                                                      *)

LEMMA Changed ==
  ASSUME Function, NEW c \in Call, NEW k, call' = [call EXCEPT ![c] = k]
  PROVE  call'[c] = k /\ OthersStay(c)
BY DEF Function, OthersStay

LEMMA AtRead ==
  ASSUME NEW stage \in Stages \ {"done"}
  PROVE  /\ At(stage) \in LiveState
         /\ At(stage).stage = stage /\ At(stage).row = None
BY HostAdapterAssumption, Decisions DEF At, LiveState, Ref, NoRef, Stages

LEMMA Returned ==
  ASSUME Function, NEW c \in Call, NEW host \in Decision, NEW verdict \in Decision,
         NEW row \in {None, "written", "lost"}, Return(c, host, verdict, row)
  PROVE  /\ OthersStay(c) /\ call'[c] \in LiveState
         /\ call'[c].stage = "returned"
         /\ call'[c].host = host /\ call'[c].verdict = verdict /\ call'[c].row = row
<1> DEFINE k == [At("returned") EXCEPT !.host = host, !.verdict = verdict, !.row = row]
<1>1. At("returned") \in LiveState /\ At("returned").stage = "returned"
  BY AtRead DEF Stages
<1>2. k \in LiveState /\ k.stage = "returned" /\ k.host = host /\ k.verdict = verdict /\ k.row = row
  BY <1>1 DEF LiveState
<1>3. call'[c] = k /\ OthersStay(c)
  <2> HIDE DEF k
  <2> QED
    <3>1. call' = [call EXCEPT ![c] = k]
      BY DEF Return, k
    <3>2. QED
      BY <3>1, Changed
<1>4. QED
  BY <1>2, <1>3

LEMMA Refusal ==
  ASSUME Function, NEW c \in Call, NEW by \in {"host", "verdict", "approval", "guard"},
         Refused(c, by)
  PROVE  OthersStay(c) /\ call'[c] \in LiveState /\ call'[c].stage = "refused"
<1> DEFINE k == [At("refused") EXCEPT !.by = by]
<1>1. At("refused") \in LiveState /\ At("refused").stage = "refused"
  BY AtRead DEF Stages
<1>2. k \in LiveState /\ k.stage = "refused"
  BY <1>1 DEF LiveState
<1>3. call' = [call EXCEPT ![c] = k]
  BY DEF Refused
<1>4. call'[c] = k /\ OthersStay(c)
  BY <1>3, Changed
<1>5. QED
  BY <1>2, <1>4

\* What conclude returns: the verdict, or, where a required row was lost, what is
\* stricter and blocks.
LEMMA Concluded ==
  ASSUME Function, config' = config, Active, NEW c \in Call,
         NEW host \in Decision, NEW verdict \in Decision, NEW action,
         Withholds(host, verdict), Conclude(c, host, verdict, action)
  PROVE  /\ OthersStay(c) /\ CallInv(c)' /\ StillBlocked
         /\ call'[c].stage = "returned" /\ call'[c].host = host
         /\ \/ call'[c].verdict = verdict
            \/ call'[c].row = "lost" /\ config.failClosed /\ call'[c].verdict # "allow"
<1>1. ASSUME NEW row \in {"written", "lost"}, row = "lost" => ~config.failClosed,
             Return(c, host, verdict, row), UNCHANGED auditBlocked
      PROVE  /\ OthersStay(c) /\ CallInv(c)' /\ StillBlocked
             /\ call'[c].stage = "returned" /\ call'[c].host = host
             /\ call'[c].verdict = verdict
  <2>1. /\ OthersStay(c) /\ call'[c] \in LiveState
        /\ call'[c].stage = "returned"
        /\ call'[c].host = host /\ call'[c].verdict = verdict /\ call'[c].row = row
    BY <1>1, Returned
  <2>2. QED
    BY <1>1, <2>1 DEF CallInv, Assessed, Backed, Recorded, Withholds, StillBlocked
<1>2. ASSUME config.failClosed, auditBlocked' = TRUE,
             Return(c, host, IF Channel THEN "ask" ELSE "deny", "lost")
      PROVE  /\ OthersStay(c) /\ CallInv(c)' /\ StillBlocked
             /\ call'[c].stage = "returned" /\ call'[c].host = host
             /\ call'[c].row = "lost" /\ call'[c].verdict # "allow"
  <2> DEFINE stricter == IF Channel THEN "ask" ELSE "deny"
  <2>1. stricter \in Decision /\ stricter # "allow"
    BY Decisions
  <2> HIDE DEF stricter
  <2>2. Return(c, host, stricter, "lost")
    BY <1>2 DEF stricter
  <2>3. /\ OthersStay(c) /\ call'[c] \in LiveState
        /\ call'[c].stage = "returned"
        /\ call'[c].host = host /\ call'[c].verdict = stricter /\ call'[c].row = "lost"
    BY <2>1, <2>2, Returned
  <2>4. Blocked'
    BY <1>2 DEF Blocked, Active
  <2>5. QED
    BY <1>2, <2>1, <2>3, <2>4 DEF CallInv, Assessed, Backed, Recorded, StillBlocked
<1>3. QED
  BY <1>1, <1>2, Zenon DEF Conclude

\* The provider was not asked, or did not answer.
LEMMA ConcludedUnanswered ==
  ASSUME Function, config' = config, Active, NEW c \in Call, NEW host \in Decision,
         ConcludeUnanswered(c, host)
  PROVE  /\ OthersStay(c) /\ CallInv(c)' /\ StillBlocked
         /\ call'[c].stage = "returned" /\ call'[c].host = host
         /\ \/ call'[c].row = "lost" /\ config.failClosed /\ call'[c].verdict # "allow"
            \/ /\ config.mode # "enforce" => call'[c].verdict = host
               /\ config.mode = "enforce" => call'[c].verdict # "allow"
<1> DEFINE facts   == Facts(host, Unanswered, TRUE)
           verdict == Layer!Evaluate(facts)
           action  == ActionOf(facts)
<1>1. /\ verdict \in Decision /\ Withholds(host, verdict)
      /\ config.mode # "enforce" => verdict = host
      /\ config.mode = "enforce" => verdict # "allow"
  BY UnansweredVerdict, Zenon
<1>2. Conclude(c, host, verdict, action)
  BY Zenon DEF ConcludeUnanswered
<1> HIDE DEF verdict, action
<1>3. QED
  BY <1>1, <1>2, Concluded

LEMMA SnapshotTyped ==
  ASSUME Shape, NEW c \in Call
  PROVE  Snapshot(c) \in Ref
BY HostAdapterAssumption DEF Shape, Snapshot, CatalogFor, Ref

\* In shadow mode only recorded facts restrict a call.
Observes(c) ==
  config.mode = "shadow" =>
    \/ call'[c].verdict = call'[c].host
    \/ call'[c].row = "lost" /\ config.failClosed
    \/ call[c].stage = "new" /\ (Paused(c) \/ auditBlocked)

\* What a step on a call does to the rest.
Local(c) ==
  OthersStay(c) /\ CallInv(c)' /\ StillBlocked /\ config' = config /\ Shape'

LEMMA RefusedWhilePaused ==
  ASSUME Function, config' = config, NEW c \in Call, NEW host \in Decision,
         RefusePaused(c, host) \/ RefuseBlocked(c, host)
  PROVE  OthersStay(c) /\ CallInv(c)' /\ StillBlocked /\ call'[c].stage = "returned"
<1> DEFINE stricter == IF host \in {"deny", "cancel"} THEN host ELSE "deny"
<1>1. PICK verdict \in {"deny", "cancel"}, row \in {"written", "lost"} :
        Return(c, host, verdict, row)
  <2>1. stricter \in {"deny", "cancel"}
    OBVIOUS
  <2> HIDE DEF stricter
  <2>2. \/ \E row \in {"written", "lost"} : Return(c, host, stricter, row)
        \/ \E row \in {"written", "lost"} : Return(c, host, "deny", row)
    BY Zenon DEF RefusePaused, RefuseBlocked, stricter
  <2>3. QED
    BY <2>1, <2>2
<1>2. UNCHANGED auditBlocked
  BY DEF RefusePaused, RefuseBlocked
<1>3. /\ OthersStay(c) /\ call'[c] \in LiveState
      /\ call'[c].stage = "returned"
      /\ call'[c].host = host /\ call'[c].verdict = verdict /\ call'[c].row = row
  BY <1>1, Returned, Decisions
<1>4. QED
  BY <1>1, <1>2, <1>3 DEF CallInv, Assessed, Backed, Recorded, Withholds, StillBlocked

LEMMA PreExecuted ==
  ASSUME Calls, NEW c \in Call, PreExecute(c)
  PROVE  /\ Local(c) /\ call'[c].stage \in {"returned", "probing"}
         /\ call'[c].stage = "returned" => Observes(c)
<1>1. /\ Function /\ config' = config /\ Shape /\ Shape' /\ call[c].stage = "new"
  BY DEF Calls, Shape, PreExecute
<1>2. PICK host \in Decision :
        \/ mounted /\ Active /\ Assess(c, host)
        \/ PassBy(c, host)
  BY HostAdapterAssumption DEF PreExecute
<1>3. CASE PassBy(c, host)
  <2>1. /\ OthersStay(c) /\ call'[c] \in LiveState
        /\ call'[c].stage = "returned"
        /\ call'[c].host = host /\ call'[c].verdict = host /\ call'[c].row = None
    BY <1>1, <1>3, Returned DEF PassBy
  <2>2. StillBlocked /\ None # "lost"
    BY <1>3 DEF PassBy, StillBlocked, None
  <2>3. QED
    BY <1>1, <2>1, <2>2, Decisions
    DEF Local, CallInv, Assessed, Backed, Recorded, Withholds, Observes
<1>4. CASE Active /\ ConcludeUnanswered(c, host)
  <2>1. /\ OthersStay(c) /\ CallInv(c)' /\ StillBlocked
        /\ call'[c].stage = "returned" /\ call'[c].host = host
        /\ \/ call'[c].row = "lost" /\ config.failClosed /\ call'[c].verdict # "allow"
           \/ config.mode # "enforce" => call'[c].verdict = host
    BY <1>1, <1>4, ConcludedUnanswered
  <2>2. QED
    BY <1>1, <2>1 DEF Local, Observes
<1>5. CASE (Paused(c) \/ auditBlocked) /\ (RefusePaused(c, host) \/ RefuseBlocked(c, host))
  BY <1>1, <1>5, RefusedWhilePaused DEF Local, Observes
<1>6. CASE /\ Active /\ UNCHANGED auditBlocked
           /\ call' = [call EXCEPT ![c] = [At("probing") EXCEPT !.host = host,
                                                                !.ref = Snapshot(c)]]
  <2> DEFINE k == [At("probing") EXCEPT !.host = host, !.ref = Snapshot(c)]
  <2>1. At("probing") \in LiveState /\ At("probing").stage = "probing" /\ At("probing").row = None
    BY AtRead DEF Stages
  <2>2. k \in LiveState /\ k.stage = "probing" /\ k.row = None
    BY <1>1, <2>1, SnapshotTyped DEF LiveState
  <2>3. call'[c] = k /\ OthersStay(c)
    <3>1. call' = [call EXCEPT ![c] = k]
      BY <1>6
    <3> HIDE DEF k
    <3>2. QED
      BY <1>1, <3>1, Changed
  <2>4. Active'
    BY <1>1, <1>6 DEF Active
  <2> HIDE DEF k
  <2>5. QED
    BY <1>1, <1>6, <2>2, <2>3, <2>4
    DEF Local, CallInv, Assessed, Backed, Recorded, StillBlocked, None
<1>7. ASSUME mounted, Active, Assess(c, host)
      PROVE  \/ ConcludeUnanswered(c, host)
             \/ Paused(c) /\ RefusePaused(c, host)
             \/ auditBlocked /\ RefuseBlocked(c, host)
             \/ /\ call' = [call EXCEPT ![c] = [At("probing") EXCEPT !.host = host,
                                                                     !.ref = Snapshot(c)]]
                /\ UNCHANGED <<dispatched, auditBlocked>>
  BY <1>7, Zenon DEF Assess
<1>8. QED
  BY <1>2, <1>3, <1>4, <1>5, <1>6, <1>7

LEMMA Probed ==
  ASSUME Calls, NEW c \in Call, Probe(c)
  PROVE  /\ Local(c) /\ call'[c].stage \in {"returned", "submitted"}
         /\ call'[c].stage = "returned" => Observes(c)
<1>1. /\ Function /\ config' = config /\ Shape /\ Shape' /\ Active
      /\ call[c].stage = "probing" /\ call[c] \in LiveState /\ call[c].host \in Decision
      /\ CallInv(c)
  BY DEF Calls, Shape, Probe, CallInv, Assessed, LiveState
<1>2. CASE ConcludeUnanswered(c, call[c].host)
  <2> DEFINE host == call[c].host
  <2>1. /\ OthersStay(c) /\ CallInv(c)' /\ StillBlocked
        /\ call'[c].stage = "returned" /\ call'[c].host = host
        /\ \/ call'[c].row = "lost" /\ config.failClosed /\ call'[c].verdict # "allow"
           \/ config.mode # "enforce" => call'[c].verdict = host
    BY <1>1, <1>2, ConcludedUnanswered
  <2>2. QED
    BY <1>1, <2>1 DEF Local, Observes
<1>3. CASE call' = [call EXCEPT ![c].stage = "submitted"] /\ UNCHANGED auditBlocked
  <2> DEFINE k == [call[c] EXCEPT !.stage = "submitted"]
  <2>1. k \in LiveState /\ k.stage = "submitted" /\ k.row = call[c].row
    BY <1>1 DEF LiveState, Stages
  <2>2. call'[c] = k /\ OthersStay(c)
    <3>1. call' = [call EXCEPT ![c] = k]
      BY <1>3
    <3> HIDE DEF k
    <3>2. QED
      BY <1>1, <3>1, Changed
  <2>3. Active'
    BY <1>1 DEF Active
  <2> HIDE DEF k
  <2>4. QED
    BY <1>1, <1>3, <2>1, <2>2, <2>3
    DEF Local, CallInv, Assessed, Backed, Recorded, StillBlocked
<1>4. QED
  BY <1>2, <1>3 DEF Probe

LEMMA Answered ==
  ASSUME Calls, NEW c \in Call, Answer(c)
  PROVE  /\ Local(c) /\ call'[c].stage = "returned" /\ Observes(c)
         /\ config.mode = "enforce" /\ call[c].ref # Snapshot(c) => call'[c].verdict # "allow"
<1>1. /\ Function /\ config' = config /\ Shape' /\ Active
      /\ call[c].stage = "submitted" /\ call[c].host \in Decision
  BY DEF Calls, Shape, Answer, CallInv, Assessed, LiveState
<1> DEFINE host == call[c].host
<1>2. CASE ConcludeUnanswered(c, host)
  <2>1. /\ OthersStay(c) /\ CallInv(c)' /\ StillBlocked
        /\ call'[c].stage = "returned" /\ call'[c].host = host
        /\ \/ call'[c].row = "lost" /\ config.failClosed /\ call'[c].verdict # "allow"
           \/ /\ config.mode # "enforce" => call'[c].verdict = host
              /\ config.mode = "enforce" => call'[c].verdict # "allow"
    BY <1>1, <1>2, ConcludedUnanswered
  <2>2. QED
    BY <1>1, <2>1 DEF Local, Observes
<1>3. ASSUME NEW facts,
             Conclude(c, host,
                      IF Fresh(c) THEN Layer!Combine(host, ActionOf(facts))
                      ELSE StaleVerdict(host),
                      ActionOf(facts))
      PROVE  /\ Local(c) /\ call'[c].stage = "returned" /\ Observes(c)
             /\ config.mode = "enforce" /\ call[c].ref # Snapshot(c) => call'[c].verdict # "allow"
  <2> DEFINE action  == ActionOf(facts)
             verdict == IF Fresh(c) THEN Layer!Combine(host, action) ELSE StaleVerdict(host)
  <2>1. /\ action \in {"abstain", "ask", "deny", "cancel"}
        /\ config.mode = "shadow" => action = "abstain"
    BY ActionRange
  <2>2. /\ verdict \in Decision /\ Withholds(host, verdict)
        /\ config.mode = "shadow" => verdict = host
        /\ config.mode = "enforce" /\ ~Fresh(c) => verdict # "allow"
    <3> HIDE DEF action
    <3> QED
      BY <1>1, <2>1, CombineWithholds, StaleIsWithheld
  <2>3. Conclude(c, host, verdict, action)
    BY <1>3
  <2> HIDE DEF action, verdict
  <2>4. /\ OthersStay(c) /\ CallInv(c)' /\ StillBlocked
        /\ call'[c].stage = "returned" /\ call'[c].host = host
        /\ \/ call'[c].verdict = verdict
           \/ call'[c].row = "lost" /\ config.failClosed /\ call'[c].verdict # "allow"
    BY <1>1, <2>2, <2>3, Concluded
  <2>5. QED
    BY <1>1, <2>2, <2>4 DEF Local, Observes, Fresh
<1>4. \/ ConcludeUnanswered(c, host)
      \/ \E reply \in Reply :
           Conclude(c, host,
                    IF Fresh(c)
                    THEN Layer!Combine(host, ActionOf(Facts(host, reply, Fresh(c))))
                    ELSE StaleVerdict(host),
                    ActionOf(Facts(host, reply, Fresh(c))))
  BY Zenon DEF Answer
<1>5. QED
  BY <1>2, <1>3, <1>4, Zenon

\* A refused call keeps nothing that matters.
LEMMA RefusedIsFine ==
  ASSUME Calls, NEW c \in Call, NEW by \in {"host", "verdict", "approval", "guard"},
         Refused(c, by), UNCHANGED <<config, sequence, catalog, catalogGlobal, auditBlocked>>
  PROVE  Local(c) /\ call'[c].stage = "refused"
BY Refusal DEF Calls, Shape, Local, CallInv, Assessed, Backed, Recorded, StillBlocked

\* The host's own steps between verdict and result.
HostStep(c) ==
  HostRefuses(c) \/ VerdictRefuses(c) \/ Ask(c) \/ Decide(c) \/ Dispatch(c)

LEMMA HostStepped ==
  ASSUME Calls, NEW c \in Call, HostStep(c)
  PROVE  Local(c) /\ call'[c].stage \notin {"returned", "done"}
<1>1. Function /\ CallInv(c)
  BY DEF Calls
<1>2. CASE HostRefuses(c)
  BY <1>2, RefusedIsFine DEF HostRefuses
<1>3. CASE VerdictRefuses(c)
  <2>1. Refused(c, "verdict")
    BY <1>3, Zenon DEF VerdictRefuses
  <2>2. QED
    BY <1>3, <2>1, RefusedIsFine DEF VerdictRefuses
<1>4. CASE Ask(c) /\ Refused(c, "approval")
  BY <1>4, RefusedIsFine DEF Ask
<1>5. CASE Ask(c) /\ call' = [call EXCEPT ![c].stage = "asking", ![c].verdict = "allow"]
  <2> DEFINE k == [call[c] EXCEPT !.stage = "asking", !.verdict = "allow"]
  <2>1. /\ call[c] \in LiveState /\ call[c].stage = "returned" /\ call[c].verdict = "ask"
    BY <1>1, <1>5 DEF CallInv, Ask
  <2>2. /\ k \in LiveState /\ k.stage = "asking" /\ k.host = call[c].host
        /\ k.row = call[c].row
    BY <2>1, Decisions DEF LiveState, Stages
  <2>3. call'[c] = k /\ OthersStay(c)
    <3>1. call' = [call EXCEPT ![c] = k]
      BY <1>1, <1>5 DEF Function
    <3> HIDE DEF k
    <3>2. QED
      BY <1>1, <3>1, Changed
  <2> HIDE DEF k
  <2>4. UNCHANGED <<config, auditBlocked, sequence, catalog, catalogGlobal>>
    BY <1>5 DEF Ask
  <2>5. QED
    BY <1>1, <2>1, <2>2, <2>3, <2>4
    DEF Calls, Shape, Local, CallInv, Assessed, Backed, Recorded, Withholds, Blocked, Active,
        StillBlocked
<1>6. CASE Decide(c) /\ Refused(c, "approval")
  BY <1>6, RefusedIsFine DEF Decide
<1>7. CASE Decide(c) /\ call' = [call EXCEPT ![c].stage = "approved"]
  <2> DEFINE k == [call[c] EXCEPT !.stage = "approved"]
  <2>1. call[c] \in LiveState /\ call[c].stage = "asking"
    BY <1>1, <1>7 DEF CallInv, Decide
  <2>2. /\ k \in LiveState /\ k.stage = "approved" /\ k.host = call[c].host
        /\ k.row = call[c].row
    BY <2>1 DEF LiveState, Stages
  <2>3. call'[c] = k /\ OthersStay(c)
    <3>1. call' = [call EXCEPT ![c] = k]
      BY <1>7
    <3> HIDE DEF k
    <3>2. QED
      BY <1>1, <3>1, Changed
  <2> HIDE DEF k
  <2>4. UNCHANGED <<config, auditBlocked, sequence, catalog, catalogGlobal>>
    BY <1>7 DEF Decide
  <2>5. QED
    BY <1>1, <2>1, <2>2, <2>3, <2>4
    DEF Calls, Shape, Local, CallInv, Assessed, Backed, Recorded, Blocked, Active, StillBlocked
<1>8. CASE Dispatch(c) /\ Refused(c, "guard")
  BY <1>8, RefusedIsFine DEF Dispatch
<1>9. CASE Dispatch(c) /\ call' = [call EXCEPT ![c] = At("running")]
  <2>1. /\ At("running") \in LiveState /\ At("running").stage = "running"
    BY AtRead DEF Stages
  <2>2. call'[c] = At("running") /\ OthersStay(c)
    BY <1>1, <1>9, Changed
  <2>3. UNCHANGED <<config, auditBlocked, sequence, catalog, catalogGlobal>>
    BY <1>9 DEF Dispatch
  <2>4. QED
    BY <2>1, <2>2, <2>3
    DEF Calls, Shape, Local, CallInv, Assessed, Backed, Recorded, StillBlocked
<1>10. /\ Ask(c) => \/ Refused(c, "approval")
                    \/ call' = [call EXCEPT ![c].stage = "asking", ![c].verdict = "allow"]
       /\ Decide(c) => \/ Refused(c, "approval")
                       \/ call' = [call EXCEPT ![c].stage = "approved"]
       /\ Dispatch(c) => \/ Refused(c, "guard")
                         \/ call' = [call EXCEPT ![c] = At("running")]
  BY Zenon DEF Ask, Decide, Dispatch
<1>11. QED
  BY <1>2, <1>3, <1>4, <1>5, <1>6, <1>7, <1>8, <1>9, <1>10 DEF HostStep

LEMMA Settled ==
  ASSUME Calls, NEW c \in Call, Result(c)
  PROVE  Local(c) /\ call'[c].stage = "done"
<1>1. PICK execution : call' = [call EXCEPT ![c] = [At("done") EXCEPT !.execution = execution]]
  <2>1. \/ \E execution : call' = [call EXCEPT ![c] = [At("done") EXCEPT !.execution = execution]]
        \/ call' = [call EXCEPT ![c] = At("done")]
    BY Zenon DEF Result, ExecutionRow
  <2>2. At("done") = [At("done") EXCEPT !.execution = None]
    BY DEF At
  <2>3. QED
    BY <2>1, <2>2, Zenon
<1>2. [At("done") EXCEPT !.execution = execution].stage = "done"
  BY DEF At
<1>3. call'[c].stage = "done" /\ OthersStay(c)
  BY <1>1, <1>2, Changed DEF Calls
<1>4. UNCHANGED <<config, auditBlocked, catalog, catalogGlobal>>
  BY DEF Result
<1>5. Shape'
  <2>1. \/ sequence' = [sequence EXCEPT ![ScopeOf[c]] = @ + 1]
        \/ UNCHANGED sequence
    BY DEF Result
  <2>2. QED
    BY <1>4, <2>1, HostAdapterAssumption DEF Calls, Shape
<1>6. QED
  BY <1>3, <1>4, <1>5 DEF Local, CallInv, Assessed, Backed, Recorded, StillBlocked

-----------------------------------------------------------------------------
(* The invariant about calls.                                              *)

CallStep(c) == PreExecute(c) \/ Probe(c) \/ Answer(c) \/ HostStep(c) \/ Result(c)

\* Steps that no call takes.
Elsewhere ==
  \/ \E s \in Scope : PreStep(s)
  \/ \E digest \in Digest : Assemble(digest)
  \/ Close

LEMMA NextSplit == Next <=> (\E c \in Call : CallStep(c)) \/ Elsewhere
BY Zenon DEF Next, CallStep, HostStep, Elsewhere

LEMMA CallStepLocal ==
  ASSUME Calls, NEW c \in Call, CallStep(c)
  PROVE  Local(c)
BY PreExecuted, Probed, Answered, HostStepped, Settled DEF CallStep

LEMMA LocalKeeps ==
  ASSUME Calls, NEW c \in Call, Local(c)
  PROVE  Calls'
<1>1. ASSUME NEW d \in Call
      PROVE  CallInv(d)'
  <2>1. CASE d = c
    BY <2>1 DEF Local
  <2>2. CASE d # c
    <3>1. CallInv(d) /\ call'[d] = call[d] /\ config' = config /\ (auditBlocked => auditBlocked')
      BY <2>2 DEF Calls, Local, OthersStay, StillBlocked
    <3>2. QED
      BY <3>1 DEF CallInv, Assessed, Backed, Recorded, Blocked, Active
  <2>3. QED
    BY <2>1, <2>2
<1>2. Function' /\ Shape'
  BY DEF Local, OthersStay, Function
<1>3. QED
  BY <1>1, <1>2 DEF Calls

LEMMA ElsewhereKeeps ==
  ASSUME Calls, Elsewhere
  PROVE  Calls' /\ call' = call
<1>1. UNCHANGED <<config, call, auditBlocked>>
  BY DEF Elsewhere, PreStep, Assemble, Close
<1>2. Shape'
  <2>1. ASSUME NEW s \in Scope, PreStep(s) PROVE Shape'
    BY <2>1 DEF PreStep, Calls, Shape
  <2>2. ASSUME NEW digest \in Digest, Assemble(digest) PROVE Shape'
    BY <2>2 DEF Assemble, Calls, Shape
  <2>3. ASSUME Close PROVE Shape'
    BY <2>3 DEF Close, Calls, Shape
  <2>4. QED
    BY <2>1, <2>2, <2>3 DEF Elsewhere
<1>3. ASSUME NEW d \in Call
      PROVE  CallInv(d)'
  <2>1. CallInv(d)
    BY DEF Calls
  <2>2. QED
    BY <1>1, <2>1 DEF CallInv, Assessed, Backed, Recorded, Blocked, Active
<1>4. QED
  BY <1>1, <1>2, <1>3 DEF Calls, Function

LEMMA InitCalls == Init => Calls
<1> SUFFICES ASSUME Init PROVE Calls
  OBVIOUS
<1>1. /\ At("new") \in LiveState /\ At("new").stage = "new" /\ At("new").row = None
  BY AtRead DEF Stages
<1>2. \A c \in Call : call[c] = At("new")
  BY DEF Init
<1>3. \A c \in Call : CallInv(c)
  BY <1>1, <1>2 DEF CallInv, Assessed, Backed, Recorded, None
<1>4. Function /\ Shape
  BY HostAdapterAssumption DEF Init, Function, Shape
<1>5. QED
  BY <1>3, <1>4 DEF Calls

LEMMA CallsInvariant == Spec => []Calls
<1>1. Calls /\ [Next]_vars => Calls'
  <2>1. ASSUME Calls, Next PROVE Calls'
    BY <2>1, NextSplit, CallStepLocal, LocalKeeps, ElsewhereKeeps
  <2>2. ASSUME Calls, UNCHANGED vars PROVE Calls'
    BY <2>2
    DEF vars, Calls, Function, Shape, CallInv, Assessed, Backed, Recorded, Blocked, Active
  <2>3. QED
    BY <2>1, <2>2
<1>2. QED
  BY InitCalls, <1>1, PTL DEF Spec

-----------------------------------------------------------------------------
(* What follows for the steps.                                             *)

\* Only the call that steps changes its stage.
LEMMA StepOf ==
  ASSUME Calls, [Next]_vars, NEW c \in Call, call'[c] # call[c]
  PROVE  CallStep(c)
<1>1. call' # call
  OBVIOUS
<1>2. PICK d \in Call : CallStep(d)
  BY <1>1, NextSplit, ElsewhereKeeps DEF vars
<1>3. Local(d)
  BY <1>2, CallStepLocal
<1>4. d = c
  BY <1>3 DEF Local, OthersStay
<1>5. QED
  BY <1>2, <1>4

\* A call that starts has just been dispatched.
LEMMA StartsByDispatch ==
  ASSUME Calls, [Next]_vars, NEW c \in Call, Starts(c)
  PROVE  /\ \/ call[c].stage = "returned" /\ call[c].verdict = "allow"
            \/ call[c].stage = "approved"
         /\ ~Guarded(c)
<1>1. CallStep(c)
  BY StepOf DEF Starts
<1>2. CASE Dispatch(c)
  <2>1. Guarded(c) => Refused(c, "guard")
    BY <1>2, Zenon DEF Dispatch
  <2>2. Refused(c, "guard") => call'[c].stage = "refused"
    BY Refusal DEF Calls
  <2>3. QED
    BY <1>2, <2>1, <2>2 DEF Dispatch, Starts
<1>3. CASE HostRefuses(c) \/ VerdictRefuses(c)
  <2>1. PICK by \in {"host", "verdict"} : Refused(c, by)
    BY <1>3, Zenon DEF HostRefuses, VerdictRefuses
  <2>2. QED
    BY <2>1, Refusal DEF Calls, Starts
<1>4. CASE Ask(c) \/ Decide(c)
  <2>1. CASE Refused(c, "approval")
    BY <2>1, Refusal DEF Calls, Starts
  <2>2. CASE call' = [call EXCEPT ![c].stage = "asking", ![c].verdict = "allow"]
    <3>1. call[c] \in LiveState
      BY <1>4 DEF Calls, CallInv, Ask, Decide
    <3>2. call'[c].stage = "asking"
      BY <2>2, <3>1 DEF Calls, Function, LiveState
    <3>3. QED
      BY <3>2 DEF Starts
  <2>3. CASE call' = [call EXCEPT ![c].stage = "approved"]
    <3>1. call[c] \in LiveState
      BY <1>4 DEF Calls, CallInv, Ask, Decide
    <3>2. call'[c].stage = "approved"
      BY <2>3, <3>1 DEF Calls, Function, LiveState
    <3>3. QED
      BY <3>2 DEF Starts
  <2>4. QED
    BY <1>4, <2>1, <2>2, <2>3, Zenon DEF Ask, Decide
<1>5. PreExecute(c) \/ Probe(c) \/ Answer(c) \/ Result(c) => call'[c].stage # "running"
  BY PreExecuted, Probed, Answered, Settled
<1>6. QED
  BY <1>1, <1>2, <1>3, <1>4, <1>5 DEF CallStep, HostStep, Starts

\* Where auditing is required, no call runs whose decision row did not land
\* (jey-plugin.ts: conclude with the guard).
THEOREM UnrecordedCallsStay == Spec => UnrecordedNeverRuns
<1>1. ASSUME Calls, [Next]_vars, NEW c \in Call, Starts(c), mounted, config.failClosed
      PROVE  call[c].row # "lost"
  <2>1. Recorded(c)
    BY <1>1 DEF Calls, CallInv
  <2>2. QED
    BY <1>1, <2>1, StartsByDispatch DEF Recorded, Blocked, Guarded
<1>2. Calls /\ [Next]_vars =>
        [\A c \in Call :
           Starts(c) /\ mounted /\ config.failClosed => call[c].row # "lost"]_vars
  BY <1>1
<1>3. QED
  BY <1>2, CallsInvariant, PTL DEF UnrecordedNeverRuns, Spec

\* A call runs only if the host allowed it, or asked and was told yes.
THEOREM HostDecides == Spec => HostHasTheLastWord
<1>1. ASSUME Calls, [Next]_vars, NEW c \in Call, Starts(c), mounted
      PROVE  \/ call[c].host = "allow"
             \/ call[c].host = "ask" /\ call[c].stage = "approved"
  <2>1. Backed(c)
    BY <1>1 DEF Calls, CallInv
  <2>2. QED
    BY <1>1, <2>1, StartsByDispatch DEF Backed, Blocked, Guarded
<1>2. Calls /\ [Next]_vars =>
        [\A c \in Call :
           Starts(c) /\ mounted =>
             \/ call[c].host = "allow"
             \/ call[c].host = "ask" /\ call[c].stage = "approved"]_vars
  BY <1>1
<1>3. QED
  BY <1>2, CallsInvariant, PTL DEF HostHasTheLastWord, Spec

\* Enforcing, the provider's answer passes no call of a scope that has moved since.
THEOREM OldSnapshotsPassNothing == Spec => NoPassOnOldSnapshot
<1>1. ASSUME Calls, [Next]_vars, NEW c \in Call, Returns(c), call[c].stage = "submitted",
             config.mode = "enforce", call[c].ref # Snapshot(c)
      PROVE  call'[c].verdict # "allow"
  <2>1. CallStep(c)
    BY <1>1, StepOf DEF Returns
  <2>2. ~PreExecute(c) /\ ~Probe(c) /\ ~HostStep(c) /\ ~Result(c)
    BY <1>1, HostStepped, Settled DEF PreExecute, Probe, Returns
  <2>3. QED
    BY <1>1, <2>1, <2>2, Answered DEF CallStep
<1>2. Calls /\ [Next]_vars =>
        [\A c \in Call :
           Returns(c) /\ call[c].stage = "submitted" /\ config.mode = "enforce"
             /\ call[c].ref # Snapshot(c) => call'[c].verdict # "allow"]_vars
  BY <1>1
<1>3. QED
  BY <1>2, CallsInvariant, PTL DEF NoPassOnOldSnapshot, Spec

\* In shadow mode the host's decision comes back as it went in.
THEOREM ShadowObserves == Spec => ShadowOnlyObserves
<1>1. ASSUME Calls, [Next]_vars, NEW c \in Call, Returns(c)
      PROVE  Observes(c)
  <2>1. CallStep(c)
    BY <1>1, StepOf DEF Returns
  <2>2. ~HostStep(c) /\ ~Result(c)
    BY <1>1, HostStepped, Settled DEF Returns
  <2>3. QED
    BY <1>1, <2>1, <2>2, PreExecuted, Probed, Answered DEF CallStep, Returns
<1>2. Calls /\ [Next]_vars =>
        [\A c \in Call :
           Returns(c) /\ config.mode = "shadow" =>
             \/ call'[c].verdict = call'[c].host
             \/ call'[c].row = "lost" /\ config.failClosed
             \/ call[c].stage = "new" /\ (Paused(c) \/ auditBlocked)]_vars
  BY <1>1 DEF Observes
<1>3. QED
  BY <1>2, CallsInvariant, PTL DEF ShadowOnlyObserves, Spec

-----------------------------------------------------------------------------
(* The limit of a path.                                                    *)

StoreState ==
  [fingerprint : {"no error"}, count : Nat, polls : Nat, paused : BOOLEAN,
   sequence : Nat \ {0}, root : Root \cup {NoRoot}]

\* The attempts the summary of a path stands for: those that ran and failed, and the
\* one it remembers, which may have been refused.
Attempts(p) == failures[p] \cup ({store[p].root} \ {NoRoot})

\* A path that is not paused has counted at least its attempts, and fewer than the limit.
Counted(p) ==
  /\ store[p] = Paths!None => failures[p] = {}
  /\ store[p] # Paths!None /\ ~store[p].paused =>
       /\ IsFiniteSet(Attempts(p)) /\ Cardinality(Attempts(p)) <= store[p].count
       /\ store[p].count < MaxIdenticalFailures

\* While results are observed.
Limits ==
  mounted /\ Active =>
    /\ store \in [Path -> StoreState \cup {Paths!None}]
    /\ failures = [p \in Path |-> failures[p]]
    /\ \A p \in Path : Counted(p)
    /\ \A c \in Call :
         store[PathOf[c]] # Paths!None => store[PathOf[c]].sequence <= sequence[ScopeOf[c]]

LEMMA NoEntry == \A s \in StoreState : s # Paths!None /\ s.sequence # 0
<1>1. ASSUME NEW s \in StoreState
      PROVE  s.sequence \in Nat \ {0}
  BY DEF StoreState
<1>2. Paths!None.sequence = 0
  <2> DEFINE no == FALSE
             entry == [count |-> 0, polls |-> 0, paused |-> no, sequence |-> 0, root |-> NoRoot]
  <2>1. entry.sequence = 0
    <3> HIDE DEF no
    <3> QED
      OBVIOUS
  <2>2. Paths!None = entry
    BY Zenon DEF Paths!None
  <2> HIDE DEF entry
  <2>3. QED
    BY <2>1, <2>2
<1>3. QED
  BY <1>1, <1>2

\* o reports a result of a call on p.
Reports(o, p, n, root) ==
  /\ o.path = p /\ o.fingerprint = "no error" /\ o.sequence = n /\ o.root = root
  /\ ~o.poll

\* One result, folded into the summary of its path.
LEMMA Folded ==
  ASSUME NEW p \in Path, NEW n \in Nat \ {0}, NEW root \in Root \cup {NoRoot}, NEW o,
         Reports(o, p, n, root),
         store[p] \in StoreState \cup {Paths!None},
         store[p] # Paths!None => store[p].sequence < n
  PROVE  LET s    == store[p]
             new  == Paths!Observed(o)
             same == s # Paths!None /\ root # NoRoot /\ s.root = root
         IN  /\ same => new = s
             /\ ~same /\ ~o.failed => new = Paths!None
             /\ ~same /\ o.failed =>
                  /\ new \in StoreState /\ new.sequence = n /\ new.root = root
                  /\ ~new.paused =>
                       /\ s # Paths!None => ~s.paused
                       /\ new.count = (IF s = Paths!None THEN 1 ELSE s.count + 1)
                       /\ new.count < MaxIdenticalFailures
<1> DEFINE s    == store[p]
           same == s # Paths!None /\ root # NoRoot /\ s.root = root
<1>0. o.path = p /\ o.fingerprint = "no error" /\ o.sequence = n /\ o.root = root
  BY Zenon DEF Reports
<1>1. Paths!Known(p) <=> s # Paths!None
  BY DEF Paths!Known
<1>2. Paths!AlreadyObserved(o) <=> same
  <2>1. s # Paths!None => s.sequence \in Nat /\ s.sequence < n /\ n \in Nat
    BY DEF StoreState
  <2>2. \A a, b \in Nat : a < b => ~(b <= a)
    OBVIOUS
  <2>3. QED
    BY <1>0, <1>1, <2>1, <2>2, Zenon DEF Paths!AlreadyObserved
<1>3. Paths!Alike(o) <=> s # Paths!None
  BY <1>0, <1>1 DEF Paths!Alike, StoreState
<1>4. \A count \in Nat, polls \in Nat, paused \in BOOLEAN :
        LET new == Paths!State(o, count, polls, paused) IN
        /\ new \in StoreState /\ new.sequence = n /\ new.root = root
        /\ new.count = count /\ (new.paused = paused)
  BY <1>0 DEF Paths!State, StoreState
<1>5. /\ s # Paths!None => s.count \in Nat
      /\ s.polls \in Nat
  <2>1. s \in StoreState => s.count \in Nat /\ s.polls \in Nat
    BY DEF StoreState
  <2>2. s = Paths!None => s.polls = 0
    BY DEF Paths!None
  <2>3. s \in StoreState \/ s = Paths!None
    OBVIOUS
  <2> HIDE DEF s
  <2>4. QED
    BY <2>1, <2>2, <2>3
<1>6. CASE ~same /\ o.failed
  <2> DEFINE count  == IF s # Paths!None THEN s.count + 1 ELSE 1
             paused == count >= MaxIdenticalFailures
             on     == TRUE
  <2>1. Paths!Observed(o) =
          IF s # Paths!None /\ s.paused THEN Paths!State(o, s.count, s.polls, on)
          ELSE Paths!State(o, count, s.polls, paused)
    BY <1>0, <1>2, <1>3, <1>6, Zenon DEF Reports, Paths!Observed, Paths!Failed
  <2>2. count \in Nat /\ paused \in BOOLEAN /\ on \in BOOLEAN
    <3>1. count \in Nat
      BY <1>5
    <3>2. paused \in BOOLEAN /\ on \in BOOLEAN
      OBVIOUS
    <3>3. QED
      BY <3>1, <3>2, Zenon
  <2>3. on /\ (~paused => count < MaxIdenticalFailures)
    <3>1. count \in Nat /\ MaxIdenticalFailures \in Nat
      BY <2>2, HostAdapterAssumption, Zenon
    <3> HIDE DEF count
    <3>2. QED
      BY <3>1
  <2>4. count = (IF s = Paths!None THEN 1 ELSE s.count + 1)
    OBVIOUS
  <2>5. CASE s # Paths!None /\ s.paused
    <3> DEFINE new == Paths!State(o, s.count, s.polls, on)
    <3>1. new \in StoreState /\ new.sequence = n /\ new.root = root /\ new.paused = on
      <4>1. s.count \in Nat /\ s.polls \in Nat
        BY <1>5, <2>5
      <4> HIDE DEF on, s
      <4> QED
        BY <1>4, <2>2, <4>1
    <3>2. new.paused
      BY <2>3, <3>1, Zenon
    <3>3. Paths!Observed(o) = new
      BY <2>1, <2>5, Zenon
    <3> HIDE DEF new
    <3>4. QED
      BY <1>6, <3>1, <3>2, <3>3
  <2>6. CASE ~(s # Paths!None /\ s.paused)
    <3> DEFINE new == Paths!State(o, count, s.polls, paused)
    <3>1. /\ new \in StoreState /\ new.sequence = n /\ new.root = root
          /\ new.count = count /\ new.paused = paused
      <4>1. s.polls \in Nat
        BY <1>5
      <4> HIDE DEF paused, count, s
      <4> QED
        BY <1>4, <2>2, <4>1
    <3>2. ~new.paused => ~paused
      BY <3>1, Zenon
    <3>3. Paths!Observed(o) = new
      BY <2>1, <2>6, Zenon
    <3> HIDE DEF new, count, paused
    <3>4. QED
      BY <1>6, <2>3, <2>4, <2>6, <3>1, <3>2, <3>3
  <2>7. QED
    BY <2>5, <2>6
<1>7. CASE same
  BY <1>0, <1>2, <1>7, Zenon DEF Paths!Observed
<1>8. CASE ~same /\ ~o.failed
  BY <1>0, <1>2, <1>8, Zenon DEF Paths!Observed
<1>9. QED
  BY <1>6, <1>7, <1>8

\* The observation that tools/result makes of a call.
LEMMA Observing ==
  ASSUME Calls, NEW c \in Call, NEW isError \in BOOLEAN, Observe(c, isError)
  PROVE  \E o :
           /\ Reports(o, PathOf[c], sequence[ScopeOf[c]] + 1, RootOf[c])
           /\ o.failed <=> isError
           /\ store' = [store EXCEPT ![PathOf[c]] = Paths!Observed(o)]
<1> DEFINE no == FALSE
           o  == [path |-> PathOf[c], failed |-> isError, fingerprint |-> "no error",
                  root |-> RootOf[c], poll |-> no, sequence |-> sequence[ScopeOf[c]] + 1]
<1>1. store' = [store EXCEPT ![PathOf[c]] = Paths!Observed(o)]
  BY Zenon DEF Observe
<1>2. /\ o.path = PathOf[c] /\ o.fingerprint = "no error" /\ o.poll = no
      /\ o.sequence = sequence[ScopeOf[c]] + 1 /\ o.root = RootOf[c] /\ o.failed = isError
  <2> HIDE DEF no
  <2> QED
    OBVIOUS
<1>3. ~o.poll /\ (o.failed <=> isError)
  BY <1>2, Zenon
<1> HIDE DEF o
<1>4. QED
  BY <1>1, <1>2, <1>3, Zenon DEF Reports

LEMMA OneMore ==
  ASSUME NEW S, IsFiniteSet(S), NEW a, NEW T, T \subseteq S \cup {a}
  PROVE  IsFiniteSet(T) /\ Cardinality(T) \in Nat /\ Cardinality(T) <= Cardinality(S) + 1
<1>1. /\ IsFiniteSet(S \cup {a})
      /\ Cardinality(S \cup {a}) \in Nat /\ Cardinality(S) \in Nat
      /\ Cardinality(S \cup {a}) <= Cardinality(S) + 1
  <2>1. /\ IsFiniteSet(S \cup {a})
        /\ Cardinality(S \cup {a}) = IF a \in S THEN Cardinality(S) ELSE Cardinality(S) + 1
    BY FS_AddElement
  <2>2. Cardinality(S \cup {a}) \in Nat /\ Cardinality(S) \in Nat
    BY <2>1, FS_CardinalityType
  <2>3. QED
    BY <2>1, <2>2
<1>2. IsFiniteSet(T) /\ Cardinality(T) <= Cardinality(S \cup {a}) /\ Cardinality(T) \in Nat
  BY <1>1, FS_Subset, FS_CardinalityType
<1>3. QED
  BY <1>1, <1>2

\* What a result does to the failures of its path.
LEMMA FailuresOf ==
  ASSUME NEW c \in Call, NEW isError \in BOOLEAN,
         failures = [p \in Path |-> failures[p]],
         failures' = IF call[c].stage = "refused" THEN failures
                     ELSE [failures EXCEPT ![PathOf[c]] =
                             IF isError THEN @ \cup {Attempt(c)} ELSE {}],
         call[c].stage = "refused" => isError
  PROVE  /\ failures' = [p \in Path |-> failures'[p]]
         /\ \A p \in Path \ {PathOf[c]} : failures'[p] = failures[p]
         /\ failures'[PathOf[c]] \subseteq failures[PathOf[c]] \cup {Attempt(c)}
         /\ ~isError => failures'[PathOf[c]] = {}
<1>1. PathOf[c] \in Path
  BY HostAdapterAssumption
<1>2. CASE call[c].stage = "refused"
  BY <1>1, <1>2
<1>3. CASE call[c].stage # "refused" /\ isError
  BY <1>1, <1>3
<1>4. CASE call[c].stage # "refused" /\ ~isError
  BY <1>1, <1>4
<1>5. QED
  BY <1>2, <1>3, <1>4

\* A result is counted on its path, and the summary of no other path changes.
LEMMA ResultCounts ==
  ASSUME Calls, Limits, mounted, Active, NEW c \in Call, Result(c)
  PROVE  Limits'
<1> DEFINE p    == PathOf[c]
           n    == sequence[ScopeOf[c]] + 1
           root == RootOf[c]
           s    == store[p]
           same == s # Paths!None /\ root # NoRoot /\ s.root = root
<1>1. /\ store \in [Path -> StoreState \cup {Paths!None}]
      /\ failures = [q \in Path |-> failures[q]]
      /\ \A q \in Path : Counted(q)
      /\ \A d \in Call :
           store[PathOf[d]] # Paths!None => store[PathOf[d]].sequence <= sequence[ScopeOf[d]]
  BY DEF Limits
<1>2. /\ p \in Path /\ root \in Root \cup {NoRoot} /\ ScopeOf[c] \in Scope
      /\ sequence \in [Scope -> Nat] /\ sequence[ScopeOf[c]] \in Nat /\ n \in Nat \ {0}
      /\ s \in StoreState \cup {Paths!None}
  BY <1>1, HostAdapterAssumption DEF Calls, Shape
<1>3. PICK isError \in BOOLEAN :
        /\ call[c].stage = "refused" => isError
        /\ failures' = IF call[c].stage = "refused" THEN failures
                       ELSE [failures EXCEPT ![p] = IF isError THEN @ \cup {Attempt(c)} ELSE {}]
        /\ sequence' = [sequence EXCEPT ![ScopeOf[c]] = @ + 1]
        /\ Observe(c, isError)
  BY Zenon DEF Result
<1>4. PICK o : /\ Reports(o, p, n, root)
               /\ o.failed <=> isError
               /\ store' = [store EXCEPT ![p] = Paths!Observed(o)]
  BY <1>3, Observing
<1>5. /\ failures' = [q \in Path |-> failures'[q]]
      /\ \A q \in Path \ {p} : failures'[q] = failures[q]
      /\ failures'[p] \subseteq failures[p] \cup {Attempt(c)}
      /\ ~isError => failures'[p] = {}
  BY <1>1, <1>3, FailuresOf
<1>6. s # Paths!None => s.sequence < n
  <2>1. s # Paths!None => s.sequence \in Nat /\ s.sequence <= sequence[ScopeOf[c]]
    BY <1>1, <1>2 DEF StoreState
  <2>2. \A a, b \in Nat : a <= b => a < b + 1
    OBVIOUS
  <2>3. QED
    BY <1>2, <2>1, <2>2
<1> DEFINE new == Paths!Observed(o)
<1>7. /\ same => new = s
      /\ ~same /\ ~isError => new = Paths!None
      /\ ~same /\ isError =>
           /\ new \in StoreState /\ new.sequence = n /\ new.root = root
           /\ ~new.paused =>
                /\ s # Paths!None => ~s.paused
                /\ new.count = (IF s = Paths!None THEN 1 ELSE s.count + 1)
                /\ new.count < MaxIdenticalFailures
  <2>1. Reports(o, p, n, root) /\ n \in Nat \ {0}
    BY <1>2, <1>4
  <2>2. LET before == store[p]
            twice  == before # Paths!None /\ root # NoRoot /\ before.root = root
        IN  /\ twice => new = before
            /\ ~twice /\ ~o.failed => new = Paths!None
            /\ ~twice /\ o.failed =>
                 /\ new \in StoreState /\ new.sequence = n /\ new.root = root
                 /\ ~new.paused =>
                      /\ before # Paths!None => ~before.paused
                      /\ new.count = (IF before = Paths!None THEN 1 ELSE before.count + 1)
                      /\ new.count < MaxIdenticalFailures
    <3> HIDE DEF n, root, p
    <3> QED
      BY <1>2, <1>6, <2>1, Folded
  <2>3. o.failed <=> isError
    BY <1>4
  <2> HIDE DEF n, root, p
  <2>4. QED
    BY <2>2, <2>3, Zenon
<1> HIDE DEF new
<1>8. /\ store' = [store EXCEPT ![p] = new] /\ new \in StoreState \cup {Paths!None}
      /\ store'[p] = new /\ \A q \in Path \ {p} : store'[q] = store[q]
      /\ store' \in [Path -> StoreState \cup {Paths!None}]
  <2>1. store' = [store EXCEPT ![p] = new]
    BY <1>4 DEF new
  <2>2. new \in StoreState \cup {Paths!None}
    BY <1>2, <1>7
  <2>3. QED
    BY <1>1, <1>2, <2>1, <2>2
<1>9. root # NoRoot => Attempt(c) = root
  BY DEF Attempt
<1>10. Counted(p)'
  <2>1. Counted(p) /\ (s # Paths!None => s.count \in Nat)
    BY <1>1, <1>2 DEF StoreState
  <2>2. CASE same
    <3>1. Attempts(p)' \subseteq Attempts(p)
      BY <1>5, <1>7, <1>8, <1>9, <2>2 DEF Attempts
    <3>2. s # Paths!None /\ store'[p] = s
      BY <1>7, <1>8, <2>2
    <3>3. ~s.paused => /\ IsFiniteSet(Attempts(p)) /\ Cardinality(Attempts(p)) <= s.count
                       /\ s.count < MaxIdenticalFailures
      BY <2>1, <3>2 DEF Counted
    <3>4. ~s.paused => /\ IsFiniteSet(Attempts(p)')
                       /\ Cardinality(Attempts(p)') <= Cardinality(Attempts(p))
                       /\ Cardinality(Attempts(p)') \in Nat /\ Cardinality(Attempts(p)) \in Nat
      BY <3>1, <3>3, FS_Subset, FS_CardinalityType
    <3>5. QED
      BY <2>1, <3>2, <3>3, <3>4 DEF Counted
  <2>3. CASE ~same /\ ~isError
    BY <1>5, <1>7, <1>8, <2>3 DEF Counted
  <2>4. CASE ~same /\ isError
    <3>1. new \in StoreState /\ new # Paths!None /\ new.root = root /\ store'[p] = new
      BY <1>7, <1>8, <2>4, NoEntry
    <3>2. Attempts(p)' \subseteq failures[p] \cup {Attempt(c)}
      BY <1>5, <1>9, <3>1 DEF Attempts
    <3>3. ASSUME ~new.paused
          PROVE  /\ IsFiniteSet(Attempts(p)') /\ Cardinality(Attempts(p)') <= new.count
                 /\ new.count < MaxIdenticalFailures
      <4>1. /\ s # Paths!None => ~s.paused
            /\ new.count = (IF s = Paths!None THEN 1 ELSE s.count + 1)
            /\ new.count < MaxIdenticalFailures
        BY <1>7, <2>4, <3>3
      <4>2. CASE s = Paths!None
        <5>1. failures[p] = {} /\ new.count = 1
          BY <2>1, <4>1, <4>2 DEF Counted
        <5> DEFINE before == failures[p]
        <5>2. IsFiniteSet(before) /\ Cardinality(before) = 0
          BY <5>1, FS_EmptySet
        <5> HIDE DEF before
        <5>3. IsFiniteSet(Attempts(p)') /\ Cardinality(Attempts(p)') <= 1
          <6>1. Attempts(p)' \subseteq before \cup {Attempt(c)}
            BY <3>2 DEF before
          <6>2. /\ IsFiniteSet(Attempts(p)')
                /\ Cardinality(Attempts(p)') <= Cardinality(before) + 1
            BY <5>2, <6>1, OneMore
          <6>3. QED
            BY <5>2, <6>2
        <5>4. QED
          BY <4>1, <5>1, <5>3
      <4>3. CASE s # Paths!None
        <5>1. /\ IsFiniteSet(Attempts(p)) /\ Cardinality(Attempts(p)) <= s.count
              /\ new.count = s.count + 1 /\ s.count \in Nat
          BY <2>1, <4>1, <4>3 DEF Counted
        <5>2. Attempts(p)' \subseteq Attempts(p) \cup {Attempt(c)}
          BY <3>2 DEF Attempts
        <5>3. /\ IsFiniteSet(Attempts(p)')
              /\ Cardinality(Attempts(p)') \in Nat
              /\ Cardinality(Attempts(p)') <= Cardinality(Attempts(p)) + 1
          BY <5>1, <5>2, OneMore
        <5>4. Cardinality(Attempts(p)) \in Nat
          BY <5>1, FS_CardinalityType
        <5>5. QED
          BY <4>1, <5>1, <5>3, <5>4
      <4>4. QED
        BY <4>2, <4>3
    <3>4. QED
      BY <3>1, <3>3 DEF Counted
  <2>5. QED
    BY <2>2, <2>3, <2>4
<1>11. ASSUME NEW q \in Path
       PROVE  Counted(q)'
  <2>1. CASE q = p
    BY <1>10, <2>1
  <2>2. CASE q # p
    <3>1. Counted(q) /\ store'[q] = store[q] /\ failures'[q] = failures[q]
      BY <1>1, <1>5, <1>8, <2>2
    <3>2. QED
      BY <3>1 DEF Counted, Attempts
  <2>3. QED
    BY <2>1, <2>2
<1>12. ASSUME NEW d \in Call, store'[PathOf[d]] # Paths!None
       PROVE  store'[PathOf[d]].sequence <= sequence'[ScopeOf[d]]
  <2>1. PathOf[d] \in Path /\ ScopeOf[d] \in Scope
    BY HostAdapterAssumption
  <2>2. /\ sequence'[ScopeOf[d]] \in Nat /\ sequence[ScopeOf[d]] \in Nat
        /\ sequence[ScopeOf[d]] <= sequence'[ScopeOf[d]]
        /\ ScopeOf[d] = ScopeOf[c] => sequence'[ScopeOf[d]] = n
    BY <1>2, <1>3, <2>1
  <2>3. CASE store'[PathOf[d]] = store[PathOf[d]]
    <3>1. store[PathOf[d]].sequence \in Nat /\ store[PathOf[d]].sequence <= sequence[ScopeOf[d]]
      BY <1>1, <1>12, <2>1, <2>3 DEF StoreState
    <3>2. \A a, b, e \in Nat : a <= b /\ b <= e => a <= e
      OBVIOUS
    <3>3. QED
      BY <2>2, <2>3, <3>1, <3>2
  <2>4. CASE store'[PathOf[d]] # store[PathOf[d]]
    <3>1. PathOf[d] = p /\ new # s /\ new # Paths!None
      BY <1>8, <1>12, <2>1, <2>4
    <3>2. new.sequence = n /\ ScopeOf[d] = ScopeOf[c]
      BY <1>7, <3>1, HostAdapterAssumption
    <3>3. QED
      BY <1>8, <2>2, <3>1, <3>2
  <2>5. QED
    BY <2>3, <2>4
<1>13. QED
  BY <1>5, <1>8, <1>11, <1>12 DEF Limits

LEMMA LimitsStay ==
  ASSUME Limits, UNCHANGED <<config, mounted, sequence, store, failures>>
  PROVE  Limits'
BY DEF Limits, Counted, Attempts, Active

LEMMA PreStepLimits ==
  ASSUME Calls, Limits, NEW s \in Scope, PreStep(s)
  PROVE  Limits'
<1>1. UNCHANGED <<config, mounted, store, failures>>
  BY DEF PreStep
<1>2. CASE mounted /\ Active
  <2>1. ASSUME NEW c \in Call, store[PathOf[c]] # Paths!None
        PROVE  store[PathOf[c]].sequence <= sequence'[ScopeOf[c]]
    <3>1. PathOf[c] \in Path /\ ScopeOf[c] \in Scope
      BY HostAdapterAssumption
    <3>2. store[PathOf[c]].sequence \in Nat /\ store[PathOf[c]].sequence <= sequence[ScopeOf[c]]
      BY <1>2, <2>1, <3>1 DEF Limits, StoreState
    <3>3. /\ sequence[ScopeOf[c]] \in Nat /\ sequence'[ScopeOf[c]] \in Nat
          /\ sequence[ScopeOf[c]] <= sequence'[ScopeOf[c]]
      BY <3>1 DEF PreStep, Calls, Shape
    <3>4. \A a, b, e \in Nat : a <= b /\ b <= e => a <= e
      OBVIOUS
    <3>5. QED
      BY <3>2, <3>3, <3>4
  <2>2. \A p \in Path : Counted(p)'
    BY <1>1, <1>2 DEF Limits, Counted, Attempts
  <2>3. QED
    BY <1>1, <1>2, <2>1, <2>2 DEF Limits
<1>3. CASE ~(mounted /\ Active)
  BY <1>1, <1>3 DEF Limits, Active
<1>4. QED
  BY <1>2, <1>3

LEMMA StepLimits ==
  ASSUME Calls, Limits, Next
  PROVE  Limits'
<1>1. ASSUME NEW c \in Call, PreExecute(c) \/ Probe(c) \/ Answer(c) \/ HostStep(c)
      PROVE  Limits'
  <2>1. UNCHANGED <<config, mounted, sequence, store, failures>>
    BY <1>1
    DEF PreExecute, Probe, Answer, HostStep, HostRefuses, VerdictRefuses, Ask, Decide, Dispatch
  <2>2. QED
    BY <2>1, LimitsStay
<1>2. ASSUME NEW c \in Call, Result(c)
      PROVE  Limits'
  <2>1. CASE mounted /\ Active
    BY <1>2, <2>1, ResultCounts
  <2>2. CASE ~(mounted /\ Active)
    BY <1>2, <2>2 DEF Result, Limits, Active
  <2>3. QED
    BY <2>1, <2>2
<1>3. ASSUME NEW digest \in Digest, Assemble(digest)
      PROVE  Limits'
  BY <1>3, LimitsStay DEF Assemble
<1>4. CASE Close
  BY <1>4 DEF Close, Limits
<1>5. QED
  BY <1>1, <1>2, <1>3, <1>4, NextSplit, PreStepLimits DEF CallStep, Elsewhere

LEMMA LimitsInvariant == Spec => [](Calls /\ Limits)
<1>1. Init => Limits
  <2> SUFFICES ASSUME Init PROVE Limits
    OBVIOUS
  <2>1. store = [p \in Path |-> Paths!None] /\ failures = [p \in Path |-> {}]
    BY DEF Init
  <2>2. \A p \in Path : Counted(p)
    BY <2>1 DEF Counted
  <2>3. \A c \in Call : PathOf[c] \in Path
    BY HostAdapterAssumption
  <2>4. QED
    BY <2>1, <2>2, <2>3 DEF Limits
<1>2. Calls /\ Limits /\ [Next]_vars => Limits'
  <2>1. ASSUME Limits, UNCHANGED vars PROVE Limits'
    BY <2>1, LimitsStay DEF vars
  <2>2. QED
    BY <2>1, StepLimits
<1>3. QED
  BY CallsInvariant, <1>1, <1>2, PTL DEF Spec

\* Once MaxIdenticalFailures attempts on a path have run and failed, no other starts,
\* though it may have been assessed, and approved, before the last of them failed.
THEOREM LimitStopsAttempts == Spec => NoAttemptPastTheLimit
<1>1. ASSUME Calls, Limits, [Next]_vars, NEW c \in Call, Starts(c), mounted, Active
      PROVE  Cardinality(failures[PathOf[c]]) < MaxIdenticalFailures
  <2> DEFINE p == PathOf[c]
  <2>1. p \in Path /\ MaxIdenticalFailures \in Nat \ {0}
    BY HostAdapterAssumption
  <2>2. ~store[p].paused
    BY <1>1, StartsByDispatch DEF Guarded, Paused
  <2>3. Counted(p) /\ store[p] \in StoreState \cup {Paths!None}
    BY <1>1, <2>1 DEF Limits
  <2>4. CASE store[p] = Paths!None
    <3>1. failures[p] = {}
      BY <2>3, <2>4 DEF Counted
    <3>2. Cardinality(failures[p]) = 0
      BY <3>1, FS_EmptySet
    <3>3. QED
      BY <2>1, <3>2
  <2>5. CASE store[p] # Paths!None
    <3>1. /\ IsFiniteSet(Attempts(p)) /\ Cardinality(Attempts(p)) <= store[p].count
          /\ store[p].count < MaxIdenticalFailures
      BY <2>2, <2>3, <2>5 DEF Counted
    <3>2. failures[p] \subseteq Attempts(p)
      BY DEF Attempts
    <3>3. /\ Cardinality(failures[p]) <= Cardinality(Attempts(p))
          /\ Cardinality(failures[p]) \in Nat /\ Cardinality(Attempts(p)) \in Nat
      BY <3>1, <3>2, FS_Subset, FS_CardinalityType
    <3>4. store[p].count \in Nat
      BY <2>3, <2>5 DEF StoreState
    <3>5. QED
      BY <2>1, <3>1, <3>3, <3>4
  <2>6. QED
    BY <2>4, <2>5
<1>2. Calls /\ Limits /\ [Next]_vars =>
        [\A c \in Call :
           Starts(c) /\ mounted /\ Active =>
             Cardinality(failures[PathOf[c]]) < MaxIdenticalFailures]_vars
  BY <1>1
<1>3. QED
  BY <1>2, LimitsInvariant, PTL DEF NoAttemptPastTheLimit, Spec

-----------------------------------------------------------------------------
(* The side tables.                                                        *)

Entry(Value)  == [key : Call, value : Value]
Said          == Refusals \cup {None}
Entries(table) == {table[i] : i \in DOMAIN table}

\* An entry that is looked up is one of the table.
LEMMA LookupFinds ==
  ASSUME NEW table, NEW key, Has(table, key)
  PROVE  \E entry \in Entries(table) : entry.key = key /\ entry.value = Lookup(table, key)
<1>1. PICK i \in DOMAIN table : table[i].key = key
  BY DEF Has
<1>2. Place(table, key) \in DOMAIN table /\ table[Place(table, key)].key = key
  BY <1>1 DEF Place
<1>3. QED
  BY <1>2 DEF Lookup, Entries

LEMMA EntriesTyped ==
  ASSUME NEW Value, NEW table \in Seq(Entry(Value)), NEW entry \in Entries(table)
  PROVE  entry.key \in Call /\ entry.value \in Value /\ Has(table, entry.key)
<1>1. PICK i \in DOMAIN table : entry = table[i]
  BY DEF Entries
<1>2. table[i] \in Entry(Value)
  OBVIOUS
<1>3. QED
  BY <1>1, <1>2 DEF Entry, Has

\* A table that is full forgets its oldest key, and nothing is told of a key but
\* what was told last.
LEMMA RememberBounds ==
  ASSUME NEW Value, NEW table \in Seq(Entry(Value)), Bounded(table), NEW key \in Call, NEW value \in Value
  PROVE  /\ Remember(table, key, value) \in Seq(Entry(Value))
         /\ Bounded(Remember(table, key, value))
         /\ Entries(Remember(table, key, value)) \subseteq
              {entry \in Entries(table) : entry.key # key} \cup {[key |-> key, value |-> value]}
<1> DEFINE entry == [key |-> key, value |-> value]
           later == Remember(table, key, value)
<1>1. entry \in Entry(Value) /\ entry.key = key
  BY DEF Entry
<1>2. DispatchCap \in Nat /\ DispatchCap >= 1 /\ Len(table) \in Nat /\ Len(table) <= DispatchCap
  BY HostAdapterAssumption DEF Bounded
<1>3. CASE Has(table, key)
  <2> DEFINE changed == [i \in DOMAIN table |-> IF table[i].key = key THEN entry ELSE table[i]]
  <2>1. later = changed
    BY <1>3 DEF Remember
  <2> HIDE DEF entry
  <2>2. changed \in Seq(Entry(Value)) /\ Len(changed) = Len(table) /\ DOMAIN changed = DOMAIN table
    BY <1>1
  <2>3. \A i \in DOMAIN table : changed[i] = entry \/ (changed[i] = table[i] /\ table[i].key # key)
    OBVIOUS
  <2>4. Entries(changed) \subseteq {e \in Entries(table) : e.key # key} \cup {entry}
    BY <2>2, <2>3 DEF Entries
  <2> HIDE DEF changed, later
  <2>5. QED
    BY <1>2, <2>1, <2>2, <2>4 DEF entry, later, Bounded
<1>4. CASE ~Has(table, key)
  <2>1. \A i \in DOMAIN table : table[i].key # key
    BY <1>4 DEF Has
  <2>2. CASE Len(table) < DispatchCap
    <3>1. later = Append(table, entry)
      BY <1>4, <2>2 DEF Remember
    <3> HIDE DEF entry, later
    <3>2. later \in Seq(Entry(Value)) /\ Len(later) = Len(table) + 1
      BY <1>1, <3>1
    <3>3. \A i \in DOMAIN later : later[i] = entry \/ (i \in DOMAIN table /\ later[i] = table[i])
      BY <1>1, <3>1
    <3>4. Entries(later) \subseteq {e \in Entries(table) : e.key # key} \cup {entry}
      BY <2>1, <3>3 DEF Entries
    <3>5. Bounded(later)
      BY <1>2, <2>2, <3>2 DEF Bounded
    <3>6. QED
      BY <3>2, <3>4, <3>5 DEF entry, later
  <2>3. CASE ~(Len(table) < DispatchCap)
    <3>1. later = Append(Tail(table), entry)
      BY <1>4, <2>3 DEF Remember
    <3> HIDE DEF entry, later
    <3>2. table # <<>> /\ Len(table) = DispatchCap
      BY <1>2, <2>3
    <3>3. /\ Tail(table) \in Seq(Entry(Value)) /\ Len(Tail(table)) = Len(table) - 1
          /\ \A i \in 1..(Len(table) - 1) : Tail(table)[i] = table[i + 1]
      BY <3>2
    <3>4. /\ later \in Seq(Entry(Value)) /\ Len(later) = Len(table)
          /\ \A i \in 1..(Len(table) - 1) : later[i] = table[i + 1]
          /\ later[Len(table)] = entry
      BY <1>1, <1>2, <3>1, <3>3
    <3>5. \A i \in DOMAIN later : later[i] = entry \/ \E j \in DOMAIN table : later[i] = table[j]
      <4>1. SUFFICES ASSUME NEW i \in DOMAIN later, i # Len(table)
                     PROVE  \E j \in DOMAIN table : later[i] = table[j]
        BY <3>4
      <4>2. i \in 1..(Len(table) - 1) /\ i + 1 \in DOMAIN table
        BY <1>2, <3>4, <4>1
      <4>3. QED
        BY <3>4, <4>2
    <3>6. Entries(later) \subseteq {e \in Entries(table) : e.key # key} \cup {entry}
      BY <2>1, <3>5 DEF Entries
    <3>7. Bounded(later)
      BY <1>2, <3>2, <3>4 DEF Bounded
    <3>8. QED
      BY <3>4, <3>6, <3>7 DEF entry, later
  <2>4. QED
    BY <2>2, <2>3
<1>5. QED
  BY <1>3, <1>4

LEMMA ForgetBounds ==
  ASSUME NEW Value, NEW table \in Seq(Entry(Value)), Bounded(table), NEW key
  PROVE  /\ Forget(table, key) \in Seq(Entry(Value))
         /\ Bounded(Forget(table, key))
         /\ Entries(Forget(table, key)) \subseteq Entries(table)
<1>1. CASE ~Has(table, key)
  BY <1>1 DEF Forget
<1>2. CASE Has(table, key)
  <2> DEFINE n     == Len(table)
             p     == Place(table, key)
             front == SubSeq(table, 1, p - 1)
             back  == SubSeq(table, p + 1, n)
             later == front \o back
  <2>1. p \in DOMAIN table
    <3>1. \E i \in DOMAIN table : table[i].key = key
      BY <1>2 DEF Has
    <3>2. QED
      BY <3>1 DEF Place
  <2>2. p \in 1..n /\ n \in Nat
    BY <2>1
  <2>3. Forget(table, key) = later
    BY <1>2 DEF Forget, RemoveAt
  <2> HIDE DEF p
  <2>4. /\ front \in Seq(Entry(Value)) /\ Len(front) = p - 1
        /\ \A i \in 1..(p - 1) : front[i] = table[i]
    BY <2>2
  <2>5. /\ back \in Seq(Entry(Value)) /\ Len(back) = n - p
        /\ \A i \in 1..(n - p) : back[i] = table[i + p]
    BY <2>2
  <2> HIDE DEF front, back
  <2>6. /\ later \in Seq(Entry(Value)) /\ Len(later) = n - 1
        /\ \A i \in 1..(p - 1) : later[i] = table[i]
        /\ \A i \in p..(n - 1) : later[i] = table[i + 1]
    <3>1. /\ later \in Seq(Entry(Value)) /\ Len(later) = Len(front) + Len(back)
          /\ \A i \in 1 .. Len(front) + Len(back) :
               later[i] = IF i <= Len(front) THEN front[i] ELSE back[i - Len(front)]
      BY <2>4, <2>5, ConcatProperties
    <3> HIDE DEF later
    <3>2. Len(later) = n - 1
      BY <2>2, <2>4, <2>5, <3>1
    <3>3. ASSUME NEW i \in 1..(p - 1) PROVE later[i] = table[i]
      <4>1. i \in 1 .. Len(front) + Len(back) /\ i <= Len(front)
        BY <2>2, <2>4, <2>5
      <4>2. later[i] = front[i]
        BY <3>1, <4>1
      <4>3. QED
        BY <2>4, <4>2
    <3>4. ASSUME NEW i \in p..(n - 1) PROVE later[i] = table[i + 1]
      <4>1. i > Len(front) /\ i <= Len(front) + Len(back) /\ i \in Nat
        BY <2>2, <2>4, <2>5
      <4>2. later[i] = back[i - Len(front)]
        BY <2>4, <2>5, <3>1, <4>1
      <4>3. i - Len(front) \in 1..(n - p) /\ (i - Len(front)) + p = i + 1
        BY <2>2, <2>4, <4>1
      <4>4. QED
        BY <2>5, <4>2, <4>3
    <3>5. QED
      BY <3>1, <3>2, <3>3, <3>4
  <2> HIDE DEF later
  <2>7. \A i \in DOMAIN later : \E j \in DOMAIN table : later[i] = table[j]
    <3>1. SUFFICES ASSUME NEW i \in DOMAIN later
                   PROVE  \E j \in DOMAIN table : later[i] = table[j]
      OBVIOUS
    <3>2. i \in 1..(n - 1)
      BY <2>6
    <3>3. CASE i \in 1..(p - 1)
      <4>1. i \in DOMAIN table
        BY <2>2, <3>3
      <4>2. QED
        BY <2>6, <3>3, <4>1
    <3>4. CASE i \in p..(n - 1)
      <4>1. i + 1 \in DOMAIN table
        BY <2>2, <3>4
      <4>2. QED
        BY <2>6, <3>4, <4>1
    <3>5. QED
      BY <2>2, <3>2, <3>3, <3>4
  <2>8. Entries(later) \subseteq Entries(table)
    BY <2>7 DEF Entries
  <2>9. Bounded(later)
    <3>1. DispatchCap \in Nat /\ Len(table) <= DispatchCap
      BY HostAdapterAssumption DEF Bounded
    <3>2. QED
      BY <2>2, <2>6, <3>1 DEF Bounded
  <2>10. QED
    BY <2>3, <2>6, <2>8, <2>9
<1>3. QED
  BY <1>1, <1>2

-----------------------------------------------------------------------------
(* What the side tables say of a call.                                     *)

\* The tables hold what they are meant for, and an approval is that of its call.
Tables ==
  /\ dispatched \in Seq(Entry(Said)) /\ Bounded(dispatched)
  /\ asked \in Seq(Entry(Call)) /\ Bounded(asked)
  /\ approvals \in Seq(Entry(Outcomes)) /\ Bounded(approvals)
  /\ \A entry \in Entries(asked) : entry.value = entry.key

\* A refusal is remembered of a call whose verdict refuses it, and of no other: k is
\* the call c.
ToldIn(table, c, k) ==
  \A entry \in Entries(table) : entry.key = c =>
    /\ k.stage \notin {"new", "probing", "submitted"}
    /\ entry.value # None =>
         /\ k.stage \in {"returned", "refused", "done"}
         /\ k.stage = "returned" => k.verdict \in {"deny", "cancel"}
    /\ entry.value = None =>
         /\ k.stage = "returned" => k.verdict \notin {"deny", "cancel"}
         /\ k.stage = "refused" => k.by # "verdict"

\* What became of an approval fits what became of its call.
AnsweredIn(table, c, k) ==
  \A entry \in Entries(table) : entry.key = c =>
    /\ k.stage \in {"approved", "running", "refused", "done"}
    /\ k.stage \in {"approved", "running"} => entry.value = "allowed-once"
    /\ k.stage = "refused" /\ k.by = "approval" => entry.value # "allowed-once"

Signed(k) == k.stage = "refused" => k.by \in {"host", "verdict", "approval", "guard"}

Fits(dispatchedNow, approvalsNow, c, k) ==
  ToldIn(dispatchedNow, c, k) /\ AnsweredIn(approvalsNow, c, k) /\ Signed(k)

Rows == Tables /\ \A c \in Call : Fits(dispatched, approvals, c, call[c])

\* A step on c adds nothing about other calls.
OnlyAbout(old, new, c) == \A entry \in Entries(new) : entry.key # c => entry \in Entries(old)

\* What has to be shown of a step on c.
RowStep(c) ==
  /\ Tables'
  /\ OnlyAbout(dispatched, dispatched', c) /\ OnlyAbout(approvals, approvals', c)
  /\ Fits(dispatched', approvals', c, call'[c])

LEMMA SameTables ==
  ASSUME Tables, UNCHANGED <<dispatched, asked, approvals>>
  PROVE  Tables'
BY DEF Tables, Bounded, Entries

LEMMA RefusalSaid ==
  ASSUME NEW verdict, NEW action
  PROVE  /\ RefusalOf(verdict, action) \in Said
         /\ RefusalOf(verdict, action) # None <=> verdict \in {"deny", "cancel"}
BY DEF RefusalOf, Said, Refusals, None

\* The fields of a call that was just returned or refused.
LEMMA ReturnRead ==
  ASSUME Function, NEW c \in Call, NEW host, NEW verdict, NEW row, Return(c, host, verdict, row)
  PROVE  call'[c].stage = "returned" /\ call'[c].verdict = verdict
<1> DEFINE k == [At("returned") EXCEPT !.host = host, !.verdict = verdict, !.row = row]
<1>1. k.stage = "returned" /\ k.verdict = verdict
  BY DEF At
<1>2. call' = [call EXCEPT ![c] = k]
  BY DEF Return
<1> HIDE DEF k
<1>3. call'[c] = k
  BY <1>2, Changed
<1>4. QED
  BY <1>1, <1>3

LEMMA RefusedRead ==
  ASSUME Function, NEW c \in Call, NEW by, Refused(c, by)
  PROVE  call'[c].stage = "refused" /\ call'[c].by = by
<1> DEFINE k == [At("refused") EXCEPT !.by = by]
<1>1. k.stage = "refused" /\ k.by = by
  BY DEF At
<1>2. call' = [call EXCEPT ![c] = k]
  BY DEF Refused
<1> HIDE DEF k
<1>3. call'[c] = k
  BY <1>2, Changed
<1>4. QED
  BY <1>1, <1>3

\* A verdict goes back to the host, and the table, where it is told, is told the same.
HandsBack(c) ==
  /\ UNCHANGED <<asked, approvals>>
  /\ call'[c].stage = "returned"
  /\ \/ UNCHANGED dispatched
     \/ \E action : Track(c, call'[c].verdict, action)

LEMMA ConcludeHandsBack ==
  ASSUME Function, NEW c \in Call, NEW host, NEW verdict, NEW action,
         Conclude(c, host, verdict, action), UNCHANGED <<asked, approvals>>
  PROVE  HandsBack(c)
<1>1. ASSUME NEW row, Return(c, host, verdict, row), Track(c, verdict, action)
      PROVE  HandsBack(c)
  <2>1. call'[c].stage = "returned" /\ call'[c].verdict = verdict
    BY <1>1, ReturnRead
  <2>2. QED
    BY <1>1, <2>1 DEF HandsBack
<1>2. ASSUME NEW stricter, Return(c, host, stricter, "lost"), UNCHANGED dispatched
      PROVE  HandsBack(c)
  BY <1>2, ReturnRead DEF HandsBack
<1>3. QED
  BY <1>1, <1>2, Zenon DEF Conclude

LEMMA HandingBackFits ==
  ASSUME Rows, NEW c \in Call, call[c].stage \in {"new", "probing", "submitted"}, HandsBack(c)
  PROVE  RowStep(c)
<1>1. Fits(dispatched, approvals, c, call[c]) /\ Tables
  BY DEF Rows
<1>2. /\ \A entry \in Entries(dispatched) : entry.key # c
      /\ \A entry \in Entries(approvals) : entry.key # c
  BY <1>1 DEF Fits, ToldIn, AnsweredIn
<1>3. UNCHANGED <<asked, approvals>> /\ call'[c].stage = "returned"
  BY DEF HandsBack
<1>4. AnsweredIn(approvals', c, call'[c]) /\ Signed(call'[c]) /\ OnlyAbout(approvals, approvals', c)
  BY <1>2, <1>3 DEF AnsweredIn, Signed, OnlyAbout
<1>5. CASE UNCHANGED dispatched
  <2>1. Tables'
    BY <1>1, <1>3, <1>5, SameTables
  <2>2. ToldIn(dispatched', c, call'[c]) /\ OnlyAbout(dispatched, dispatched', c)
    BY <1>2, <1>5 DEF ToldIn, OnlyAbout
  <2>3. QED
    BY <1>4, <2>1, <2>2 DEF RowStep, Fits
<1>6. ASSUME NEW action, Track(c, call'[c].verdict, action)
      PROVE  RowStep(c)
  <2> DEFINE verdict == call'[c].verdict
             refused == RefusalOf(verdict, action)
             entry   == [key |-> c, value |-> refused]
  <2>1. refused \in Said /\ (refused # None <=> verdict \in {"deny", "cancel"})
    BY RefusalSaid
  <2>2. dispatched' = Remember(dispatched, c, refused)
    BY <1>6 DEF Track
  <2> HIDE DEF refused
  <2>3. /\ dispatched' \in Seq(Entry(Said)) /\ Bounded(dispatched')
        /\ Entries(dispatched') \subseteq {e \in Entries(dispatched) : e.key # c} \cup {entry}
    BY <1>1, <2>1, <2>2, RememberBounds DEF Tables
  <2>4. entry.key = c /\ entry.value = refused
    OBVIOUS
  <2> HIDE DEF entry, verdict
  <2>5. OnlyAbout(dispatched, dispatched', c)
    BY <2>3, <2>4 DEF OnlyAbout
  <2>6. \A e \in Entries(dispatched') : e.key = c => e.value = refused
    BY <2>3, <2>4
  <2>7. ToldIn(dispatched', c, call'[c])
    BY <1>3, <2>1, <2>6 DEF ToldIn, verdict
  <2>8. Tables'
    BY <1>1, <1>3, <2>3 DEF Tables, Bounded, Entries
  <2>9. QED
    BY <1>4, <2>5, <2>7, <2>8 DEF RowStep, Fits
<1>7. QED
  BY <1>5, <1>6 DEF HandsBack

\* The tables stay, and the call goes on.
LEMMA QuietStep ==
  ASSUME Rows, NEW c \in Call, UNCHANGED <<dispatched, asked, approvals>>,
         Fits(dispatched, approvals, c, call'[c])
  PROVE  RowStep(c)
<1>1. Tables'
  BY SameTables DEF Rows
<1>2. QED
  BY <1>1 DEF RowStep, OnlyAbout

LEMMA AssessingFits ==
  ASSUME Calls, Rows, NEW c \in Call, PreExecute(c) \/ Probe(c) \/ Answer(c)
  PROVE  RowStep(c)
<1>1. /\ Function /\ call[c].stage \in {"new", "probing", "submitted"}
      /\ UNCHANGED <<asked, approvals>>
  BY DEF Calls, PreExecute, Probe, Answer
<1>2. Fits(dispatched, approvals, c, call[c])
  BY DEF Rows
<1>3. ASSUME NEW host, ConcludeUnanswered(c, host) PROVE RowStep(c)
  <2>1. PICK verdict, action : Conclude(c, host, verdict, action)
    BY <1>3, Zenon DEF ConcludeUnanswered
  <2>2. QED
    BY <1>1, <2>1, ConcludeHandsBack, HandingBackFits
<1>4. ASSUME UNCHANGED dispatched, call'[c].stage \in {"probing", "submitted"}
      PROVE  RowStep(c)
  <2>1. Fits(dispatched, approvals, c, call'[c])
    BY <1>1, <1>2, <1>4 DEF Fits, ToldIn, AnsweredIn, Signed
  <2>2. QED
    BY <1>1, <1>4, <2>1, QuietStep
<1>5. CASE PreExecute(c)
  <2>1. PICK host : \/ mounted /\ Active /\ Assess(c, host)
                    \/ PassBy(c, host)
    BY <1>5 DEF PreExecute
  <2>2. CASE PassBy(c, host)
    <3>1. Return(c, host, host, None) /\ UNCHANGED dispatched
      BY <2>2 DEF PassBy
    <3>2. HandsBack(c)
      BY <1>1, <3>1, ReturnRead DEF HandsBack
    <3>3. QED
      BY <1>1, <3>2, HandingBackFits
  <2>3. ASSUME NEW verdict, NEW action, NEW row, Return(c, host, verdict, row), Track(c, verdict, action)
        PROVE  RowStep(c)
    <3>1. call'[c].stage = "returned" /\ call'[c].verdict = verdict
      BY <1>1, <2>3, ReturnRead
    <3>2. HandsBack(c)
      BY <1>1, <2>3, <3>1 DEF HandsBack
    <3>3. QED
      BY <1>1, <3>2, HandingBackFits
  <2>4. CASE RefusePaused(c, host)
    <3>1. PICK verdict, row : Return(c, host, verdict, row) /\ Track(c, verdict, "deny")
      BY <2>4, Zenon DEF RefusePaused
    <3>2. QED
      BY <2>3, <3>1
  <2>5. CASE RefuseBlocked(c, host)
    <3>1. PICK row : Return(c, host, "deny", row) /\ Track(c, "deny", "deny")
      BY <2>5, Zenon DEF RefuseBlocked
    <3>2. QED
      BY <2>3, <3>1
  <2>6. CASE /\ call' = [call EXCEPT ![c] = [At("probing") EXCEPT !.host = host, !.ref = Snapshot(c)]]
             /\ UNCHANGED <<dispatched, auditBlocked>>
    <3>1. [At("probing") EXCEPT !.host = host, !.ref = Snapshot(c)].stage = "probing"
      BY DEF At
    <3>2. call'[c].stage = "probing"
      BY <1>1, <2>6, <3>1, Changed
    <3>3. QED
      BY <1>4, <2>6, <3>2
  <2>7. QED
    BY <1>3, <2>1, <2>2, <2>4, <2>5, <2>6, Zenon DEF Assess
<1>6. CASE Probe(c)
  <2>1. CASE call' = [call EXCEPT ![c].stage = "submitted"] /\ UNCHANGED <<dispatched, auditBlocked>>
    <3>1. call[c] \in LiveState
      BY <1>6 DEF Calls, CallInv, Probe
    <3>2. call'[c].stage = "submitted"
      BY <1>1, <2>1, <3>1 DEF Function, LiveState
    <3>3. QED
      BY <1>4, <2>1, <3>2
  <2>2. QED
    BY <1>3, <1>6, <2>1 DEF Probe
<1>7. CASE Answer(c)
  <2>1. \/ ConcludeUnanswered(c, call[c].host)
        \/ \E verdict, action : Conclude(c, call[c].host, verdict, action)
    BY <1>7, Zenon DEF Answer
  <2>2. QED
    BY <1>1, <1>3, <2>1, ConcludeHandsBack, HandingBackFits
<1>8. QED
  BY <1>5, <1>6, <1>7

LEMMA RefusingFits ==
  ASSUME Calls, Rows, NEW c \in Call, HostRefuses(c) \/ VerdictRefuses(c)
  PROVE  RowStep(c)
<1>1. Function /\ Fits(dispatched, approvals, c, call[c]) /\ UNCHANGED <<dispatched, asked, approvals>>
  BY DEF Calls, Rows, HostRefuses, VerdictRefuses
<1>2. CASE HostRefuses(c)
  <2>1. call'[c].stage = "refused" /\ call'[c].by = "host"
    BY <1>1, <1>2, RefusedRead DEF HostRefuses
  <2>2. call[c].stage \in {"new", "returned"}
    BY <1>2 DEF HostRefuses
  <2>3. Fits(dispatched, approvals, c, call'[c])
    BY <1>1, <2>1, <2>2 DEF Fits, ToldIn, AnsweredIn, Signed
  <2>4. QED
    BY <1>1, <2>3, QuietStep
<1>3. CASE VerdictRefuses(c)
  <2>1. Refused(c, "verdict")
    BY <1>3, Zenon DEF VerdictRefuses
  <2>2. call'[c].stage = "refused" /\ call'[c].by = "verdict"
    BY <1>1, <2>1, RefusedRead
  <2>3. call[c].stage = "returned" /\ call[c].verdict \in {"deny", "cancel"}
    BY <1>3 DEF VerdictRefuses
  <2>4. Fits(dispatched, approvals, c, call'[c])
    BY <1>1, <2>2, <2>3 DEF Fits, ToldIn, AnsweredIn, Signed
  <2>5. QED
    BY <1>1, <2>4, QuietStep
<1>4. QED
  BY <1>2, <1>3

LEMMA AskFits ==
  ASSUME Calls, Rows, NEW c \in Call, Ask(c)
  PROVE  RowStep(c)
<1>1. /\ Function /\ Tables /\ Fits(dispatched, approvals, c, call[c])
      /\ UNCHANGED <<dispatched, approvals>>
      /\ call[c].stage = "returned" /\ call[c].verdict = "ask"
      /\ call[c] \in LiveState
  BY DEF Calls, CallInv, Rows, Ask
<1>2. \/ Refused(c, "approval")
      \/ call' = [call EXCEPT ![c].stage = "asking", ![c].verdict = "allow"]
  BY Zenon DEF Ask
<1>3. \/ call'[c].stage = "refused" /\ call'[c].by = "approval"
      \/ call'[c].stage = "asking"
  <2>1. CASE Refused(c, "approval")
    BY <1>1, <2>1, RefusedRead
  <2>2. CASE call' = [call EXCEPT ![c].stage = "asking", ![c].verdict = "allow"]
    BY <1>1, <2>2 DEF Function, LiveState
  <2>3. QED
    BY <1>2, <2>1, <2>2
<1>4. Fits(dispatched, approvals, c, call'[c])
  BY <1>1, <1>3 DEF Fits, ToldIn, AnsweredIn, Signed
<1>5. /\ asked' \in Seq(Entry(Call)) /\ Bounded(asked')
      /\ \A entry \in Entries(asked') : entry.value = entry.key
  <2>1. CASE asked' = asked
    BY <1>1, <2>1 DEF Tables
  <2>2. CASE asked' = Remember(asked, c, c)
    <3>1. /\ asked' \in Seq(Entry(Call)) /\ Bounded(asked')
          /\ Entries(asked') \subseteq {e \in Entries(asked) : e.key # c} \cup {[key |-> c, value |-> c]}
      BY <1>1, <2>2, RememberBounds DEF Tables
    <3>2. QED
      BY <1>1, <3>1 DEF Tables
  <2>3. asked' \in {asked, Remember(asked, c, c)}
    BY DEF Ask
  <2>4. QED
    BY <2>1, <2>2, <2>3
<1>6. Tables'
  BY <1>1, <1>5 DEF Tables, Bounded, Entries
<1>7. QED
  BY <1>1, <1>4, <1>6 DEF RowStep, OnlyAbout

LEMMA DecideFits ==
  ASSUME Calls, Rows, NEW c \in Call, Decide(c)
  PROVE  RowStep(c)
<1>1. /\ Function /\ Tables /\ Fits(dispatched, approvals, c, call[c])
      /\ UNCHANGED <<dispatched, asked>>
      /\ call[c].stage = "asking" /\ call[c] \in LiveState
  BY DEF Calls, CallInv, Rows, Decide
<1>2. PICK outcome \in Outcomes :
        /\ IF outcome = "allowed-once" THEN call' = [call EXCEPT ![c].stage = "approved"]
           ELSE Refused(c, "approval")
        /\ approvals' = IF mounted /\ Has(asked, c)
                        THEN Remember(approvals, Lookup(asked, c), outcome) ELSE approvals
  BY Zenon DEF Decide
<1>3. /\ outcome = "allowed-once" => call'[c].stage = "approved"
      /\ outcome # "allowed-once" => call'[c].stage = "refused" /\ call'[c].by = "approval"
  <2>1. CASE outcome = "allowed-once"
    <3>1. call' = [call EXCEPT ![c].stage = "approved"]
      BY <1>2, <2>1
    <3>2. call'[c].stage = "approved"
      BY <1>1, <3>1 DEF Function, LiveState
    <3>3. QED
      BY <2>1, <3>2
  <2>2. CASE outcome # "allowed-once"
    <3>1. Refused(c, "approval")
      BY <1>2, <2>2
    <3>2. QED
      BY <1>1, <2>2, <3>1, RefusedRead
  <2>3. QED
    BY <2>1, <2>2
<1>4. Signed(call'[c]) /\ ToldIn(dispatched', c, call'[c]) /\ OnlyAbout(dispatched, dispatched', c)
  BY <1>1, <1>3 DEF Fits, Signed, ToldIn, OnlyAbout
<1>5. \A entry \in Entries(approvals) : entry.key # c
  BY <1>1 DEF Fits, AnsweredIn
<1>6. /\ approvals' \in Seq(Entry(Outcomes)) /\ Bounded(approvals')
      /\ \A entry \in Entries(approvals') :
           entry \in Entries(approvals) \/ (entry.key = c /\ entry.value = outcome)
  <2>1. CASE approvals' = approvals
    BY <1>1, <2>1 DEF Tables
  <2>2. CASE Has(asked, c) /\ approvals' = Remember(approvals, Lookup(asked, c), outcome)
    <3>1. Lookup(asked, c) = c
      BY <1>1, <2>2, LookupFinds DEF Tables
    <3>2. approvals' = Remember(approvals, c, outcome)
      BY <2>2, <3>1
    <3>3. /\ approvals' \in Seq(Entry(Outcomes)) /\ Bounded(approvals')
          /\ Entries(approvals') \subseteq
               {e \in Entries(approvals) : e.key # c} \cup {[key |-> c, value |-> outcome]}
      BY <1>1, <3>2, RememberBounds DEF Tables
    <3>4. QED
      BY <3>3
  <2>3. QED
    BY <1>2, <2>1, <2>2
<1>7. AnsweredIn(approvals', c, call'[c]) /\ OnlyAbout(approvals, approvals', c)
  BY <1>3, <1>5, <1>6 DEF AnsweredIn, OnlyAbout
<1>8. Tables'
  BY <1>1, <1>6 DEF Tables, Bounded, Entries
<1>9. QED
  BY <1>4, <1>7, <1>8 DEF RowStep, Fits

LEMMA DispatchFits ==
  ASSUME Calls, Rows, NEW c \in Call, Dispatch(c)
  PROVE  RowStep(c)
<1>1. /\ Function /\ Fits(dispatched, approvals, c, call[c])
      /\ UNCHANGED <<dispatched, asked, approvals>>
      /\ \/ call[c].stage = "returned" /\ call[c].verdict = "allow"
         \/ call[c].stage = "approved"
  BY DEF Calls, Rows, Dispatch
<1>2. \/ call'[c].stage = "refused" /\ call'[c].by = "guard"
      \/ call'[c].stage = "running"
  <2>1. CASE Refused(c, "guard")
    BY <1>1, <2>1, RefusedRead
  <2>2. CASE call' = [call EXCEPT ![c] = At("running")]
    <3>1. call'[c] = At("running")
      BY <1>1, <2>2, Changed
    <3>2. At("running").stage = "running"
      BY DEF At
    <3>3. QED
      BY <3>1, <3>2
  <2>3. QED
    BY <2>1, <2>2, Zenon DEF Dispatch
<1>3. Fits(dispatched, approvals, c, call'[c])
  BY <1>1, <1>2 DEF Fits, ToldIn, AnsweredIn, Signed
<1>4. QED
  BY <1>1, <1>3, QuietStep

\* A settled call needs no entry, and loses its own.
LEMMA ResultFits ==
  ASSUME Calls, Rows, NEW c \in Call, Result(c)
  PROVE  RowStep(c)
<1>1. /\ Tables /\ Fits(dispatched, approvals, c, call[c]) /\ UNCHANGED asked
      /\ call[c].stage \in {"running", "refused"}
  BY DEF Rows, Result
<1>2. call'[c].stage = "done"
  BY Settled
<1>3. /\ dispatched' \in Seq(Entry(Said)) /\ Bounded(dispatched')
      /\ Entries(dispatched') \subseteq Entries(dispatched)
      /\ approvals' \in Seq(Entry(Outcomes)) /\ Bounded(approvals')
      /\ Entries(approvals') \subseteq Entries(approvals)
  <2>1. CASE UNCHANGED <<dispatched, approvals>>
    BY <1>1, <2>1 DEF Tables
  <2>2. CASE dispatched' = Forget(dispatched, c) /\ approvals' = Forget(approvals, c)
    BY <1>1, <2>2, ForgetBounds DEF Tables
  <2>3. QED
    BY <2>1, <2>2, Zenon DEF Result, ExecutionRow
<1>4. Fits(dispatched', approvals', c, call'[c])
  BY <1>1, <1>2, <1>3 DEF Fits, ToldIn, AnsweredIn, Signed
<1>5. OnlyAbout(dispatched, dispatched', c) /\ OnlyAbout(approvals, approvals', c)
  BY <1>3 DEF OnlyAbout
<1>6. Tables'
  BY <1>1, <1>3 DEF Tables, Bounded, Entries
<1>7. QED
  BY <1>4, <1>5, <1>6 DEF RowStep

-----------------------------------------------------------------------------
(* The rows.                                                               *)

LEMMA InitRows == Init => Rows
<1> SUFFICES ASSUME Init PROVE Rows
  OBVIOUS
<1>1. dispatched = <<>> /\ asked = <<>> /\ approvals = <<>> /\ DispatchCap \in Nat
  BY HostAdapterAssumption DEF Init
<1>2. Entries(<<>>) = {} /\ Bounded(<<>>)
  BY <1>1 DEF Entries, Bounded
<1>3. Tables
  BY <1>1, <1>2 DEF Tables
<1>4. \A c \in Call : call[c].stage = "new"
  BY DEF Init, At
<1>5. QED
  BY <1>1, <1>2, <1>3, <1>4 DEF Rows, Fits, ToldIn, AnsweredIn, Signed

LEMMA RowsStep ==
  ASSUME Calls, Rows, [Next]_vars
  PROVE  Rows'
<1>1. CASE \E c \in Call : CallStep(c)
  <2>1. PICK c \in Call : CallStep(c)
    BY <1>1
  <2>2. RowStep(c) /\ OthersStay(c)
    BY <2>1, AssessingFits, RefusingFits, AskFits, DecideFits, DispatchFits, ResultFits,
       CallStepLocal DEF CallStep, HostStep, Local
  <2>3. ASSUME NEW d \in Call
        PROVE  Fits(dispatched', approvals', d, call'[d])
    <3>1. CASE d = c
      BY <2>2, <3>1 DEF RowStep
    <3>2. CASE d # c
      <4>1. Fits(dispatched, approvals, d, call[d]) /\ call'[d] = call[d]
        BY <2>2, <3>2 DEF Rows, OthersStay
      <4>2. /\ \A entry \in Entries(dispatched') : entry.key = d => entry \in Entries(dispatched)
            /\ \A entry \in Entries(approvals') : entry.key = d => entry \in Entries(approvals)
        BY <2>2, <3>2 DEF RowStep, OnlyAbout
      <4>3. QED
        BY <4>1, <4>2 DEF Fits, ToldIn, AnsweredIn
    <3>3. QED
      BY <3>1, <3>2
  <2>4. QED
    BY <2>2, <2>3 DEF RowStep, Rows, Fits, ToldIn, AnsweredIn, Signed, Entries
<1>2. CASE Elsewhere \/ UNCHANGED vars
  <2>1. UNCHANGED <<call, dispatched, asked, approvals>>
    BY <1>2 DEF Elsewhere, PreStep, Assemble, Close, vars
  <2>2. QED
    BY <2>1 DEF Rows, Tables, Bounded, Fits, ToldIn, AnsweredIn, Signed, Entries
<1>3. QED
  BY <1>1, <1>2, NextSplit

LEMMA RowsInvariant == Spec => [](Calls /\ Rows)
<1>1. Calls /\ Rows /\ [Next]_vars => Rows'
  BY RowsStep
<1>2. QED
  BY InitRows, CallsInvariant, <1>1, PTL DEF Spec

\* What tools/result writes, from the two tables.
LEMMA RowIsHonest ==
  ASSUME Calls, Rows, NEW c \in Call, Result(c)
  PROVE  LET told == call'[c].execution
         IN  /\ told \in Refusals => call[c].stage = "refused"
             /\ told = "succeeded" => call[c].stage = "running"
             /\ told = "failed" =>
                  \/ call[c].stage = "running"
                  \/ call[c].by \in {"guard", "host"}
                  \/ call[c].by = "approval" /\ ~Has(approvals, c)
<1> DEFINE told == call'[c].execution
<1>1. /\ Function /\ Tables /\ Fits(dispatched, approvals, c, call[c])
      /\ call[c].stage \in {"running", "refused"}
  BY DEF Calls, Rows, Result
<1>2. PICK isError \in BOOLEAN :
        /\ call[c].stage = "refused" => isError
        /\ \/ ExecutionRow(c, isError)
           \/ call' = [call EXCEPT ![c] = At("done")]
  BY Zenon DEF Result
<1>3. At("done").execution = None /\ \A e : [At("done") EXCEPT !.execution = e].execution = e
  BY DEF At
<1>4. CASE call' = [call EXCEPT ![c] = At("done")]
  <2>1. told = None
    BY <1>1, <1>3, <1>4, Changed
  <2>2. QED
    BY <2>1 DEF None, Refusals
<1>5. CASE Has(dispatched, c) /\ ExecutionRow(c, isError)
  <2> DEFINE refused == Lookup(dispatched, c)
             status  == IF refused = None THEN StatusOf(c, isError) ELSE refused
             outcome == IF Has(approvals, c) THEN Lookup(approvals, c) ELSE "allowed-once"
  <2>1. PICK execution \in {status, None} :
          call' = [call EXCEPT ![c] = [At("done") EXCEPT !.execution = execution]]
    BY <1>5, Zenon DEF ExecutionRow
  <2>2. told \in {status, None}
    <3> HIDE DEF status
    <3>1. told = execution
      BY <1>1, <1>3, <2>1, Changed
    <3>2. QED
      BY <2>1, <3>1
  <2>3. PICK entry \in Entries(dispatched) : entry.key = c /\ entry.value = refused
    BY <1>5, LookupFinds
  <2>4. /\ refused \in Said
        /\ refused # None => call[c].stage = "refused"
        /\ refused = None /\ call[c].stage = "refused" => call[c].by # "verdict"
    <3>1. entry.value \in Said
      BY <1>1, <2>3, EntriesTyped DEF Tables
    <3>2. QED
      BY <1>1, <2>3, <3>1 DEF Fits, ToldIn
  <2>5. /\ outcome \in Outcomes
        /\ outcome # "allowed-once" => call[c].stage = "refused"
        /\ Has(approvals, c) /\ call[c].stage = "refused" /\ call[c].by = "approval" =>
             outcome # "allowed-once"
    <3>1. CASE Has(approvals, c)
      <4>1. PICK answer \in Entries(approvals) : answer.key = c /\ answer.value = outcome
        BY <3>1, LookupFinds
      <4>2. answer.value \in Outcomes
        BY <1>1, <4>1, EntriesTyped DEF Tables
      <4>3. QED
        BY <1>1, <4>1, <4>2 DEF Fits, AnsweredIn
    <3>2. CASE ~Has(approvals, c)
      BY <3>2 DEF Outcomes
    <3>3. QED
      BY <3>1, <3>2
  <2>6. StatusOf(c, isError) =
          IF outcome = "allowed-once" THEN IF isError THEN "failed" ELSE "succeeded"
          ELSE IF outcome = "cancelled" THEN "cancelled" ELSE "denied-by-host"
    <3>1. StatusOf(c, isError) =
            CASE outcome = "allowed-once" -> IF isError THEN "failed" ELSE "succeeded"
              [] outcome = "cancelled"    -> "cancelled"
              [] OTHER                    -> "denied-by-host"
      BY DEF StatusOf
    <3> HIDE DEF outcome
    <3>2. QED
      BY <3>1
  <2>7. call[c].stage = "refused" => call[c].by \in {"host", "verdict", "approval", "guard"}
    BY <1>1 DEF Fits, Signed
  <2> HIDE DEF refused, outcome
  <2>8. CASE refused # None
    <3>1. told \in {refused, None}
      BY <2>2, <2>8
    <3>2. QED
      BY <2>4, <2>8, <3>1 DEF Said, Refusals, None
  <2>9. CASE refused = None
    <3>1. told \in {StatusOf(c, isError), None}
      BY <2>2, <2>9
    <3> HIDE DEF told, status
    <3>2. CASE told = None
      BY <3>2 DEF None, Refusals, told
    <3>3. CASE told = StatusOf(c, isError) /\ outcome # "allowed-once"
      <4>1. told \in Refusals
        BY <2>6, <3>3 DEF Refusals
      <4>2. QED
        BY <2>5, <3>3, <4>1 DEF told, Refusals
    <3>4. CASE told = StatusOf(c, isError) /\ outcome = "allowed-once"
      <4>1. told = IF isError THEN "failed" ELSE "succeeded"
        BY <2>6, <3>4
      <4>2. ~isError => call[c].stage = "running"
        BY <1>1, <1>2
      <4>3. isError => \/ call[c].stage = "running"
                       \/ call[c].by \in {"guard", "host"}
                       \/ call[c].by = "approval" /\ ~Has(approvals, c)
        BY <1>1, <2>4, <2>5, <2>7, <2>9, <3>4
      <4>4. QED
        BY <1>2, <4>1, <4>2, <4>3 DEF told, Refusals
    <3>5. QED
      BY <3>1, <3>2, <3>3, <3>4
  <2>10. QED
    BY <2>8, <2>9
<1>6. ExecutionRow(c, isError) => Has(dispatched, c) \/ call' = [call EXCEPT ![c] = At("done")]
  BY Zenon DEF ExecutionRow
<1>7. QED
  BY <1>2, <1>4, <1>5, <1>6

\* The execution row of a call tells what happened to it, through any interleaving of
\* verdicts, approvals and results, and however many entries the capped tables have
\* dropped (jey-plugin.ts: executionStatusOf, refusalOf, remember): what it says of a
\* failure is about verdicts and approvals, not about refusals by a guard or the host.
THEOREM RowsTellTheTruth == Spec => RowsAreHonest
<1>1. ASSUME Calls, Rows, [Next]_vars, NEW c \in Call, Settles(c)
      PROVE  LET told == call'[c].execution
             IN  /\ told \in Refusals => call[c].stage = "refused"
                 /\ told = "succeeded" => call[c].stage = "running"
                 /\ told = "failed" =>
                      \/ call[c].stage = "running"
                      \/ call[c].by \in {"guard", "host"}
                      \/ call[c].by = "approval" /\ ~Has(approvals, c)
  <2>1. CallStep(c)
    BY <1>1, StepOf DEF Settles
  <2>2. Result(c)
    BY <1>1, <2>1, PreExecuted, Probed, Answered, HostStepped DEF CallStep, Settles
  <2>3. QED
    BY <1>1, <2>2, RowIsHonest
<1>2. Calls /\ Rows /\ [Next]_vars =>
        [\A c \in Call :
           Settles(c) =>
             LET told == call'[c].execution
             IN  /\ told \in Refusals => call[c].stage = "refused"
                 /\ told = "succeeded" => call[c].stage = "running"
                 /\ told = "failed" =>
                      \/ call[c].stage = "running"
                      \/ call[c].by \in {"guard", "host"}
                      \/ call[c].by = "approval" /\ ~Has(approvals, c)]_vars
  BY <1>1
<1>3. QED
  BY <1>2, RowsInvariant, PTL DEF RowsAreHonest, Spec

\* No side table outgrows its cap, whatever is refused, dropped or never settles
\* (jey-plugin.ts: remember).
THEOREM SideTablesBounded == Spec => [](Bounded(dispatched) /\ Bounded(asked) /\ Bounded(approvals))
<1>1. Rows => Bounded(dispatched) /\ Bounded(asked) /\ Bounded(approvals)
  BY DEF Rows, Tables
<1>2. QED
  BY <1>1, RowsInvariant, PTL

=============================================================================
