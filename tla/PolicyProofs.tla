----------------------------- MODULE PolicyProofs -----------------------------
(***************************************************************************)
(* Proofs about Policy, for every probability scale, every set of reports  *)
(* a provider may give and every choice of thresholds.  The invariant is   *)
(* that the facts are facts; everything else follows from the tables.      *)
(***************************************************************************)
EXTENDS Policy, TLAPS

\* The facts of a call stay facts: the inductive invariant.
CallOK == call \in PolicyInput

\* Every call the specification looks at is a record of the declared types.
LEMMA CallType == Spec => []CallOK
<1>1. Init => CallOK
  BY DEF Init, CallOK
<1>2. CallOK /\ [Next]_call => CallOK'
  <2> SUFFICES ASSUME call \in PolicyInput, [Next]_call PROVE call' \in PolicyInput
    BY DEF CallOK
  <2>1. ASSUME NEW q \in Question, NEW a \in Answer, call' = [call EXCEPT !.answers[q] = a]
        PROVE  call' \in PolicyInput
    BY <2>1 DEF PolicyInput
  <2>2. ASSUME NEW q \in Question, AnswerFails(q) \/ AnswerWorsens(q) PROVE call' \in PolicyInput
    BY <2>1, <2>2 DEF AnswerFails, AnswerWorsens
  <2>3. CASE SnapshotMoves \/ ChannelGoes \/ RuleTrips \/ UserCancels
    BY <2>3 DEF SnapshotMoves, ChannelGoes, RuleTrips, UserCancels, PolicyInput
  <2>4. QED
    BY <2>2, <2>3 DEF Next
<1>3. QED
  BY <1>1, <1>2, PTL DEF Spec

\* The layer has four verdicts; "allow" is not one of them.
LEMMA ActionType ==
  ASSUME NEW c
  PROVE  /\ Action(c) \in {"abstain", "ask", "deny", "cancel"}
         /\ Escalate(c) \in {"ask", "deny"}
BY DEF Action, Escalate

\* Table 1, cell by cell: the result is a decision, at least as strict as the
\* host's, and stricter than allow whenever the layer wants a restriction.
LEMMA CombineTable ==
  ASSUME NEW host \in Decision, NEW act \in {"abstain", "ask", "deny", "cancel"}
  PROVE  /\ Combine(host, act) \in Decision
         /\ Rank[Combine(host, act)] \in Nat /\ Rank[host] \in Nat
         /\ Rank[Combine(host, act)] >= Rank[host]
         /\ act # "abstain" => Combine(host, act) # "allow"
         /\ act = "abstain" => Combine(host, act) = host
BY DEF Combine, Decision, Rank

\* The combined verdict is one of the decisions of the host.
LEMMA EvaluateType ==
  ASSUME NEW c \in PolicyInput
  PROVE  /\ Evaluate(c) \in Decision
         /\ Rank[Evaluate(c)] >= Rank[c.host]
<1>1. c.host \in Decision
  BY DEF PolicyInput
<1>2. Rank[c.host] \in Nat /\ Rank[c.host] >= Rank[c.host]
  BY <1>1 DEF Decision, Rank
<1>3. QED
  BY <1>1, <1>2, ActionType, CombineTable DEF Evaluate

\* Every verdict is a host decision.
THEOREM TypeCorrect == Spec => []TypeOK
<1>1. CallOK => TypeOK
  BY EvaluateType DEF CallOK, TypeOK
<1>2. QED
  BY <1>1, CallType, PTL

\* "AI never widens permissions": for all inputs, whatever the thresholds and the
\* answers, the verdict is at least as strict as the host's own decision.
THEOREM NeverWidensHolds == Spec => []NeverWidens
<1>1. CallOK => NeverWidens
  BY EvaluateType DEF CallOK, NeverWidens
<1>2. QED
  BY <1>1, CallType, PTL

\* An unanswered question is unusable under either reading of the answers.
LEMMA UnansweredUnusable ==
  ASSUME NEW c \in PolicyInput, NEW q \in Question, c.answers[q].kind # "boolean"
  PROVE  Unusable(c) # {}
BY DEF Unusable

\* Enforcing, a check that was not made, or was made about a superseded state,
\* always withholds the call (policy.ts: decide).
THEOREM FailureIsNeverAPassHolds == Spec => []FailureIsNeverAPass
<1>1. CallOK => FailureIsNeverAPass
  <2> SUFFICES ASSUME call \in PolicyInput, call.mode = "enforce", Unmade(call)
               PROVE  Evaluate(call) # "allow"
    BY DEF FailureIsNeverAPass, CallOK
  <2>1. Unusable(call) # {} \/ ~call.fresh
    BY UnansweredUnusable DEF Unmade
  <2>2. Action(call) # "abstain"
    BY <2>1, ActionType DEF Action
  <2>3. call.host \in Decision
    BY DEF PolicyInput
  <2>4. QED
    BY <2>2, <2>3, ActionType, CombineTable DEF Evaluate
<1>2. QED
  BY <1>1, CallType, PTL

\* A denial that the layer adds to a host that would not deny, with an approval
\* channel and no hard rule, rests on a fitted conflict value and nothing else.
THEOREM DenialIsJustifiedHolds == Spec => []DenialIsJustified
<1>1. CallOK => DenialIsJustified
  <2> SUFFICES ASSUME call \in PolicyInput, Evaluate(call) = "deny",
                      call.host # "deny", ~call.hardRule, call.channel
               PROVE  /\ call.fittedFor
                      /\ \A q \in Question : call.answers[q].fitted \in Score
                      /\ call.answers["conflicts-with-constraint"].fitted
                           >= FittedThresholds.conflictDeny
    BY DEF DenialIsJustified, CallOK, PolicyInput
  <2>1. call.host \in Decision /\ Action(call) = "deny"
    BY ActionType DEF Evaluate, Combine, PolicyInput
  <2>2. Escalate(call) = "ask"
    BY DEF Escalate
  <2>3. /\ Unusable(call) = {}
        /\ CalibrationApplies(call)
        /\ AtOrAbove(call, "conflicts-with-constraint", "conflictDeny")
    BY <2>1, <2>2 DEF Action
  <2>4. \A q \in Question : call.answers[q].fitted \in Score
    BY <2>3 DEF Unusable, Value
  <2>5. QED
    BY <2>3, <2>4 DEF AtOrAbove, Value, Limit, CalibrationApplies
<1>2. QED
  BY <1>1, CallType, PTL

-----------------------------------------------------------------------------
(* Two verdicts on the same call, before and after its facts got worse.    *)

\* A restriction wanted is a restriction applied, and nothing else withholds.
LEMMA WithheldTable ==
  ASSUME NEW c \in PolicyInput
  PROVE  Evaluate(c) # "allow" <=>
           c.host # "allow" \/ (c.mode = "enforce" /\ Action(c) # "abstain")
<1>1. c.host \in Decision
  BY DEF PolicyInput
<1>2. QED
  BY <1>1, ActionType DEF Evaluate, Combine, Decision, Rank

\* When the layer wants something.
LEMMA ActionTable ==
  ASSUME NEW c
  PROVE  Action(c) # "abstain" <=>
           \/ c.cancelled \/ c.hardRule \/ Unusable(c) # {} \/ ~c.fresh
           \/ CalibrationApplies(c) /\ AtOrAbove(c, "conflicts-with-constraint", "conflictDeny")
           \/ Concern(c)
BY DEF Action, Escalate

\* Worse answers of a call keep its calibration and its unusable answers, and
\* bring every score nearer to every threshold.
LEMMA WorseAnswer ==
  ASSUME call \in PolicyInput, NEW q \in Question, AnswerWorsens(q)
  PROVE  /\ call' \in PolicyInput
         /\ CalibrationApplies(call') <=> CalibrationApplies(call)
         /\ Unusable(call') # {} <=> Unusable(call) # {}
         /\ \A t : Limit(call', t) = Limit(call, t)
         /\ \A t \in Threshold :
              /\ AtOrAbove(call, "conflicts-with-constraint", t) =>
                   AtOrAbove(call', "conflicts-with-constraint", t)
              /\ \A p \in {"advances-goal", "evidence-sufficient"} :
                   Below(call, p, t) => Below(call', p, t)
<1>1. PICK a \in Answer :
        /\ a.kind = "boolean" /\ call.answers[q].kind = "boolean"
        /\ a.raw \in Score /\ call.answers[q].raw \in Score
        /\ IF q = "conflicts-with-constraint" THEN a.raw >= call.answers[q].raw
                                              ELSE a.raw <= call.answers[q].raw
        /\ \/ a.fitted = call.answers[q].fitted
           \/ /\ a.fitted \in Score /\ call.answers[q].fitted \in Score
              /\ IF q = "conflicts-with-constraint" THEN a.fitted >= call.answers[q].fitted
                                                    ELSE a.fitted <= call.answers[q].fitted
        /\ call' = [call EXCEPT !.answers[q] = a]
  BY DEF AnswerWorsens
<1>2. /\ call' \in PolicyInput
      /\ call'.answers = [call.answers EXCEPT ![q] = a]
      /\ call'.fittedFor = call.fittedFor
  BY <1>1 DEF PolicyInput
<1>3. /\ \A p \in Question : call'.answers[p].kind = call.answers[p].kind
      /\ \A p \in Question : call'.answers[p].fitted = Absent <=> call.answers[p].fitted = Absent
  BY <1>1, <1>2 DEF PolicyInput, Score, Absent
<1>4. CalibrationApplies(call') <=> CalibrationApplies(call)
  BY <1>2, <1>3 DEF CalibrationApplies
<1>5. \A t : Limit(call', t) = Limit(call, t)
  BY <1>4 DEF Limit
<1>6. \A p \in Question \ {q} : Value(call', p) = Value(call, p)
  BY <1>2, <1>4 DEF Value, PolicyInput
<1>7. /\ Value(call', q) \in Score <=> Value(call, q) \in Score
      /\ Value(call, q) \in Score =>
           IF q = "conflicts-with-constraint" THEN Value(call', q) >= Value(call, q)
                                              ELSE Value(call', q) <= Value(call, q)
  BY <1>1, <1>2, <1>4 DEF Value, PolicyInput, Score
<1>8. Unusable(call') # {} <=> Unusable(call) # {}
  BY <1>3, <1>6, <1>7 DEF Unusable
<1>9. ASSUME NEW t \in Threshold PROVE Limit(call, t) \in Nat
  BY PolicyAssumption DEF Limit
<1>10. \A t \in Threshold :
         /\ AtOrAbove(call, "conflicts-with-constraint", t) =>
              AtOrAbove(call', "conflicts-with-constraint", t)
         /\ \A p \in {"advances-goal", "evidence-sufficient"} :
              Below(call, p, t) => Below(call', p, t)
  BY <1>5, <1>6, <1>7, <1>9, PolicyAssumption DEF AtOrAbove, Below, Question, Score
<1>11. QED
  BY <1>2, <1>4, <1>5, <1>8, <1>10
\* Strictness of a verdict before Table 1, and that Table 1 respects it.
Wants == [abstain |-> 0, ask |-> 1, deny |-> 2, cancel |-> 3]

\* Wanting more never yields a less strict decision, whatever the host decided.
LEMMA CombineMonotone ==
  ASSUME NEW host \in Decision, NEW a \in DOMAIN Wants, NEW b \in DOMAIN Wants,
         Wants[a] <= Wants[b]
  PROVE  Rank[Combine(host, b)] >= Rank[Combine(host, a)]
BY DEF Combine, Decision, Rank, Wants

\* Worse evidence never relaxes the verdict, for any scale and any thresholds
\* (policy.ts: the order of the checks in decide).
THEOREM WorseEvidenceHolds == Spec => WorseEvidenceNeverRelaxes
<1>1. CallOK /\ [Next]_call => [WorseEvidence => NoLessStrict]_call
  <2> SUFFICES ASSUME call \in PolicyInput, NEW q \in Question, AnswerWorsens(q) PROVE NoLessStrict
    BY DEF CallOK, WorseEvidence
  <2>1. /\ call' \in PolicyInput
        /\ CalibrationApplies(call') <=> CalibrationApplies(call)
        /\ Unusable(call') # {} <=> Unusable(call) # {}
        /\ AtOrAbove(call, "conflicts-with-constraint", "conflictDeny") =>
             AtOrAbove(call', "conflicts-with-constraint", "conflictDeny")
        /\ Concern(call) => Concern(call')
    BY WorseAnswer DEF Concern, Threshold
  <2>2. /\ call'.mode = call.mode /\ call'.host = call.host
        /\ call'.fresh = call.fresh /\ call'.channel = call.channel
        /\ call'.hardRule = call.hardRule /\ call'.cancelled = call.cancelled
    BY DEF AnswerWorsens, PolicyInput
  <2>3. Escalate(call') = Escalate(call)
    BY <2>2 DEF Escalate
  <2>4. Wants[Action(call)] <= Wants[Action(call')]
    BY <2>1, <2>2, <2>3, ActionType DEF Action, Wants
  <2>5. Action(call) \in DOMAIN Wants /\ Action(call') \in DOMAIN Wants /\ call.host \in Decision
    BY ActionType DEF Wants, PolicyInput
  <2>6. Rank[Combine(call.host, Action(call'))] >= Rank[Combine(call.host, Action(call))]
    BY <2>4, <2>5, CombineMonotone
  <2>7. Rank[call.host] >= Rank[call.host]
    BY <2>5 DEF Decision, Rank
  <2>8. QED
    BY <2>2, <2>6, <2>7 DEF NoLessStrict, Evaluate
<1>2. QED
  BY <1>1, CallType, PTL DEF Spec, WorseEvidenceNeverRelaxes

\* A withheld call stays withheld through every one of these changes, so no
\* failure during an assessment turns a restriction into a pass.
THEOREM TroubleNeverLiftsHolds == Spec => TroubleNeverLifts
<1>1. CallOK /\ [Next]_call => [StaysWithheld]_call
  <2> SUFFICES ASSUME call \in PolicyInput, Next PROVE StaysWithheld
    BY DEF CallOK
  <2>1. ASSUME call' \in PolicyInput, call'.host = call.host, call'.mode = call.mode,
               Action(call) # "abstain" => Action(call') # "abstain"
        PROVE  StaysWithheld
    BY <2>1, WithheldTable DEF StaysWithheld
  <2>2. ASSUME NEW q \in Question, AnswerFails(q) PROVE StaysWithheld
    <3>1. PICK a \in Answer : /\ a.kind \in Unanswered
                              /\ call' = [call EXCEPT !.answers[q] = a]
      BY <2>2 DEF AnswerFails
    <3>2. /\ call' \in PolicyInput /\ call'.host = call.host /\ call'.mode = call.mode
          /\ call'.answers[q].kind # "boolean"
      BY <3>1 DEF PolicyInput, Unanswered
    <3>3. Action(call') # "abstain"
      BY <3>2, UnansweredUnusable, ActionTable
    <3>4. QED
      BY <2>1, <3>2, <3>3
  <2>3. ASSUME NEW q \in Question, AnswerWorsens(q) PROVE StaysWithheld
    <3>1. /\ call' \in PolicyInput
          /\ CalibrationApplies(call') <=> CalibrationApplies(call)
          /\ Unusable(call') # {} <=> Unusable(call) # {}
          /\ AtOrAbove(call, "conflicts-with-constraint", "conflictDeny") =>
               AtOrAbove(call', "conflicts-with-constraint", "conflictDeny")
          /\ Concern(call) => Concern(call')
      BY <2>3, WorseAnswer DEF Concern, Threshold
    <3>2. /\ call'.mode = call.mode /\ call'.host = call.host /\ call'.fresh = call.fresh
          /\ call'.hardRule = call.hardRule /\ call'.cancelled = call.cancelled
      BY <2>3 DEF AnswerWorsens, PolicyInput
    <3>3. QED
      BY <2>1, <3>1, <3>2, ActionTable
  <2>4. CASE SnapshotMoves
    <3>1. /\ call' \in PolicyInput /\ call'.host = call.host /\ call'.mode = call.mode
          /\ ~call'.fresh
      BY <2>4 DEF SnapshotMoves, PolicyInput
    <3>2. QED
      BY <2>1, <3>1, ActionTable
  <2>5. CASE RuleTrips \/ UserCancels
    <3>1. /\ call' \in PolicyInput /\ call'.host = call.host /\ call'.mode = call.mode
          /\ call'.hardRule \/ call'.cancelled
      BY <2>5 DEF RuleTrips, UserCancels, PolicyInput
    <3>2. QED
      BY <2>1, <3>1, ActionTable
  <2>6. CASE ChannelGoes
    <3>1. /\ call' \in PolicyInput /\ call'.host = call.host /\ call'.mode = call.mode
          /\ call'.fresh = call.fresh /\ call'.answers = call.answers
          /\ call'.fittedFor = call.fittedFor
          /\ call'.hardRule = call.hardRule /\ call'.cancelled = call.cancelled
      BY <2>6 DEF ChannelGoes, PolicyInput
    <3>2. /\ CalibrationApplies(call') <=> CalibrationApplies(call)
          /\ \A q : Value(call', q) = Value(call, q)
          /\ \A t : Limit(call', t) = Limit(call, t)
      BY <3>1 DEF CalibrationApplies, Value, Limit
    <3>3. /\ Unusable(call') = Unusable(call)
          /\ \A q, t : /\ AtOrAbove(call', q, t) <=> AtOrAbove(call, q, t)
                       /\ Below(call', q, t) <=> Below(call, q, t)
      BY <3>1, <3>2 DEF Unusable, AtOrAbove, Below
    <3>4. QED
      BY <2>1, <3>1, <3>2, <3>3, ActionTable DEF Concern
  <2>7. QED
    BY <2>2, <2>3, <2>4, <2>5, <2>6 DEF Next
<1>2. QED
  BY <1>1, CallType, PTL DEF Spec, TroubleNeverLifts
=============================================================================
