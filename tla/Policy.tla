-------------------------------- MODULE Policy --------------------------------
(***************************************************************************)
(* The policy tables of packages/core/src/policy.ts: what the host's own   *)
(* decision, the three assessment answers and the circumstances of a call  *)
(* become.  The functions are pure; the variable holds the facts of one    *)
(* tool call, and the actions are the ways those facts get worse while it  *)
(* is being assessed, so that decisions about the same call before and     *)
(* after can be compared.                                                  *)
(***************************************************************************)
EXTENDS Integers

CONSTANTS
  Top,                \* a probability is a natural number up to Top
  Report,             \* the Boolean answers a provider may give: [raw, fitted]
  DefaultThresholds,  \* [conflictAsk, conflictDeny, goal, evidence]
  FittedThresholds    \* the same, from the operator's calibration block

Score     == 0..Top
Threshold == {"conflictAsk", "conflictDeny", "goal", "evidence"}

\* A number that is not a probability, and a calibrated value that is not there
\* (also: raw, or fitted under another calibration id).
Invalid == -1
Absent  == -2

ASSUME PolicyAssumption ==
  /\ Top \in Nat
  /\ Report \in SUBSET [raw : Score \cup {Invalid}, fitted : Score \cup {Invalid, Absent}]
  /\ DefaultThresholds \in [Threshold -> Nat]
  /\ FittedThresholds \in [Threshold -> Nat]

VARIABLE call  \* the facts of the call under assessment

Question == {"advances-goal", "evidence-sufficient", "conflicts-with-constraint"}
Rank     == [allow |-> 0, ask |-> 1, deny |-> 2, cancel |-> 3]
Decision == DOMAIN Rank

\* Everything that is not exactly one answered Boolean for the question: an
\* answer of another kind, or none (missing, repeated, error, abstained).
Unanswered == {"wrong-kind", "none"}

Answer ==
  {[kind |-> "boolean", raw |-> r.raw, fitted |-> r.fitted] : r \in Report}
    \cup [kind : Unanswered, raw : {Invalid}, fitted : {Absent}]

PolicyInput ==
  [mode : {"off", "shadow", "enforce"},
   host : Decision,
   answers : [Question -> Answer],
   fresh : BOOLEAN,      \* the snapshot has not moved since it was captured
   channel : BOOLEAN,    \* somebody can be asked for an approval
   fittedFor : BOOLEAN,  \* a calibration for this model, template and task
   hardRule : BOOLEAN,   \* a deterministic rule is violated
   cancelled : BOOLEAN]  \* the user cancelled

-----------------------------------------------------------------------------
(* Reading the answers.                                                    *)

\* The calibration is about this response: some Boolean was answered, and all
\* of them carry a value fitted under it.
CalibrationApplies(c) ==
  LET answered == {q \in Question : c.answers[q].kind = "boolean"}
  IN  /\ c.fittedFor
      /\ answered # {}
      /\ \A q \in answered : c.answers[q].fitted # Absent

Value(c, q) == IF CalibrationApplies(c) THEN c.answers[q].fitted ELSE c.answers[q].raw

Limit(c, t) == IF CalibrationApplies(c) THEN FittedThresholds[t] ELSE DefaultThresholds[t]

\* Mutant: only outcomes that say so themselves are unusable; an answer of the
\* wrong kind leaves every threshold untested.
UnusableByStatus(c) ==
  {q \in Question : c.answers[q].kind = "none"}

Unusable(c) ==
  {q \in Question : c.answers[q].kind # "boolean" \/ Value(c, q) \notin Score}

AtOrAbove(c, q, t) == Value(c, q) \in Score /\ Value(c, q) >= Limit(c, t)
Below(c, q, t)     == Value(c, q) \in Score /\ Value(c, q) < Limit(c, t)

\* Some answer is a reason to withhold the call until somebody confirms it.
Concern(c) ==
  \/ AtOrAbove(c, "conflicts-with-constraint", "conflictAsk")
  \/ Below(c, "advances-goal", "goal")
  \/ Below(c, "evidence-sufficient", "evidence")

-----------------------------------------------------------------------------
(* Table 2: what the layer wants.                                          *)

\* Mutant: with nobody to ask, the layer has nothing to add.
EscalateOrAbstain(c) == IF c.channel THEN "ask" ELSE "abstain"

Escalate(c) == IF c.channel THEN "ask" ELSE "deny"

\* Mutant: any score at the deny threshold denies, calibrated or not.
ActionUncalibrated(c) ==
  IF c.cancelled THEN "cancel"
  ELSE IF c.hardRule THEN "deny"
  ELSE IF Unusable(c) # {} \/ ~c.fresh THEN Escalate(c)
  ELSE IF AtOrAbove(c, "conflicts-with-constraint", "conflictDeny") THEN "deny"
  ELSE IF Concern(c) THEN Escalate(c)
  ELSE "abstain"

\* Mutant: an off-track goal is looked at before the calibrated denial.
ActionGoalFirst(c) ==
  IF c.cancelled THEN "cancel"
  ELSE IF c.hardRule THEN "deny"
  ELSE IF Unusable(c) # {} \/ ~c.fresh \/ Below(c, "advances-goal", "goal") THEN Escalate(c)
  ELSE IF /\ CalibrationApplies(c)
          /\ AtOrAbove(c, "conflicts-with-constraint", "conflictDeny") THEN "deny"
  ELSE IF Concern(c) THEN Escalate(c)
  ELSE "abstain"

Action(c) ==
  IF c.cancelled THEN "cancel"
  ELSE IF c.hardRule THEN "deny"
  ELSE IF Unusable(c) # {} \/ ~c.fresh THEN Escalate(c)
  ELSE IF /\ CalibrationApplies(c)
          /\ AtOrAbove(c, "conflicts-with-constraint", "conflictDeny") THEN "deny"
  ELSE IF Concern(c) THEN Escalate(c)
  ELSE "abstain"

-----------------------------------------------------------------------------
(* Table 1, and the mode.                                                  *)

\* Mutant: the layer's verdict replaces whatever the host had decided.
CombineReplaces(host, action) == IF action = "abstain" THEN host ELSE action

Combine(host, action) ==
  IF host \in {"cancel", "deny"} \/ action = "abstain" THEN host ELSE action

Evaluate(c) ==
  IF c.mode = "enforce" THEN Combine(c.host, Action(c)) ELSE c.host

-----------------------------------------------------------------------------
(* The facts of a call, and how they change while it is assessed.          *)

Init == call \in PolicyInput

AnswerFails(q) ==
  \E a \in Answer :
    /\ a.kind \in Unanswered
    /\ call' = [call EXCEPT !.answers[q] = a]

SnapshotMoves == call.fresh /\ call' = [call EXCEPT !.fresh = FALSE]
ChannelGoes   == call.channel /\ call' = [call EXCEPT !.channel = FALSE]
RuleTrips     == ~call.hardRule /\ call' = [call EXCEPT !.hardRule = TRUE]
UserCancels   == ~call.cancelled /\ call' = [call EXCEPT !.cancelled = TRUE]

\* The provider's answer to q is a worse one: more conflict, less progress,
\* less evidence.
AnswerWorsens(q) ==
  \E a \in Answer :
    LET old == call.answers[q]
        Worse(x, y) == IF q = "conflicts-with-constraint" THEN x >= y ELSE x <= y
    IN  /\ a.kind = "boolean" /\ old.kind = "boolean"
        /\ a.raw \in Score /\ old.raw \in Score /\ Worse(a.raw, old.raw)
        /\ \/ a.fitted = old.fitted
           \/ a.fitted \in Score /\ old.fitted \in Score /\ Worse(a.fitted, old.fitted)
        /\ call' = [call EXCEPT !.answers[q] = a]

Next ==
  \/ \E q \in Question : AnswerFails(q) \/ AnswerWorsens(q)
  \/ SnapshotMoves \/ ChannelGoes \/ RuleTrips \/ UserCancels

Spec == Init /\ [][Next]_call

-----------------------------------------------------------------------------
(* Properties.                                                             *)

\* The facts are facts, and the layer's verdict is a host decision.
TypeOK ==
  /\ call \in PolicyInput
  /\ Evaluate(call) \in Decision

\* The layer never widens a permission: what reaches the host withholds at
\* least as much as the host's own decision (policy.ts: combineHostAndJey).
NeverWidens == Rank[Evaluate(call)] >= Rank[call.host]

\* The check could not be made, or was made about a state that has moved.
Unmade(c) == ~c.fresh \/ \E q \in Question : c.answers[q].kind # "boolean"

\* Enforcing, a check that could not be made or was made about a state that has
\* moved is never a pass, whatever the other answers say (policy.ts: decide).
FailureIsNeverAPass ==
  (call.mode = "enforce" /\ Unmade(call)) => Evaluate(call) # "allow"

\* A probability denies work only when every answered Boolean was fitted and the
\* fitted conflict reaches the fitted threshold; any other denial comes from the
\* host, a hard rule, or having nobody to ask (policy.ts: decide, escalate,
\* calibrationApplies).
DenialIsJustified ==
  Evaluate(call) = "deny" =>
    \/ call.host = "deny"
    \/ call.hardRule
    \/ ~call.channel
    \/ /\ call.fittedFor
       /\ \A q \in Question : call.answers[q].fitted \in Score
       /\ call.answers["conflicts-with-constraint"].fitted >= FittedThresholds.conflictDeny

WorseEvidence == \E q \in Question : AnswerWorsens(q)
NoLessStrict  == Rank[Evaluate(call')] >= Rank[Evaluate(call)]
StaysWithheld == Evaluate(call) # "allow" => Evaluate(call') # "allow"

\* Worse evidence never relaxes the verdict, not even from deny to ask: the
\* checks are ordered so that no lesser concern hides a greater one.
WorseEvidenceNeverRelaxes == [][WorseEvidence => NoLessStrict]_call

\* A call that was withheld stays withheld when checks fail, the snapshot moves,
\* the approval channel goes, or a rule trips while it is being assessed.  (Its
\* rank may drop: a calibrated deny becomes an ask when another answer is lost.)
TroubleNeverLifts == [][StaysWithheld]_call
=============================================================================
