----------------------------- MODULE ClientProofs -----------------------------
(***************************************************************************)
(* Proofs about ProviderClients, for every set of requests, weights and    *)
(* questions: its types, whom state is sent to, and that its steps are     *)
(* steps of ProviderCall.                                                  *)
(***************************************************************************)
EXTENDS ProviderClients, TLAPS

-----------------------------------------------------------------------------
(* Types.                                                                  *)

Passed == {"through", "fetching", "body"}

CallRecord == [pc : {"idle", "gated", "through", "fetching", "body", "settled"},
               aborted : BOOLEAN, expired : BOOLEAN, sent : BOOLEAN,
               to : Weights \cup {"nobody"}, result : Errors \cup {"ok", "foreign", "none"}]

\* The promise of one call is settled.
LEMMA SettledCall ==
  ASSUME NEW c \in CallRecord, NEW result \in Errors \cup {"ok"}
  PROVE  /\ Settled(c, result) \in CallRecord
         /\ Settled(c, result).pc = "settled" /\ Settled(c, result).result = result
         /\ Settled(c, result).sent = c.sent /\ Settled(c, result).aborted = c.aborted
         /\ Settled(c, result).to = c.to
  BY DEF Settled, CallRecord

LEMMA ReasonTyped ==
  ASSUME NEW q \in Req, NEW otherwise \in Errors \ {"TIMEOUT"}
  PROVE  /\ Reason(q, otherwise) \in Errors
         /\ Reason(q, otherwise) = "CANCELLED" => call[q].aborted \/ otherwise = "CANCELLED"
         /\ Reason(q, otherwise) = "TIMEOUT" => ~call[q].aborted
  BY DEF Reason, Errors

-----------------------------------------------------------------------------
(* The calls that a step settles.                                          *)

\* Every step either settles some calls with the same result, or opens, sends,
\* reads and aborts without settling any.
SettlesAll(Q, result) ==
  /\ Q \subseteq {q \in Req : call[q].pc # "settled"}
  /\ result \in Errors \cup {"ok"}
  /\ result = "ok" => \A q \in Q : call[q].pc = "body"
  /\ result = "CANCELLED" => \A q \in Q : call[q].aborted
  /\ result = "TIMEOUT" => \A q \in Q : call[q].pc \in {"gated", "through"} \/ ~call[q].aborted
  /\ call' = [q \in Req |-> IF q \in Q THEN Settled(call[q], result) ELSE call[q]]

LEMMA SettleOne ==
  ASSUME TypeOK, NEW q \in Req, call[q].pc # "settled", NEW result \in Errors \cup {"ok"},
         result = "ok" => call[q].pc = "body", result = "CANCELLED" => call[q].aborted,
         result = "TIMEOUT" => call[q].pc = "through" \/ ~call[q].aborted,
         Settle(q, result)
  PROVE  SettlesAll({q}, result)
  BY DEF SettlesAll, Settle, TypeOK

\* An answer that a client accepts becomes one to what was asked.
LEMMA AcceptedIsOwn ==
  ASSUME NEW q \in Req, NEW answer \in Answers, Accepted(q, answer)
  PROVE  Own(q, Returned(q, answer))
<1> DEFINE out == answer.outcomes
           given == Returned(q, answer).outcomes
<1>1. PICK n \in 0..MaxOutcomes : out \in [1..n -> Outcomes]
  BY DEF Answers
<1>2. IsInjective(IdOf(out)) /\ DOMAIN IdOf(out) = 1..n /\ \A i \in 1..n : IdOf(out)[i] = out[i].id
  BY <1>1 DEF Accepted, Binds, Mirrors, IdOf
<1>3. \A i, j \in 1..n : out[i].id = out[j].id => i = j
  BY <1>2 DEF IsInjective
<1>4. \A i \in 1..n : out[i] \in Outcomes
  BY <1>1
<1>5. CASE kind = "local"
  <2>1. Returned(q, answer) = answer /\ Binds(q, answer)
    BY <1>5 DEF Returned, Accepted
  <2>2. ASSUME NEW i \in 1..n
        PROVE  out[i] \in [id : Questions, form : {"fits", "error"}]
    BY <1>1, <1>4, <2>1, <2>2 DEF Binds, Outcomes
  <2>3. Range(out) \subseteq [id : Questions, form : {"fits", "error"}]
    BY <1>1, <2>2 DEF Range
  <2>4. QED
    BY <1>1, <1>3, <2>1, <2>3 DEF Binds, Own
<1>6. CASE kind # "local"
  <2>1. Mirrors(answer)
    BY <1>6 DEF Accepted
  <2>2. /\ Returned(q, answer).for = q /\ Returned(q, answer).fresh
        /\ DOMAIN given = 1..n
        /\ \A i \in 1..n : given[i] = IF out[i].form = "misfits" THEN [out[i] EXCEPT !.form = "error"] ELSE out[i]
    BY <1>1, <1>6 DEF Returned
  <2>3. ASSUME NEW i \in 1..n
        PROVE  given[i].id = out[i].id /\ given[i] \in [id : Questions, form : {"fits", "error"}]
    <3>1. out[i].id \in Questions
      BY <1>2, <2>1, <2>3 DEF Mirrors, Range
    <3>2. given[i] = IF out[i].form = "misfits" THEN [out[i] EXCEPT !.form = "error"] ELSE out[i]
      BY <2>2, <2>3
    <3>3. out[i] \in Outcomes
      BY <1>4, <2>3
    <3> HIDE DEF out, given
    <3>4. QED
      BY <3>1, <3>2, <3>3 DEF Outcomes
  <2>4. Range(given) \subseteq [id : Questions, form : {"fits", "error"}]
    BY <2>2, <2>3 DEF Range
  <2>5. \A i, j \in 1..n : given[i].id = given[j].id => i = j
    BY <1>3, <2>3
  <2> HIDE DEF given
  <2>6. QED
    BY <2>2, <2>4, <2>5 DEF Own, given
<1>7. QED
  BY <1>5, <1>6

\* The ends of a request that was sent or refused.
Ending(q) ==
  \/ Request(q) /\ call[q].aborted
  \/ RefuseUnsent(q) \/ FetchFails(q) \/ Redirected(q)
  \/ StatusRefuses(q) \/ BodyFails(q) \/ BodyRefuses(q) \/ Answered(q) \/ Interrupted(q)

LEMMA EndingSettles ==
  ASSUME TypeOK, NEW q \in Req, Ending(q)
  PROVE  call[q].pc \in Passed /\ UNCHANGED others /\ \E result : SettlesAll({q}, result)
<1>1. call[q].pc \in Passed /\ UNCHANGED others
  BY DEF Ending, RefuseUnsent, Request, FetchFails, Redirected, StatusRefuses, BodyFails,
         BodyRefuses, Answered, Interrupted, Reading, Passed
<1>2. CASE RefuseUnsent(q)
  <2>1. PICK error \in {"TIMEOUT", "AUTH", "INVALID_INPUT"} : Settle(q, error) /\ call[q].pc = "through"
    BY <1>2 DEF RefuseUnsent
  <2>2. QED
    BY <1>1, <2>1, SettleOne DEF Errors, Passed
<1>3. CASE Request(q) /\ call[q].aborted
  BY <1>1, <1>3, SettleOne DEF Request, Errors, Passed
<1>4. CASE FetchFails(q)
  <2>1. PICK error \in {"LOCAL_NOT_READY", "OVERLOADED"} : Settle(q, Reason(q, error))
    BY <1>4 DEF FetchFails
  <2>2. error \in Errors \ {"CANCELLED", "TIMEOUT"}
    BY <2>1 DEF Errors
  <2>3. QED
    BY <1>1, <2>1, <2>2, SettleOne, ReasonTyped DEF Passed, Errors
<1>5. CASE Redirected(q) \/ StatusRefuses(q)
  BY <1>1, <1>5, SettleOne DEF Redirected, StatusRefuses, Errors, Passed
<1>6. CASE BodyFails(q)
  <2>1. Settle(q, Reason(q, "INVALID_RESPONSE")) /\ "INVALID_RESPONSE" \in Errors
    BY <1>6 DEF BodyFails, Errors
  <2>2. QED
    BY <1>1, <2>1, SettleOne, ReasonTyped DEF Passed, Errors
<1>7. CASE BodyRefuses(q)
  <2>1. (Settle(q, Reason(q, "REFUSED")) \/ Settle(q, "REFUSED")) /\ "REFUSED" \in Errors
    BY <1>7 DEF BodyRefuses, Errors
  <2>2. QED
    BY <1>1, <2>1, SettleOne, ReasonTyped DEF Passed, Errors
<1>8. CASE Answered(q)
  <2>1. call[q].pc = "body"
    BY <1>8 DEF Answered
  <2>2. PICK result \in {"ok", "INVALID_RESPONSE"} : Settle(q, result)
    BY <1>8, AcceptedIsOwn DEF Answered
  <2>3. result \in Errors \cup {"ok"} /\ result \notin {"CANCELLED", "TIMEOUT"}
    BY <2>2 DEF Errors
  <2>4. QED
    BY <1>1, <2>1, <2>2, <2>3, SettleOne
<1>9. CASE Interrupted(q)
  <2>1. Settle(q, Reason(q, "none")) /\ (call[q].aborted \/ call[q].expired)
    BY <1>9 DEF Interrupted
  <2>2. /\ Reason(q, "none") \in Errors
        /\ Reason(q, "none") = "CANCELLED" => call[q].aborted
        /\ Reason(q, "none") = "TIMEOUT" => ~call[q].aborted
    BY <2>1 DEF Reason, Errors
  <2>3. QED
    BY <1>1, <2>1, <2>2, SettleOne DEF Passed, Errors
<1>10. QED
  BY <1>1, <1>2, <1>3, <1>4, <1>5, <1>6, <1>7, <1>8, <1>9 DEF Ending

\* A mismatch or a failed probe settles everybody who waits for the gate.
LEMMA GateSettles ==
  ASSUME TypeOK, GateRefuses \/ ProbeFails
  PROVE  \E error \in Errors \ {"CANCELLED"} : SettlesAll(Gated, error)
<1>1. Gated \subseteq {q \in Req : call[q].pc # "settled"}
  BY DEF Gated
<1>2. CASE GateRefuses
  <2>1. SettlesAll(Gated, "UNSUPPORTED_CAPABILITY") /\ "UNSUPPORTED_CAPABILITY" \in Errors
    BY <1>1, <1>2 DEF GateRefuses, SettlesAll, Errors, Gated
  <2>2. QED
    BY <2>1
<1>3. CASE ProbeFails
  <2>1. PICK error \in ProbeErrors : call' = [q \in Req |-> IF q \in Gated THEN Settled(call[q], error) ELSE call[q]]
    BY <1>3 DEF ProbeFails
  <2>2. error \in Errors \ {"CANCELLED"} /\ \A q \in Gated : call[q].pc = "gated"
    BY DEF ProbeErrors, Errors, Gated
  <2>3. SettlesAll(Gated, error)
    BY <1>1, <2>1, <2>2 DEF SettlesAll, Errors
  <2>4. QED
    BY <2>2, <2>3
<1>4. QED
  BY <1>2, <1>3

\* What is true of settled calls, and of the calls a settling step leaves alone.
LEMMA SettlesAllStep ==
  ASSUME TypeOK, NEW Q, NEW result, SettlesAll(Q, result)
  PROVE  /\ call' \in [Req -> CallRecord]
         /\ \A q \in Req \ Q : call'[q] = call[q]
         /\ \A q \in Req \cap Q : /\ call'[q].pc = "settled" /\ call'[q].result = result
                                  /\ call'[q].sent = call[q].sent /\ call'[q].to = call[q].to
                                  /\ call'[q].aborted = call[q].aborted
  BY SettledCall DEF SettlesAll, TypeOK, CallRecord

-----------------------------------------------------------------------------
(* The identity that state is sent to.                                     *)

\* Who has passed the gate did so on an identity that is known to be the
\* pinned one as long as the service has not been replaced; and after somebody
\* passed, the service is never asked again, so `replaced` is not reset.
GateInv ==
  /\ gate = "open" => probe = "none" /\ (replaced \/ service = Expected)
  /\ gate = "none" => probe = "none" \/ closed
  /\ probe \in Weights => replaced \/ service = probe

PassInv(q) ==
  /\ call[q].pc \in Passed \/ call[q].to # "nobody" =>
       probe = "none" /\ (gate = "open" \/ closed)
  /\ call[q].pc \in Passed => replaced \/ service = Expected
  /\ call[q].to # "nobody" => replaced \/ call[q].to = Expected

\* What a call has done so far, in terms of where it is.
StageInv(q) ==
  /\ call[q].pc \in {"idle", "gated", "through"} => ~call[q].sent /\ call[q].to = "nobody"
  /\ call[q].pc \in {"fetching", "body"} => call[q].sent
  /\ call[q].pc # "settled" => call[q].result = "none"

IInv ==
  /\ TypeOK
  /\ \A q \in Req : StageInv(q)
  /\ kind = "local" => GateInv /\ \A q \in Req : PassInv(q)

LEMMA InitIInv == Init => IInv
<1>1. SUFFICES ASSUME Init PROVE IInv
  OBVIOUS
<1>2. NewCall \in CallRecord
  BY DEF NewCall, CallRecord
<1>3. TypeOK
  BY <1>1, <1>2 DEF Init, TypeOK, CallRecord
<1>4. QED
  BY <1>1, <1>3, ProviderClientsAssumption DEF Init, IInv, StageInv, GateInv, PassInv, NewCall, Passed

\* Settling calls that had passed, or that wait for the gate, keeps what is
\* known of the calls.
LEMMA SettlesAllKeeps ==
  ASSUME IInv, NEW Q, NEW result, SettlesAll(Q, result), NEW q \in Req
  PROVE  StageInv(q)'
<1>1. StageInv(q) /\ TypeOK
  BY DEF IInv
<1>2. QED
  BY <1>1, SettlesAllStep DEF StageInv

\* A step that settles calls and leaves gate, probe and service alone.
LEMMA SettlingKeeps ==
  ASSUME IInv, NEW Q, NEW result, SettlesAll(Q, result), UNCHANGED others
  PROVE  IInv'
<1>1. TypeOK'
  BY SettlesAllStep DEF IInv, TypeOK, CallRecord, others
<1>2. ASSUME NEW q \in Req, kind = "local"
      PROVE  PassInv(q)'
  <2>1. PassInv(q) /\ TypeOK
    BY <1>2 DEF IInv
  <2>2. QED
    BY <2>1, SettlesAllStep DEF PassInv, others, Passed
<1>3. QED
  BY <1>1, <1>2, SettlesAllKeeps DEF IInv, GateInv, others

\* A step that changes one call and not where it is, except to open it, send it
\* or read its headers.
LEMMA OneCallKeeps ==
  ASSUME IInv, NEW q \in Req, NEW c \in CallRecord, call' = [call EXCEPT ![q] = c],
         TypeOK', UNCHANGED others, StageInv(q)', kind = "local" => PassInv(q)'
  PROVE  IInv'
<1>1. ASSUME NEW p \in Req \ {q}
      PROVE  StageInv(p)' /\ (kind = "local" => PassInv(p)')
  <2>1. call'[p] = call[p] /\ StageInv(p) /\ (kind = "local" => PassInv(p))
    BY DEF IInv, TypeOK
  <2>2. QED
    BY <2>1 DEF StageInv, PassInv, others
<1>2. QED
  BY <1>1 DEF IInv, GateInv, others

\* Steps of one call that settle nothing.
Progressing(q) ==
  \/ Request(q) /\ ~call[q].aborted
  \/ EvaluateRemotely(q) \/ Reaches(q) \/ Headers(q) \/ Abort(q) \/ Expires(q)

LEMMA ProgressKeeps ==
  ASSUME IInv, NEW q \in Req, Progressing(q)
  PROVE  IInv'
<1>1. UNCHANGED others
  BY DEF Progressing, EvaluateRemotely, Request, Reaches, Headers, Abort, Expires
<1>2. call[q] \in CallRecord /\ StageInv(q) /\ (kind = "local" => PassInv(q)) /\ TypeOK
  BY DEF IInv, TypeOK, CallRecord
<1>3. ASSUME NEW c \in CallRecord, call' = [call EXCEPT ![q] = c]
      PROVE  TypeOK' /\ call'[q] = c
  BY <1>1, <1>2, <1>3 DEF TypeOK, CallRecord, others
<1>4. CASE EvaluateRemotely(q)
  <2> DEFINE c == [call[q] EXCEPT !.pc = "through"]
  <2>1. c \in CallRecord /\ call' = [call EXCEPT ![q] = c] /\ kind # "local"
    BY <1>2, <1>4 DEF EvaluateRemotely, CallRecord
  <2>2. StageInv(q)'
    BY <1>2, <1>3, <1>4, <2>1 DEF StageInv, EvaluateRemotely, CallRecord
  <2>3. QED
    BY <1>1, <1>3, <2>1, <2>2, OneCallKeeps
<1>5. CASE Request(q) /\ ~call[q].aborted
  <2> DEFINE c == [call[q] EXCEPT !.pc = "fetching", !.sent = TRUE]
  <2>1. c \in CallRecord /\ call' = [call EXCEPT ![q] = c] /\ call[q].pc = "through"
    BY <1>2, <1>5 DEF Request, CallRecord
  <2>2. StageInv(q)' /\ (kind = "local" => PassInv(q)')
    BY <1>1, <1>2, <1>3, <2>1 DEF StageInv, PassInv, CallRecord, Passed, others
  <2>3. QED
    BY <1>1, <1>3, <2>1, <2>2, OneCallKeeps
<1>6. CASE Reaches(q)
  <2> DEFINE c == [call[q] EXCEPT !.to = service]
  <2>1. c \in CallRecord /\ call' = [call EXCEPT ![q] = c] /\ call[q].pc = "fetching"
    BY <1>2, <1>6 DEF Reaches, CallRecord
  <2>2. StageInv(q)' /\ (kind = "local" => PassInv(q)')
    BY <1>1, <1>2, <1>3, <2>1 DEF StageInv, PassInv, CallRecord, Passed, others
  <2>3. QED
    BY <1>1, <1>3, <2>1, <2>2, OneCallKeeps
<1>7. CASE Headers(q)
  <2> DEFINE c == [call[q] EXCEPT !.pc = "body"]
  <2>1. c \in CallRecord /\ call' = [call EXCEPT ![q] = c] /\ call[q].pc = "fetching"
    BY <1>2, <1>7 DEF Headers, CallRecord
  <2>2. StageInv(q)' /\ (kind = "local" => PassInv(q)')
    BY <1>1, <1>2, <1>3, <2>1 DEF StageInv, PassInv, CallRecord, Passed, others
  <2>3. QED
    BY <1>1, <1>3, <2>1, <2>2, OneCallKeeps
<1>8. CASE Abort(q)
  <2> DEFINE c == [call[q] EXCEPT !.aborted = TRUE]
  <2>1. c \in CallRecord /\ call' = [call EXCEPT ![q] = c]
    BY <1>2, <1>8 DEF Abort, CallRecord
  <2>2. StageInv(q)' /\ (kind = "local" => PassInv(q)')
    BY <1>1, <1>2, <1>3, <2>1 DEF StageInv, PassInv, CallRecord, Passed, others
  <2>3. QED
    BY <1>1, <1>3, <2>1, <2>2, OneCallKeeps
<1>9. CASE Expires(q)
  <2> DEFINE c == [call[q] EXCEPT !.expired = TRUE]
  <2>1. c \in CallRecord /\ call' = [call EXCEPT ![q] = c]
    BY <1>2, <1>9 DEF Expires, CallRecord
  <2>2. StageInv(q)' /\ (kind = "local" => PassInv(q)')
    BY <1>1, <1>2, <1>3, <2>1 DEF StageInv, PassInv, CallRecord, Passed, others
  <2>3. QED
    BY <1>1, <1>3, <2>1, <2>2, OneCallKeeps
<1>10. QED
  BY <1>4, <1>5, <1>6, <1>7, <1>8, <1>9 DEF Progressing

\* evaluate() behind the gate: it passes at once, is refused at once, or waits.
LEMMA EvaluateKeeps ==
  ASSUME IInv, NEW q \in Req, Evaluate(q)
  PROVE  IInv'
<1>1. /\ call[q] \in CallRecord /\ StageInv(q) /\ PassInv(q) /\ TypeOK /\ GateInv
      /\ kind = "local" /\ ~closed /\ call[q].pc = "idle" /\ Checked
      /\ UNCHANGED <<kind, service, closed, replaced>>
  BY DEF Evaluate, IInv, TypeOK, CallRecord
<1>2. CASE gate = "refused"
  <2>1. Settle(q, "UNSUPPORTED_CAPABILITY") /\ UNCHANGED others
    BY <1>1, <1>2 DEF Evaluate, Checked, others
  <2>2. SettlesAll({q}, "UNSUPPORTED_CAPABILITY")
    BY <1>1, <2>1, SettleOne DEF Errors
  <2>3. QED
    BY <2>1, <2>2, SettlingKeeps
<1>3. CASE gate # "refused"
  <2> DEFINE c == [call[q] EXCEPT !.pc = IF gate = "open" THEN "through" ELSE "gated"]
  <2>1. c \in CallRecord /\ call' = [call EXCEPT ![q] = c]
    BY <1>1, <1>3 DEF Evaluate, CallRecord
  <2>2. call'[q] = c /\ \A p \in Req \ {q} : call'[p] = call[p]
    BY <1>1, <2>1 DEF TypeOK
  <2>3. TypeOK'
    BY <1>1, <2>1 DEF TypeOK, CallRecord, Checked
  <2>4. /\ gate' = IF gate = "none" THEN "pending" ELSE gate
        /\ probe' = IF gate = "none" THEN "asked" ELSE probe
    BY <1>1 DEF Checked
  <2>5. GateInv'
    BY <1>1, <2>4, ProviderClientsAssumption DEF GateInv
  <2>6. ASSUME NEW p \in Req
        PROVE  StageInv(p)' /\ PassInv(p)'
    <3>1. StageInv(p) /\ PassInv(p)
      BY <1>1 DEF IInv
    <3>2. CASE p = q
      BY <1>1, <2>1, <2>2, <2>4, <3>2 DEF StageInv, PassInv, GateInv, Passed, CallRecord
    <3>3. CASE p # q
      BY <1>1, <2>2, <2>4, <3>1, <3>3 DEF StageInv, PassInv
    <3>4. QED
      BY <3>2, <3>3
  <2>7. QED
    BY <2>3, <2>5, <2>6 DEF IInv
<1>4. QED
  BY <1>2, <1>3

\* The gate opens: everybody who waited goes on, on the identity that arrived.
LEMMA OpeningKeeps ==
  ASSUME IInv, GateOpens
  PROVE  IInv'
<1>1. TypeOK /\ probe = Expected /\ UNCHANGED <<kind, service, closed, replaced>> /\ probe' = "none"
  BY DEF GateOpens, Mismatch, IInv
<1>2. ASSUME NEW q \in Req
      PROVE  call'[q] = IF call[q].pc = "gated" THEN [call[q] EXCEPT !.pc = "through"] ELSE call[q]
  BY <1>2 DEF GateOpens, Gated
<1>3. ASSUME NEW q \in Req
      PROVE  /\ call'[q] \in CallRecord
             /\ call'[q].pc = IF call[q].pc = "gated" THEN "through" ELSE call[q].pc
             /\ call'[q].sent = call[q].sent /\ call'[q].to = call[q].to /\ call'[q].result = call[q].result
  <2>1. call[q] \in CallRecord
    BY <1>1 DEF TypeOK, CallRecord
  <2>2. CASE call[q].pc = "gated"
    <3>1. call'[q] = [call[q] EXCEPT !.pc = "through"]
      BY <1>2, <2>2
    <3>2. QED
      BY <2>1, <2>2, <3>1 DEF CallRecord
  <2>3. CASE call[q].pc # "gated"
    <3>1. call'[q] = call[q]
      BY <1>2, <2>3
    <3>2. QED
      BY <2>1, <2>3, <3>1
  <2>4. QED
    BY <2>2, <2>3
<1>4. TypeOK'
  <2>1. call' \in [Req -> CallRecord]
    BY <1>3 DEF GateOpens
  <2>2. QED
    BY <1>1, <2>1 DEF TypeOK, GateOpens, CallRecord
<1>5. ASSUME kind = "local"
      PROVE  GateInv'
  BY <1>1, <1>5, ProviderClientsAssumption DEF IInv, GateInv, GateOpens
<1>6. ASSUME NEW q \in Req
      PROVE  StageInv(q)' /\ (kind = "local" => PassInv(q)')
  <2>1. StageInv(q) /\ (kind = "local" => PassInv(q) /\ GateInv)
    BY <1>6 DEF IInv
  <2>2. probe # "none" /\ gate' = IF closed THEN gate ELSE "open"
    BY <1>1, ProviderClientsAssumption DEF GateOpens
  <2>3. StageInv(q)'
    BY <1>3, <1>6, <2>1 DEF StageInv
  <2>4. kind = "local" => replaced \/ service = Expected
    BY <1>1, <2>1, ProviderClientsAssumption DEF GateInv
  <2>5. kind = "local" => call[q].pc \notin Passed /\ call[q].to = "nobody"
    BY <2>1, <2>2 DEF PassInv
  <2>6. kind = "local" => PassInv(q)'
    BY <1>1, <1>3, <1>6, <2>2, <2>4, <2>5 DEF PassInv
  <2>7. QED
    BY <2>3, <2>6
<1>7. QED
  BY <1>1, <1>4, <1>5, <1>6 DEF IInv

\* A probe that ends without the pinned identity.
LEMMA GateKeeps ==
  ASSUME IInv, GateRefuses \/ ProbeFails
  PROVE  IInv'
<1>1. PICK error \in Errors \ {"CANCELLED"} : SettlesAll(Gated, error)
  BY GateSettles DEF IInv
<1>2. /\ TypeOK /\ UNCHANGED <<kind, service, closed, replaced>>
      /\ probe # "none" /\ probe' = "none" /\ gate' \in {gate, "refused", "none"}
      /\ gate' = "none" => gate = "none" \/ ProbeFails
  BY ProviderClientsAssumption DEF IInv, GateRefuses, ProbeFails
<1>3. TypeOK'
  BY <1>1, <1>2, SettlesAllStep DEF TypeOK, CallRecord
<1>4. ASSUME NEW q \in Req
      PROVE  StageInv(q)' /\ (kind = "local" => PassInv(q)')
  <2>1. StageInv(q)'
    BY <1>1, <1>4, SettlesAllKeeps
  <2>2. ASSUME kind = "local"
        PROVE  PassInv(q)'
    <3>1. PassInv(q) /\ call[q].pc \notin Passed /\ call[q].to = "nobody"
      BY <1>2, <1>4, <2>2 DEF IInv, PassInv
    <3>2. call'[q].pc \notin Passed /\ call'[q].to = "nobody"
      BY <1>1, <1>2, <1>4, <3>1, SettlesAllStep DEF Passed
    <3>3. QED
      BY <3>2 DEF PassInv
  <2>3. QED
    BY <2>1, <2>2
<1>5. kind = "local" => GateInv'
  BY <1>2, ProviderClientsAssumption DEF IInv, GateInv
<1>6. QED
  BY <1>2, <1>3, <1>4, <1>5 DEF IInv

\* The steps of the service, of its operator and of the owner.
LEMMA SurroundingsKeep ==
  ASSUME IInv, Capabilities \/ ServiceNames \/ ServiceChanges \/ Close
  PROVE  IInv'
<1>1. call' = call /\ kind' = kind /\ TypeOK
  BY DEF IInv, Capabilities, ServiceNames, ServiceChanges, Close
<1>2. TypeOK'
  BY <1>1 DEF TypeOK, Capabilities, Checked, ServiceNames, ServiceChanges, Close
<1>3. \A q \in Req : StageInv(q)'
  BY <1>1 DEF IInv, StageInv
<1>4. ASSUME kind = "local"
      PROVE  GateInv' /\ \A q \in Req : PassInv(q)'
  <2>1. GateInv /\ \A q \in Req : PassInv(q)
    BY <1>4 DEF IInv
  <2>2. CASE Capabilities
    BY <1>1, <2>1, <2>2, ProviderClientsAssumption DEF Capabilities, Checked, GateInv, PassInv
  <2>3. CASE ServiceNames
    BY <1>1, <2>1, <2>3, ProviderClientsAssumption DEF ServiceNames, GateInv, PassInv
  <2>4. CASE ServiceChanges
    BY <1>1, <2>1, <2>4 DEF ServiceChanges, GateInv, PassInv
  <2>5. CASE Close
    BY <1>1, <2>1, <2>5 DEF Close, GateInv, PassInv
  <2>6. QED
    BY <2>2, <2>3, <2>4, <2>5
<1>5. QED
  BY <1>1, <1>2, <1>3, <1>4 DEF IInv

\* Every step is one of the kinds above.
LEMMA Kinds ==
  ASSUME TypeOK, [Next]_vars
  PROVE  \/ \E q \in Req : Evaluate(q) \/ Ending(q) \/ Progressing(q)
         \/ GateOpens \/ GateRefuses \/ ProbeFails
         \/ Capabilities \/ ServiceNames \/ ServiceChanges \/ Close
         \/ UNCHANGED vars
  BY DEF Next, Attempt, Ending, Progressing

LEMMA NextIInv ==
  ASSUME IInv, [Next]_vars
  PROVE  IInv'
<1>1. TypeOK
  BY DEF IInv
<1>2. ASSUME NEW q \in Req, Ending(q)
      PROVE  IInv'
  BY <1>1, <1>2, EndingSettles, SettlingKeeps
<1>3. CASE UNCHANGED vars
  BY <1>3 DEF vars, others, IInv, TypeOK, StageInv, GateInv, PassInv
<1>4. QED
  BY <1>1, <1>2, <1>3, Kinds, EvaluateKeeps, ProgressKeeps, OpeningKeeps, GateKeeps, SurroundingsKeep

LEMMA Invariance == Spec => []IInv
  BY InitIInv, NextIInv, PTL DEF Spec

\* The clients stay within their states, and errors within the codes that the
\* coordinator knows.
THEOREM ClientsTyped == Spec => []TypeOK
  BY Invariance, PTL DEF IInv

\* No state goes to a service that could have been asked and was not, or that
\* named other weights: for every number of overlapping calls.
THEOREM ExpectedIdentity == Spec => []StateOnlyToExpected
<1>1. IInv => StateOnlyToExpected
  BY DEF IInv, PassInv, StateOnlyToExpected, Mismatch
<1>2. QED
  BY <1>1, Invariance, PTL

-----------------------------------------------------------------------------
(* The clients implement the contract of a provider.                       *)

\* The record of a call in the contract.
PublicCall == [stage : {"idle", "open", "settled"}, sent : BOOLEAN, aborted : BOOLEAN,
               result : Told \cup {"error"}]

LEMMA SameFields ==
  ASSUME NEW x \in PublicCall, NEW y \in PublicCall,
         x.stage = y.stage, x.sent = y.sent, x.aborted = y.aborted, x.result = y.result
  PROVE  x = y
  BY DEF PublicCall

LEMMA SeenTyped ==
  ASSUME NEW c \in CallRecord
  PROVE  /\ Seen(c) \in PublicCall
         /\ Seen(c).sent = c.sent /\ Seen(c).aborted = c.aborted
         /\ Seen(c).stage = IF c.pc \in {"idle", "settled"} THEN c.pc ELSE "open"
         /\ Seen(c).result = IF c.result \in Told THEN c.result ELSE "error"
  BY DEF Seen, CallRecord, PublicCall, Told

\* What the actions of the contract write.
LEMMA Opened ==
  ASSUME NEW x \in PublicCall, NEW y \in PublicCall,
         y.stage = "open", y.sent = x.sent, y.aborted = x.aborted, y.result = x.result
  PROVE  y = [x EXCEPT !.stage = "open"]
<1> DEFINE z == [x EXCEPT !.stage = "open"]
<1>1. z \in PublicCall /\ z.stage = "open" /\ z.sent = x.sent /\ z.aborted = x.aborted /\ z.result = x.result
  BY DEF PublicCall
<1>2. QED
  BY <1>1, SameFields

LEMMA SentOut ==
  ASSUME NEW x \in PublicCall, NEW y \in PublicCall,
         y.sent = TRUE, y.stage = x.stage, y.aborted = x.aborted, y.result = x.result
  PROVE  y = [x EXCEPT !.sent = TRUE]
<1> DEFINE z == [x EXCEPT !.sent = TRUE]
<1>1. z \in PublicCall /\ z.stage = x.stage /\ z.sent = TRUE /\ z.aborted = x.aborted /\ z.result = x.result
  BY DEF PublicCall
<1>2. QED
  BY <1>1, SameFields

LEMMA AbortedBy ==
  ASSUME NEW x \in PublicCall, NEW y \in PublicCall,
         y.aborted = TRUE, y.stage = x.stage, y.sent = x.sent, y.result = x.result
  PROVE  y = [x EXCEPT !.aborted = TRUE]
<1> DEFINE z == [x EXCEPT !.aborted = TRUE]
<1>1. z \in PublicCall /\ z.stage = x.stage /\ z.sent = x.sent /\ z.aborted = TRUE /\ z.result = x.result
  BY DEF PublicCall
<1>2. QED
  BY <1>1, SameFields

LEMMA SettledWith ==
  ASSUME NEW x \in PublicCall, NEW y \in PublicCall,
         y.stage = "settled", y.sent = x.sent, y.aborted = x.aborted
  PROVE  y = [x EXCEPT !.stage = "settled", !.result = y.result]
<1> DEFINE z == [x EXCEPT !.stage = "settled", !.result = y.result]
<1>1. y.result \in Told \cup {"error"}
  BY DEF PublicCall
<1>2. z \in PublicCall /\ z.stage = "settled" /\ z.sent = x.sent /\ z.aborted = x.aborted /\ z.result = y.result
  BY <1>1 DEF PublicCall
<1>3. QED
  BY <1>2, SameFields

\* Settling calls with one result is Settle of the contract.
LEMMA SettlingImplements ==
  ASSUME IInv, NEW Q, NEW result, SettlesAll(Q, result)
  PROVE  Public!Settle
<1> DEFINE pub == [q \in Req |-> Seen(call[q])]
           S == Q \cap Req
           end == [q \in S |-> Seen(call'[q])]
<1>1. \A q \in Req : pub[q] = Seen(call[q]) /\ pub'[q] = Seen(call'[q])
  OBVIOUS
<1>2. S \in SUBSET {q \in Req : pub[q].stage # "settled"}
  BY DEF SettlesAll, Seen
<1>3. ASSUME NEW q \in S
      PROVE  end[q] \in Public!Ends(pub[q])
  <2>1. /\ call'[q].pc = "settled" /\ call'[q].result = result
        /\ call'[q].sent = call[q].sent /\ call'[q].aborted = call[q].aborted
        /\ call'[q] \in CallRecord /\ call[q] \in CallRecord
    BY <1>3, SettlesAllStep DEF IInv, TypeOK, CallRecord
  <2>2. /\ result = "ok" => call[q].sent
        /\ result = "CANCELLED" => call[q].aborted
        /\ result = "TIMEOUT" => ~(call[q].sent /\ call[q].aborted)
        /\ result \notin {"none", "foreign"}
    BY <1>3 DEF SettlesAll, IInv, StageInv, Errors
  <2> DEFINE told == IF result \in Told THEN result ELSE "error"
  <2>3. /\ end[q] = Seen(call'[q]) /\ pub[q] = Seen(call[q])
        /\ Seen(call'[q]) \in PublicCall /\ Seen(call[q]) \in PublicCall
    BY <1>3, <2>1, SeenTyped
  <2>4. /\ Seen(call'[q]).stage = "settled" /\ Seen(call'[q]).result = told
        /\ Seen(call'[q]).sent = Seen(call[q]).sent /\ Seen(call'[q]).aborted = Seen(call[q]).aborted
    BY <2>1, <2>2, SeenTyped
  <2>5. Seen(call'[q]) = [Seen(call[q]) EXCEPT !.stage = "settled", !.result = Seen(call'[q]).result]
    BY <2>3, <2>4, SettledWith
  <2>6. told \in {"error"} \cup (IF Seen(call[q]).sent THEN {"ok"} ELSE {})
                           \cup (IF Seen(call[q]).aborted THEN {"CANCELLED"} ELSE {})
                           \cup (IF Seen(call[q]).sent /\ Seen(call[q]).aborted THEN {} ELSE {"TIMEOUT"})
    BY <2>1, <2>2, SeenTyped DEF Told
  <2>7. QED
    BY <2>3, <2>4, <2>5, <2>6 DEF Public!Ends
<1>4. pub' = [q \in Req |-> IF q \in S THEN end[q] ELSE pub[q]]
  BY SettlesAllStep DEF IInv
<1>5. end \in [S -> UNION {Public!Ends(pub[q]) : q \in S}]
  BY <1>3
<1>6. QED
  BY <1>2, <1>3, <1>4, <1>5 DEF Public!Settle

\* What the caller sees of the calls that a step does not settle.
LEMMA SeenOfOne ==
  ASSUME IInv, NEW q \in Req, NEW c, call' = [call EXCEPT ![q] = c]
  PROVE  [p \in Req |-> Seen(call'[p])] = [[p \in Req |-> Seen(call[p])] EXCEPT ![q] = Seen(c)]
  BY DEF IInv, TypeOK

\* A step that settles nothing opens, aborts or sends, or is not seen.
LEMMA ProgressImplements ==
  ASSUME IInv, NEW q \in Req, Progressing(q)
  PROVE  Public!Next \/ [p \in Req |-> Seen(call[p])]' = [p \in Req |-> Seen(call[p])]
<1> DEFINE pub == [p \in Req |-> Seen(call[p])]
<1>1. call[q] \in CallRecord /\ StageInv(q) /\ pub[q] = Seen(call[q])
  BY DEF IInv, TypeOK, CallRecord
<1>2. ASSUME NEW c, call' = [call EXCEPT ![q] = c]
      PROVE  pub' = [pub EXCEPT ![q] = Seen(c)]
  BY <1>2, SeenOfOne
<1>3. CASE EvaluateRemotely(q)
  <2> DEFINE c == [call[q] EXCEPT !.pc = "through"]
  <2>1. call' = [call EXCEPT ![q] = c] /\ call[q].pc = "idle"
    BY <1>3 DEF EvaluateRemotely
  <2>2. /\ c \in CallRecord /\ c.pc = "through" /\ c.sent = call[q].sent
        /\ c.aborted = call[q].aborted /\ c.result = call[q].result
    BY <1>1 DEF CallRecord
  <2> HIDE DEF c
  <2>3. Seen(c) = [Seen(call[q]) EXCEPT !.stage = "open"] /\ Seen(call[q]).stage = "idle"
    BY <1>1, <2>1, <2>2, SeenTyped, Opened
  <2>4. Public!Begin(q)
    BY <1>1, <1>2, <2>1, <2>3 DEF Public!Begin
  <2>5. QED
    BY <2>4 DEF Public!Next
<1>4. CASE Request(q) /\ ~call[q].aborted
  <2> DEFINE c == [call[q] EXCEPT !.pc = "fetching", !.sent = TRUE]
  <2>1. call' = [call EXCEPT ![q] = c] /\ call[q].pc = "through"
    BY <1>4 DEF Request
  <2>2. /\ c \in CallRecord /\ c.pc = "fetching" /\ c.sent = TRUE
        /\ c.aborted = call[q].aborted /\ c.result = call[q].result
    BY <1>1 DEF CallRecord
  <2> HIDE DEF c
  <2>3. /\ Seen(c) \in PublicCall /\ Seen(call[q]) \in PublicCall
        /\ Seen(c).sent = TRUE /\ Seen(c).stage = Seen(call[q]).stage
        /\ Seen(c).aborted = Seen(call[q]).aborted /\ Seen(c).result = Seen(call[q]).result
    BY <1>1, <2>1, <2>2, SeenTyped
  <2>4. Seen(call[q]).stage = "open" /\ ~Seen(call[q]).sent /\ ~Seen(call[q]).aborted
    BY <1>1, <1>4, <2>1, SeenTyped DEF StageInv
  <2>5. Seen(c) = [Seen(call[q]) EXCEPT !.sent = TRUE]
    BY <2>3, SentOut
  <2>6. Public!Send(q)
    BY <1>1, <1>2, <2>1, <2>4, <2>5 DEF Public!Send, Public!Open
  <2>7. QED
    BY <2>6 DEF Public!Next
<1>5. CASE Abort(q)
  <2> DEFINE c == [call[q] EXCEPT !.aborted = TRUE]
  <2>1. call' = [call EXCEPT ![q] = c] /\ ~call[q].aborted
    BY <1>5 DEF Abort
  <2>2. /\ c \in CallRecord /\ c.pc = call[q].pc /\ c.sent = call[q].sent
        /\ c.aborted = TRUE /\ c.result = call[q].result
    BY <1>1 DEF CallRecord
  <2> HIDE DEF c
  <2>3. /\ Seen(c) \in PublicCall /\ Seen(call[q]) \in PublicCall
        /\ Seen(c).aborted = TRUE /\ Seen(c).stage = Seen(call[q]).stage
        /\ Seen(c).sent = Seen(call[q]).sent /\ Seen(c).result = Seen(call[q]).result
    BY <1>1, <2>2, SeenTyped
  <2>4. Seen(c) = [Seen(call[q]) EXCEPT !.aborted = TRUE] /\ ~Seen(call[q]).aborted
    BY <1>1, <2>1, <2>3, SeenTyped, AbortedBy
  <2>5. Public!Abort(q)
    BY <1>1, <1>2, <2>1, <2>4 DEF Public!Abort
  <2>6. QED
    BY <2>5 DEF Public!Next
<1>6. CASE Reaches(q) \/ Headers(q) \/ Expires(q)
  <2>1. PICK c \in CallRecord :
          /\ call' = [call EXCEPT ![q] = c] /\ c.sent = call[q].sent
          /\ c.aborted = call[q].aborted /\ c.result = call[q].result
          /\ call[q].pc \in {"fetching", "body"} /\ c.pc \in {"fetching", "body"}
    <3>1. CASE Reaches(q)
      <4> DEFINE c == [call[q] EXCEPT !.to = service]
      <4>1. /\ c \in CallRecord /\ call' = [call EXCEPT ![q] = c] /\ c.sent = call[q].sent
            /\ c.aborted = call[q].aborted /\ c.result = call[q].result
            /\ call[q].pc \in {"fetching", "body"} /\ c.pc \in {"fetching", "body"}
        BY <1>1, <3>1 DEF Reaches, CallRecord
      <4>2. QED
        BY <4>1
    <3>2. CASE Headers(q)
      <4> DEFINE c == [call[q] EXCEPT !.pc = "body"]
      <4>1. /\ c \in CallRecord /\ call' = [call EXCEPT ![q] = c] /\ c.sent = call[q].sent
            /\ c.aborted = call[q].aborted /\ c.result = call[q].result
            /\ call[q].pc \in {"fetching", "body"} /\ c.pc \in {"fetching", "body"}
        BY <1>1, <3>2 DEF Headers, CallRecord
      <4>2. QED
        BY <4>1
    <3>3. CASE Expires(q)
      <4> DEFINE c == [call[q] EXCEPT !.expired = TRUE]
      <4>1. /\ c \in CallRecord /\ call' = [call EXCEPT ![q] = c] /\ c.sent = call[q].sent
            /\ c.aborted = call[q].aborted /\ c.result = call[q].result
            /\ call[q].pc \in {"fetching", "body"} /\ c.pc \in {"fetching", "body"}
        BY <1>1, <3>3 DEF Expires, Reading, CallRecord
      <4>2. QED
        BY <4>1
    <3>4. QED
      BY <1>6, <3>1, <3>2, <3>3
  <2>2. Seen(c) = Seen(call[q])
    BY <1>1, <2>1, SeenTyped, SameFields
  <2>3. QED
    BY <1>1, <1>2, <2>1, <2>2
<1>7. QED
  BY <1>3, <1>4, <1>5, <1>6 DEF Progressing

\* evaluate() of the contract: the call is open, or refused at once.
LEMMA EvaluateImplements ==
  ASSUME IInv, NEW q \in Req, Evaluate(q)
  PROVE  Public!Next
<1> DEFINE pub == [p \in Req |-> Seen(call[p])]
<1>1. TypeOK /\ call[q] \in CallRecord /\ pub[q] = Seen(call[q]) /\ call[q].pc = "idle"
  BY DEF IInv, TypeOK, CallRecord, Evaluate
<1>2. CASE gate = "refused"
  <2>1. SettlesAll({q}, "UNSUPPORTED_CAPABILITY")
    BY <1>1, <1>2, SettleOne DEF Evaluate, Errors
  <2>2. QED
    BY <2>1, SettlingImplements DEF Public!Next
<1>3. CASE gate # "refused"
  <2> DEFINE c == [call[q] EXCEPT !.pc = IF gate = "open" THEN "through" ELSE "gated"]
  <2>1. call' = [call EXCEPT ![q] = c]
    BY <1>3 DEF Evaluate
  <2>2. /\ c \in CallRecord /\ c.pc \in {"through", "gated"} /\ c.sent = call[q].sent
        /\ c.aborted = call[q].aborted /\ c.result = call[q].result
    BY <1>1 DEF CallRecord
  <2>3. pub' = [pub EXCEPT ![q] = Seen(c)]
    BY <2>1, SeenOfOne
  <2> HIDE DEF c
  <2>4. Seen(c) = [Seen(call[q]) EXCEPT !.stage = "open"] /\ Seen(call[q]).stage = "idle"
    BY <1>1, <2>2, SeenTyped, Opened
  <2>5. Public!Begin(q)
    BY <1>1, <2>3, <2>4 DEF Public!Begin
  <2>6. QED
    BY <2>5 DEF Public!Next
<1>4. QED
  BY <1>2, <1>3

\* Nobody sees that the gate opened.
LEMMA OpeningUnseen ==
  ASSUME IInv, GateOpens
  PROVE  [p \in Req |-> Seen(call[p])]' = [p \in Req |-> Seen(call[p])]
<1>1. SUFFICES ASSUME NEW q \in Req PROVE Seen(call'[q]) = Seen(call[q])
  OBVIOUS
<1>2. CASE call[q].pc = "gated"
  <2> DEFINE c == [call[q] EXCEPT !.pc = "through"]
  <2>1. call[q] \in CallRecord /\ call'[q] = c
    BY <1>2 DEF GateOpens, Gated, IInv, TypeOK, CallRecord
  <2>2. /\ c \in CallRecord /\ c.pc = "through" /\ c.sent = call[q].sent
        /\ c.aborted = call[q].aborted /\ c.result = call[q].result
    BY <2>1 DEF CallRecord
  <2> HIDE DEF c
  <2>3. /\ Seen(c) \in PublicCall /\ Seen(call[q]) \in PublicCall
        /\ Seen(c).stage = Seen(call[q]).stage /\ Seen(c).sent = Seen(call[q]).sent
        /\ Seen(c).aborted = Seen(call[q]).aborted /\ Seen(c).result = Seen(call[q]).result
    BY <1>2, <2>1, <2>2, SeenTyped
  <2>4. QED
    BY <2>1, <2>3, SameFields
<1>3. CASE call[q].pc # "gated"
  BY <1>3 DEF GateOpens, Gated
<1>4. QED
  BY <1>2, <1>3

LEMMA StepImplements ==
  ASSUME IInv, [Next]_vars
  PROVE  Public!Next \/ [p \in Req |-> Seen(call[p])]' = [p \in Req |-> Seen(call[p])]
<1>1. TypeOK
  BY DEF IInv
<1>2. ASSUME NEW q \in Req, Ending(q)
      PROVE  Public!Next
  BY <1>1, <1>2, EndingSettles, SettlingImplements DEF Public!Next
<1>3. ASSUME GateRefuses \/ ProbeFails
      PROVE  Public!Next
  BY <1>1, <1>3, GateSettles, SettlingImplements DEF Public!Next
<1>4. CASE Capabilities \/ ServiceNames \/ ServiceChanges \/ Close \/ UNCHANGED vars
  BY <1>4 DEF Capabilities, ServiceNames, ServiceChanges, Close, vars
<1>5. QED
  BY <1>1, <1>2, <1>3, <1>4, Kinds, EvaluateImplements, ProgressImplements, OpeningUnseen

\* A caller of LocalProvider, ExpectedProvider or TypesafeProvider gets what the
\* contract of a DecisionProvider says, for any number of overlapping calls:
\* state goes out at most once and not after the signal; an answer is about
\* nothing but what was asked; "CANCELLED" is only said to who cancelled, and
\* "TIMEOUT" never to who did so after the state had gone out.
THEOREM ClientsImplementProviderCall == Spec => ImplementsProviderCall
<1>1. Init => Public!Init
  BY DEF Init, Public!Init, Public!Idle, NewCall, Seen, Told
<1>2. IInv /\ [Next]_vars => [Public!Next]_([q \in Req |-> Seen(call[q])])
  BY StepImplements
<1>3. Spec => [][Public!Next]_([q \in Req |-> Seen(call[q])])
  BY <1>2, Invariance, PTL DEF Spec
<1>4. Spec => Public!Init
  BY <1>1, PTL DEF Spec
<1>5. Spec => Public!Spec
  BY <1>3, <1>4, PTL DEF Public!Spec
<1>6. QED
  BY <1>5 DEF ImplementsProviderCall
=============================================================================
