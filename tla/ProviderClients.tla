--------------------------- MODULE ProviderClients ---------------------------
(***************************************************************************)
(* The HTTP clients behind DecisionProvider: LocalProvider (provider-local)*)
(* inside ExpectedProvider (adapter-dsh, identity.ts), which asks the      *)
(* service who it is before any state is sent, and TypesafeProvider        *)
(* (provider-typesafe) against the vendor's endpoint.  Both send one       *)
(* request per decision, bounded by the caller's signal and the remaining  *)
(* deadline, headers and body.  Between the steps callers abort, timers    *)
(* fire, the network fails and the service is replaced by another one.     *)
(***************************************************************************)
EXTENDS Naturals, Functions

CONSTANTS
  Req,        \* requests given to evaluate(), each once
  Weights,    \* what a service on the loopback port may have loaded
  Expected,   \* provider.local.expectedModel
  Questions,  \* the ids of the questions of a request
  MaxOutcomes \* bound on the outcomes of an answer

ASSUME ProviderClientsAssumption ==
  Expected \in Weights /\ {"Down", "nobody", "none", "asked"} \cap Weights = {}

VARIABLES
  kind,       \* the provider that the configuration selects
  service,    \* the process behind the port: Weights, or "Down"
  gate,       \* ExpectedProvider.#gate
  probe,      \* the request for /v1/capabilities behind the gate
  call,       \* Req -> evaluate() in progress
  closed,     \* the owner called close()
  replaced    \* the service changed since it last named itself

others == <<kind, service, gate, probe, closed, replaced>>
vars == <<call, others>>

\* Codes that LocalError and ProviderError give a failure of their own.  REFUSED
\* stands for the code in an error response, or of its HTTP status, which may
\* be any: what the service says of a call, not what happened here.
Errors == {"CANCELLED", "TIMEOUT", "AUTH", "INVALID_INPUT", "LOCAL_NOT_READY",
           "OVERLOADED", "EGRESS_DENIED", "INVALID_RESPONSE", "REFUSED", "UNSUPPORTED_CAPABILITY"}

NewCall == [pc |-> "idle", aborted |-> FALSE, expired |-> FALSE, sent |-> FALSE,
            to |-> "nobody", result |-> "none"]

Init ==
  /\ kind \in {"local", "typesafe"}
  /\ service \in Weights \cup {"Down"}
  /\ gate = "none" /\ probe = "none"
  /\ call = [q \in Req |-> NewCall]
  /\ closed = FALSE /\ replaced = FALSE

Settled(c, result) == [c EXCEPT !.pc = "settled", !.result = result]
Settle(q, result) == call' = [call EXCEPT ![q] = Settled(@, result)]
Gated == {q \in Req : call[q].pc = "gated"}
Mismatch(w) == w # Expected

-----------------------------------------------------------------------------
(* The gate.                                                               *)

\* this.#gate ??= ...: the probe starts with the first caller after a failure.
Checked ==
  IF gate = "none" THEN gate' = "pending" /\ probe' = "asked"
                   ELSE UNCHANGED <<gate, probe>>

\* [mutant] only the call that starts the probe waits for it
EvaluateAlongside(q) ==
  /\ kind = "local" /\ ~closed /\ call[q].pc = "idle"
  /\ Checked
  /\ call' = [call EXCEPT ![q].pc = IF gate = "none" THEN "gated" ELSE "through"]
  /\ UNCHANGED <<kind, service, closed, replaced>>

Evaluate(q) ==
  /\ kind = "local" /\ ~closed /\ call[q].pc = "idle"
  /\ Checked
  /\ CASE gate = "open"    -> call' = [call EXCEPT ![q].pc = "through"]
       [] gate = "refused" -> Settle(q, "UNSUPPORTED_CAPABILITY")
       [] OTHER            -> call' = [call EXCEPT ![q].pc = "gated"]
  /\ UNCHANGED <<kind, service, closed, replaced>>

\* TypesafeProvider has no gate: its identity is not reported by the vendor.
EvaluateRemotely(q) ==
  /\ kind = "typesafe" /\ ~closed /\ call[q].pc = "idle"
  /\ call' = [call EXCEPT ![q].pc = "through"]
  /\ UNCHANGED others

\* The plugin asks for capabilities on its own account.
Capabilities ==
  /\ kind = "local" /\ ~closed /\ gate = "none" /\ Checked
  /\ UNCHANGED <<kind, service, call, closed, replaced>>

\* The service answers with the identity of what it has loaded ...
ServiceNames ==
  /\ probe = "asked" /\ service \in Weights
  /\ probe' = service /\ replaced' = FALSE
  /\ UNCHANGED <<kind, service, gate, call, closed>>

\* ... which arrives, and everybody who waits for the gate goes on.
GateOpens ==
  /\ probe \in Weights /\ ~Mismatch(probe)
  /\ gate' = IF closed THEN gate ELSE "open"
  /\ probe' = "none"
  /\ call' = [q \in Req |-> IF q \in Gated THEN [call[q] EXCEPT !.pc = "through"] ELSE call[q]]
  /\ UNCHANGED <<kind, service, closed, replaced>>

GateRefuses ==
  /\ probe \in Weights /\ Mismatch(probe)
  /\ gate' = IF closed THEN gate ELSE "refused"
  /\ probe' = "none"
  /\ call' = [q \in Req |-> IF q \in Gated THEN Settled(call[q], "UNSUPPORTED_CAPABILITY") ELSE call[q]]
  /\ UNCHANGED <<kind, service, closed, replaced>>

\* No token, nobody there, no answer within 5 s, a redirect, an error status, or
\* an answer that names no identity: the next caller probes again.
ProbeErrors == {"AUTH", "LOCAL_NOT_READY", "TIMEOUT", "EGRESS_DENIED", "REFUSED", "INVALID_RESPONSE"}

ProbeFails ==
  /\ probe # "none"
  /\ gate' = "none" /\ probe' = "none"
  /\ \E error \in ProbeErrors :
       call' = [q \in Req |-> IF q \in Gated THEN Settled(call[q], error) ELSE call[q]]
  /\ UNCHANGED <<kind, service, closed, replaced>>

-----------------------------------------------------------------------------
(* One request.                                                            *)

\* No time is left, no token or credential, too many bytes.
RefuseUnsent(q) ==
  /\ call[q].pc = "through"
  /\ \E error \in IF kind = "local" THEN {"TIMEOUT", "AUTH", "INVALID_INPUT"} ELSE {"AUTH"} :
       Settle(q, error)
  /\ UNCHANGED others

\* fetch() with a signal that is aborted rejects and sends nothing.
Request(q) ==
  /\ call[q].pc = "through"
  /\ IF call[q].aborted
     THEN Settle(q, "CANCELLED")
     ELSE call' = [call EXCEPT ![q].pc = "fetching", ![q].sent = TRUE]
  /\ UNCHANGED others

\* The bytes reach whoever listens on the port.
Reaches(q) ==
  /\ call[q].pc = "fetching" /\ call[q].to = "nobody" /\ service \in Weights
  /\ call' = [call EXCEPT ![q].to = service]
  /\ UNCHANGED others

Reading(q) == call[q].pc \in {"fetching", "body"}

\* [mutant] the deadline explains a failure before the caller's signal does
ReasonOfTimer(q, otherwise) ==
  IF call[q].expired THEN "TIMEOUT" ELSE IF call[q].aborted THEN "CANCELLED" ELSE otherwise

\* The caller's signal explains a failure before the deadline does.
Reason(q, otherwise) ==
  IF call[q].aborted THEN "CANCELLED" ELSE IF call[q].expired THEN "TIMEOUT" ELSE otherwise

\* The controller of this request was aborted: fetch(), or the race with the
\* reader of the body, rejects.
Interrupted(q) ==
  /\ Reading(q) /\ (call[q].aborted \/ call[q].expired)
  /\ Settle(q, Reason(q, "none"))
  /\ UNCHANGED others

\* fetch() rejects: nobody listens, or the connection broke.
FetchFails(q) ==
  /\ call[q].pc = "fetching"
  /\ Settle(q, Reason(q, IF kind = "local" THEN "LOCAL_NOT_READY" ELSE "OVERLOADED"))
  /\ UNCHANGED others

Redirected(q) ==
  /\ call[q].pc = "fetching" /\ call[q].to \in Weights
  /\ Settle(q, "EGRESS_DENIED")
  /\ UNCHANGED others

\* Headers with another error status; the vendor's error body is not read.
StatusRefuses(q) ==
  /\ call[q].pc = "fetching" /\ call[q].to \in Weights /\ kind = "typesafe"
  /\ Settle(q, "REFUSED")
  /\ UNCHANGED others

Headers(q) ==
  /\ call[q].pc = "fetching" /\ call[q].to \in Weights
  /\ call' = [call EXCEPT ![q].pc = "body"]
  /\ UNCHANGED others

\* The body breaks off, is too large, or is not JSON.
BodyFails(q) ==
  /\ call[q].pc = "body"
  /\ Settle(q, Reason(q, "INVALID_RESPONSE"))
  /\ UNCHANGED others

\* An error status of the local service, with or without a readable body.
BodyRefuses(q) ==
  /\ call[q].pc = "body" /\ kind = "local"
  /\ Settle(q, Reason(q, "REFUSED")) \/ Settle(q, "REFUSED")
  /\ UNCHANGED others

\* An answer as far as a client compares it with the request: whose it is, of
\* which snapshot, and per outcome its id, and whether its kind, options and
\* levels are those of the question or it is no answer at all.
Outcomes == [id : Questions \cup {"unasked"}, form : {"fits", "misfits", "error"}]
Answers == [for : Req, fresh : BOOLEAN, outcomes : UNION {[1..n -> Outcomes] : n \in 0..MaxOutcomes}]

IdOf(outcomes) == [i \in DOMAIN outcomes |-> outcomes[i].id]

\* LocalProvider: an answer to this request, and no outcome that is not one of
\* its questions'.  A question may be missing.
Binds(q, answer) ==
  /\ answer.for = q /\ answer.fresh
  /\ IsInjective(IdOf(answer.outcomes))
  /\ \A i \in DOMAIN answer.outcomes :
       answer.outcomes[i].id \in Questions /\ answer.outcomes[i].form # "misfits"

\* TypesafeProvider: an object keyed by exactly the questions asked.
Mirrors(answer) ==
  IsInjective(IdOf(answer.outcomes)) /\ Range(IdOf(answer.outcomes)) = Questions

Accepted(q, answer) == IF kind = "local" THEN Binds(q, answer) ELSE Mirrors(answer)

\* What evaluate() returns of it.  The vendor's answer names neither request nor
\* snapshot, which are filled in; an outcome of it that does not fit becomes an
\* error of its question alone.
Returned(q, answer) ==
  IF kind = "local" THEN answer
  ELSE [for |-> q, fresh |-> TRUE,
        outcomes |-> [i \in DOMAIN answer.outcomes |->
          IF answer.outcomes[i].form = "misfits" THEN [answer.outcomes[i] EXCEPT !.form = "error"]
                                                 ELSE answer.outcomes[i]]]

\* Nothing in an answer is about anything else than what was asked.
Own(q, answer) ==
  /\ answer.for = q /\ answer.fresh
  /\ Range(answer.outcomes) \subseteq [id : Questions, form : {"fits", "error"}]
  /\ \A i, j \in DOMAIN answer.outcomes : answer.outcomes[i].id = answer.outcomes[j].id => i = j

\* The body is complete and parsed; nothing can intervene any more.  The caller
\* cannot tell "foreign" from "ok".
Answered(q) ==
  /\ call[q].pc = "body"
  /\ \E answer \in Answers :
       Settle(q, IF ~Accepted(q, answer) THEN "INVALID_RESPONSE"
                 ELSE IF Own(q, Returned(q, answer)) THEN "ok" ELSE "foreign")
  /\ UNCHANGED others

-----------------------------------------------------------------------------
(* The caller, time, the service and the owner.                            *)

Abort(q) ==
  /\ call[q].pc \in {"gated", "through"} \/ Reading(q)
  /\ ~call[q].aborted
  /\ call' = [call EXCEPT ![q].aborted = TRUE]
  /\ UNCHANGED others

\* [mutant] the timer is cleared when the headers are there
ExpiresBeforeHeaders(q) ==
  /\ call[q].pc = "fetching" /\ ~call[q].expired
  /\ call' = [call EXCEPT ![q].expired = TRUE]
  /\ UNCHANGED others

\* setTimeout of this request: it runs until the body is read.
Expires(q) ==
  /\ Reading(q) /\ ~call[q].expired
  /\ call' = [call EXCEPT ![q].expired = TRUE]
  /\ UNCHANGED others

\* The operator stops the service, or starts one; what the old one held of a
\* connection breaks, sooner or later.
ServiceChanges ==
  /\ \E w \in (Weights \cup {"Down"}) \ {service} : service' = w
  /\ replaced' = TRUE
  /\ UNCHANGED <<kind, gate, probe, call, closed>>

\* The coordinator closed before its provider: every signal is aborted.
Close ==
  /\ ~closed /\ \A q \in Req : call[q].pc \in {"idle", "settled"} \/ call[q].aborted
  /\ closed' = TRUE /\ gate' = "none"
  /\ UNCHANGED <<kind, service, probe, call, replaced>>

Attempt(q) ==
  \/ RefuseUnsent(q) \/ Request(q) \/ Reaches(q) \/ FetchFails(q) \/ Redirected(q)
  \/ StatusRefuses(q) \/ Headers(q) \/ BodyFails(q) \/ BodyRefuses(q) \/ Answered(q)

Next ==
  \/ Capabilities \/ ServiceNames \/ GateOpens \/ GateRefuses \/ ProbeFails
  \/ \E q \in Req : Evaluate(q) \/ EvaluateRemotely(q) \/ Attempt(q) \/ Interrupted(q) \/ Abort(q) \/ Expires(q)
  \/ ServiceChanges \/ Close

Spec == Init /\ [][Next]_vars

\* Timers fire and rejected promises are noticed.  The service need not
\* answer, and its network need not report a failure.
FairSpec ==
  /\ Spec /\ WF_vars(ProbeFails)
  /\ \A q \in Req : WF_vars(Request(q)) /\ WF_vars(Expires(q)) /\ WF_vars(Interrupted(q))

-----------------------------------------------------------------------------
(* Properties.                                                             *)

TypeOK ==
  /\ kind \in {"local", "typesafe"}
  /\ service \in Weights \cup {"Down"}
  /\ gate \in {"none", "pending", "open", "refused"}
  /\ probe \in Weights \cup {"none", "asked"}
  /\ call \in [Req -> [pc : {"idle", "gated", "through", "fetching", "body", "settled"},
                       aborted : BOOLEAN, expired : BOOLEAN, sent : BOOLEAN,
                       to : Weights \cup {"nobody"},
                       result : Errors \cup {"ok", "foreign", "none"}]]
  /\ closed \in BOOLEAN /\ replaced \in BOOLEAN

\* Task state is read by other weights than the pinned ones only if the
\* service was replaced after it had named itself: never by a service that was
\* already there when it was asked, however the callers overlap.
StateOnlyToExpected ==
  \A q \in Req : kind = "local" /\ call[q].to # "nobody" /\ Mismatch(call[q].to) => replaced

\* What a caller can see of a call.
Told == {"none", "ok", "foreign", "CANCELLED", "TIMEOUT"}

Seen(c) ==
  [stage |-> IF c.pc \in {"idle", "settled"} THEN c.pc ELSE "open",
   sent |-> c.sent, aborted |-> c.aborted,
   result |-> IF c.result \in Told THEN c.result ELSE "error"]

Public == INSTANCE ProviderCall WITH call <- [q \in Req |-> Seen(call[q])]

\* A call comes to one of the ends of the contract: state goes out at most once
\* and not after the signal; an answer is to what was asked; CANCELLED is for a
\* caller that aborted, and TIMEOUT for none that did so after its state went out.
ImplementsProviderCall == Public!Spec

\* evaluate() settles, though the service never answers and the caller never
\* aborts: the gate and the body are timed like the request itself.
EveryCallSettles == \A q \in Req : (call[q].pc # "idle") ~> (call[q].pc = "settled")
=============================================================================
