------------------------------ MODULE Admission ------------------------------
(***************************************************************************)
(* The admission contract of DecisionCoordinator (packages/core/src/       *)
(* coordinator.ts with budget.ts): execution slots, bounded queue, call    *)
(* ledger, and one outcome per submission.  The counters are the code's    *)
(* own (#inflight, the two ledger entries).  What is left open here is     *)
(* WHICH waiter #pump takes next, why a run is dropped or fails, and the   *)
(* lifecycle inside a running call; module Coordinator decides all three   *)
(* and is checked to implement this specification.                         *)
(***************************************************************************)
EXTENDS Integers, FiniteSets

CONSTANTS
  Run,                \* submissions: one element per call of submit()
  Session, Turn,      \* the two ledger keys, sessionKey and turnKey
  SessionOf, TurnOf,  \* Run -> Session, Run -> Turn: keyOf(request)
  MaxConcurrent, MaxQueue, MaxQueuePerSession,
  PerTurnCalls, PerSessionCalls

ASSUME AdmissionAssumption ==
  /\ IsFiniteSet(Run)
  /\ \A r \in Run : SessionOf[r] \in Session /\ TurnOf[r] \in Turn
  /\ MaxConcurrent \in Nat \ {0}
  /\ MaxQueue \in Nat /\ MaxQueuePerSession \in Nat
  /\ PerTurnCalls \in Nat /\ PerSessionCalls \in Nat

VARIABLES
  stage,         \* where each submission is: new, waiting, running, ended
  outcome,       \* what its promise resolved with, "none" while pending
  called,        \* runs for which provider.evaluate has been invoked
  inflight,      \* #inflight
  turnCalls,     \* the ledger entries keyed by turn
  sessionCalls,  \* the ledger entries keyed by session
  closed         \* #closed

vars == <<stage, outcome, called, inflight, turnCalls, sessionCalls, closed>>

Stages   == {"new", "waiting", "running", "ended"}
Answers  == {"response", "failed", "cancelled", "timed-out"}
Refusals == {"closed", "duplicate", "budget-exceeded", "queue-full"}

Waiting == {r \in Run : stage[r] = "waiting"}
Running == {r \in Run : stage[r] = "running"}

InSession(S, s) == {r \in S : SessionOf[r] = s}
InTurn(S, t)    == {r \in S : TurnOf[r] = t}

\* Runs that hold a reservation: queued, or handed to the provider.
Charged == Waiting \cup called

TypeOK ==
  /\ stage \in [Run -> Stages]
  /\ outcome \in [Run -> Answers \cup Refusals \cup {"none"}]
  /\ called \in SUBSET Run
  /\ inflight \in Nat
  /\ turnCalls \in [Turn -> Nat]
  /\ sessionCalls \in [Session -> Nat]
  /\ closed \in BOOLEAN

Init ==
  /\ stage = [r \in Run |-> "new"]
  /\ outcome = [r \in Run |-> "none"]
  /\ called = {}
  /\ inflight = 0
  /\ turnCalls = [t \in Turn |-> 0]
  /\ sessionCalls = [s \in Session |-> 0]
  /\ closed = FALSE

-----------------------------------------------------------------------------
(* The ledger.                                                             *)

WithinBudget(r) ==
  /\ sessionCalls[SessionOf[r]] < PerSessionCalls
  /\ turnCalls[TurnOf[r]] < PerTurnCalls

Reserve(r) ==
  /\ sessionCalls' = [sessionCalls EXCEPT ![SessionOf[r]] = @ + 1]
  /\ turnCalls' = [turnCalls EXCEPT ![TurnOf[r]] = @ + 1]

\* Mutant: only one of the two ledger entries is given back.
RefundTurnOnly(D) ==
  /\ turnCalls' = [t \in Turn |-> turnCalls[t] - Cardinality(InTurn(D, t))]
  /\ UNCHANGED sessionCalls

\* Every run of D gets its reservation back.
Refund(D) ==
  /\ sessionCalls' = [s \in Session |-> sessionCalls[s] - Cardinality(InSession(D, s))]
  /\ turnCalls' = [t \in Turn |-> turnCalls[t] - Cardinality(InTurn(D, t))]

-----------------------------------------------------------------------------
(* Submission.                                                             *)

Refuse(r, out) ==
  /\ stage[r] = "new"
  /\ stage' = [stage EXCEPT ![r] = "ended"]
  /\ outcome' = [outcome EXCEPT ![r] = out]
  /\ UNCHANGED <<called, inflight, turnCalls, sessionCalls, closed>>

RefuseClosed(r) == closed /\ Refuse(r, "closed")

\* Only a key that has already been answered is recognised as a duplicate.
RefuseDuplicate(r) ==
  /\ ~closed
  /\ \E q \in Run \ {r} : stage[q] = "ended"
  /\ Refuse(r, "duplicate")

RefuseBudget(r) ==
  /\ ~closed
  /\ ~WithinBudget(r)
  /\ Refuse(r, "budget-exceeded")

QueueFull(r) ==
  \/ Cardinality(Waiting) >= MaxQueue
  \/ Cardinality(InSession(Waiting, SessionOf[r])) >= MaxQueuePerSession

\* The reservation made before the queue check is returned in the same step.
RefuseQueueFull(r) ==
  /\ ~closed /\ WithinBudget(r)
  /\ inflight >= MaxConcurrent
  /\ QueueFull(r)
  /\ Refuse(r, "queue-full")

Enqueue(r) ==
  /\ ~closed /\ WithinBudget(r)
  /\ stage[r] = "new"
  /\ inflight >= MaxConcurrent
  /\ ~QueueFull(r)
  /\ stage' = [stage EXCEPT ![r] = "waiting"]
  /\ Reserve(r)
  /\ UNCHANGED <<outcome, called, inflight, closed>>

Start(r) ==
  /\ ~closed /\ WithinBudget(r)
  /\ stage[r] = "new"
  /\ inflight < MaxConcurrent
  /\ stage' = [stage EXCEPT ![r] = "running"]
  /\ called' = called \cup {r}
  /\ inflight' = inflight + 1
  /\ Reserve(r)
  /\ UNCHANGED <<outcome, closed>>

-----------------------------------------------------------------------------
(* The pump.  Loop exit: no free slot, or nothing waiting.                 *)

\* free slots were just available with `busy` runs in flight; of the waiters W,
\* D are dropped (cancelled or out of time) and L are handed to the provider.
Pumped(busy, W, D, L) ==
  /\ D \in SUBSET W /\ L \in SUBSET (W \ D)
  /\ busy >= MaxConcurrent => (D = {} /\ L = {})
  /\ busy < MaxConcurrent =>
       /\ busy + Cardinality(L) <= MaxConcurrent
       /\ busy + Cardinality(L) = MaxConcurrent \/ D \cup L = W
  /\ inflight' = busy + Cardinality(L)
  /\ called' = called \cup L

\* Run r ends with `out` and D, L are taken from the queue in the same step.
EndAndPump(r, out, D, L) ==
  /\ stage' = [q \in Run |-> IF q = r \/ q \in D THEN "ended"
                             ELSE IF q \in L THEN "running" ELSE stage[q]]
  /\ \E why \in [D -> {"cancelled", "timed-out"}] :
       outcome' = [q \in Run |-> IF q = r THEN out
                                 ELSE IF q \in D THEN why[q] ELSE outcome[q]]
  /\ UNCHANGED closed

\* Admitted to a free slot, but cancelled or out of time before evaluate():
\* slot and reservation are returned, then the pump runs.
DropAtStart(r) ==
  /\ ~closed /\ WithinBudget(r)
  /\ stage[r] = "new"
  /\ inflight < MaxConcurrent
  /\ \E D \in SUBSET Waiting, L \in SUBSET Waiting, out \in {"cancelled", "timed-out"} :
       /\ Pumped(inflight, Waiting, D, L)
       /\ EndAndPump(r, out, D, L)
       /\ Refund(D)

\* The caller gives up on a run that is still queued.
CancelWaiting(r) ==
  /\ stage[r] = "waiting"
  /\ \E D \in SUBSET (Waiting \ {r}), L \in SUBSET (Waiting \ {r}) :
       /\ Pumped(inflight, Waiting \ {r}, D, L)
       /\ EndAndPump(r, "cancelled", D, L)
       /\ Refund(D \cup {r})

\* A running call is settled: its slot is released, its charge is kept.
Settle(r, out) ==
  /\ stage[r] = "running"
  /\ out \in Answers
  /\ \E D \in SUBSET Waiting, L \in SUBSET Waiting :
       /\ Pumped(inflight - 1, Waiting, D, L)
       /\ EndAndPump(r, out, D, L)
       /\ Refund(D)

\* Every waiter is cancelled and refunded; what runs is settled later.
Close ==
  /\ ~closed
  /\ closed' = TRUE
  /\ stage' = [r \in Run |-> IF r \in Waiting THEN "ended" ELSE stage[r]]
  /\ outcome' = [r \in Run |-> IF r \in Waiting THEN "cancelled" ELSE outcome[r]]
  /\ Refund(Waiting)
  /\ UNCHANGED <<called, inflight>>

Submit(r) ==
  \/ RefuseClosed(r) \/ RefuseDuplicate(r) \/ RefuseBudget(r)
  \/ RefuseQueueFull(r) \/ Enqueue(r) \/ Start(r) \/ DropAtStart(r)

Next ==
  \/ \E r \in Run : Submit(r) \/ CancelWaiting(r) \/ \E out \in Answers : Settle(r, out)
  \/ Close

Spec == Init /\ [][Next]_vars

-----------------------------------------------------------------------------
(* Properties.                                                             *)

\* #inflight counts exactly the runs that are executing, and never exceeds
\* maxConcurrent (coordinator.ts: #release, #pump, submit).
SlotsExact ==
  /\ inflight = Cardinality(Running)
  /\ inflight <= MaxConcurrent

\* A waiter exists only while every slot is taken: no path releases a slot
\* without handing it on.  #abortWaiter and close() rely on it, because the
\* #pump they call is harmless only then.
WorkConserving == Waiting # {} => inflight = MaxConcurrent

\* The ledger holds one call per queued or executed run and nothing else: a
\* reservation is returned exactly once, on exactly the paths that never
\* reached the provider (budget.ts: reserveBudget, refundBudget).
LedgerExact ==
  /\ \A s \in Session : sessionCalls[s] = Cardinality(InSession(Charged, s))
  /\ \A t \in Turn : turnCalls[t] = Cardinality(InTurn(Charged, t))

\* The provider is never called more often than the ceilings allow.
CallsBounded ==
  /\ \A s \in Session : Cardinality(InSession(called, s)) <= PerSessionCalls
  /\ \A t \in Turn : Cardinality(InTurn(called, t)) <= PerTurnCalls

\* Both queue limits hold whatever the order of arrivals and cancellations.
QueueBounded ==
  /\ Cardinality(Waiting) <= MaxQueue
  /\ \A s \in Session : Cardinality(InSession(Waiting, s)) <= MaxQueuePerSession

\* After close() nothing is waiting, so the pumps that the cancelled runs
\* still trigger cannot reach the provider again.
NothingStartsAfterClose == [][closed => called' = called]_vars

AnswersKept == \A r \in Run : outcome[r] # "none" => outcome'[r] = outcome[r]

\* A submission is answered once: its outcome never changes afterwards.
OutcomeFinal == [][AnswersKept]_vars
=============================================================================
