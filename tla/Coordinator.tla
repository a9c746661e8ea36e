----------------------------- MODULE Coordinator -----------------------------
(***************************************************************************)
(* DecisionCoordinator (packages/core/src/coordinator.ts), every method of *)
(* it: submit, #abortWaiter, #pump with the rotation of #nextWaiter,       *)
(* #execute up to its await and after it, #guard and close.                *)
(*                                                                         *)
(* The object is single-threaded JavaScript: what a method does before it  *)
(* awaits is one step.  `co` is the object's private state and each        *)
(* operator on a state s below is one of its methods.  Interleaving        *)
(* happens between steps: submissions, the callers' abort signals, the     *)
(* deadline timers, the provider's answers, the continuations of the       *)
(* awaits, and close().                                                    *)
(***************************************************************************)
EXTENDS Integers, Sequences, FiniteSets, SequencesExt

CONSTANTS
  Run,                      \* submissions: one element per call of submit()
  Session, Turn, Key,       \* ledger keys, and Run.key values
  SessionOf, TurnOf, KeyOf, \* functions on Run
  Cancellable,              \* runs whose caller may fire its abort signal
  MaxConcurrent, MaxQueue, MaxQueuePerSession,
  PerTurnCalls, PerSessionCalls,
  Deadline,                 \* deadlineMs, in ticks of the clock
  MaxApply                  \* bound: calls of apply() per answered run

ASSUME CoordinatorAssumption ==
  /\ IsFiniteSet(Run) /\ Cancellable \subseteq Run
  /\ \A r \in Run : SessionOf[r] \in Session /\ TurnOf[r] \in Turn /\ KeyOf[r] \in Key
  /\ MaxConcurrent \in Nat \ {0} /\ Deadline \in Nat \ {0}
  /\ MaxQueue \in Nat /\ MaxQueuePerSession \in Nat
  /\ PerTurnCalls \in Nat /\ PerSessionCalls \in Nat /\ MaxApply \in Nat

VARIABLES
  co,         \* the coordinator object, all of it but
  closed,     \* its #closed
  cancelled,  \* runs whose caller's AbortSignal is aborted
  age,        \* ticks since startedAt, for runs that are queued or running
  applied     \* results of apply(), in call order

vars == <<co, closed, cancelled, age, applied>>

-----------------------------------------------------------------------------
(* The lifecycle.                                                          *)

NextPhases ==
  [ created        |-> {"snapshotted", "cancelled", "failed"},
    snapshotted    |-> {"admitted", "cancelled", "failed", "stale"},
    admitted       |-> {"queued", "running", "cancelled", "timed_out", "failed"},
    queued         |-> {"running", "cancelled", "timed_out", "failed"},
    running        |-> {"observed", "cancelled", "timed_out", "failed"},
    observed       |-> {"validated", "cancelled", "failed", "stale"},
    validated      |-> {"policy_applied", "recorded", "cancelled", "failed", "stale"},
    policy_applied |-> {"recorded"},
    recorded       |-> {},
    cancelled      |-> {"recorded"},
    timed_out      |-> {"recorded"},
    failed         |-> {"recorded"},
    stale          |-> {"recorded"} ]

Phases == DOMAIN NextPhases
ClosedPhases == {"policy_applied", "recorded", "cancelled", "timed_out", "failed", "stale"}

\* Run.to, "illegal" standing for a thrown IllegalTransition.
Advance(phase, next) ==
  IF phase \in Phases /\ next \in NextPhases[phase] THEN next ELSE "illegal"

\* run.to(next)
To(s, r, next) == [s EXCEPT !.phase[r] = Advance(@, next)]

QueueOutcomes == {"queue-full-global", "queue-full-session", "timed-out-queue"}
Outcomes == {"none", "closed", "duplicate", "budget-session", "budget-turn", "cancelled",
             "timed-out-inference", "failed", "response"} \cup QueueOutcomes

\* run.to(last).to('recorded'), the key remembered and the promise resolved.
Finish(s, r, last, out) ==
  [To(To(s, r, last), r, "recorded") EXCEPT !.settled = @ \cup {KeyOf[r]}, !.outcome[r] = out]

-----------------------------------------------------------------------------
(* The ledger (budget.ts).                                                 *)

\* The session ceiling is tested first and is the scope reported.
BudgetRefusal(s, r) ==
  IF s.sessionCalls[SessionOf[r]] >= PerSessionCalls THEN "budget-session"
  ELSE IF s.turnCalls[TurnOf[r]] >= PerTurnCalls THEN "budget-turn" ELSE "none"

Reserve(s, r) ==
  [s EXCEPT !.turnCalls[TurnOf[r]] = @ + 1, !.sessionCalls[SessionOf[r]] = @ + 1]

Decrement(n) == IF n > 0 THEN n - 1 ELSE 0

\* Mutant of Refund: the session entry is forgotten.
RefundTurnOnly(s, r) == [s EXCEPT !.turnCalls[TurnOf[r]] = Decrement(@)]

Refund(s, r) ==
  [s EXCEPT !.turnCalls[TurnOf[r]] = Decrement(@),
            !.sessionCalls[SessionOf[r]] = Decrement(@)]

-----------------------------------------------------------------------------
(* The queues: a Map from session to a list, in the Map's insertion order. *)

\* The lengths of the lists in the Map, added up: as many as they have places.
Queued(s) == Cardinality(UNION {{k} \X DOMAIN s.queues[k] : k \in ToSet(s.order)})

\* The Map drops a key whose list has become empty.
SetQueue(s, k, list) ==
  [s EXCEPT !.queues[k] = list,
            !.order = IF list = <<>> THEN RemoveFirst(@, k)
                      ELSE IF k \in ToSet(@) THEN @ ELSE Append(@, k)]

\* Mutant of NextIndex: the key added last is always the next one.
NewestIndex(s) == Len(s.order) - 1

\* #nextWaiter, for a non-empty Map (no list in it is empty): the key under the
\* cursor, and the cursor one past it modulo the number of keys before removal.
NextIndex(s) == s.cursor % Len(s.order)

\* Mutant of TakeWaiter: the cursor moves back instead of on.
TakeWaiterBackwards(s) ==
  LET k == s.order[NextIndex(s) + 1]
  IN [SetQueue(s, k, Tail(s.queues[k])) EXCEPT !.cursor = NextIndex(s) - 1]

NextWaiter(s) == Head(s.queues[s.order[NextIndex(s) + 1]])
TakeWaiter(s) ==
  LET k == s.order[NextIndex(s) + 1]
  IN [SetQueue(s, k, Tail(s.queues[k])) EXCEPT !.cursor = (NextIndex(s) + 1) % Len(s.order)]
-----------------------------------------------------------------------------
(* The synchronous part of #execute, and the pump.  `slip` says, for a run *)
(* that is one tick short of its deadline, whether the clock reaches it    *)
(* between the reads that #pump and #execute make of it.                   *)

Slips == {"none", "timed-out-queue", "timed-out-inference"}
Edge(r) == {q \in Run : (q = r \/ co.phase[q] = "queued") /\ age[q] = Deadline - 1}
NoSlip == [r \in {} |-> "none"]
SlipOf(slip, r) == IF r \in DOMAIN slip THEN slip[r] ELSE "none"

Release(s) == [s EXCEPT !.inflight = Decrement(@)]

\* provider.evaluate is called and the race against the local abort begins.
Evaluate(s, r) == [To(s, r, "running") EXCEPT !.race[r] = "open"]

\* Mutant of Aborted: the list is shifted, not spliced.
AbortedShifts(s, r) ==
  LET k == SessionOf[r]
      t == IF s.queues[k] = <<>> THEN s ELSE SetQueue(s, k, Tail(s.queues[k]))
  IN IF s.phase[r] \in ClosedPhases THEN t
     ELSE Finish(Refund(t, r), r, "cancelled", "cancelled")

\* #abortWaiter up to its pump: a no-op for a run that is already closed.
Aborted(s, r) ==
  LET k == SessionOf[r]
      t == SetQueue(s, k, RemoveFirst(s.queues[k], r))
  IN IF s.phase[r] \in ClosedPhases THEN t
     ELSE Finish(Refund(t, r), r, "cancelled", "cancelled")

\* Mutant of Started: neither signal nor clock is looked at again.
StartedUnchecked(s, r, slip) == Evaluate(s, r)

\* #execute up to its await, or up to the pump of a run it drops; the slot has
\* been taken by the caller.
Started(s, r, slip) ==
  LET Drop(last, out) == Finish(Refund(Release(s), r), r, last, out)
  IN IF r \in cancelled THEN Drop("cancelled", "cancelled")
     ELSE IF SlipOf(slip, r) # "none" THEN Drop("timed_out", SlipOf(slip, r))
     ELSE Evaluate(s, r)

\* One turn of #pump's loop, and nothing once the loop has come to its end.
PumpOne(s, slip) ==
  IF s.inflight >= MaxConcurrent \/ s.order = <<>> THEN s
  ELSE LET r == NextWaiter(s)
           t == TakeWaiter(s)
       IN IF r \in cancelled THEN Aborted(t, r)
          ELSE IF age[r] >= Deadline THEN Finish(Refund(t, r), r, "timed_out", "timed-out-queue")
          ELSE Started([t EXCEPT !.inflight = @ + 1], r, slip)

\* #pump.  Each turn takes one waiter, so there are at most as many as runs.
\* The pumps that #abortWaiter and a drop in #execute call from within the loop
\* are its next turns: when they return, the loop that called them is at its end.
PumpTurns(s, slip) ==
  LET after[n \in Nat] == IF n = 0 THEN s ELSE PumpOne(after[n - 1], slip) IN after
Pump(s, slip) == PumpTurns(s, slip)[Cardinality(Run)]

AbortWaiter(s, r) ==
  IF s.phase[r] \in ClosedPhases THEN Aborted(s, r) ELSE Pump(Aborted(s, r), NoSlip)

Execute(s, r, slip) ==
  LET t == Started([s EXCEPT !.inflight = @ + 1], r, slip)
  IN IF t.phase[r] = "running" THEN t ELSE Pump(t, slip)

\* close() empties the queues one waiter at a time.
DrainOne(s) == IF s.order = <<>> THEN s ELSE AbortWaiter(TakeWaiter(s), NextWaiter(s))
DrainTurns(s) ==
  LET after[n \in Nat] == IF n = 0 THEN s ELSE DrainOne(after[n - 1]) IN after
Drain(s) == DrainTurns(s)[Cardinality(Run)]

-----------------------------------------------------------------------------
(* Actions.                                                                *)

Init ==
  /\ co = [ phase |-> [r \in Run |-> "created"],
            outcome |-> [r \in Run |-> "none"],
            queues |-> [k \in Session |-> <<>>],
            order |-> <<>>,
            cursor |-> 0,
            inflight |-> 0,
            turnCalls |-> [t \in Turn |-> 0],
            sessionCalls |-> [k \in Session |-> 0],
            settled |-> {},
            race |-> [r \in Run |-> "idle"],
            local |-> {} ]
  /\ closed = FALSE
  /\ cancelled = {}
  /\ age = [r \in Run |-> 0]
  /\ applied = [r \in Run |-> <<>>]

Pending(s, r) == s.phase[r] \in {"queued", "running"}

\* The clock of a run is followed only while the run is pending.
AgesFollow == age' = [r \in Run |-> IF Pending(co', r) THEN age[r] ELSE 0]

Submitted(r, slip) ==
  LET s == To(To(co, r, "snapshotted"), r, "admitted")
      k == SessionOf[r]
      reserved == Reserve(s, r)
      Full(out) == Finish(To(Refund(reserved, r), r, "queued"), r, "failed", out)
  IN CASE closed -> [co EXCEPT !.outcome[r] = "closed"]
       [] ~closed /\ KeyOf[r] \in co.settled -> [s EXCEPT !.outcome[r] = "duplicate"]
       [] ~closed /\ KeyOf[r] \notin co.settled ->
            IF BudgetRefusal(s, r) # "none"
            THEN Finish(s, r, "failed", BudgetRefusal(s, r))
            ELSE IF co.inflight < MaxConcurrent
                 THEN Execute(reserved, r, slip)
            ELSE IF Queued(co) >= MaxQueue THEN Full("queue-full-global")
            ELSE IF Len(co.queues[k]) >= MaxQueuePerSession THEN Full("queue-full-session")
            ELSE SetQueue(To(reserved, r, "queued"), k, Append(co.queues[k], r))

Submit(r) ==
  /\ co.phase[r] = "created" /\ co.outcome[r] = "none"
  /\ \E slip \in [Edge(r) -> Slips] : co' = Submitted(r, slip)
  /\ AgesFollow
  /\ UNCHANGED <<closed, cancelled, applied>>

\* The local controller of r aborts; the race takes it if nothing came first.
AbortLocal(s, r) ==
  [s EXCEPT !.local = @ \cup {r},
            !.race[r] = IF @ = "open" THEN "aborted" ELSE @]

\* The caller's signal fires.  Before submission and after the outcome nobody
\* listens; a signal that was aborted before the run was queued never fires.
Cancel(r) ==
  /\ r \in Cancellable \ cancelled
  /\ cancelled' = cancelled \cup {r}
  /\ co' = CASE co.phase[r] = "queued" -> AbortWaiter(co, r)
             [] co.phase[r] = "running" -> AbortLocal(co, r)
             [] OTHER -> co
  /\ AgesFollow
  /\ UNCHANGED <<closed, applied>>

Tick ==
  /\ \E r \in Run : Pending(co, r) /\ age[r] < Deadline
  /\ age' = [r \in Run |-> IF Pending(co, r) /\ age[r] < Deadline THEN age[r] + 1 ELSE age[r]]
  /\ UNCHANGED <<co, closed, cancelled, applied>>

\* The timer that #execute armed for what was left of the deadline.
DeadlineFires(r) ==
  /\ co.phase[r] = "running" /\ r \notin co.local
  /\ age[r] >= Deadline
  /\ co' = AbortLocal(co, r)
  /\ UNCHANGED <<closed, cancelled, age, applied>>

Answers == {"ok", "failed", "threw"}

Stopped(r) == r \in cancelled \/ closed

\* The provider's promise settles: ok, a response whose status is failed, or a
\* rejection.  Once the race is decided the answer is late: a diagnostic line.
ProviderAnswers(r, how) ==
  /\ co.race[r] # "idle"
  /\ co' = IF co.race[r] = "open" THEN [co EXCEPT !.race[r] = how] ELSE co
  /\ UNCHANGED <<closed, cancelled, age, applied>>

\* Mutants of Settled: whatever ended the race is called a cancellation; an
\* aborted run is first recorded as observed.
SettledAlwaysCancelled(r) == Finish(co, r, "cancelled", "cancelled")
SettledObservesAbort(r) == Finish(To(co, r, "observed"), r, "timed_out", "timed-out-inference")

\* The continuation of the await: which terminal state the race led to, read
\* against the signals as they are now.
Settled(r) ==
  LET validated == To(To(co, r, "observed"), r, "validated")
  IN CASE co.race[r] = "ok" ->
            [validated EXCEPT !.settled = @ \cup {KeyOf[r]}, !.outcome[r] = "response"]
       [] co.race[r] = "failed" -> Finish(validated, r, "failed", "failed")
       [] co.race[r] \in {"aborted", "threw"} /\ Stopped(r) ->
            Finish(co, r, "cancelled", "cancelled")
       [] co.race[r] \in {"aborted", "threw"} /\ ~Stopped(r) ->
            IF r \in co.local THEN Finish(co, r, "timed_out", "timed-out-inference")
            ELSE Finish(co, r, "failed", "failed")

\* Mutant of Settle: the freed slot is not handed on.
SettleWithoutPump(r) ==
  /\ co.phase[r] = "running" /\ co.race[r] # "open"
  /\ co' = Release(Settled(r))
  /\ AgesFollow
  /\ UNCHANGED <<closed, cancelled, applied>>

\* ... and its finally block: the slot is released and the pump runs.
Settle(r) ==
  /\ co.phase[r] = "running" /\ co.race[r] # "open"
  /\ \E slip \in [Edge(r) -> Slips] : co' = Pump(Release(Settled(r)), slip)
  /\ AgesFollow
  /\ UNCHANGED <<closed, cancelled, applied>>

\* Mutant of Apply: neither `consumed` nor the phase is looked at.
ApplyUnguarded(r, fresh) ==
  /\ co.outcome[r] = "response" /\ Len(applied[r]) < MaxApply
  /\ applied' = [applied EXCEPT ![r] = Append(@, IF fresh THEN "applied" ELSE "stale")]
  /\ UNCHANGED <<co, closed, cancelled, age>>

\* GuardedApplication.apply, which the caller may invoke again and again.
Apply(r, fresh) ==
  /\ co.outcome[r] = "response" /\ Len(applied[r]) < MaxApply
  /\ LET consumed == "applied" \in ToSet(applied[r])
         result == IF consumed \/ co.phase[r] \in ClosedPhases THEN "already-applied"
                   ELSE IF fresh THEN "applied" ELSE "stale"
     IN /\ applied' = [applied EXCEPT ![r] = Append(@, result)]
        /\ co' = CASE result = "applied" -> To(To(co, r, "policy_applied"), r, "recorded")
                   [] result = "stale" -> To(To(co, r, "stale"), r, "recorded")
                   [] OTHER -> co
  /\ UNCHANGED <<closed, cancelled, age>>

\* close() up to its await of provider.close().  The controllers of settled
\* calls, which are never removed from #localControls, have nobody listening.
Close ==
  /\ ~closed /\ closed' = TRUE
  /\ LET s == Drain(co)
     IN co' = [s EXCEPT !.local = @ \cup {r \in Run : s.phase[r] = "running"},
                        !.race = [r \in Run |-> IF @[r] = "open" THEN "aborted" ELSE @[r]]]
  /\ AgesFollow
  /\ UNCHANGED <<cancelled, applied>>

Next ==
  \/ \E r \in Run : \/ Submit(r) \/ Cancel(r) \/ DeadlineFires(r) \/ Settle(r)
                    \/ \E how \in Answers : ProviderAnswers(r, how)
                    \/ \E fresh \in BOOLEAN : Apply(r, fresh)
  \/ Tick \/ Close

Spec == Init /\ [][Next]_vars

\* What the event loop does by itself: time passes, due timers fire, resolved
\* awaits continue.  Nothing is assumed of callers, the provider, or close().
EventLoop == Tick \/ \E r \in Run : DeadlineFires(r) \/ Settle(r)

FairSpec == Spec /\ WF_vars(EventLoop)

-----------------------------------------------------------------------------
(* Properties.                                                             *)

TypeOK ==
  /\ co.phase \in [Run -> Phases \cup {"illegal"}]
  /\ co.outcome \in [Run -> Outcomes]
  /\ co.queues \in [Session -> Seq(Run)] /\ co.order \in Seq(Session)
  /\ co.cursor \in Nat /\ co.inflight \in Nat
  /\ co.turnCalls \in [Turn -> Nat] /\ co.sessionCalls \in [Session -> Nat]
  /\ co.settled \subseteq Key /\ co.local \subseteq Run /\ closed \in BOOLEAN
  /\ co.race \in [Run -> {"idle", "open", "ok", "failed", "threw", "aborted"}]
  /\ cancelled \subseteq Run
  /\ age \in [Run -> 0..Deadline]
  /\ \A r \in Run : ToSet(applied[r]) \subseteq {"applied", "stale", "already-applied"}

\* No interleaving of cancellation, timeout, answer, close and apply drives a
\* run along an edge the NEXT table lacks: Run.to never throws.
NoIllegalTransition == \A r \in Run : co.phase[r] # "illegal"

\* The Map holds exactly the sessions with waiters, each waiter once, in the
\* queued phase and under its own session, so #nextWaiter never skips or loses
\* one after a cancellation spliced the middle of a list.
QueueWellFormed ==
  /\ IsInjective(co.order)
  /\ \A k \in Session :
       /\ k \in ToSet(co.order) <=> co.queues[k] # <<>>
       /\ IsInjective(co.queues[k])
       /\ ToSet(co.queues[k]) = {r \in Run : SessionOf[r] = k /\ co.phase[r] = "queued"}

\* An outcome says what happened: `cancelled` only if the caller or close()
\* stopped the run, `failed` only if the provider itself failed it, and an
\* inference timeout of a started call only after its controller was aborted.
OutcomeHonest ==
  \A r \in Run :
    /\ co.outcome[r] = "cancelled" => Stopped(r)
    /\ co.outcome[r] = "failed" => co.race[r] \in {"failed", "threw"}
    /\ co.outcome[r] = "response" => co.race[r] = "ok"
    /\ co.outcome[r] = "timed-out-inference" /\ co.race[r] # "idle" => r \in co.local
    /\ co.outcome[r] \in QueueOutcomes => co.race[r] = "idle"

\* A decision is applied at most once, and never after it was found stale.
AppliedOnce ==
  \A r \in Run : \A i, j \in DOMAIN applied[r] :
    i < j /\ applied[r][i] \in {"applied", "stale"} => applied[r][j] = "already-applied"

\* Work is handed to the provider only for a run whose caller still wants it,
\* whose deadline is not spent, and before close() -- in particular when the
\* pump reaches a waiter long after it was queued.
ProviderCallWanted ==
  [][\A r \in Run : co.race[r] = "idle" /\ co'.race[r] # "idle" =>
       r \notin cancelled /\ age[r] < Deadline /\ ~closed]_vars

\* Whoever submits gets an outcome, even if the provider never answers, the
\* caller never cancels and nobody closes: the deadline timer of the running
\* calls is what empties the queue.  A run is submitted once, so it is the same
\* to say that again and again everybody who has submitted has an outcome.
EveryRunAnswered ==
  []<>(\A r \in Run : co.phase[r] # "created" => co.outcome[r] # "none")

-----------------------------------------------------------------------------
(* The coordinator implements the admission contract.                      *)

StageOf(r) ==
  CASE co.phase[r] = "created" /\ co.outcome[r] = "none" -> "new"
    [] co.phase[r] = "queued" -> "waiting"
    [] co.phase[r] = "running" -> "running"
    [] OTHER -> "ended"

AdmissionOutcome(out) ==
  CASE out \in {"queue-full-global", "queue-full-session"} -> "queue-full"
    [] out \in {"timed-out-queue", "timed-out-inference"} -> "timed-out"
    [] out \in {"budget-session", "budget-turn"} -> "budget-exceeded"
    [] OTHER -> out

Contract == INSTANCE Admission WITH
  stage <- [r \in Run |-> StageOf(r)],
  outcome <- [r \in Run |-> AdmissionOutcome(co.outcome[r])],
  called <- {r \in Run : co.race[r] # "idle"},
  inflight <- co.inflight,
  turnCalls <- co.turnCalls,
  sessionCalls <- co.sessionCalls

\* Every step of the code, whatever the rotation chose, is one the admission
\* contract allows, or leaves its state alone.
ImplementsAdmission == Contract!Spec
=============================================================================
