----------------------------- MODULE LocalDecider -----------------------------
(***************************************************************************)
(* The local decider service, python/local_decider: one thread per         *)
(* connection (Handler), one compute lane (Decider._loop) behind a bounded *)
(* queue, and the main thread that shuts both down.                        *)
(*                                                                         *)
(* A step is what a thread does between two points at which another thread *)
(* can notice: the queue, Job.done, Job.abandoned, the stop event.  The    *)
(* clock of a job is modelled by what the code compares it with: whether   *)
(* its deadline is spent, and whether GRACE_S is over as well.  A counter  *)
(* increment is one step: the interpreters the package supports do not     *)
(* switch threads inside that statement.                                   *)
(***************************************************************************)
EXTENDS Naturals, Sequences, SequencesExt

CONSTANTS
  Conn,        \* connections a client keeps alive; each has a handler thread
  Jobs,        \* how many Job objects may be alive at once
  Questions,   \* questions in a request
  QueueDepth   \* --queue-depth

ASSUME LocalDeciderAssumption ==
  Jobs \in Nat /\ Questions \in Nat \ {0} /\ QueueDepth \in Nat \ {0}

VARIABLES
  server,      \* the main thread: how far shutting down got
  handler,     \* Conn -> its thread, and what is left on its socket
  pending,     \* Decider.pending
  worker,      \* Decider.thread: where it is, and with which job
  job          \* Job

vars == <<server, handler, pending, worker, job>>

Slot == 1..Jobs
None == 0

\* What evaluate() or the worker makes of a job: the status of its response
\* (HTTP 200), or the ServiceError that is sent instead.
Responses == {"ok", "partial", "failed"}
Results == Responses \cup {"late", "error"}

Marks == {"answered", "error"}

NewHandler == [pc |-> "idle", job |-> None]
NewJob == [clock |-> "none", result |-> "none", done |-> FALSE, abandoned |-> FALSE, counted |-> 0]

At(pc) == [pc |-> pc, job |-> None, outcomes |-> <<>>]

Init ==
  /\ server = "up"
  /\ handler = [c \in Conn |-> NewHandler]
  /\ pending = <<>>
  /\ worker \in {At("loop"), At("none")}
  /\ job = [q \in Slot |-> NewJob]

Loaded == worker.pc # "none"
Stopping == server = "joining"
Running == server # "gone"

\* A Job lives as long as the lane or a handler has it.
InLane(q) == q = worker.job \/ q \in ToSet(pending)
Handled(q) == \E c \in Conn : handler[c].job = q
Release(q, held) == [job EXCEPT ![q] = IF held THEN @ ELSE NewJob]

\* The client of a connection that closed opens another, while it can.
Closed == IF server = "up" THEN NewHandler ELSE [NewHandler EXCEPT !.pc = "closed"]

-----------------------------------------------------------------------------
(* Handler threads.                                                        *)

Arrives(c) ==
  /\ Running /\ handler[c].pc = "idle"

\* _guard, and the content-length checks of do_POST: the answer goes out
\* before the body is read, on a connection that stays open.
RefuseUnread(c) ==
  /\ Arrives(c)
  /\ handler' = [handler EXCEPT ![c].pc = "unread"]
  /\ UNCHANGED <<server, pending, worker, job>>

\* The body came too slowly or not in full; the stream cannot be read again.
RefuseBody(c) ==
  /\ Arrives(c)
  /\ handler' = [handler EXCEPT ![c] = Closed]
  /\ UNCHANGED <<server, pending, worker, job>>

\* put_nowait(): jobs that were given up count as long as they are queued.
HasRoom == Len(pending) < QueueDepth

\* evaluate().  A body that does not validate, a service without weights and a
\* full queue are refused, and nothing changes.
Submit(c) ==
  /\ Arrives(c) /\ Loaded /\ HasRoom
  /\ \E q \in Slot :
       /\ job[q] = NewJob /\ \A p \in 1..(q - 1) : job[p] # NewJob
       /\ pending' = Append(pending, q)
       /\ job' = [job EXCEPT ![q].clock = "running"]
       /\ handler' = [handler EXCEPT ![c].pc = "waiting", ![c].job = q]
  /\ UNCHANGED <<server, worker>>

\* http.server reads the bytes left on the stream as a request line, answers
\* that, and closes; the request behind them is never read.
Garble(c) ==
  /\ Running /\ handler[c].pc = "unread"
  /\ handler' = [handler EXCEPT ![c] = Closed]
  /\ UNCHANGED <<server, pending, worker, job>>

\* job.done.wait() returned True.
Wake(c) ==
  /\ Running /\ handler[c].pc = "waiting" /\ job[handler[c].job].done
  /\ handler' = [handler EXCEPT ![c].pc = "replying"]
  /\ UNCHANGED <<server, pending, worker, job>>

\* [mutant] the wait is bounded only while the job is in the queue
GiveUpInQueue(c) ==
  /\ Running /\ handler[c].pc = "waiting"
  /\ handler[c].job \in ToSet(pending) /\ job[handler[c].job].clock = "over"
  /\ handler' = [handler EXCEPT ![c].pc = "givingUp"]
  /\ UNCHANGED <<server, pending, worker, job>>

\* job.done.wait() returned False ...
GiveUp(c) ==
  /\ Running /\ handler[c].pc = "waiting"
  /\ ~job[handler[c].job].done /\ job[handler[c].job].clock = "over"
  /\ handler' = [handler EXCEPT ![c].pc = "givingUp"]
  /\ UNCHANGED <<server, pending, worker, job>>

\* ... and the worker may finish before the flag is set.
Abandon(c) ==
  /\ Running /\ handler[c].pc = "givingUp"
  /\ job' = [job EXCEPT ![handler[c].job].abandoned = TRUE, ![handler[c].job].counted = @ + 1]
  /\ handler' = [handler EXCEPT ![c].pc = "timedOut"]
  /\ UNCHANGED <<server, pending, worker>>

\* _send to a client that is there, ...
Send(c) ==
  /\ Running /\ handler[c].pc \in {"replying", "timedOut"}
  /\ handler' = [handler EXCEPT ![c] = NewHandler]
  /\ job' = Release(handler[c].job, InLane(handler[c].job))
  /\ UNCHANGED <<server, pending, worker>>

\* ... and to one that hung up: the body fails and is counted, or the headers
\* fail, outside the try, or both are buffered.
SendFails(c) ==
  /\ Running /\ handler[c].pc \in {"replying", "timedOut"}
  /\ handler' = [handler EXCEPT ![c] = Closed]
  /\ job' = Release(handler[c].job, InLane(handler[c].job))
  /\ UNCHANGED <<server, pending, worker>>

-----------------------------------------------------------------------------
(* The compute lane.                                                       *)

\* while not self.stop.is_set()
Loop ==
  /\ Running /\ worker.pc = "loop"
  /\ worker' = [worker EXCEPT !.pc = IF Stopping THEN "exited" ELSE "get"]
  /\ UNCHANGED <<server, handler, pending, job>>

\* [mutant] the head is read and stays
GetKeeping ==
  /\ Running /\ worker.pc = "get"
  /\ worker' = IF pending = <<>> THEN At("loop") ELSE [At("run") EXCEPT !.job = Head(pending)]
  /\ UNCHANGED <<server, handler, pending, job>>

\* pending.get(timeout=0.25); stop may have been set meanwhile.
Get ==
  /\ Running /\ worker.pc = "get"
  /\ IF pending = <<>>
     THEN worker' = [worker EXCEPT !.pc = "loop"] /\ UNCHANGED pending
     ELSE worker' = [At("run") EXCEPT !.job = Head(pending)] /\ pending' = Tail(pending)
  /\ UNCHANGED <<server, handler, job>>

\* run(): the deadline was spent in the queue.
RunLate ==
  /\ Running /\ worker.pc = "run" /\ job[worker.job].clock # "running"
  /\ job' = IF Handled(worker.job)
            THEN [job EXCEPT ![worker.job].result = "late", ![worker.job].done = TRUE]
            ELSE Release(worker.job, FALSE)
  /\ worker' = At("loop")
  /\ UNCHANGED <<server, handler, pending>>

Run ==
  /\ Running /\ worker.pc = "run" /\ job[worker.job].clock = "running"
  /\ worker' = [worker EXCEPT !.pc = "question"]
  /\ UNCHANGED <<server, handler, pending, job>>

Unanswered == Len(worker.outcomes) < Questions
Note(mark) == worker' = [worker EXCEPT !.pc = "question", !.outcomes = Append(@, mark)]

\* evaluate(): a question whose turn comes after the deadline, ...
SkipQuestion ==
  /\ Running /\ worker.pc = "question" /\ Unanswered
  /\ job[worker.job].clock # "running"
  /\ Note("error")
  /\ UNCHANGED <<server, handler, pending, job>>

\* ... one that this backend cannot score, ...
RejectQuestion ==
  /\ Running /\ worker.pc = "question" /\ Unanswered
  /\ job[worker.job].clock = "running"
  /\ Note("error")
  /\ UNCHANGED <<server, handler, pending, job>>

\* [mutant] only the deadline of the whole job is checked, not each question's
ScoreUnchecked ==
  /\ Running /\ worker.pc = "question" /\ Unanswered
  /\ worker' = [worker EXCEPT !.pc = "scoring"]
  /\ UNCHANGED <<server, handler, pending, job>>

\* ... and one whose forward pass begins.
Score ==
  /\ Running /\ worker.pc = "question" /\ Unanswered
  /\ job[worker.job].clock = "running"
  /\ worker' = [worker EXCEPT !.pc = "scoring"]
  /\ UNCHANGED <<server, handler, pending, job>>

Scored ==
  /\ Running /\ worker.pc = "scoring"
  /\ \E mark \in {"answered", "error"} : Note(mark)
  /\ UNCHANGED <<server, handler, pending, job>>

\* The questions are too many, the backend fails, or something else is raised.
Raise ==
  /\ Running
  /\ worker.pc \in {"question", "scoring"}
  /\ job' = [job EXCEPT ![worker.job].result = "error"]
  /\ worker' = [worker EXCEPT !.pc = "set"]
  /\ UNCHANGED <<server, handler, pending>>

\* The envelope's status: a summary the policy layer must not over-read.
Status(outcomes) ==
  IF ToSet(outcomes) = {"answered"} THEN "ok"
  ELSE IF "answered" \in ToSet(outcomes) THEN "partial" ELSE "failed"

\* [mutant] the event is set before the response is stored
EvaluatedDoneFirst ==
  /\ Running /\ worker.pc = "question" /\ ~Unanswered
  /\ job' = [job EXCEPT ![worker.job].done = TRUE]
  /\ worker' = [worker EXCEPT !.pc = "set"]
  /\ UNCHANGED <<server, handler, pending>>

Evaluated ==
  /\ Running /\ worker.pc = "question" /\ ~Unanswered
  /\ job' = [job EXCEPT ![worker.job].result = Status(worker.outcomes)]
  /\ worker' = [worker EXCEPT !.pc = "set"]
  /\ UNCHANGED <<server, handler, pending>>

SetDone ==
  /\ Running /\ worker.pc = "set"
  /\ job' = [job EXCEPT ![worker.job].done = TRUE]
  /\ worker' = [worker EXCEPT !.pc = "check"]
  /\ UNCHANGED <<server, handler, pending>>

\* [mutant] whatever finishes after its deadline counts as discarded
CountSpent ==
  /\ Running /\ worker.pc = "check"
  /\ job' = IF Handled(worker.job) /\ job[worker.job].clock # "running"
            THEN [job EXCEPT ![worker.job].counted = @ + 1]
            ELSE Release(worker.job, Handled(worker.job))
  /\ worker' = At("loop")
  /\ UNCHANGED <<server, handler, pending>>

CheckAbandoned ==
  /\ Running /\ worker.pc = "check"
  /\ job' = IF Handled(worker.job) /\ job[worker.job].abandoned
            THEN [job EXCEPT ![worker.job].counted = @ + 1]
            ELSE Release(worker.job, Handled(worker.job))
  /\ worker' = At("loop")
  /\ UNCHANGED <<server, handler, pending>>

-----------------------------------------------------------------------------
(* Time, and the main thread.                                              *)

\* Past the deadline, then past the grace period, of a job somebody still
\* looks at.
Deadline(q) ==
  /\ Running /\ job[q].clock \in {"running", "spent"} /\ ~job[q].done
  /\ job' = [job EXCEPT ![q].clock = IF @ = "running" THEN "spent" ELSE "over"]
  /\ UNCHANGED <<server, handler, pending, worker>>

\* SIGINT or SIGTERM ends serve_forever.  server.shutdown() and server_close()
\* end new connections, while the handler threads go on; Decider.shutdown sets
\* stop.
Signal ==
  /\ server = "up"
  /\ server' = "joining"
  /\ UNCHANGED <<handler, pending, worker, job>>

\* The worker was joined, or 5 s have passed; the scorer is closed and main()
\* returns.  The other threads are daemons and die with the process.
Exit ==
  /\ server = "joining"
  /\ server' = "gone"
  /\ handler' = [c \in Conn |-> Closed]
  /\ pending' = <<>> /\ worker' = At("none") /\ job' = [q \in Slot |-> NewJob]

Receive(c) == RefuseUnread(c) \/ RefuseBody(c) \/ Submit(c) \/ Garble(c)

Handle(c) == Wake(c) \/ GiveUp(c) \/ Abandon(c) \/ Send(c) \/ SendFails(c)

Lane ==
  \/ Loop \/ Get \/ RunLate \/ Run
  \/ SkipQuestion \/ RejectQuestion \/ Score
  \/ Evaluated \/ SetDone \/ CheckAbandoned

Next ==
  \/ \E c \in Conn : Receive(c) \/ Handle(c)
  \/ Lane \/ Scored \/ Raise
  \/ \E q \in Slot : Deadline(q)
  \/ Signal \/ Exit

Spec == Init /\ [][Next]_vars

\* Time passes, and threads that can run do run.  The forward pass itself is
\* native code that need not return (Scored and Raise are not fair).
FairSpec ==
  /\ Spec
  /\ \A q \in Slot : WF_vars(Deadline(q))
  /\ \A c \in Conn : WF_vars(Handle(c))
  /\ WF_vars(Lane)

-----------------------------------------------------------------------------
(* Properties.                                                             *)

TypeOK ==
  /\ server \in {"up", "joining", "gone"}
  /\ handler \in [Conn -> [pc : {"idle", "unread", "waiting", "givingUp", "replying", "timedOut", "closed"},
                           job : Slot \cup {None}]]
  /\ pending \in Seq(Slot)
  /\ worker \in [pc : {"none", "loop", "get", "run", "question", "scoring", "set", "check", "exited"},
                 job : Slot \cup {None}, outcomes : Seq(Marks)]
  /\ job \in [Slot -> [clock : {"none", "running", "spent", "over"},
                      result : Results \cup {"none"}, done : BOOLEAN,
                      abandoned : BOOLEAN, counted : Nat]]

\* A job that is not finished is in exactly one place of the lane, and no two
\* handlers hold the same job: none is lost or scored twice, whoever gives up
\* and whenever the service stops.
OneLane ==
  /\ IsInjective(pending)
  /\ \A q \in Slot : job[q] # NewJob /\ ~job[q].done =>
       (q = worker.job) # (q \in ToSet(pending))
  /\ \A c, d \in Conn : handler[c].job # None /\ handler[c].job = handler[d].job => c = d

\* A handler that was woken finds what its own job came to: the event is set
\* after the response or the error is in place.
OwnResult ==
  \A c \in Conn : handler[c].pc = "replying" => job[handler[c].job].result \in Results

\* An answer that is delivered is not counted as discarded, neither by its
\* handler nor by the worker that looks at the flag after setting the event.
DeliveredIsNotDiscarded ==
  \A c \in Conn : handler[c].pc = "replying" => job[handler[c].job].counted = 0

\* No forward pass starts for a job nobody waits for any more: the grace period
\* is longer than the worker's reading of the deadline is old.
ScoredForSomebody ==
  [][worker.pc # "scoring" /\ worker'.pc = "scoring" =>
       \E c \in Conn : handler[c].pc = "waiting" /\ handler[c].job = worker.job]_vars

\* Whoever waits for a job is answered, or dies with the process, even if the
\* forward pass never returns and even if the worker has stopped.
EveryRequestAnswered ==
  \A c \in Conn : (handler[c].pc = "waiting") ~> (handler[c].pc \in {"idle", "closed"})
=============================================================================
