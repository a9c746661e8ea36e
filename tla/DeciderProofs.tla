----------------------------- MODULE DeciderProofs -----------------------------
(***************************************************************************)
(* Proofs about LocalDecider, for every number of connections, jobs,       *)
(* questions and places in the queue: which thread has which job, and what *)
(* a handler finds in the job it was woken for.                            *)
(***************************************************************************)
EXTENDS LocalDecider, TLAPS

-----------------------------------------------------------------------------
(* The queue as a sequence without repetitions.                            *)

\* Appending a job that is not queued.
LEMMA AppendNew ==
  ASSUME NEW S, NEW s \in Seq(S), IsInjective(s), NEW x \in S, x \notin ToSet(s)
  PROVE  /\ Append(s, x) \in Seq(S) /\ IsInjective(Append(s, x))
         /\ ToSet(Append(s, x)) = ToSet(s) \cup {x}
<1>1. Append(s, x) \in Seq(S) /\ Len(Append(s, x)) = Len(s) + 1
  OBVIOUS
<1>2. \A i \in 1..Len(s) : Append(s, x)[i] = s[i]
  OBVIOUS
<1>3. Append(s, x)[Len(s) + 1] = x
  OBVIOUS
<1>4. ToSet(Append(s, x)) = ToSet(s) \cup {x}
  BY <1>1, <1>2, <1>3 DEF ToSet
<1>5. IsInjective(Append(s, x))
  BY <1>1, <1>2, <1>3 DEF IsInjective, ToSet
<1>6. QED
  BY <1>1, <1>4, <1>5

\* Taking the job at the head.
LEMMA TakeHead ==
  ASSUME NEW S, NEW s \in Seq(S), IsInjective(s), s # <<>>
  PROVE  /\ Tail(s) \in Seq(S) /\ IsInjective(Tail(s))
         /\ Head(s) \in S /\ Head(s) \in ToSet(s)
         /\ ToSet(Tail(s)) = ToSet(s) \ {Head(s)}
<1>1. Tail(s) \in Seq(S) /\ Len(Tail(s)) = Len(s) - 1 /\ Len(s) \in Nat \ {0}
  OBVIOUS
<1>2. \A i \in 1..Len(s) - 1 : Tail(s)[i] = s[i + 1]
  OBVIOUS
<1>3. Head(s) = s[1] /\ Head(s) \in S /\ Head(s) \in ToSet(s)
  BY <1>1 DEF ToSet
<1>4. IsInjective(Tail(s))
  BY <1>1, <1>2 DEF IsInjective
<1>5. ToSet(Tail(s)) = ToSet(s) \ {Head(s)}
  <2>1. ASSUME NEW x \in ToSet(Tail(s))
        PROVE  x \in ToSet(s) \ {Head(s)}
    BY <1>1, <1>2, <1>3 DEF ToSet, IsInjective
  <2>2. ASSUME NEW x \in ToSet(s) \ {Head(s)}
        PROVE  x \in ToSet(Tail(s))
    <3>1. PICK i \in 1..Len(s) : x = s[i] /\ i # 1
      BY <1>3 DEF ToSet
    <3>2. i - 1 \in 1..Len(s) - 1 /\ x = Tail(s)[i - 1]
      BY <1>1, <1>2, <3>1
    <3>3. QED
      BY <1>1, <3>2 DEF ToSet
  <2>3. QED
    BY <2>1, <2>2
<1>6. QED
  BY <1>1, <1>3, <1>4, <1>5

-----------------------------------------------------------------------------
(* The inductive invariant.                                                *)

Busy == {"run", "question", "scoring", "set", "check"}
Holding == {"waiting", "givingUp", "replying", "timedOut"}

\* The lane: what is queued or being run is alive, and in one place.
LaneInv ==
  /\ IsInjective(pending)
  /\ worker.job # None <=> worker.pc \in Busy
  /\ worker.job \notin ToSet(pending)
  /\ \A q \in ToSet(pending) : job[q].clock # "none" /\ ~job[q].done
  /\ worker.job # None =>
       job[worker.job].clock # "none" /\ (job[worker.job].done <=> worker.pc = "check")
  /\ worker.pc = "set" => job[worker.job].result \in Results

\* A job: unused, or finished with a result, or in the lane.
JobInv(q) ==
  /\ job[q].clock = "none" => job[q] = NewJob
  /\ job[q].done => job[q].result \in Results
  /\ job[q].clock # "none" /\ ~job[q].done => InLane(q)

\* A handler: it holds a job exactly while it waits or replies, and before it
\* has given up nobody counts its job.
HandlerInv(c) ==
  /\ handler[c].job # None <=> handler[c].pc \in Holding
  /\ handler[c].job # None => job[handler[c].job].clock # "none"
  /\ handler[c].pc = "replying" => job[handler[c].job].done
  /\ handler[c].pc \in {"waiting", "givingUp", "replying"} =>
       ~job[handler[c].job].abandoned /\ job[handler[c].job].counted = 0

OwnJobs ==
  \A c, d \in Conn : handler[c].job # None /\ handler[c].job = handler[d].job => c = d

IInv ==
  /\ TypeOK /\ LaneInv /\ OwnJobs
  /\ \A q \in Slot : JobInv(q)
  /\ \A c \in Conn : HandlerInv(c)

JobRecord == [clock : {"none", "running", "spent", "over"}, result : Results \cup {"none"},
              done : BOOLEAN, abandoned : BOOLEAN, counted : Nat]
HandlerRecord == [pc : {"idle", "unread", "closed"} \cup Holding, job : Slot \cup {None}]

LEMMA NoneIsNoSlot == None \notin Slot
  BY LocalDeciderAssumption DEF None, Slot

LEMMA Records ==
  /\ NewJob \in JobRecord /\ NewHandler \in HandlerRecord
  /\ Closed \in HandlerRecord /\ Closed.job = None /\ Closed.pc \in {"idle", "closed"}
  /\ NewJob.clock = "none" /\ ~NewJob.done /\ ~NewJob.abandoned /\ NewJob.counted = 0
  /\ NewHandler.job = None /\ NewHandler.pc = "idle"
  BY DEF NewJob, NewHandler, Closed, JobRecord, HandlerRecord, Holding

LEMMA InitIInv == Init => IInv
<1> SUFFICES ASSUME Init PROVE IInv
  OBVIOUS
<1>1. \A c \in Conn : handler[c] = NewHandler
  BY DEF Init
<1>2. \A q \in Slot : job[q] = NewJob
  BY DEF Init
<1>3. TypeOK
  <2>1. handler \in [Conn -> HandlerRecord] /\ job \in [Slot -> JobRecord]
    BY Records DEF Init
  <2>2. /\ worker.pc \in {"loop", "none"} /\ worker.job = None /\ worker.outcomes = <<>>
        /\ worker = [pc |-> worker.pc, job |-> None, outcomes |-> <<>>]
    BY DEF Init, At
  <2>3. pending \in Seq(Slot) /\ server = "up"
    BY DEF Init
  <2>4. worker \in [pc : {"none", "loop", "get", "run", "question", "scoring", "set", "check", "exited"},
                   job : Slot \cup {None}, outcomes : Seq(Marks)]
    <3>1. <<>> \in Seq(Marks)
      OBVIOUS
    <3>2. QED
      BY <2>2, <3>1
  <2>5. HandlerRecord = [pc : {"idle", "unread", "waiting", "givingUp", "replying", "timedOut", "closed"},
                         job : Slot \cup {None}]
    BY DEF HandlerRecord, Holding
  <2>6. QED
    BY <2>1, <2>3, <2>4, <2>5 DEF TypeOK, JobRecord
<1>4. pending = <<>> /\ ToSet(pending) = {} /\ IsInjective(pending)
  BY DEF Init, ToSet, IsInjective
<1>5. LaneInv
  BY <1>4 DEF Init, LaneInv, At, Busy
<1>6. QED
  BY <1>1, <1>2, <1>3, <1>5, Records DEF IInv, JobInv, HandlerInv, OwnJobs, Holding

-----------------------------------------------------------------------------
(* Steps of the handlers.                                                  *)

\* What the invariant says of the states, for use in the steps.
LEMMA Facts ==
  ASSUME IInv
  PROVE  /\ handler \in [Conn -> HandlerRecord] /\ job \in [Slot -> JobRecord]
         /\ pending \in Seq(Slot) /\ IsInjective(pending)
         /\ worker.job \in Slot \cup {None}
         /\ \A c \in Conn : HandlerInv(c)
         /\ \A q \in Slot : JobInv(q)
         /\ ToSet(pending) \subseteq Slot
<1>1. TypeOK /\ IsInjective(pending)
  BY DEF IInv, LaneInv
<1>2. ToSet(pending) \subseteq Slot
  BY <1>1 DEF TypeOK, ToSet
<1>3. QED
  BY <1>1, <1>2 DEF IInv, TypeOK, HandlerRecord, JobRecord, Holding

\* A handler that changes its place without touching a job.
LEMMA HandlerMoves ==
  ASSUME IInv, NEW c \in Conn, NEW h \in HandlerRecord, handler' = [handler EXCEPT ![c] = h],
         UNCHANGED <<server, pending, worker, job>>,
         h.job = handler[c].job, h.job # None <=> h.pc \in Holding,
         h.pc = "replying" => job[h.job].done,
         h.pc \in {"waiting", "givingUp", "replying"} => ~job[h.job].abandoned /\ job[h.job].counted = 0
  PROVE  IInv'
<1>1. handler'[c] = h /\ \A d \in Conn \ {c} : handler'[d] = handler[d]
  BY Facts
<1>2. TypeOK'
  BY Facts DEF IInv, TypeOK, HandlerRecord, Holding
<1>3. LaneInv' /\ \A q \in Slot : JobInv(q)'
  BY DEF IInv, LaneInv, JobInv, InLane
<1>4. OwnJobs'
  BY <1>1 DEF IInv, OwnJobs
<1>5. ASSUME NEW d \in Conn
      PROVE  HandlerInv(d)'
  BY <1>1, Facts DEF HandlerInv
<1>6. QED
  BY <1>2, <1>3, <1>4, <1>5 DEF IInv

LEMMA ReceiveKeeps ==
  ASSUME IInv, NEW c \in Conn, RefuseUnread(c) \/ RefuseBody(c) \/ Garble(c)
  PROVE  IInv'
<1>1. handler[c].job = None /\ handler[c] \in HandlerRecord /\ handler[c].pc \in {"idle", "unread"}
  BY Facts DEF HandlerInv, RefuseUnread, RefuseBody, Garble, Arrives, Holding
<1>2. CASE RefuseUnread(c)
  <2> DEFINE h == [handler[c] EXCEPT !.pc = "unread"]
  <2>1. h \in HandlerRecord /\ h.job = None /\ h.pc = "unread" /\ handler' = [handler EXCEPT ![c] = h]
    BY <1>1, <1>2 DEF RefuseUnread, HandlerRecord
  <2>2. QED
    BY <1>1, <1>2, <2>1, HandlerMoves DEF RefuseUnread, Holding
<1>3. CASE RefuseBody(c) \/ Garble(c)
  BY <1>1, <1>3, Records, HandlerMoves DEF RefuseBody, Garble, Holding
<1>4. QED
  BY <1>2, <1>3

LEMMA WaitEnds ==
  ASSUME IInv, NEW c \in Conn, Wake(c) \/ GiveUp(c)
  PROVE  IInv'
<1>1. handler[c].pc = "waiting" /\ handler[c] \in HandlerRecord /\ HandlerInv(c)
  BY Facts DEF Wake, GiveUp
<1>2. CASE Wake(c)
  <2> DEFINE h == [handler[c] EXCEPT !.pc = "replying"]
  <2>1. h \in HandlerRecord /\ h.job = handler[c].job /\ h.pc = "replying" /\ handler' = [handler EXCEPT ![c] = h]
    BY <1>1, <1>2 DEF Wake, HandlerRecord, Holding
  <2>2. QED
    BY <1>1, <1>2, <2>1, HandlerMoves DEF Wake, HandlerInv, Holding
<1>3. CASE GiveUp(c)
  <2> DEFINE h == [handler[c] EXCEPT !.pc = "givingUp"]
  <2>1. h \in HandlerRecord /\ h.job = handler[c].job /\ h.pc = "givingUp" /\ handler' = [handler EXCEPT ![c] = h]
    BY <1>1, <1>3 DEF GiveUp, HandlerRecord, Holding
  <2>2. QED
    BY <1>1, <1>3, <2>1, HandlerMoves DEF GiveUp, HandlerInv, Holding
<1>4. QED
  BY <1>2, <1>3

\* A job that is not in the lane and not finished belongs to nobody.
LEMMA UnusedJob ==
  ASSUME IInv, NEW q \in Slot, job[q] = NewJob
  PROVE  /\ q \notin ToSet(pending) /\ worker.job # q
         /\ \A c \in Conn : handler[c].job # q
  BY Facts, Records, NoneIsNoSlot DEF IInv, LaneInv, HandlerInv

LEMMA SubmitKeeps ==
  ASSUME IInv, NEW c \in Conn, Submit(c)
  PROVE  IInv'
<1>1. PICK q \in Slot : /\ job[q] = NewJob
                        /\ pending' = Append(pending, q)
                        /\ job' = [job EXCEPT ![q].clock = "running"]
                        /\ handler' = [handler EXCEPT ![c].pc = "waiting", ![c].job = q]
                        /\ UNCHANGED <<server, worker>>
  BY DEF Submit
<1>2. /\ q \notin ToSet(pending) /\ worker.job # q /\ q # None
      /\ \A d \in Conn : handler[d].job # q
  BY <1>1, UnusedJob, NoneIsNoSlot
<1>3. /\ pending' \in Seq(Slot) /\ IsInjective(pending') /\ ToSet(pending') = ToSet(pending) \cup {q}
  BY <1>1, <1>2, Facts, AppendNew
<1>4. /\ job' \in [Slot -> JobRecord] /\ \A p \in Slot \ {q} : job'[p] = job[p]
      /\ job'[q].clock = "running" /\ ~job'[q].done /\ ~job'[q].abandoned /\ job'[q].counted = 0
  BY <1>1, Facts, Records DEF JobRecord
<1>5. /\ handler' \in [Conn -> HandlerRecord] /\ \A d \in Conn \ {c} : handler'[d] = handler[d]
      /\ handler'[c].pc = "waiting" /\ handler'[c].job = q
  BY <1>1, Facts DEF HandlerRecord, Holding
<1>6. TypeOK'
  BY <1>1, <1>3, <1>4, <1>5 DEF IInv, TypeOK, HandlerRecord, JobRecord, Holding
<1>7. LaneInv'
  BY <1>1, <1>2, <1>3, <1>4, Facts DEF IInv, LaneInv
<1>8. OwnJobs'
  BY <1>2, <1>5 DEF IInv, OwnJobs
<1>9. ASSUME NEW p \in Slot
      PROVE  JobInv(p)'
  BY <1>1, <1>3, <1>4, Facts DEF JobInv, InLane
<1>10. ASSUME NEW d \in Conn
       PROVE  HandlerInv(d)'
  <2>1. CASE d = c
    BY <1>2, <1>4, <1>5, <2>1 DEF HandlerInv, Holding
  <2>2. CASE d # c
    BY <1>2, <1>4, <1>5, <2>2, Facts DEF HandlerInv, HandlerRecord
  <2>3. QED
    BY <2>1, <2>2
<1>11. QED
  BY <1>6, <1>7, <1>8, <1>9, <1>10 DEF IInv

\* The handler that gives up marks its own job and no other.
LEMMA AbandonKeeps ==
  ASSUME IInv, NEW c \in Conn, Abandon(c)
  PROVE  IInv'
<1> DEFINE q == handler[c].job
<1>1. /\ handler[c].pc = "givingUp" /\ q \in Slot /\ q # None /\ HandlerInv(c)
      /\ job' = [job EXCEPT ![q].abandoned = TRUE, ![q].counted = @ + 1]
      /\ handler' = [handler EXCEPT ![c].pc = "timedOut"]
      /\ UNCHANGED <<server, pending, worker>>
  BY Facts DEF Abandon, HandlerInv, HandlerRecord, Holding
<1> HIDE DEF q
<1>2. /\ job' \in [Slot -> JobRecord] /\ \A p \in Slot \ {q} : job'[p] = job[p]
      /\ job'[q].clock = job[q].clock /\ job'[q].done = job[q].done /\ job'[q].result = job[q].result
  BY <1>1, Facts DEF JobRecord
<1>3. /\ handler' \in [Conn -> HandlerRecord] /\ \A d \in Conn \ {c} : handler'[d] = handler[d]
      /\ handler'[c].pc = "timedOut" /\ handler'[c].job = q
  BY <1>1, Facts DEF HandlerRecord, Holding, q
<1>4. TypeOK'
  BY <1>1, <1>2, <1>3 DEF IInv, TypeOK, HandlerRecord, JobRecord, Holding
<1>5. LaneInv'
  <2>1. \A p \in Slot : /\ job'[p].clock = job[p].clock /\ job'[p].done = job[p].done
                        /\ job'[p].result = job[p].result
    BY <1>2
  <2>2. QED
    BY <1>1, <2>1, Facts, NoneIsNoSlot DEF IInv, LaneInv, Busy
<1>6. OwnJobs'
  BY <1>3 DEF IInv, OwnJobs, q
<1>7. ASSUME NEW p \in Slot
      PROVE  JobInv(p)'
  <2>1. JobInv(p) /\ (p = q => job[p].clock # "none")
    BY <1>1, Facts DEF HandlerInv, q
  <2>2. QED
    BY <1>1, <1>2, <2>1 DEF JobInv, InLane
<1>8. ASSUME NEW d \in Conn
      PROVE  HandlerInv(d)'
  <2>1. CASE d = c
    BY <1>1, <1>2, <1>3, <2>1 DEF HandlerInv, Holding, q
  <2>2. CASE d # c
    <3>1. HandlerInv(d) /\ handler[d].job \in Slot \cup {None} /\ handler[d].job # q
      BY <1>1, <2>2, Facts DEF IInv, OwnJobs, HandlerRecord, q
    <3>2. QED
      BY <1>2, <1>3, <2>2, <3>1 DEF HandlerInv, Holding
  <2>3. QED
    BY <2>1, <2>2
<1>9. QED
  BY <1>4, <1>5, <1>6, <1>7, <1>8 DEF IInv

\* The reply is out or lost: the handler lets go of its job, which goes on only
\* in the lane.
LEMMA ReplyKeeps ==
  ASSUME IInv, NEW c \in Conn, Send(c) \/ SendFails(c)
  PROVE  IInv'
<1> DEFINE q == handler[c].job
<1>1. PICK h \in {NewHandler, Closed} : handler' = [handler EXCEPT ![c] = h]
  BY DEF Send, SendFails
<1>2. /\ q \in Slot /\ q # None /\ HandlerInv(c)
      /\ job' = [job EXCEPT ![q] = IF InLane(q) THEN job[q] ELSE NewJob]
      /\ UNCHANGED <<server, pending, worker>>
  BY Facts DEF Send, SendFails, Release, HandlerInv, HandlerRecord, Holding
<1> HIDE DEF q
<1>3. /\ job' \in [Slot -> JobRecord] /\ \A p \in Slot \ {q} : job'[p] = job[p]
      /\ job'[q] = IF InLane(q) THEN job[q] ELSE NewJob
  BY <1>2, Facts, Records
<1>4. /\ handler' \in [Conn -> HandlerRecord] /\ \A d \in Conn \ {c} : handler'[d] = handler[d]
      /\ handler'[c].job = None /\ handler'[c].pc \notin Holding
  BY <1>1, Facts, Records DEF Holding
<1>5. TypeOK'
  BY <1>2, <1>3, <1>4 DEF IInv, TypeOK, HandlerRecord, JobRecord, Holding
<1>6. LaneInv'
  BY <1>2, <1>3, Facts DEF IInv, LaneInv, InLane
<1>7. OwnJobs'
  BY <1>4 DEF IInv, OwnJobs
<1>8. ASSUME NEW p \in Slot
      PROVE  JobInv(p)'
  BY <1>2, <1>3, Facts, Records DEF JobInv, InLane
<1>9. ASSUME NEW d \in Conn
      PROVE  HandlerInv(d)'
  <2>1. CASE d = c
    BY <1>4, <2>1 DEF HandlerInv, Holding
  <2>2. CASE d # c
    <3>1. HandlerInv(d) /\ handler[d].job \in Slot \cup {None} /\ handler[d].job # q
      BY <1>2, <2>2, Facts DEF IInv, OwnJobs, HandlerRecord, q
    <3>2. QED
      BY <1>3, <1>4, <2>2, <3>1 DEF HandlerInv, Holding
  <2>3. QED
    BY <2>1, <2>2
<1>10. QED
  BY <1>5, <1>6, <1>7, <1>8, <1>9 DEF IInv

-----------------------------------------------------------------------------
(* Steps of the lane.                                                      *)

WorkerRecord == [pc : {"none", "loop", "get", "run", "question", "scoring", "set", "check", "exited"},
                 job : Slot \cup {None}, outcomes : Seq(Marks)]

LEMMA WorkerTyped == IInv => worker \in WorkerRecord
  BY DEF IInv, TypeOK, WorkerRecord

\* The worker goes on to another place with the job it has, if any.
LEMMA WorkerMoves ==
  ASSUME IInv, NEW w \in WorkerRecord, worker' = w, UNCHANGED <<server, handler, pending, job>>,
         w.job = worker.job, w.job # None <=> w.pc \in Busy,
         w.pc = "check" <=> worker.pc = "check", w.pc # "set"
  PROVE  IInv'
<1>1. TypeOK'
  BY DEF IInv, TypeOK, WorkerRecord
<1>2. LaneInv'
  BY DEF IInv, LaneInv
<1>3. OwnJobs' /\ (\A q \in Slot : JobInv(q)') /\ \A c \in Conn : HandlerInv(c)'
  BY DEF IInv, OwnJobs, JobInv, HandlerInv, InLane
<1>4. QED
  BY <1>1, <1>2, <1>3 DEF IInv

\* The outcomes so far, and one more.
LEMMA Noted ==
  ASSUME IInv, NEW mark \in Marks, worker.pc \in {"question", "scoring"}, Note(mark),
         UNCHANGED <<server, handler, pending, job>>
  PROVE  IInv'
<1> DEFINE w == [worker EXCEPT !.pc = "question", !.outcomes = Append(@, mark)]
<1>1. worker \in WorkerRecord /\ worker.outcomes \in Seq(Marks)
  BY WorkerTyped DEF WorkerRecord
<1>2. Append(worker.outcomes, mark) \in Seq(Marks)
  BY <1>1
<1>3. w \in WorkerRecord /\ w.pc = "question" /\ w.job = worker.job /\ worker' = w
  BY <1>1, <1>2 DEF WorkerRecord, Note
<1> HIDE DEF w
<1>4. w.job # None
  BY <1>3 DEF IInv, LaneInv, Busy
<1>5. QED
  BY <1>3, <1>4, WorkerMoves DEF Busy

LEMMA QuestionKeeps ==
  ASSUME IInv, Loop \/ Run \/ SkipQuestion \/ RejectQuestion \/ Score \/ Scored
  PROVE  IInv'
<1>1. worker \in WorkerRecord /\ (worker.job # None <=> worker.pc \in Busy)
  BY WorkerTyped DEF IInv, LaneInv
<1>2. CASE Loop
  <2> DEFINE w == [worker EXCEPT !.pc = IF Stopping THEN "exited" ELSE "get"]
  <2>1. w \in WorkerRecord /\ w.pc \in {"exited", "get"} /\ w.job = worker.job
    BY <1>1 DEF WorkerRecord
  <2>2. worker' = w /\ worker.pc = "loop" /\ UNCHANGED <<server, handler, pending, job>>
    BY <1>2 DEF Loop
  <2> HIDE DEF w
  <2>3. QED
    BY <1>1, <2>1, <2>2, WorkerMoves DEF Busy
<1>3. CASE Run
  <2> DEFINE w == [worker EXCEPT !.pc = "question"]
  <2>1. w \in WorkerRecord /\ w.pc = "question" /\ w.job = worker.job
    BY <1>1 DEF WorkerRecord
  <2>2. worker' = w /\ worker.pc = "run" /\ UNCHANGED <<server, handler, pending, job>>
    BY <1>3 DEF Run
  <2> HIDE DEF w
  <2>3. QED
    BY <1>1, <2>1, <2>2, WorkerMoves DEF Busy
<1>4. CASE Score
  <2> DEFINE w == [worker EXCEPT !.pc = "scoring"]
  <2>1. w \in WorkerRecord /\ w.pc = "scoring" /\ w.job = worker.job
    BY <1>1 DEF WorkerRecord
  <2>2. worker' = w /\ worker.pc = "question" /\ UNCHANGED <<server, handler, pending, job>>
    BY <1>4 DEF Score
  <2> HIDE DEF w
  <2>3. QED
    BY <1>1, <2>1, <2>2, WorkerMoves DEF Busy
<1>5. CASE SkipQuestion \/ RejectQuestion \/ Scored
  BY <1>5, Noted DEF SkipQuestion, RejectQuestion, Scored, Marks
<1>6. QED
  BY <1>2, <1>3, <1>4, <1>5

LEMMA GetKeeps ==
  ASSUME IInv, Get
  PROVE  IInv'
<1>1. worker \in WorkerRecord /\ worker.pc = "get" /\ worker.job = None
      /\ UNCHANGED <<server, handler, job>>
  BY WorkerTyped DEF Get, IInv, LaneInv, Busy
<1>2. CASE pending = <<>>
  <2> DEFINE w == [worker EXCEPT !.pc = "loop"]
  <2>1. w \in WorkerRecord /\ w.pc = "loop" /\ w.job = worker.job
    BY <1>1 DEF WorkerRecord
  <2>2. worker' = w /\ UNCHANGED pending
    BY <1>2 DEF Get
  <2> HIDE DEF w
  <2>3. QED
    BY <1>1, <2>1, <2>2, WorkerMoves DEF Busy
<1>3. CASE pending # <<>>
  <2> DEFINE q == Head(pending)
  <2>1. /\ pending' = Tail(pending) /\ pending' \in Seq(Slot) /\ IsInjective(pending')
        /\ q \in Slot /\ q \in ToSet(pending) /\ ToSet(pending') = ToSet(pending) \ {q}
    <3>1. pending' = Tail(pending)
      BY <1>3 DEF Get
    <3>2. pending \in Seq(Slot) /\ IsInjective(pending)
      BY Facts
    <3>3. /\ Tail(pending) \in Seq(Slot) /\ IsInjective(Tail(pending))
          /\ q \in Slot /\ q \in ToSet(pending) /\ ToSet(Tail(pending)) = ToSet(pending) \ {q}
      BY <1>3, <3>2, TakeHead
    <3>4. QED
      BY <3>1, <3>3
  <2>2. worker'.pc = "run" /\ worker'.job = q /\ worker' = [pc |-> "run", job |-> q, outcomes |-> <<>>]
    BY <1>3 DEF Get, At
  <2> HIDE DEF q
  <2>3. worker' \in WorkerRecord
    <3>1. <<>> \in Seq(Marks)
      OBVIOUS
    <3>2. QED
      BY <2>1, <2>2, <3>1 DEF WorkerRecord
  <2>4. q # None /\ job[q].clock # "none" /\ ~job[q].done
    BY <2>1, NoneIsNoSlot DEF IInv, LaneInv
  <2>5. TypeOK'
    BY <1>1, <2>1, <2>3 DEF IInv, TypeOK, WorkerRecord
  <2>6. LaneInv'
    BY <1>1, <2>1, <2>2, <2>4 DEF IInv, LaneInv, Busy
  <2>7. ASSUME NEW p \in Slot
        PROVE  JobInv(p)'
    <3>1. JobInv(p) /\ p # worker.job /\ job'[p] = job[p]
      BY <1>1, Facts, NoneIsNoSlot
    <3>2. InLane(p) => InLane(p)'
      BY <2>1, <2>2, <3>1 DEF InLane
    <3>3. QED
      BY <3>1, <3>2 DEF JobInv
  <2>8. OwnJobs' /\ \A c \in Conn : HandlerInv(c)'
    BY <1>1 DEF IInv, OwnJobs, HandlerInv
  <2>9. QED
    BY <2>5, <2>6, <2>7, <2>8 DEF IInv
<1>4. QED
  BY <1>2, <1>3

\* The worker has finished with its job, late or not: it lets go of it, and the
\* job ends unless its handler still has it.
LEMMA JobEnds ==
  ASSUME IInv, NEW q \in Slot, worker.job = q, worker' = At("loop"),
         UNCHANGED <<server, handler, pending>>,
         NEW j \in JobRecord, job' = [job EXCEPT ![q] = j],
         \/ j = NewJob /\ ~Handled(q)
         \/ j.clock # "none" /\ j.done /\ j.result \in Results,
         Handled(q) => j.abandoned = job[q].abandoned /\ (~job[q].abandoned => j.counted = job[q].counted)
  PROVE  IInv'
<1>1. job' \in [Slot -> JobRecord] /\ job'[q] = j /\ \A p \in Slot \ {q} : job'[p] = job[p]
  BY Facts
<1>2. worker' = [pc |-> "loop", job |-> None, outcomes |-> <<>>] /\ worker'.pc = "loop" /\ worker'.job = None
  BY DEF At
<1>3. worker' \in WorkerRecord
  <2>1. <<>> \in Seq(Marks)
    OBVIOUS
  <2>2. [pc |-> "loop", job |-> None, outcomes |-> <<>>] \in WorkerRecord
    BY <2>1 DEF WorkerRecord
  <2>3. QED
    BY <1>2, <2>2
<1>4. TypeOK'
  BY <1>1, <1>3 DEF IInv, TypeOK, WorkerRecord, JobRecord
<1>5. q \notin ToSet(pending) /\ q # None
  BY NoneIsNoSlot DEF IInv, LaneInv
<1>6. LaneInv'
  BY <1>1, <1>2, <1>5, Facts, NoneIsNoSlot DEF IInv, LaneInv, Busy
<1>7. ASSUME NEW p \in Slot
      PROVE  JobInv(p)'
  <2>1. CASE p = q
    BY <1>1, <2>1, Records DEF JobInv
  <2>2. CASE p # q
    BY <1>1, <2>2, Facts DEF JobInv, InLane
  <2>3. QED
    BY <2>1, <2>2
<1>8. OwnJobs'
  BY DEF IInv, OwnJobs
<1>9. ASSUME NEW c \in Conn
      PROVE  HandlerInv(c)'
  <2>1. HandlerInv(c) /\ handler[c].job \in Slot \cup {None}
    BY Facts DEF HandlerRecord
  <2>2. CASE handler[c].job = q
    <3>1. Handled(q)
      BY <2>2 DEF Handled
    <3>2. QED
      BY <1>1, <2>1, <2>2, <3>1, Records DEF HandlerInv
  <2>3. CASE handler[c].job # q
    BY <1>1, <2>1, <2>3 DEF HandlerInv, Holding
  <2>4. QED
    BY <2>2, <2>3
<1>10. QED
  BY <1>4, <1>6, <1>7, <1>8, <1>9 DEF IInv

\* Late in the queue, or looked at once more after the event was set.
LEMMA LaneEnds ==
  ASSUME IInv, RunLate \/ CheckAbandoned
  PROVE  IInv'
<1> DEFINE q == worker.job
<1>1. /\ q \in Slot /\ q # None /\ job[q].clock # "none" /\ worker' = At("loop")
      /\ job[q] \in JobRecord
      /\ UNCHANGED <<server, handler, pending>>
  BY Facts DEF RunLate, CheckAbandoned, IInv, LaneInv, Busy
<1>2. CASE RunLate /\ Handled(q)
  <2> DEFINE j == [job[q] EXCEPT !.result = "late", !.done = TRUE]
  <2>1. j \in JobRecord /\ job' = [job EXCEPT ![q] = j]
    BY <1>1, <1>2 DEF RunLate, JobRecord, Results
  <2>2. /\ j.clock = job[q].clock /\ j.done /\ j.result = "late"
        /\ j.abandoned = job[q].abandoned /\ j.counted = job[q].counted
    BY <1>1 DEF JobRecord
  <2> HIDE DEF j, q
  <2>3. QED
    BY <1>1, <2>1, <2>2, JobEnds DEF Results, q
<1>3. CASE CheckAbandoned /\ Handled(q) /\ job[q].abandoned
  <2> DEFINE j == [job[q] EXCEPT !.counted = @ + 1]
  <2>1. j \in JobRecord /\ job' = [job EXCEPT ![q] = j]
    BY <1>1, <1>3 DEF CheckAbandoned, JobRecord
  <2>2. /\ j.clock = job[q].clock /\ j.done = job[q].done /\ j.result = job[q].result
        /\ j.abandoned = job[q].abandoned
    BY <1>1 DEF JobRecord
  <2>3. job[q].done /\ job[q].result \in Results
    BY <1>1, <1>3, Facts DEF CheckAbandoned, IInv, LaneInv, JobInv
  <2> HIDE DEF j
  <2>4. QED
    BY <1>1, <1>3, <2>1, <2>2, <2>3, JobEnds
<1>4. CASE CheckAbandoned /\ Handled(q) /\ ~job[q].abandoned
  <2>1. job' = [job EXCEPT ![q] = job[q]]
    BY <1>4 DEF CheckAbandoned, Release
  <2>2. job[q].done /\ job[q].result \in Results
    BY <1>1, <1>4, Facts DEF CheckAbandoned, IInv, LaneInv, JobInv
  <2>3. QED
    BY <1>1, <2>1, <2>2, JobEnds
<1>5. CASE ~Handled(q)
  <2>1. job' = [job EXCEPT ![q] = NewJob]
    BY <1>5 DEF RunLate, CheckAbandoned, Release
  <2>2. QED
    BY <1>1, <1>5, <2>1, Records, JobEnds
<1>6. QED
  BY <1>2, <1>3, <1>4, <1>5

\* The worker writes to the job it has, and goes on with it: the result first,
\* then the event.
LEMMA JobWritten ==
  ASSUME IInv, NEW q \in Slot, worker.job = q, NEW w \in WorkerRecord, worker' = w, w.job = q,
         UNCHANGED <<server, handler, pending>>,
         NEW j \in JobRecord, job' = [job EXCEPT ![q] = j],
         j.clock = job[q].clock, j.abandoned = job[q].abandoned, j.counted = job[q].counted,
         j.result \in Results, ~job[q].done,
         \/ w.pc = "set" /\ ~j.done
         \/ w.pc = "check" /\ j.done
  PROVE  IInv'
<1>1. job' \in [Slot -> JobRecord] /\ job'[q] = j /\ \A p \in Slot \ {q} : job'[p] = job[p]
  BY Facts
<1>2. q # None /\ q \notin ToSet(pending) /\ job[q].clock # "none"
  BY NoneIsNoSlot DEF IInv, LaneInv
<1>3. TypeOK'
  BY <1>1 DEF IInv, TypeOK, WorkerRecord, JobRecord
<1>4. LaneInv'
  BY <1>1, <1>2, Facts DEF IInv, LaneInv, Busy
<1>5. ASSUME NEW p \in Slot
      PROVE  JobInv(p)'
  <2>1. CASE p = q
    BY <1>1, <1>2, <2>1 DEF JobInv, InLane
  <2>2. CASE p # q
    BY <1>1, <2>2, Facts DEF JobInv, InLane
  <2>3. QED
    BY <2>1, <2>2
<1>6. OwnJobs'
  BY DEF IInv, OwnJobs
<1>7. ASSUME NEW c \in Conn
      PROVE  HandlerInv(c)'
  <2>1. HandlerInv(c) /\ handler[c].job \in Slot \cup {None}
    BY Facts DEF HandlerRecord
  <2>2. CASE handler[c].job = q
    BY <1>1, <1>2, <2>1, <2>2 DEF HandlerInv, Holding
  <2>3. CASE handler[c].job # q
    BY <1>1, <2>1, <2>3 DEF HandlerInv, Holding
  <2>4. QED
    BY <2>2, <2>3
<1>8. QED
  BY <1>3, <1>4, <1>5, <1>6, <1>7 DEF IInv

\* What the questions came to is a result.
LEMMA StatusIsResult == \A s : Status(s) \in Results
  BY DEF Status, Results, Responses

LEMMA ResultKeeps ==
  ASSUME IInv, Raise \/ Evaluated \/ SetDone
  PROVE  IInv'
<1> DEFINE q == worker.job
<1>1. /\ worker \in WorkerRecord /\ q \in Slot /\ q # None /\ ~job[q].done /\ job[q] \in JobRecord
      /\ UNCHANGED <<server, handler, pending>>
  BY Facts, WorkerTyped DEF Raise, Evaluated, SetDone, IInv, LaneInv, Busy
<1>2. CASE Raise \/ Evaluated
  <2>1. PICK r \in Results : job' = [job EXCEPT ![q].result = r]
    BY <1>2, StatusIsResult DEF Raise, Evaluated, Results
  <2> DEFINE j == [job[q] EXCEPT !.result = r]
             w == [worker EXCEPT !.pc = "set"]
  <2>2. j \in JobRecord /\ job' = [job EXCEPT ![q] = j]
    BY <1>1, <2>1 DEF JobRecord
  <2>3. /\ j.clock = job[q].clock /\ j.done = job[q].done /\ j.result = r
        /\ j.abandoned = job[q].abandoned /\ j.counted = job[q].counted
    BY <1>1 DEF JobRecord
  <2>4. w \in WorkerRecord /\ w.pc = "set" /\ w.job = q /\ worker' = w
    BY <1>1, <1>2 DEF WorkerRecord, Raise, Evaluated
  <2> HIDE DEF j, w, q
  <2>5. QED
    BY <1>1, <2>2, <2>3, <2>4, JobWritten DEF q
<1>3. CASE SetDone
  <2> DEFINE j == [job[q] EXCEPT !.done = TRUE]
             w == [worker EXCEPT !.pc = "check"]
  <2>1. job[q].result \in Results
    BY <1>3 DEF SetDone, IInv, LaneInv
  <2>2. j \in JobRecord /\ job' = [job EXCEPT ![q] = j]
    BY <1>1, <1>3 DEF JobRecord, SetDone
  <2>3. /\ j.clock = job[q].clock /\ j.done /\ j.result = job[q].result
        /\ j.abandoned = job[q].abandoned /\ j.counted = job[q].counted
    BY <1>1 DEF JobRecord
  <2>4. w \in WorkerRecord /\ w.pc = "check" /\ w.job = q /\ worker' = w
    BY <1>1, <1>3 DEF WorkerRecord, SetDone
  <2> HIDE DEF j, w, q
  <2>5. QED
    BY <1>1, <2>1, <2>2, <2>3, <2>4, JobWritten DEF q
<1>4. QED
  BY <1>2, <1>3

-----------------------------------------------------------------------------
(* Time, and the main thread.                                              *)

LEMMA DeadlineKeeps ==
  ASSUME IInv, NEW q \in Slot, Deadline(q)
  PROVE  IInv'
<1> DEFINE j == [job[q] EXCEPT !.clock = IF @ = "running" THEN "spent" ELSE "over"]
<1>1. /\ job[q].clock # "none" /\ job[q] \in JobRecord /\ j \in JobRecord
      /\ job' = [job EXCEPT ![q] = j]
      /\ UNCHANGED <<server, handler, pending, worker>>
  BY Facts DEF Deadline, JobRecord
<1>2. /\ j.clock # "none" /\ j.done = job[q].done /\ j.result = job[q].result
      /\ j.abandoned = job[q].abandoned /\ j.counted = job[q].counted
  BY <1>1 DEF JobRecord
<1> HIDE DEF j
<1>3. job' \in [Slot -> JobRecord] /\ job'[q] = j /\ \A p \in Slot \ {q} : job'[p] = job[p]
  BY <1>1, Facts
<1>4. TypeOK'
  BY <1>1, <1>3 DEF IInv, TypeOK, JobRecord
<1>5. LaneInv'
  BY <1>1, <1>2, <1>3, Facts, NoneIsNoSlot DEF IInv, LaneInv, Busy
<1>6. ASSUME NEW p \in Slot
      PROVE  JobInv(p)'
  BY <1>1, <1>2, <1>3, Facts DEF JobInv, InLane
<1>7. OwnJobs'
  BY <1>1 DEF IInv, OwnJobs
<1>8. ASSUME NEW c \in Conn
      PROVE  HandlerInv(c)'
  <2>1. HandlerInv(c) /\ handler[c].job \in Slot \cup {None}
    BY Facts DEF HandlerRecord
  <2>2. QED
    BY <1>1, <1>2, <1>3, <2>1 DEF HandlerInv, Holding
<1>9. QED
  BY <1>4, <1>5, <1>6, <1>7, <1>8 DEF IInv

LEMMA MainKeeps ==
  ASSUME IInv, Signal \/ Exit
  PROVE  IInv'
<1>1. CASE Signal
  BY <1>1 DEF Signal, IInv, TypeOK, LaneInv, OwnJobs, JobInv, HandlerInv, InLane
<1>2. CASE Exit
  <2>1. /\ \A c \in Conn : handler'[c] = Closed
        /\ \A q \in Slot : job'[q] = NewJob
        /\ handler' \in [Conn -> HandlerRecord] /\ job' \in [Slot -> JobRecord]
        /\ server' = "gone"
    BY <1>2, Records DEF Exit
  <2>2. pending' = <<>> /\ pending' \in Seq(Slot) /\ ToSet(pending') = {} /\ IsInjective(pending')
    BY <1>2 DEF Exit, ToSet, IsInjective
  <2>3. worker' = [pc |-> "none", job |-> None, outcomes |-> <<>>] /\ worker'.pc = "none" /\ worker'.job = None
    BY <1>2 DEF Exit, At
  <2>4. worker' \in WorkerRecord
    <3>1. <<>> \in Seq(Marks)
      OBVIOUS
    <3>2. QED
      BY <2>3, <3>1 DEF WorkerRecord
  <2>5. TypeOK'
    BY <2>1, <2>2, <2>4 DEF TypeOK, WorkerRecord, HandlerRecord, JobRecord, Holding
  <2>6. LaneInv'
    BY <2>2, <2>3 DEF LaneInv, Busy
  <2>7. QED
    BY <2>1, <2>5, <2>6, Records DEF IInv, OwnJobs, JobInv, HandlerInv, Holding
<1>3. QED
  BY <1>1, <1>2

-----------------------------------------------------------------------------
(* The theorems.                                                           *)

LEMMA NextIInv == IInv /\ [Next]_vars => IInv'
<1> SUFFICES ASSUME IInv, [Next]_vars PROVE IInv'
  OBVIOUS
<1>1. CASE \E c \in Conn : Receive(c) \/ Handle(c)
  BY <1>1, ReceiveKeeps, SubmitKeeps, WaitEnds, AbandonKeeps, ReplyKeeps DEF Receive, Handle
<1>2. CASE Lane \/ Scored \/ Raise
  BY <1>2, QuestionKeeps, GetKeeps, LaneEnds, ResultKeeps DEF Lane
<1>3. CASE (\E q \in Slot : Deadline(q)) \/ Signal \/ Exit
  BY <1>3, DeadlineKeeps, MainKeeps
<1>4. CASE UNCHANGED vars
  BY <1>4 DEF vars, IInv, TypeOK, LaneInv, OwnJobs, JobInv, HandlerInv, InLane
<1>5. QED
  BY <1>1, <1>2, <1>3, <1>4 DEF Next

LEMMA Invariance == Spec => []IInv
  BY InitIInv, NextIInv, PTL DEF Spec

\* Every thread, job and queue place has the values the code gives it.
THEOREM DeciderTyped == Spec => []TypeOK
<1>1. IInv => TypeOK
  BY DEF IInv
<1>2. QED
  BY <1>1, Invariance, PTL

\* A job that is not finished is in exactly one place of the lane, and no two
\* handlers hold one job, for any number of connections and any queue.
THEOREM OneLaneEach == Spec => []OneLane
<1>1. IInv => OneLane
  <2> SUFFICES ASSUME IInv PROVE OneLane
    OBVIOUS
  <2>1. ASSUME NEW q \in Slot, job[q] # NewJob, ~job[q].done
        PROVE  (q = worker.job) # (q \in ToSet(pending))
    BY <2>1, Facts DEF IInv, LaneInv, JobInv, InLane
  <2>2. QED
    BY <2>1 DEF OneLane, IInv, LaneInv, OwnJobs
<1>2. QED
  BY <1>1, Invariance, PTL

\* A handler that was woken finds the result of its own job in place.
THEOREM ResultInPlace == Spec => []OwnResult
<1>1. IInv => OwnResult
  <2> SUFFICES ASSUME IInv, NEW c \in Conn, handler[c].pc = "replying"
               PROVE  job[handler[c].job].result \in Results
    BY DEF OwnResult
  <2>1. handler[c].job \in Slot /\ job[handler[c].job].done
    BY Facts DEF HandlerInv, HandlerRecord, Holding
  <2>2. QED
    BY <2>1, Facts DEF JobInv
<1>2. QED
  BY <1>1, Invariance, PTL

\* No answer that is delivered was counted as discarded.
THEOREM DeliveredCounted == Spec => []DeliveredIsNotDiscarded
<1>1. IInv => DeliveredIsNotDiscarded
  BY Facts DEF DeliveredIsNotDiscarded, HandlerInv
<1>2. QED
  BY <1>1, Invariance, PTL

-----------------------------------------------------------------------------
(* Who waits for what the lane works on.                                   *)

\* A job whose deadline is not spent, and that is not finished.
Pressing(q) == job[q].clock = "running" /\ ~job[q].done

WaitsFor(c, q) == handler[c].pc = "waiting" /\ handler[c].job = q

\* The grace period is longer than the deadline, so that its handler is still there.
Awaited == \A q \in Slot : Pressing(q) => \E c \in Conn : WaitsFor(c, q)

\* A step after which no more jobs are pressing, and whose waiters stay.
LEMMA NoMorePressing ==
  ASSUME Awaited, \A q \in Slot : Pressing(q)' => Pressing(q),
         \A q \in Slot, c \in Conn : Pressing(q) /\ WaitsFor(c, q) => WaitsFor(c, q)'
  PROVE  Awaited'
BY DEF Awaited

\* A step on one job that does not wind its clock up.
LEMMA OneJobEases ==
  ASSUME IInv, NEW q \in Slot, NEW j, job' = [job EXCEPT ![q] = j],
         j.clock = "running" => job[q].clock = "running",
         job[q].done /\ j.clock = "running" => j.done
  PROVE  \A p \in Slot : Pressing(p)' => Pressing(p)
<1>1. job'[q] = j /\ \A p \in Slot \ {q} : job'[p] = job[p]
  BY Facts
<1>2. QED
  BY <1>1 DEF Pressing

LEMMA ReceiveAwaited ==
  ASSUME IInv, Awaited, NEW c \in Conn, RefuseUnread(c) \/ RefuseBody(c) \/ Garble(c)
  PROVE  Awaited'
<1>1. /\ handler[c].pc \in {"idle", "unread"} /\ UNCHANGED job
      /\ \A d \in Conn \ {c} : handler'[d] = handler[d]
  BY Facts DEF RefuseUnread, RefuseBody, Garble, Arrives
<1>2. QED
  BY <1>1 DEF Awaited, Pressing, WaitsFor

LEMMA SubmitAwaited ==
  ASSUME IInv, Awaited, NEW c \in Conn, Submit(c)
  PROVE  Awaited'
<1>1. PICK q \in Slot : /\ job[q] = NewJob
                        /\ job' = [job EXCEPT ![q].clock = "running"]
                        /\ handler' = [handler EXCEPT ![c].pc = "waiting", ![c].job = q]
  BY DEF Submit
<1>2. handler[c].pc = "idle" /\ handler[c] \in HandlerRecord
  BY Facts DEF Submit, Arrives
<1>3. /\ handler'[c].pc = "waiting" /\ handler'[c].job = q
      /\ \A d \in Conn \ {c} : handler'[d] = handler[d]
      /\ \A p \in Slot \ {q} : job'[p] = job[p]
  BY <1>1, <1>2, Facts DEF HandlerRecord
<1>4. QED
  BY <1>2, <1>3 DEF Awaited, Pressing, WaitsFor

\* Whoever leaves does not leave a job that is pressing.
LEMMA HandleAwaited ==
  ASSUME IInv, Awaited, NEW c \in Conn, Handle(c)
  PROVE  Awaited'
<1> DEFINE q == handler[c].job
<1>1. /\ HandlerInv(c) /\ handler[c] \in HandlerRecord
      /\ \A d \in Conn \ {c} : handler'[d] = handler[d]
  BY Facts DEF Handle, Wake, GiveUp, Abandon, Send, SendFails
<1>2. CASE Wake(c) \/ GiveUp(c)
  <2>1. UNCHANGED job /\ (job[q].done \/ job[q].clock = "over")
    BY <1>2 DEF Wake, GiveUp
  <2>2. QED
    BY <1>1, <2>1 DEF Awaited, Pressing, WaitsFor
<1>3. CASE Abandon(c) \/ Send(c) \/ SendFails(c)
  <2>1. /\ handler[c].pc \in {"givingUp", "replying", "timedOut"}
        /\ q \in Slot /\ job[q] \in JobRecord
    <3>1. handler[c].pc \in {"givingUp", "replying", "timedOut"}
      BY <1>3 DEF Abandon, Send, SendFails
    <3>2. q \in Slot
      BY <1>1, <3>1 DEF HandlerInv, HandlerRecord, Holding
    <3>3. QED
      BY <3>1, <3>2, Facts
  <2>2. PICK j : /\ job' = [job EXCEPT ![q] = j]
                 /\ j.clock = "running" => job[q].clock = "running"
                 /\ job[q].done /\ j.clock = "running" => j.done
    <3>1. CASE Abandon(c)
      <4> DEFINE j == [job[q] EXCEPT !.abandoned = TRUE, !.counted = @ + 1]
      <4>1. job' = [job EXCEPT ![q] = j]
        BY <3>1 DEF Abandon
      <4>2. j.clock = job[q].clock /\ j.done = job[q].done
        BY <2>1 DEF JobRecord
      <4> HIDE DEF j
      <4>3. QED
        BY <4>1, <4>2
    <3>2. CASE Send(c) \/ SendFails(c)
      <4>1. \/ job' = [job EXCEPT ![q] = job[q]]
            \/ job' = [job EXCEPT ![q] = NewJob]
        BY <3>2 DEF Send, SendFails, Release
      <4>2. QED
        BY <4>1, Records
    <3>3. QED
      BY <1>3, <3>1, <3>2
  <2>3. \A p \in Slot : Pressing(p)' => Pressing(p)
    BY <2>1, <2>2, OneJobEases
  <2>4. \A p \in Slot, d \in Conn : WaitsFor(d, p) => WaitsFor(d, p)'
    BY <1>1, <2>1 DEF WaitsFor
  <2>5. QED
    BY <2>3, <2>4, NoMorePressing
<1>4. QED
  BY <1>2, <1>3 DEF Handle

LEMMA LaneAwaited ==
  ASSUME IInv, Awaited, Lane \/ Scored \/ Raise \/ \E q \in Slot : Deadline(q)
  PROVE  Awaited'
<1>1. UNCHANGED handler
  BY DEF Lane, Loop, Get, RunLate, Run, SkipQuestion, RejectQuestion, Score, Evaluated, SetDone,
         CheckAbandoned, Scored, Raise, Deadline
<1>2. CASE UNCHANGED job
  BY <1>1, <1>2 DEF Awaited, Pressing, WaitsFor
<1>3. CASE \E q \in Slot : Deadline(q)
  <2>1. PICK q \in Slot : Deadline(q)
    BY <1>3
  <2> DEFINE j == [job[q] EXCEPT !.clock = IF @ = "running" THEN "spent" ELSE "over"]
  <2>2. job' = [job EXCEPT ![q] = j] /\ job[q] \in JobRecord
    BY <2>1, Facts DEF Deadline
  <2>3. j.clock # "running"
    BY <2>2 DEF JobRecord
  <2> HIDE DEF j
  <2>4. \A p \in Slot : Pressing(p)' => Pressing(p)
    BY <2>2, <2>3, OneJobEases
  <2>5. QED
    BY <1>1, <2>4 DEF Awaited, WaitsFor
<1>4. CASE RunLate \/ Raise \/ Evaluated \/ SetDone \/ CheckAbandoned
  <2> DEFINE q == worker.job
  <2>1. q \in Slot /\ job[q] \in JobRecord
    <3>1. worker.pc \in Busy
      BY <1>4 DEF RunLate, Raise, Evaluated, SetDone, CheckAbandoned, Busy
    <3>2. q \in Slot
      BY <3>1, WorkerTyped DEF IInv, LaneInv, WorkerRecord
    <3>3. QED
      BY <3>2, Facts
  <2>2. PICK j : /\ job' = [job EXCEPT ![q] = j]
                 /\ j.clock = "running" => job[q].clock = "running"
                 /\ job[q].done /\ j.clock = "running" => j.done
    <3>1. CASE job' = Release(q, FALSE) \/ job' = Release(q, Handled(q))
      <4>1. \/ job' = [job EXCEPT ![q] = job[q]]
            \/ job' = [job EXCEPT ![q] = NewJob]
        BY <3>1 DEF Release
      <4>2. QED
        BY <4>1, Records
    <3>2. CASE job' = [job EXCEPT ![q].result = "late", ![q].done = TRUE]
      <4> DEFINE yes == TRUE
                 j   == [job[q] EXCEPT !.result = "late", !.done = yes]
      <4>1. job' = [job EXCEPT ![q] = j]
        BY <3>2
      <4>2. j.clock = job[q].clock /\ j.done = yes
        <5> HIDE DEF yes
        <5> QED
          BY <2>1 DEF JobRecord
      <4>3. j.done
        BY <4>2, Zenon
      <4> HIDE DEF j
      <4>4. QED
        BY <4>1, <4>2, <4>3
    <3>3. CASE job' = [job EXCEPT ![q].done = TRUE]
      <4> DEFINE yes == TRUE
                 j   == [job[q] EXCEPT !.done = yes]
      <4>1. job' = [job EXCEPT ![q] = j]
        BY <3>3
      <4>2. j.clock = job[q].clock /\ j.done = yes
        <5> HIDE DEF yes
        <5> QED
          BY <2>1 DEF JobRecord
      <4>3. j.done
        BY <4>2, Zenon
      <4> HIDE DEF j
      <4>4. QED
        BY <4>1, <4>2, <4>3
    <3>4. ASSUME NEW result, job' = [job EXCEPT ![q].result = result]
          PROVE  \E j : /\ job' = [job EXCEPT ![q] = j]
                        /\ j.clock = "running" => job[q].clock = "running"
                        /\ job[q].done /\ j.clock = "running" => j.done
      <4> DEFINE j == [job[q] EXCEPT !.result = result]
      <4>1. job' = [job EXCEPT ![q] = j] /\ j.clock = job[q].clock /\ j.done = job[q].done
        BY <2>1, <3>4 DEF JobRecord
      <4> HIDE DEF j
      <4>2. QED
        BY <4>1
    <3>5. ASSUME NEW counted, job' = [job EXCEPT ![q].counted = counted]
          PROVE  \E j : /\ job' = [job EXCEPT ![q] = j]
                        /\ j.clock = "running" => job[q].clock = "running"
                        /\ job[q].done /\ j.clock = "running" => j.done
      <4> DEFINE j == [job[q] EXCEPT !.counted = counted]
      <4>1. job' = [job EXCEPT ![q] = j] /\ j.clock = job[q].clock /\ j.done = job[q].done
        BY <2>1, <3>5 DEF JobRecord
      <4> HIDE DEF j
      <4>2. QED
        BY <4>1
    <3>6. /\ RunLate => \/ job' = [job EXCEPT ![q].result = "late", ![q].done = TRUE]
                        \/ job' = Release(q, FALSE)
          /\ SetDone => job' = [job EXCEPT ![q].done = TRUE]
          /\ Raise => job' = [job EXCEPT ![q].result = "error"]
          /\ Evaluated => job' = [job EXCEPT ![q].result = Status(worker.outcomes)]
          /\ CheckAbandoned => \/ job' = [job EXCEPT ![q].counted = job[q].counted + 1]
                               \/ job' = Release(q, Handled(q))
      BY Zenon DEF RunLate, SetDone, Raise, Evaluated, CheckAbandoned
    <3>7. QED
      BY <1>4, <3>1, <3>2, <3>3, <3>4, <3>5, <3>6
  <2>3. \A p \in Slot : Pressing(p)' => Pressing(p)
    BY <2>1, <2>2, OneJobEases
  <2>4. QED
    BY <1>1, <2>3 DEF Awaited, WaitsFor
<1>5. QED
  BY <1>2, <1>3, <1>4
  DEF Lane, Loop, Get, Run, SkipQuestion, RejectQuestion, Score, Scored

LEMMA AwaitedInvariant == Spec => [](IInv /\ Awaited)
<1>1. Init => Awaited
  <2> SUFFICES ASSUME Init PROVE Awaited
    OBVIOUS
  <2>1. \A q \in Slot : job[q] = NewJob
    BY DEF Init
  <2>2. QED
    BY <2>1, Records DEF Awaited, Pressing
<1>2. IInv /\ Awaited /\ [Next]_vars => Awaited'
  <2> SUFFICES ASSUME IInv, Awaited, [Next]_vars PROVE Awaited'
    OBVIOUS
  <2>1. CASE \E c \in Conn : Receive(c) \/ Handle(c)
    BY <2>1, ReceiveAwaited, SubmitAwaited, HandleAwaited DEF Receive
  <2>2. CASE Lane \/ Scored \/ Raise \/ \E q \in Slot : Deadline(q)
    BY <2>2, LaneAwaited
  <2>3. CASE Signal \/ UNCHANGED vars
    BY <2>3 DEF Signal, vars, Awaited, Pressing, WaitsFor
  <2>4. CASE Exit
    <3>1. \A q \in Slot : job'[q] = NewJob
      BY <2>4 DEF Exit
    <3>2. QED
      BY <3>1, Records DEF Awaited, Pressing
  <2>5. QED
    BY <2>1, <2>2, <2>3, <2>4 DEF Next
<1>3. QED
  BY Invariance, <1>1, <1>2, PTL DEF Spec

\* No forward pass starts for a job nobody waits for any more.
THEOREM LaneWorksForSomebody == Spec => ScoredForSomebody
<1>1. ASSUME IInv, Awaited, [Next]_vars, worker.pc # "scoring", worker'.pc = "scoring"
      PROVE  \E c \in Conn : handler[c].pc = "waiting" /\ handler[c].job = worker.job
  <2>1. Score
    <3>1. worker \in WorkerRecord
      BY <1>1, WorkerTyped
    <3>2. worker' # worker
      BY <1>1
    <3>3. Lane \/ Scored \/ Raise \/ Exit
      BY <1>1, <3>2
      DEF Next, vars, Receive, Handle, RefuseUnread, RefuseBody, Submit, Garble, Wake, GiveUp,
          Abandon, Send, SendFails, Deadline, Signal
    <3>4. \A pc : At(pc).pc = pc
      BY DEF At
    <3>5. \A mark : Note(mark) => worker'.pc = "question"
      BY <3>1 DEF Note, WorkerRecord
    <3>6. ~Scored /\ ~SkipQuestion /\ ~RejectQuestion
      BY <1>1, <3>5 DEF Scored, SkipQuestion, RejectQuestion
    <3>7. ~RunLate /\ ~CheckAbandoned /\ ~Exit
      BY <1>1, <3>4 DEF RunLate, CheckAbandoned, Exit
    <3>8. ~Loop /\ ~Run /\ ~Evaluated /\ ~SetDone /\ ~Raise
      BY <1>1, <3>1 DEF Loop, Run, Evaluated, SetDone, Raise, WorkerRecord
    <3>9. ~Get
      <4>1. Get => \/ worker'.pc = "loop"
                   \/ worker' = [At("run") EXCEPT !.job = Head(pending)]
        BY <3>1 DEF Get, WorkerRecord
      <4>2. [At("run") EXCEPT !.job = Head(pending)].pc = "run"
        BY DEF At
      <4>3. QED
        BY <1>1, <4>1, <4>2
    <3>10. QED
      BY <3>3, <3>6, <3>7, <3>8, <3>9 DEF Lane
  <2>2. worker.job \in Slot /\ worker.pc = "question"
    BY <1>1, <2>1, WorkerTyped DEF Score, IInv, LaneInv, Busy, WorkerRecord
  <2>3. Pressing(worker.job)
    BY <1>1, <2>1, <2>2, NoneIsNoSlot DEF Score, IInv, LaneInv, Pressing
  <2>4. QED
    BY <1>1, <2>2, <2>3 DEF Awaited, WaitsFor
<1>2. IInv /\ Awaited /\ [Next]_vars =>
        [worker.pc # "scoring" /\ worker'.pc = "scoring" =>
           \E c \in Conn : handler[c].pc = "waiting" /\ handler[c].job = worker.job]_vars
  BY <1>1
<1>3. QED
  BY <1>2, AwaitedInvariant, PTL DEF ScoredForSomebody, Spec
=============================================================================
