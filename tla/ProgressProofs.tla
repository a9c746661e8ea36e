---------------------------- MODULE ProgressProofs ----------------------------
(***************************************************************************)
(* Proofs about Progress, for every set of paths, attempts and             *)
(* fingerprints and all limits: its types, and that pauses are earned,     *)
(* timely and kept where the results of one attempt agree.                 *)
(***************************************************************************)
EXTENDS Progress, FiniteSetTheorems, TLAPS

-----------------------------------------------------------------------------
(* Types.                                                                  *)

AttemptId == ({"sequence"} \X (1..MaxSequence)) \cup ({"root"} \X Root)

RunState == [fingerprint : Fingerprint, attempts : SUBSET AttemptId]

Types == TypeOK /\ run \in [Path -> RunState]

\* A summary is not the empty entry, nor is an observation.
LEMMA EntriesDiffer ==
  /\ \A s \in PathState : s # None
  /\ \A o \in Observation : o # None
BY DEF PathState, Observation, None

LEMMA AttemptTyped ==
  ASSUME NEW o \in Observation
  PROVE  Attempt(o) \in AttemptId
BY DEF Attempt, AttemptId, Observation

\* Attempts are told apart by their root, or else by their number.
LEMMA AttemptsDiffer ==
  /\ \A r, q : <<"root", r>> = <<"root", q>> <=> r = q
  /\ \A n, m : <<"sequence", n>> = <<"sequence", m>> <=> n = m
  /\ \A r, n : <<"root", r>> # <<"sequence", n>>
OBVIOUS

LEMMA ObservedTyped ==
  ASSUME Types, NEW o \in Observation
  PROVE  Observed(o) \in PathState \cup {None}
<1>1. Known(o.path) => store[o.path] \in PathState
  BY DEF Types, TypeOK, Known, Observation
<1>2. CASE AlreadyObserved(o)
  BY <1>1, <1>2 DEF Observed, AlreadyObserved
<1>3. CASE ~AlreadyObserved(o) /\ ~o.failed
  BY <1>3 DEF Observed
<1>4. o.path \in Path /\ store[o.path] \in PathState \cup {None}
  BY DEF Types, TypeOK, Observation
<1>5. store[o.path].count \in Nat /\ store[o.path].polls \in Nat
  <2>1. CASE store[o.path] \in PathState
    BY <2>1 DEF PathState
  <2>2. CASE store[o.path] = None
    BY <2>2 DEF None
  <2>3. QED
    BY <1>4, <2>1, <2>2
<1>6. \A count, polls \in Nat, paused \in BOOLEAN : State(o, count, polls, paused) \in PathState
  BY DEF State, PathState, Observation
<1>7. CASE ~AlreadyObserved(o) /\ o.failed /\ o.poll
  <2> DEFINE polls  == store[o.path].polls + 1
             paused == store[o.path].paused \/ polls > PollBudget
  <2>1. polls \in Nat
    BY <1>5
  <2>2. paused \in BOOLEAN
    OBVIOUS
  <2>3. State(o, store[o.path].count, polls, paused) \in PathState
    <3> HIDE DEF polls, paused
    <3> QED
      BY <1>5, <1>6, <2>1, <2>2
  <2>4. QED
    BY <1>7, <2>3 DEF Observed, Polled
<1>8. CASE ~AlreadyObserved(o) /\ o.failed /\ ~o.poll
  <2> DEFINE count  == IF Alike(o) THEN store[o.path].count + 1 ELSE 1
             paused == count >= MaxIdenticalFailures
  <2>1. count \in Nat
    BY <1>5
  <2>2. paused \in BOOLEAN /\ TRUE \in BOOLEAN
    OBVIOUS
  <2>3. /\ State(o, count, store[o.path].polls, paused) \in PathState
        /\ State(o, store[o.path].count, store[o.path].polls, TRUE) \in PathState
    <3> HIDE DEF count, paused
    <3> QED
      BY <1>5, <1>6, <2>1, <2>2
  <2>4. Failed(o) \in PathState
    BY <2>3, Zenon DEF Failed
  <2>5. QED
    BY <1>8, <2>4 DEF Observed
<1>9. QED
  BY <1>2, <1>3, <1>7, <1>8

LEMMA RunTyped ==
  ASSUME Types, NEW o \in Observation
  PROVE  RunAfter(o) \in RunState
<1>1. run[o.path] \in RunState /\ Attempt(o) \in AttemptId /\ o.fingerprint \in Fingerprint
  BY AttemptTyped DEF Types, Observation
<1>2. QED
  BY <1>1 DEF RunAfter, RunState

\* No summary gets newer than the observation that is delivered.
LEMMA DeliverTyped ==
  ASSUME Types, NEW o \in Observation, Deliver(o), last.sequence <= o.sequence
  PROVE  Types'
<1>1. store' \in [Path -> PathState \cup {None}]
  BY ObservedTyped DEF Deliver, Types, TypeOK
<1>2. run' \in [Path -> RunState]
  BY RunTyped DEF Deliver, Types
<1>3. last' \in Observation /\ started' \in SUBSET Root
  BY DEF Deliver, Types, TypeOK, Observation
<1>4. ASSUME NEW p \in Path, Known(p)'
      PROVE  store'[p].sequence <= last'.sequence
  <2>1. last.sequence \in Nat /\ o.sequence \in Nat /\ last' = o /\ o.path \in Path
    BY DEF Types, TypeOK, Observation, None, Deliver
  <2>2. CASE store'[p] = store[p]
    <3>1. Known(p) /\ store[p] \in PathState
      BY <1>4, <2>2 DEF Known, Types, TypeOK
    <3>2. store[p].sequence \in Nat /\ store[p].sequence <= last.sequence
      BY <3>1 DEF Types, TypeOK, PathState
    <3>3. QED
      BY <2>1, <2>2, <3>2
  <2>3. CASE store'[p] # store[p]
    <3>1. p = o.path /\ store'[p] = Observed(o)
      BY <2>3 DEF Deliver, Types, TypeOK
    <3>2. ~AlreadyObserved(o) /\ o.failed
      BY <1>4, <2>3, <3>1 DEF Observed, Known
    <3>3. Observed(o).sequence = o.sequence
      BY <3>2 DEF Observed, Polled, Failed, State
    <3>4. QED
      BY <2>1, <3>1, <3>3
  <2>4. QED
    BY <2>2, <2>3
<1>5. QED
  BY <1>1, <1>2, <1>3, <1>4 DEF Types, TypeOK

LEMMA InitTypes == Init => Types
<1> SUFFICES ASSUME Init PROVE Types
  OBVIOUS
<1>1. PICK f \in Fingerprint : run = [p \in Path |-> [fingerprint |-> f, attempts |-> {}]]
  BY DEF Init
<1>2. run \in [Path -> RunState]
  BY <1>1 DEF RunState
<1>3. QED
  BY <1>2 DEF Init, Types, TypeOK, Known

LEMMA NextTypes ==
  ASSUME Types, [Next]_vars
  PROVE  Types'
<1>1. ASSUME Result PROVE Types'
  <2>1. PICK o \in Observation : o.sequence = last.sequence + 1 /\ Deliver(o)
    BY <1>1 DEF Result
  <2>2. last.sequence <= o.sequence
    BY <2>1 DEF Types, TypeOK, Observation, None
  <2>3. QED
    BY <2>1, <2>2, DeliverTyped
<1>2. ASSUME Replay PROVE Types'
  <2>1. last \in Observation /\ Deliver(last)
    BY <1>2 DEF Replay, Types, TypeOK
  <2>2. last.sequence <= last.sequence
    BY <2>1 DEF Observation
  <2>3. QED
    BY <2>1, <2>2, DeliverTyped
<1>3. ASSUME UNCHANGED vars PROVE Types'
  BY <1>3 DEF vars, Types, TypeOK, Known
<1>4. QED
  BY <1>1, <1>2, <1>3 DEF Next

\* The store has a complete summary or none for every path, for any number of
\* paths, attempts and results (progress.ts: observeCall).
THEOREM ProgressTyped == Spec => []TypeOK
<1>1. Types => TypeOK
  BY DEF Types
<1>2. QED
  BY <1>1, InitTypes, NextTypes, PTL DEF Spec

-----------------------------------------------------------------------------
(* What a summary stands for.                                              *)

\* The summary of a called path and the attempts that failed alike in a row:
\* while the path is not paused its count is their number.  A poll is no attempt.
Agrees(p) ==
  /\ IsFiniteSet(run[p].attempts)
  /\ p \in PollPath \/ ~Known(p) => run[p].attempts = {}
  /\ p \notin PollPath /\ Known(p) =>
       /\ store[p].fingerprint = run[p].fingerprint
       /\ store[p].paused => store[p].count >= MaxIdenticalFailures
       /\ ~store[p].paused => /\ store[p].count = Cardinality(run[p].attempts)
                              /\ store[p].count < MaxIdenticalFailures
       /\ store[p].root # NoRoot => <<"root", store[p].root>> \in run[p].attempts

\* Attempts are of the past, and the one that is delivering results now is
\* the last one of every path that it failed on.
Past(p) ==
  /\ \A n : <<"sequence", n>> \in run[p].attempts => n <= last.sequence
  /\ \A r : <<"root", r>> \in run[p].attempts =>
       r \in started /\ (r = last.root => store[p].root = r)

\* A result that has been delivered is recognised, or there is nothing it
\* could change.
Delivered ==
  last # None =>
    /\ last.poll <=> last.path \in PollPath
    /\ AlreadyObserved(last) \/ (~Known(last.path) /\ ~last.failed)
    /\ ~last.poll => IF last.failed THEN Attempt(last) \in run[last.path].attempts
                                    ELSE ~Known(last.path)

IInv == Types /\ Delivered /\ \A p \in Path : Agrees(p) /\ Past(p)

LEMMA InitIInv == Init => IInv
<1> SUFFICES ASSUME Init PROVE IInv
  OBVIOUS
<1>1. PICK f \in Fingerprint : run = [p \in Path |-> [fingerprint |-> f, attempts |-> {}]]
  BY DEF Init
<1>2. \A p \in Path : run[p].attempts = {} /\ ~Known(p)
  BY <1>1 DEF Init, Known
<1>3. \A p \in Path : Agrees(p) /\ Past(p)
  BY <1>2, FS_EmptySet DEF Agrees, Past
<1>4. QED
  BY <1>3, InitTypes DEF IInv, Delivered, Init

-----------------------------------------------------------------------------
(* A new result.                                                           *)

\* The guard of Result, for one observation.
Arrives(o) ==
  /\ o.sequence = last.sequence + 1
  /\ o.poll <=> o.path \in PollPath
  /\ o.root \in started => o.root = last.root
  /\ MixedOutcomes \/ o.failed \/ Attempt(o) \notin run[o.path].attempts

\* What observeCall drops on a called path are the further results
\* of an attempt that counts already.
LEMMA DroppedIsCounted ==
  ASSUME IInv, NEW o \in Observation, Arrives(o), ~o.poll
  PROVE  AlreadyObserved(o) <=> Attempt(o) \in run[o.path].attempts
<1> DEFINE p == o.path
<1>1. /\ p \in Path /\ p \notin PollPath /\ Agrees(p) /\ Past(p)
      /\ last.sequence \in Nat /\ o.sequence = last.sequence + 1
  BY DEF IInv, Arrives, Observation, Types, TypeOK, None
<1>2. Known(p) => store[p] \in PathState /\ store[p].sequence \in Nat /\ store[p].sequence <= last.sequence
  BY <1>1 DEF IInv, Types, TypeOK, Known, PathState
<1>3. ASSUME AlreadyObserved(o)
      PROVE  Attempt(o) \in run[p].attempts
  <2>1. Known(p) /\ o.root # NoRoot /\ store[p].root = o.root
    BY <1>1, <1>2, <1>3 DEF AlreadyObserved
  <2>2. QED
    BY <1>1, <2>1 DEF Agrees, Attempt
<1>4. ASSUME Attempt(o) \in run[p].attempts
      PROVE  AlreadyObserved(o)
  <2>1. Known(p)
    BY <1>1, <1>4 DEF Agrees
  <2>2. o.root # NoRoot
    BY <1>1, <1>4 DEF Past, Attempt
  <2>3. o.root \in started /\ store[p].root = o.root
    BY <1>1, <1>4, <2>2 DEF Past, Attempt, Arrives
  <2>4. QED
    BY <2>1, <2>2, <2>3 DEF AlreadyObserved
<1>5. QED
  BY <1>3, <1>4

\* What a result does to the summary of its path and to the run behind it.
LEMMA CalledPath ==
  ASSUME IInv, ~MixedOutcomes, NEW o \in Observation, Arrives(o), ~o.poll, Deliver(o)
  PROVE  \/ AlreadyObserved(o) /\ o.failed /\ store' = store /\ run' = run
         \/ /\ ~AlreadyObserved(o) /\ ~o.failed
            /\ store'[o.path] = None /\ run'[o.path].attempts = {}
         \/ /\ ~AlreadyObserved(o) /\ o.failed
            /\ store'[o.path] = Failed(o)
            /\ run'[o.path].fingerprint = o.fingerprint
            /\ run'[o.path].attempts =
                 (IF Alike(o) THEN run[o.path].attempts ELSE {}) \cup {Attempt(o)}
<1>1. /\ o.path \in Path /\ o.path \notin PollPath /\ Agrees(o.path)
      /\ run[o.path] \in RunState /\ o.failed \in BOOLEAN
  BY DEF IInv, Arrives, Observation, Types
<1>2. /\ store'[o.path] = Observed(o) /\ run'[o.path] = RunAfter(o)
      /\ store' = [store EXCEPT ![o.path] = Observed(o)]
      /\ run' = [run EXCEPT ![o.path] = RunAfter(o)]
  BY <1>1 DEF Deliver, IInv, Types, TypeOK
<1>3. AlreadyObserved(o) <=> Attempt(o) \in run[o.path].attempts
  BY DroppedIsCounted
<1>4. CASE AlreadyObserved(o)
  <2>1. o.failed
    BY <1>3, <1>4 DEF Arrives
  <2>2. Observed(o) = store[o.path] /\ RunAfter(o) = run[o.path]
    BY <1>3, <1>4, <2>1 DEF Observed, RunAfter
  <2>3. store' = store /\ run' = run
    BY <1>1, <1>2, <2>2 DEF IInv, Types, TypeOK
  <2>4. QED
    BY <1>4, <2>1, <2>3
<1>5. CASE ~AlreadyObserved(o) /\ ~o.failed
  BY <1>2, <1>5 DEF Observed, RunAfter
<1>6. CASE ~AlreadyObserved(o) /\ o.failed
  <2>1. store'[o.path] = Failed(o)
    BY <1>2, <1>6 DEF Observed
  <2>2. Alike(o) <=> Known(o.path) /\ run[o.path].fingerprint = o.fingerprint
    BY <1>1 DEF Agrees, Alike
  <2>3. CASE o.fingerprint = run[o.path].fingerprint
    <3>1. RunAfter(o) = [run[o.path] EXCEPT !.attempts = @ \cup {Attempt(o)}]
      BY <1>3, <1>6, <2>3 DEF RunAfter
    <3>2. /\ run'[o.path].fingerprint = o.fingerprint
          /\ run'[o.path].attempts = run[o.path].attempts \cup {Attempt(o)}
      BY <1>1, <1>2, <2>3, <3>1 DEF RunState
    <3>3. ~Alike(o) => run[o.path].attempts = {}
      BY <1>1, <2>2, <2>3 DEF Agrees
    <3>4. QED
      BY <1>6, <2>1, <3>2, <3>3
  <2>4. CASE o.fingerprint # run[o.path].fingerprint
    <3>1. RunAfter(o) = [fingerprint |-> o.fingerprint, attempts |-> {Attempt(o)}]
      BY <1>3, <1>6, <2>4 DEF RunAfter
    <3>2. QED
      BY <1>2, <1>6, <2>1, <2>2, <2>4, <3>1
  <2>5. QED
    BY <2>3, <2>4
<1>7. QED
  BY <1>4, <1>5, <1>6

\* A failure that is counted: the count goes with the number of attempts, and
\* the limit is compared with it.
LEMMA FailureAgrees ==
  ASSUME IInv, NEW o \in Observation, Arrives(o), ~o.poll, ~AlreadyObserved(o),
         store'[o.path] = Failed(o),
         run'[o.path].fingerprint = o.fingerprint,
         run'[o.path].attempts = (IF Alike(o) THEN run[o.path].attempts ELSE {}) \cup {Attempt(o)}
  PROVE  /\ Agrees(o.path)'
         /\ Failed(o) # None /\ Failed(o).root = o.root /\ Failed(o).sequence = o.sequence
         /\ store[o.path].paused /\ Alike(o) => Failed(o).paused
         /\ ~store[o.path].paused /\ Failed(o).paused =>
              Cardinality(run'[o.path].attempts) >= MaxIdenticalFailures
<1> DEFINE p     == o.path
           count == IF Alike(o) THEN store[p].count + 1 ELSE 1
<1>1. /\ p \in Path /\ p \notin PollPath /\ Agrees(p)
      /\ MaxIdenticalFailures \in Nat \ {0}
  BY ProgressAssumption DEF IInv, Arrives, Observation
<1>2. Attempt(o) \notin run[p].attempts
  BY DroppedIsCounted
<1>3. Alike(o) => Known(p) /\ store[p].count \in Nat
  BY <1>1 DEF IInv, Types, TypeOK, Alike, Known, PathState
<1>4. /\ IsFiniteSet(run'[p].attempts)
      /\ Cardinality(run'[p].attempts) =
           (IF Alike(o) THEN Cardinality(run[p].attempts) ELSE 0) + 1
  <2>1. CASE Alike(o)
    <3>1. run'[p].attempts = run[p].attempts \cup {Attempt(o)}
      BY <2>1
    <3>2. IsFiniteSet(run[p].attempts)
      BY <1>1 DEF Agrees
    <3>3. /\ IsFiniteSet(run[p].attempts \cup {Attempt(o)})
          /\ Cardinality(run[p].attempts \cup {Attempt(o)}) = Cardinality(run[p].attempts) + 1
      BY <1>2, <3>2, FS_AddElement
    <3>4. QED
      BY <2>1, <3>1, <3>3
  <2>2. CASE ~Alike(o)
    <3>1. run'[p].attempts = {Attempt(o)}
      BY <2>2
    <3>2. IsFiniteSet({Attempt(o)}) /\ Cardinality({Attempt(o)}) = 1
      BY FS_Singleton
    <3>3. QED
      BY <2>2, <3>1, <3>2
  <2>3. QED
    BY <2>1, <2>2
<1>5. CASE Alike(o) /\ store[p].paused
  <2>1. Failed(o) = State(o, store[p].count, store[p].polls, TRUE)
    BY <1>5 DEF Failed
  <2>2. /\ Failed(o).fingerprint = o.fingerprint /\ Failed(o).count = store[p].count
        /\ Failed(o).paused = TRUE /\ Failed(o).root = o.root /\ Failed(o).sequence = o.sequence
    BY <2>1 DEF State
  <2>3. Failed(o) # None
    BY <2>2 DEF None, Observation
  <2>4. store[p].count >= MaxIdenticalFailures
    BY <1>1, <1>3, <1>5 DEF Agrees
  <2>5. o.root # NoRoot => <<"root", o.root>> \in run'[p].attempts
    BY DEF Attempt
  <2>6. Agrees(p)'
    BY <1>1, <1>4, <2>2, <2>3, <2>4, <2>5 DEF Agrees, Known
  <2>7. QED
    BY <1>5, <2>2, <2>3, <2>6
<1>6. CASE ~(Alike(o) /\ store[p].paused)
  <2> DEFINE paused == count >= MaxIdenticalFailures
  <2>1. Failed(o) = State(o, count, store[p].polls, paused)
    BY <1>6, Zenon DEF Failed
  <2>2. count \in Nat /\ count = Cardinality(run'[p].attempts)
    <3>1. CASE Alike(o)
      BY <1>1, <1>3, <1>4, <1>6, <3>1 DEF Agrees
    <3>2. CASE ~Alike(o)
      BY <1>4, <3>2
    <3>3. QED
      BY <3>1, <3>2
  <2> HIDE DEF count
  <2>3. /\ Failed(o).fingerprint = o.fingerprint /\ Failed(o).count = count
        /\ Failed(o).root = o.root /\ Failed(o).sequence = o.sequence
    BY <2>1 DEF State
  <2>4. Failed(o).paused <=> count >= MaxIdenticalFailures
    <3>1. Failed(o).paused = paused
      <4> HIDE DEF paused
      <4> QED
        BY <2>1 DEF State
    <3>2. QED
      BY <3>1, Zenon
  <2>5. Failed(o) # None
    BY <2>3 DEF None, Observation
  <2>6. o.root # NoRoot => <<"root", o.root>> \in run'[p].attempts
    BY DEF Attempt
  <2>7. Agrees(p)'
    BY <1>1, <1>4, <2>2, <2>3, <2>4, <2>5, <2>6 DEF Agrees, Known
  <2>8. QED
    BY <1>6, <2>2, <2>3, <2>4, <2>5, <2>7
<1>7. QED
  BY <1>5, <1>6

\* A path that is only polled has no failed attempts.
LEMMA PolledPath ==
  ASSUME IInv, NEW o \in Observation, Arrives(o), o.poll, Deliver(o)
  PROVE  /\ run'[o.path].attempts = {}
         /\ \/ store' = store /\ AlreadyObserved(o)
            \/ ~AlreadyObserved(o) /\ ~o.failed /\ store'[o.path] = None
            \/ ~AlreadyObserved(o) /\ o.failed /\ store'[o.path] = Polled(o)
<1>1. /\ o.path \in PollPath /\ o.path \in Path
      /\ run[o.path] \in RunState /\ run[o.path].attempts = {}
  BY DEF Arrives, Observation, IInv, Agrees, Types
<1>2. /\ store' = [store EXCEPT ![o.path] = Observed(o)]
      /\ run'[o.path] = RunAfter(o) /\ store'[o.path] = Observed(o)
  BY <1>1 DEF Deliver, IInv, Types, TypeOK
<1>3. RunAfter(o).attempts = {}
  BY <1>1 DEF RunAfter, RunState
<1>4. AlreadyObserved(o) => store' = store
  BY <1>1, <1>2 DEF Observed, IInv, Types, TypeOK
<1>5. QED
  BY <1>2, <1>3, <1>4 DEF Observed

\* What is known of attempts stays true of a path on which nothing is counted.
LEMMA PastKept ==
  ASSUME IInv, NEW o \in Observation, Arrives(o), Deliver(o), NEW q \in Path,
         run'[q].attempts \subseteq run[q].attempts, store'[q] = store[q]
  PROVE  Past(q)'
<1>1. /\ last' = o /\ started \subseteq started' /\ Past(q)
      /\ last.sequence \in Nat /\ o.sequence = last.sequence + 1
  BY DEF Deliver, IInv, Arrives, Types, TypeOK, Observation, None
<1>2. \A n : <<"sequence", n>> \in run'[q].attempts => n <= o.sequence
  <2>1. SUFFICES ASSUME NEW n, <<"sequence", n>> \in run'[q].attempts
                 PROVE  n <= o.sequence
    OBVIOUS
  <2>2. n <= last.sequence /\ n \in Int
    BY <1>1, <2>1 DEF Past, IInv, Types, RunState, AttemptId
  <2>3. QED
    BY <1>1, <2>2
<1>3. \A r : <<"root", r>> \in run'[q].attempts => r \in started /\ (r = o.root => store[q].root = r)
  BY <1>1 DEF Past, Arrives
<1>4. QED
  BY <1>1, <1>2, <1>3 DEF Past

LEMMA ResultKeeps ==
  ASSUME IInv, ~MixedOutcomes, NEW o \in Observation, Arrives(o), Deliver(o)
  PROVE  IInv'
<1> DEFINE p == o.path
<1>1. /\ p \in Path /\ last' = o /\ o # None
      /\ last.sequence \in Nat /\ o.sequence = last.sequence + 1 /\ (o.poll <=> p \in PollPath)
      /\ started' = started \cup ({o.root} \ {NoRoot})
  BY EntriesDiffer DEF Deliver, IInv, Arrives, Types, TypeOK, Observation, None
<1>2. Types'
  BY <1>1, DeliverTyped DEF IInv
<1>3. ASSUME NEW q \in Path, q # p
      PROVE  Agrees(q)' /\ Past(q)'
  <2>1. store'[q] = store[q] /\ run'[q] = run[q]
    BY <1>1, <1>3 DEF Deliver, IInv, Types, TypeOK
  <2>2. Agrees(q)'
    BY <2>1 DEF IInv, Agrees, Known
  <2>3. QED
    BY <2>1, <2>2, PastKept
<1>4. Agrees(p)' /\ Past(p)' /\ Delivered'
  <2>1. CASE o.poll
    <3>1. run'[p].attempts = {}
      BY <2>1, PolledPath
    <3>2. Agrees(p)' /\ Past(p)'
      BY <1>1, <2>1, <3>1, FS_EmptySet DEF Agrees, Past
    <3>3. AlreadyObserved(o)' \/ (~Known(p)' /\ ~o.failed)
      <4>1. CASE store' = store /\ AlreadyObserved(o)
        BY <4>1 DEF AlreadyObserved, Known
      <4>2. CASE ~o.failed /\ store'[p] = None
        BY <4>2 DEF Known
      <4>3. CASE store'[p] = Polled(o)
        <5>1. store'[p].sequence = o.sequence
          BY <4>3 DEF Polled, State
        <5>2. QED
          BY <1>1, <5>1 DEF AlreadyObserved, Known, None
      <4>4. QED
        BY <2>1, <4>1, <4>2, <4>3, PolledPath
    <3>4. QED
      BY <1>1, <2>1, <3>2, <3>3 DEF Delivered
  <2>2. CASE ~o.poll /\ AlreadyObserved(o)
    <3>1. o.failed /\ store' = store /\ run' = run
      BY <2>2, CalledPath
    <3>2. Agrees(p)'
      BY <1>1, <3>1 DEF IInv, Agrees, Known
    <3>3. Past(p)'
      BY <1>1, <3>1, PastKept
    <3>4. AlreadyObserved(o)' /\ Attempt(o) \in run'[p].attempts
      BY <2>2, <3>1, DroppedIsCounted DEF AlreadyObserved, Known
    <3>5. QED
      BY <1>1, <2>2, <3>1, <3>2, <3>3, <3>4 DEF Delivered
  <2>3. CASE ~o.poll /\ ~AlreadyObserved(o) /\ ~o.failed
    <3>1. store'[p] = None /\ run'[p].attempts = {}
      BY <2>3, CalledPath
    <3>2. Agrees(p)' /\ Past(p)' /\ ~Known(p)'
      BY <3>1, FS_EmptySet DEF Agrees, Past, Known
    <3>3. QED
      BY <1>1, <2>3, <3>2 DEF Delivered
  <2>4. CASE ~o.poll /\ ~AlreadyObserved(o) /\ o.failed
    <3>1. /\ store'[p] = Failed(o) /\ run'[p].fingerprint = o.fingerprint
          /\ run'[p].attempts = (IF Alike(o) THEN run[p].attempts ELSE {}) \cup {Attempt(o)}
      BY <2>4, CalledPath
    <3>2. /\ Agrees(p)' /\ Failed(o) # None
          /\ store'[p].root = o.root /\ store'[p].sequence = o.sequence
      BY <2>4, <3>1, FailureAgrees
    <3>3. \A n : <<"sequence", n>> \in run'[p].attempts => n <= o.sequence
      <4>1. SUFFICES ASSUME NEW n, <<"sequence", n>> \in run'[p].attempts
                     PROVE  n <= o.sequence
        OBVIOUS
      <4>2. CASE <<"sequence", n>> \in run[p].attempts
        <5>1. n <= last.sequence /\ n \in Int
          BY <1>1, <4>2 DEF IInv, Past, Types, RunState, AttemptId
        <5>2. QED
          BY <1>1, <5>1
      <4>3. CASE <<"sequence", n>> = Attempt(o)
        BY <1>1, <4>3 DEF Attempt
      <4>4. QED
        BY <3>1, <4>1, <4>2, <4>3
    <3>4. \A r : <<"root", r>> \in run'[p].attempts => r \in started'
      <4>1. SUFFICES ASSUME NEW r, <<"root", r>> \in run'[p].attempts
                     PROVE  r \in started'
        OBVIOUS
      <4>2. CASE <<"root", r>> \in run[p].attempts
        BY <1>1, <4>2 DEF IInv, Past
      <4>3. CASE <<"root", r>> = Attempt(o)
        BY <1>1, <4>3 DEF Attempt
      <4>4. QED
        BY <3>1, <4>1, <4>2, <4>3
    <3>5. Past(p)'
      BY <1>1, <3>2, <3>3, <3>4 DEF Past
    <3>6. AlreadyObserved(o)' /\ Attempt(o) \in run'[p].attempts
      BY <1>1, <3>1, <3>2 DEF AlreadyObserved, Known
    <3>7. QED
      BY <1>1, <2>4, <3>2, <3>5, <3>6 DEF Delivered
  <2>5. QED
    BY <2>1, <2>2, <2>3, <2>4
<1>5. QED
  BY <1>2, <1>3, <1>4 DEF IInv

\* A replay changes no summary, and no run behind one.
LEMMA ReplayKeeps ==
  ASSUME IInv, Replay
  PROVE  IInv' /\ store' = store
<1> DEFINE o == last
           p == last.path
<1>1. /\ o \in Observation /\ o # None /\ Deliver(o) /\ p \in Path /\ last' = last
      /\ started \subseteq started' /\ Delivered /\ o.sequence <= o.sequence
  BY DEF Replay, IInv, Types, TypeOK, Observation, Deliver
<1>2. Types'
  BY <1>1, DeliverTyped DEF IInv
<1>3. store' = store
  <2>1. Observed(o) = store[p]
    BY <1>1 DEF Delivered, Observed, Known
  <2>2. QED
    BY <1>1, <2>1 DEF Deliver, IInv, Types, TypeOK
<1>4. /\ \A q \in Path \ {p} : run'[q] = run[q]
      /\ run'[p] = RunAfter(o) /\ run[p] \in RunState
  BY <1>1 DEF Deliver, IInv, Types
<1>5. run'[p].attempts = run[p].attempts /\ (run'[p].fingerprint = run[p].fingerprint \/ p \in PollPath \/ ~Known(p))
  <2>1. CASE o.poll
    <3>1. p \in PollPath /\ run[p].attempts = {}
      BY <1>1, <2>1 DEF Delivered, IInv, Agrees
    <3>2. RunAfter(o).attempts = {}
      BY <1>4, <2>1, <3>1 DEF RunAfter, RunState
    <3>3. QED
      BY <1>4, <3>1, <3>2
  <2>2. CASE ~o.poll /\ o.failed
    BY <1>1, <1>4, <2>2 DEF Delivered, RunAfter
  <2>3. CASE ~o.poll /\ ~o.failed
    <3>1. ~Known(p) /\ run[p].attempts = {}
      BY <1>1, <2>3 DEF Delivered, IInv, Agrees
    <3>2. RunAfter(o).attempts = {}
      BY <2>3 DEF RunAfter
    <3>3. QED
      BY <1>4, <3>1, <3>2
  <2>4. QED
    BY <2>1, <2>2, <2>3
<1>6. ASSUME NEW q \in Path
      PROVE  Agrees(q)' /\ Past(q)'
  <2>1. run'[q].attempts = run[q].attempts /\ (run'[q].fingerprint = run[q].fingerprint \/ q \in PollPath \/ ~Known(q))
    BY <1>4, <1>5
  <2>2. Agrees(q)'
    BY <1>3, <2>1 DEF IInv, Agrees, Known
  <2>3. Past(q)'
    BY <1>1, <1>3, <2>1 DEF IInv, Past
  <2>4. QED
    BY <2>2, <2>3
<1>7. Delivered'
  BY <1>1, <1>3, <1>5 DEF Delivered, AlreadyObserved, Known
<1>8. QED
  BY <1>2, <1>3, <1>6, <1>7 DEF IInv

LEMMA NextIInv ==
  ASSUME IInv, ~MixedOutcomes, [Next]_vars
  PROVE  IInv'
<1>1. ASSUME Result PROVE IInv'
  <2>1. PICK o \in Observation : Arrives(o) /\ Deliver(o)
    BY <1>1 DEF Result, Arrives
  <2>2. QED
    BY <2>1, ResultKeeps
<1>2. ASSUME UNCHANGED vars PROVE IInv'
  <2>1. Types'
    BY <1>2, NextTypes DEF IInv
  <2>2. Delivered' /\ \A p \in Path : Agrees(p)' /\ Past(p)'
    BY <1>2 DEF vars, IInv, Delivered, Agrees, Past, AlreadyObserved, Known
  <2>3. QED
    BY <2>1, <2>2 DEF IInv
<1>3. QED
  BY <1>1, <1>2, ReplayKeeps DEF Next

LEMMA Invariance == ~MixedOutcomes /\ Spec => []IInv
<1>1. CASE ~MixedOutcomes
  <2>1. IInv /\ [Next]_vars => IInv'
    BY <1>1, NextIInv
  <2>2. QED
    BY <2>1, InitIInv, PTL DEF Spec
<1>2. QED
  BY <1>1

-----------------------------------------------------------------------------
(* The limit.                                                              *)

\* As many attempts failing alike in a row pause the path, for any limit and
\* number of attempts, when the results of one attempt agree (progress.ts).
THEOREM LimitPausesAlways == ~MixedOutcomes /\ Spec => []LimitPauses
<1>1. IInv => LimitPauses
  <2>1. SUFFICES ASSUME IInv, NEW p \in Path,
                        Cardinality(run[p].attempts) >= MaxIdenticalFailures, ~store[p].paused
                 PROVE  FALSE
    BY DEF LimitPauses
  <2>2. Agrees(p) /\ MaxIdenticalFailures \in Nat \ {0}
    BY <2>1, ProgressAssumption DEF IInv
  <2>3. run[p].attempts # {}
    BY <2>1, <2>2, FS_EmptySet
  <2>4. Cardinality(run[p].attempts) < MaxIdenticalFailures
    BY <2>1, <2>2, <2>3 DEF Agrees
  <2>5. Cardinality(run[p].attempts) \in Nat
    BY <2>2, FS_CardinalityType DEF Agrees
  <2>6. QED
    BY <2>1, <2>2, <2>4, <2>5
<1>2. QED
  BY <1>1, Invariance, PTL

\* What one step may do to a pause.
LEMMA PausesAndResumes ==
  ASSUME IInv, ~MixedOutcomes, [Next]_vars, NEW p \in Path
  PROVE  /\ Pauses(p) => Earned(p)
         /\ Resumes(p) => ~last'.failed \/ last'.fingerprint # run[p].fingerprint
<1>1. ASSUME NEW o \in Observation, Arrives(o), Deliver(o), p = o.path, store' # store
      PROVE  /\ Pauses(p) => Earned(p)
             /\ Resumes(p) => ~last'.failed \/ last'.fingerprint # run[p].fingerprint
  <2>1. last' = o /\ Agrees(p)
    BY <1>1 DEF Deliver, IInv
  <2>2. CASE ~o.failed
    <3>1. store'[p] = None
      BY <1>1, <2>2, CalledPath, PolledPath
    <3>2. QED
      BY <2>1, <2>2, <3>1 DEF Pauses, None
  <2>3. CASE o.failed /\ o.poll
    <3>1. store'[p] = Polled(o)
      BY <1>1, <2>3, PolledPath
    <3> DEFINE polls  == store[p].polls + 1
               paused == store[p].paused \/ polls > PollBudget
    <3>2. store'[p] = State(o, store[p].count, polls, paused)
      BY <1>1, <3>1, Zenon DEF Polled
    <3>3. store'[p].polls = polls /\ store'[p].paused = paused
      <4> HIDE DEF polls, paused
      <4> QED
        BY <3>2 DEF State
    <3>4. (store'[p].paused <=> paused) /\ (~paused => ~store[p].paused)
      BY <3>3, Zenon
    <3>5. paused => store[p].paused \/ store'[p].polls > PollBudget
      BY <3>3
    <3>6. QED
      BY <3>4, <3>5 DEF Pauses, Resumes, Earned
  <2>4. CASE o.failed /\ ~o.poll
    <3>1. /\ ~AlreadyObserved(o) /\ store'[p] = Failed(o)
          /\ run'[p].fingerprint = o.fingerprint
          /\ run'[p].attempts = (IF Alike(o) THEN run[p].attempts ELSE {}) \cup {Attempt(o)}
      BY <1>1, <2>4, CalledPath
    <3>2. /\ store[p].paused /\ Alike(o) => store'[p].paused
          /\ Pauses(p) => Cardinality(run'[p].attempts) >= MaxIdenticalFailures
      BY <1>1, <2>4, <3>1, FailureAgrees DEF Pauses
    <3>3. store[p].paused /\ ~Alike(o) => o.fingerprint # run[p].fingerprint
      <4>1. p \notin PollPath
        BY <1>1, <2>4 DEF Arrives
      <4>2. store[p].paused => Known(p)
        BY DEF Known, None
      <4>3. QED
        BY <1>1, <2>1, <4>1, <4>2 DEF Agrees, Alike
    <3>4. QED
      BY <2>1, <3>2, <3>3 DEF Earned, Resumes
  <2>5. QED
    BY <2>2, <2>3, <2>4
<1>2. CASE store'[p] = store[p]
  BY <1>2 DEF Pauses, Resumes
<1>3. ASSUME Result, store'[p] # store[p]
      PROVE  \E o \in Observation : Arrives(o) /\ Deliver(o) /\ p = o.path /\ store' # store
  <2>1. PICK o \in Observation : Arrives(o) /\ Deliver(o)
    BY <1>3 DEF Result, Arrives
  <2>2. p = o.path /\ store' # store
    BY <1>3, <2>1 DEF Deliver, IInv, Types, TypeOK
  <2>3. QED
    BY <2>1, <2>2
<1>4. QED
  BY <1>1, <1>2, <1>3, ReplayKeeps DEF Next, vars

\* When a path is paused, as many distinct attempts as the limit says have
\* failed alike in a row, or the poll budget is spent (progress.ts).
THEOREM PausesAreEarned == ~MixedOutcomes /\ Spec => PauseEarned
<1>1. CASE ~MixedOutcomes
  <2>1. IInv /\ [Next]_vars => [\A p \in Path : Pauses(p) => Earned(p)]_vars
    BY <1>1, PausesAndResumes
  <2>2. QED
    BY <1>1, <2>1, Invariance, PTL DEF PauseEarned, Spec
<1>2. QED
  BY <1>1

\* Only a success or a failure of another kind ends a pause (progress.ts).
THEOREM PausesHold == ~MixedOutcomes /\ Spec => PauseHolds
<1>1. CASE ~MixedOutcomes
  <2>1. IInv /\ [Next]_vars =>
          [\A p \in Path : Resumes(p) => ~last'.failed \/ last'.fingerprint # run[p].fingerprint]_vars
    BY <1>1, PausesAndResumes
  <2>2. QED
    BY <1>1, <2>1, Invariance, PTL DEF PauseHolds, Spec
<1>2. QED
  BY <1>1

=============================================================================
