------------------------------- MODULE Progress -------------------------------
(***************************************************************************)
(* No-progress detection, packages/core/src/progress.ts: which repeated    *)
(* failures pause a path.  The store keeps one summary per path, and       *)
(* observeCall folds every settled result into it.  The history variable   *)
(* run remembers what the summary stands for: the distinct attempts that   *)
(* failed alike, in a row.                                                 *)
(*                                                                         *)
(* A fingerprint is modelled by what can differ within one path: the       *)
(* deterministic error and the resource versions, as one value.            *)
(***************************************************************************)
EXTENDS Integers, FiniteSets

CONSTANTS
  Path,                  \* scope, tool and arguments: pathKeyOf
  Root,                  \* rootCallIds of the attempts
  Fingerprint,
  NoRoot,                \* rootCallId = null
  PollPath,              \* the paths that are status polls
  MixedOutcomes,         \* whether an attempt may fail and then succeed
  MaxIdenticalFailures, PollBudget,
  MaxSequence            \* bound on the number of results observed

ASSUME ProgressAssumption ==
  /\ NoRoot \notin Root
  /\ PollPath \in SUBSET Path
  /\ MixedOutcomes \in BOOLEAN
  /\ MaxIdenticalFailures \in Nat \ {0} /\ PollBudget \in Nat /\ MaxSequence \in Nat

VARIABLES
  store,     \* Path -> PathState, None where the path has no entry
  last,      \* the observation delivered last
  started,   \* the attempts that have delivered a result
  run        \* Path -> the identical failures in a row: fingerprint, attempts

vars == <<store, last, started, run>>

None == [count |-> 0, polls |-> 0, paused |-> FALSE, sequence |-> 0, root |-> NoRoot]

Observation ==
  [path : Path, failed : BOOLEAN, fingerprint : Fingerprint, root : Root \cup {NoRoot},
   poll : BOOLEAN, sequence : 1..MaxSequence]

PathState ==
  [fingerprint : Fingerprint, count : Nat, polls : Nat, paused : BOOLEAN,
   sequence : 1..MaxSequence, root : Root \cup {NoRoot}]

Known(p) == store[p] # None

-----------------------------------------------------------------------------
(* observeCall.                                                            *)

\* Mutant: the root of the attempt is not looked at.
AlreadyObservedBySequence(o) ==
  Known(o.path) /\ o.sequence <= store[o.path].sequence

\* The same attempt delivered twice, or a replayed notification.
AlreadyObserved(o) ==
  /\ Known(o.path)
  /\ \/ o.root # NoRoot /\ store[o.path].root = o.root
     \/ o.sequence <= store[o.path].sequence

Alike(o) == Known(o.path) /\ store[o.path].fingerprint = o.fingerprint

State(o, count, polls, paused) ==
  [fingerprint |-> o.fingerprint, count |-> count, polls |-> polls, paused |-> paused,
   sequence |-> o.sequence, root |-> o.root]

Polled(o) ==
  LET before == store[o.path]
      polls  == before.polls + 1
  IN  State(o, before.count, polls, before.paused \/ polls > PollBudget)

\* Mutant: a path that is paused gets a fresh failure budget.
FailedAnew(o) ==
  LET before == store[o.path]
      count  == IF Alike(o) /\ ~before.paused THEN before.count + 1 ELSE 1
  IN  State(o, count, before.polls, count >= MaxIdenticalFailures)

\* Mutant: one failure more than the limit is needed.
FailedLate(o) ==
  LET before == store[o.path]
      count  == IF Alike(o) THEN before.count + 1 ELSE 1
  IN  IF Alike(o) /\ before.paused THEN State(o, before.count, before.polls, TRUE)
      ELSE State(o, count, before.polls, count > MaxIdenticalFailures)

\* Mutant: another error continues the count.
FailedAccumulating(o) ==
  LET before == store[o.path]
      count  == before.count + 1
  IN  IF Alike(o) /\ before.paused THEN State(o, before.count, before.polls, TRUE)
      ELSE State(o, count, before.polls, count >= MaxIdenticalFailures)

Failed(o) ==
  LET before == store[o.path]
      count  == IF Alike(o) THEN before.count + 1 ELSE 1
  IN  IF Alike(o) /\ before.paused THEN State(o, before.count, before.polls, TRUE)
      ELSE State(o, count, before.polls, count >= MaxIdenticalFailures)

Observed(o) ==
  IF AlreadyObserved(o) THEN store[o.path]
  ELSE IF ~o.failed THEN None
  ELSE IF o.poll THEN Polled(o)
  ELSE Failed(o)

-----------------------------------------------------------------------------
(* What really happened.                                                   *)

\* An attempt without a root call id is told apart by its sequence number.
Attempt(o) == IF o.root = NoRoot THEN <<"sequence", o.sequence>> ELSE <<"root", o.root>>

\* Further results of an attempt that has failed already belong to that failure;
\* a poll is never a failed attempt, but what it reports may end a run.
RunAfter(o) ==
  LET before == run[o.path]
      mine   == IF o.poll THEN {} ELSE {Attempt(o)}
  IN  IF ~o.failed THEN [fingerprint |-> o.fingerprint, attempts |-> {}]
      ELSE IF Attempt(o) \in before.attempts THEN before
      ELSE IF o.fingerprint = before.fingerprint
           THEN [before EXCEPT !.attempts = @ \cup mine]
      ELSE [fingerprint |-> o.fingerprint, attempts |-> mine]

-----------------------------------------------------------------------------

Init ==
  /\ store = [p \in Path |-> None]
  /\ last = None
  /\ started = {}
  /\ \E f \in Fingerprint : run = [p \in Path |-> [fingerprint |-> f, attempts |-> {}]]

Deliver(o) ==
  /\ store' = [store EXCEPT ![o.path] = Observed(o)]
  /\ run' = [run EXCEPT ![o.path] = RunAfter(o)]
  /\ last' = o
  /\ started' = started \cup ({o.root} \ {NoRoot})

\* A call settled: the adapter numbers the results of a scope consecutively.
Result ==
  \E o \in Observation :
    /\ o.sequence = last.sequence + 1
    /\ o.poll <=> o.path \in PollPath
    /\ o.root \in started => o.root = last.root
    /\ MixedOutcomes \/ o.failed \/ Attempt(o) \notin run[o.path].attempts
    /\ Deliver(o)

\* The same notification arrives a second time.
Replay == last # None /\ Deliver(last)

Next == Result \/ Replay

Spec == Init /\ [][Next]_vars

-----------------------------------------------------------------------------
(* Properties.                                                             *)

\* A path has a complete summary or none, and no summary is newer than what
\* was observed (progress.ts: observeCall).
TypeOK ==
  /\ store \in [Path -> PathState \cup {None}]
  /\ last \in Observation \cup {None}
  /\ started \in SUBSET Root
  /\ \A p \in Path : Known(p) => store[p].sequence <= last.sequence

Pauses(p)  == ~store[p].paused /\ store'[p].paused
Resumes(p) == store[p].paused /\ ~store'[p].paused

Earned(p) ==
  \/ Cardinality(run'[p].attempts) >= MaxIdenticalFailures
  \/ store'[p].polls > PollBudget

\* A pause is earned: when a path is paused, at least MaxIdenticalFailures distinct
\* attempts have failed alike in a row, or the poll budget is spent (progress.ts:
\* the limit may not "fire early", a different failure "resets the count", and a
\* success clears the path).
PauseEarned == [][\A p \in Path : Pauses(p) => Earned(p)]_vars

\* And it is not late: as many attempts failing alike in a row pause the path,
\* whatever nested results and replays arrive in between.
LimitPauses ==
  \A p \in Path :
    Cardinality(run[p].attempts) >= MaxIdenticalFailures => store[p].paused

\* A paused path gets no fresh failure budget: only a success or a failure that
\* is not like the others ends the pause.
PauseHolds ==
  [][\A p \in Path : Resumes(p) => ~last'.failed \/ last'.fingerprint # run[p].fingerprint]_vars
=============================================================================
