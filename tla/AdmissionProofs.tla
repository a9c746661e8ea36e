--------------------------- MODULE AdmissionProofs ---------------------------
(***************************************************************************)
(* Proofs about Admission, for every number of runs, slots and ceilings,   *)
(* and about McpServer, which takes its steps, for every set of calls,     *)
(* inputs, configurations and services.                                    *)
(*                                                                         *)
(* The counters are related to the sets they count, so the steps divide    *)
(* by what happens to those sets: a refusal leaves Waiting, Running and    *)
(* Charged alone, an admission adds one run, and the steps that end runs   *)
(* move D out of the queue and L into the slots.  The proofs about the     *)
(* contract use no assumption of McpServer.                                *)
(*                                                                         *)
(* The server takes the steps of the contract and no others, so what is    *)
(* proved of the contract holds of it.  Beyond that: what a configuration  *)
(* that loads may contact, and whose identity a call that was admitted     *)
(* relies on.                                                              *)
(***************************************************************************)
EXTENDS McpServer, FiniteSetTheorems, TLAPS

-----------------------------------------------------------------------------
(* Counting.                                                               *)

\* Taking a part away from a finite set subtracts its size.
LEMMA CountRemove ==
  ASSUME NEW S, IsFiniteSet(S), NEW T \in SUBSET S
  PROVE  /\ Cardinality(S \ T) = Cardinality(S) - Cardinality(T)
         /\ Cardinality(S) \in Nat /\ Cardinality(T) \in Nat
         /\ Cardinality(S \ T) \in Nat
         /\ Cardinality(T) <= Cardinality(S)
<1>1. IsFiniteSet(T) /\ Cardinality(T) <= Cardinality(S)
  BY FS_Subset
<1>2. S \cap T = T
  OBVIOUS
<1>3. IsFiniteSet(S \ T) /\ Cardinality(S \ T) = Cardinality(S) - Cardinality(T)
  BY <1>2, FS_Difference
<1>4. QED
  BY <1>1, <1>3, FS_CardinalityType

\* Adding a disjoint finite set adds its size.
LEMMA CountUnion ==
  ASSUME NEW S, IsFiniteSet(S), NEW T, IsFiniteSet(T), S \cap T = {}
  PROVE  /\ Cardinality(S \cup T) = Cardinality(S) + Cardinality(T)
         /\ Cardinality(S) \in Nat /\ Cardinality(T) \in Nat
<1>1. Cardinality(S \cup T) = Cardinality(S) + Cardinality(T) - Cardinality({})
  BY FS_Union
<1>2. Cardinality({}) = 0
  BY FS_EmptySet
<1>3. QED
  BY <1>1, <1>2, FS_CardinalityType

\* Adding one new element adds one.
LEMMA CountAdd ==
  ASSUME NEW S, IsFiniteSet(S), NEW x, x \notin S
  PROVE  /\ Cardinality(S \cup {x}) = Cardinality(S) + 1
         /\ Cardinality(S) \in Nat
  BY FS_AddElement, FS_CardinalityType

\* Every set of runs the specification counts is finite.
LEMMA FiniteRuns ==
  ASSUME NEW S \in SUBSET Run
  PROVE  /\ IsFiniteSet(S) /\ Cardinality(S) \in Nat
         /\ \A s : InSession(S, s) \in SUBSET S /\ IsFiniteSet(InSession(S, s))
         /\ \A t : InTurn(S, t) \in SUBSET S /\ IsFiniteSet(InTurn(S, t))
<1>1. IsFiniteSet(S)
  BY AdmissionAssumption, FS_Subset
<1>2. \A s : InSession(S, s) \in SUBSET S
  BY DEF InSession
<1>3. \A t : InTurn(S, t) \in SUBSET S
  BY DEF InTurn
<1>4. \A T \in SUBSET S : IsFiniteSet(T)
  BY <1>1, FS_Subset
<1>5. QED
  BY <1>1, <1>2, <1>3, <1>4, FS_CardinalityType

-----------------------------------------------------------------------------
(* The inductive invariant, and the two ways the ledger moves.             *)

\* What makes the above inductive: a submission is answered exactly when it has
\* left the system, every executing run has been handed to the provider and no
\* waiting one has, the ledger respects both ceilings, and a closed coordinator
\* has an empty queue.
Bookkeeping ==
  /\ \A r \in Run : outcome[r] # "none" <=> stage[r] = "ended"
  /\ Running \subseteq called
  /\ \A r \in called : stage[r] \in {"running", "ended"}
  /\ \A s \in Session : sessionCalls[s] <= PerSessionCalls
  /\ \A t \in Turn : turnCalls[t] <= PerTurnCalls
  /\ closed => Waiting = {}

IInv ==
  /\ TypeOK /\ SlotsExact /\ WorkConserving
  /\ LedgerExact /\ QueueBounded /\ Bookkeeping

LedgerGood ==
  /\ turnCalls \in [Turn -> Nat] /\ sessionCalls \in [Session -> Nat]
  /\ LedgerExact
  /\ \A s \in Session : sessionCalls[s] <= PerSessionCalls
  /\ \A t \in Turn : turnCalls[t] <= PerTurnCalls

\* A reservation within budget charges exactly the run it is made for.
LEMMA ReserveLedger ==
  ASSUME IInv, NEW r \in Run, r \notin Charged, Charged' = Charged \cup {r},
         WithinBudget(r), Reserve(r)
  PROVE  LedgerGood'
<1>1. Charged \in SUBSET Run /\ Charged' \in SUBSET Run
  BY DEF IInv, TypeOK, Charged, Waiting
<1>2. SessionOf[r] \in Session /\ TurnOf[r] \in Turn
  BY AdmissionAssumption
<1>3. ASSUME NEW s \in Session
      PROVE  /\ sessionCalls'[s] \in Nat /\ sessionCalls'[s] <= PerSessionCalls
             /\ sessionCalls'[s] = Cardinality(InSession(Charged', s))
  <2>1. IsFiniteSet(InSession(Charged, s)) /\ r \notin InSession(Charged, s)
    BY <1>1, FiniteRuns DEF InSession
  <2>2. CASE SessionOf[r] = s
    <3>1. InSession(Charged', s) = InSession(Charged, s) \cup {r}
      BY <2>2 DEF InSession
    <3>2. sessionCalls'[s] = sessionCalls[s] + 1 /\ sessionCalls[s] < PerSessionCalls
      BY <2>2 DEF Reserve, WithinBudget, IInv, TypeOK
    <3>3. /\ Cardinality(InSession(Charged', s)) = Cardinality(InSession(Charged, s)) + 1
          /\ Cardinality(InSession(Charged, s)) \in Nat
      BY <2>1, <3>1, CountAdd
    <3>4. sessionCalls[s] = Cardinality(InSession(Charged, s))
      BY DEF IInv, LedgerExact
    <3>5. QED
      BY <3>2, <3>3, <3>4, AdmissionAssumption
  <2>3. CASE SessionOf[r] # s
    <3>1. InSession(Charged', s) = InSession(Charged, s)
      BY <2>3 DEF InSession
    <3>2. sessionCalls'[s] = sessionCalls[s]
      BY <2>3 DEF Reserve, IInv, TypeOK
    <3>3. QED
      BY <3>1, <3>2 DEF IInv, TypeOK, LedgerExact, Bookkeeping
  <2>4. QED
    BY <2>2, <2>3
<1>4. ASSUME NEW t \in Turn
      PROVE  /\ turnCalls'[t] \in Nat /\ turnCalls'[t] <= PerTurnCalls
             /\ turnCalls'[t] = Cardinality(InTurn(Charged', t))
  <2>1. IsFiniteSet(InTurn(Charged, t)) /\ r \notin InTurn(Charged, t)
    BY <1>1, FiniteRuns DEF InTurn
  <2>2. CASE TurnOf[r] = t
    <3>1. InTurn(Charged', t) = InTurn(Charged, t) \cup {r}
      BY <2>2 DEF InTurn
    <3>2. turnCalls'[t] = turnCalls[t] + 1 /\ turnCalls[t] < PerTurnCalls
      BY <2>2 DEF Reserve, WithinBudget, IInv, TypeOK
    <3>3. /\ Cardinality(InTurn(Charged', t)) = Cardinality(InTurn(Charged, t)) + 1
          /\ Cardinality(InTurn(Charged, t)) \in Nat
      BY <2>1, <3>1, CountAdd
    <3>4. turnCalls[t] = Cardinality(InTurn(Charged, t))
      BY DEF IInv, LedgerExact
    <3>5. QED
      BY <3>2, <3>3, <3>4, AdmissionAssumption
  <2>3. CASE TurnOf[r] # t
    <3>1. InTurn(Charged', t) = InTurn(Charged, t)
      BY <2>3 DEF InTurn
    <3>2. turnCalls'[t] = turnCalls[t]
      BY <2>3 DEF Reserve, IInv, TypeOK
    <3>3. QED
      BY <3>1, <3>2 DEF IInv, TypeOK, LedgerExact, Bookkeeping
  <2>4. QED
    BY <2>2, <2>3
<1>5. sessionCalls' \in [Session -> Nat] /\ turnCalls' \in [Turn -> Nat]
  <2>1. /\ sessionCalls' = [s \in Session |-> sessionCalls'[s]]
        /\ turnCalls' = [t \in Turn |-> turnCalls'[t]]
    BY DEF Reserve, IInv, TypeOK
  <2>2. QED
    BY <1>3, <1>4, <2>1
<1>6. QED
  BY <1>3, <1>4, <1>5 DEF LedgerGood, LedgerExact

\* A refund gives back what its runs were charged, and never more.
LEMMA RefundLedger ==
  ASSUME IInv, NEW D \in SUBSET Charged, Charged' = Charged \ D, Refund(D)
  PROVE  LedgerGood'
<1>1. Charged \in SUBSET Run /\ D \in SUBSET Run
  BY DEF IInv, TypeOK, Charged, Waiting
<1>2. ASSUME NEW s \in Session
      PROVE  /\ sessionCalls'[s] \in Nat /\ sessionCalls'[s] <= PerSessionCalls
             /\ sessionCalls'[s] = Cardinality(InSession(Charged', s))
  <2>1. IsFiniteSet(InSession(Charged, s))
    BY <1>1, FiniteRuns
  <2>2. /\ InSession(D, s) \in SUBSET InSession(Charged, s)
        /\ InSession(Charged', s) = InSession(Charged, s) \ InSession(D, s)
    BY DEF InSession
  <2>3. sessionCalls'[s] = sessionCalls[s] - Cardinality(InSession(D, s))
    BY DEF Refund
  <2>4. sessionCalls[s] = Cardinality(InSession(Charged, s)) /\ sessionCalls[s] <= PerSessionCalls
    BY DEF IInv, LedgerExact, Bookkeeping
  <2>5. /\ Cardinality(InSession(Charged', s)) =
             Cardinality(InSession(Charged, s)) - Cardinality(InSession(D, s))
        /\ Cardinality(InSession(Charged', s)) \in Nat
        /\ Cardinality(InSession(D, s)) \in Nat /\ Cardinality(InSession(Charged, s)) \in Nat
    BY <2>1, <2>2, CountRemove
  <2>6. QED
    BY <2>3, <2>4, <2>5, AdmissionAssumption
<1>3. ASSUME NEW t \in Turn
      PROVE  /\ turnCalls'[t] \in Nat /\ turnCalls'[t] <= PerTurnCalls
             /\ turnCalls'[t] = Cardinality(InTurn(Charged', t))
  <2>1. IsFiniteSet(InTurn(Charged, t))
    BY <1>1, FiniteRuns
  <2>2. /\ InTurn(D, t) \in SUBSET InTurn(Charged, t)
        /\ InTurn(Charged', t) = InTurn(Charged, t) \ InTurn(D, t)
    BY DEF InTurn
  <2>3. turnCalls'[t] = turnCalls[t] - Cardinality(InTurn(D, t))
    BY DEF Refund
  <2>4. turnCalls[t] = Cardinality(InTurn(Charged, t)) /\ turnCalls[t] <= PerTurnCalls
    BY DEF IInv, LedgerExact, Bookkeeping
  <2>5. /\ Cardinality(InTurn(Charged', t)) =
             Cardinality(InTurn(Charged, t)) - Cardinality(InTurn(D, t))
        /\ Cardinality(InTurn(Charged', t)) \in Nat
        /\ Cardinality(InTurn(D, t)) \in Nat /\ Cardinality(InTurn(Charged, t)) \in Nat
    BY <2>1, <2>2, CountRemove
  <2>6. QED
    BY <2>3, <2>4, <2>5, AdmissionAssumption
<1>4. sessionCalls' \in [Session -> Nat] /\ turnCalls' \in [Turn -> Nat]
  <2>1. /\ sessionCalls' = [s \in Session |-> sessionCalls'[s]]
        /\ turnCalls' = [t \in Turn |-> turnCalls'[t]]
    BY DEF Refund
  <2>2. QED
    BY <1>2, <1>3, <2>1
<1>5. QED
  BY <1>2, <1>3, <1>4 DEF LedgerGood, LedgerExact

-----------------------------------------------------------------------------
(* The steps.                                                              *)

\* A refusal only answers the run it is about.
LEMMA RefuseStep ==
  ASSUME IInv, NEW r \in Run, NEW out \in Refusals, Refuse(r, out)
  PROVE  IInv'
<1>1. Waiting' = Waiting /\ Running' = Running
  BY DEF IInv, TypeOK, Refuse, Waiting, Running
<1>2. Charged' = Charged /\ r \notin called
  BY <1>1 DEF IInv, Bookkeeping, Refuse, Charged
<1>3. TypeOK'
  BY DEF IInv, TypeOK, Refuse, Stages
<1>4. SlotsExact' /\ WorkConserving' /\ QueueBounded' /\ LedgerExact'
  BY <1>1, <1>2 DEF IInv, SlotsExact, WorkConserving, QueueBounded, LedgerExact, Refuse
<1>5. Bookkeeping'
  <2>1. \A q \in Run : outcome'[q] # "none" <=> stage'[q] = "ended"
    BY DEF IInv, TypeOK, Bookkeeping, Refuse, Refusals
  <2>2. \A q \in called' : stage'[q] \in {"running", "ended"}
    BY DEF IInv, TypeOK, Bookkeeping, Refuse
  <2>3. QED
    BY <1>1, <2>1, <2>2 DEF IInv, Bookkeeping, Refuse
<1>6. QED
  BY <1>3, <1>4, <1>5 DEF IInv

\* An admitted run takes a queue place; all slots are taken, so work is still
\* conserved, and the limits were tested in the same step.
LEMMA EnqueueStep ==
  ASSUME IInv, NEW r \in Run, Enqueue(r)
  PROVE  IInv'
<1>1. Waiting' = Waiting \cup {r} /\ Running' = Running /\ r \notin Waiting
  BY DEF IInv, TypeOK, Enqueue, Waiting, Running
<1>2. Charged' = Charged \cup {r} /\ r \notin Charged
  BY <1>1 DEF IInv, Bookkeeping, Enqueue, Charged
<1>3. LedgerGood'
  BY <1>2, ReserveLedger DEF Enqueue
<1>4. TypeOK'
  BY <1>3 DEF IInv, TypeOK, Enqueue, Stages, LedgerGood
<1>5. SlotsExact' /\ WorkConserving'
  BY <1>1, AdmissionAssumption DEF IInv, TypeOK, SlotsExact, WorkConserving, Enqueue
<1>6. QueueBounded'
  <2>1. Waiting \in SUBSET Run
    BY DEF Waiting
  <2>2. Cardinality(Waiting') <= MaxQueue
    <3>1. Cardinality(Waiting') = Cardinality(Waiting) + 1 /\ Cardinality(Waiting) \in Nat
      BY <1>1, <2>1, FiniteRuns, CountAdd
    <3>2. Cardinality(Waiting) < MaxQueue
      BY <3>1, AdmissionAssumption DEF Enqueue, QueueFull
    <3>3. QED
      BY <3>1, <3>2, AdmissionAssumption
  <2>3. ASSUME NEW s \in Session
        PROVE  Cardinality(InSession(Waiting', s)) <= MaxQueuePerSession
    <3>1. IsFiniteSet(InSession(Waiting, s)) /\ r \notin InSession(Waiting, s)
      BY <1>1, <2>1, FiniteRuns DEF InSession
    <3>2. CASE SessionOf[r] = s
      <4>1. InSession(Waiting', s) = InSession(Waiting, s) \cup {r}
        BY <1>1, <3>2 DEF InSession
      <4>2. /\ Cardinality(InSession(Waiting', s)) = Cardinality(InSession(Waiting, s)) + 1
            /\ Cardinality(InSession(Waiting, s)) \in Nat
        BY <3>1, <4>1, CountAdd
      <4>3. Cardinality(InSession(Waiting, s)) < MaxQueuePerSession
        BY <3>2, <4>2, AdmissionAssumption DEF Enqueue, QueueFull
      <4>4. QED
        BY <4>2, <4>3, AdmissionAssumption
    <3>3. CASE SessionOf[r] # s
      <4>1. InSession(Waiting', s) = InSession(Waiting, s)
        BY <1>1, <3>3 DEF InSession
      <4>2. QED
        BY <4>1 DEF IInv, QueueBounded
    <3>4. QED
      BY <3>2, <3>3
  <2>4. QED
    BY <2>2, <2>3 DEF QueueBounded
<1>7. Bookkeeping'
  <2>1. \A q \in Run : outcome'[q] # "none" <=> stage'[q] = "ended"
    BY DEF IInv, TypeOK, Bookkeeping, Enqueue
  <2>2. \A q \in called' : stage'[q] \in {"running", "ended"}
    BY DEF IInv, TypeOK, Bookkeeping, Enqueue
  <2>3. QED
    BY <1>1, <1>3, <2>1, <2>2 DEF IInv, Bookkeeping, Enqueue, LedgerGood
<1>8. QED
  BY <1>3, <1>4, <1>5, <1>6, <1>7 DEF IInv, LedgerGood

\* A free slot goes straight to the provider; nobody was waiting for it.
LEMMA StartStep ==
  ASSUME IInv, NEW r \in Run, Start(r)
  PROVE  IInv'
<1>1. Running' = Running \cup {r} /\ Waiting' = Waiting /\ r \notin Running
  BY DEF IInv, TypeOK, Start, Waiting, Running
<1>2. Charged' = Charged \cup {r} /\ r \notin Charged
  BY <1>1 DEF IInv, Bookkeeping, Start, Charged, Waiting
<1>3. LedgerGood'
  BY <1>2, ReserveLedger DEF Start
<1>4. TypeOK'
  BY <1>3 DEF IInv, TypeOK, Start, Stages, LedgerGood
<1>5. SlotsExact'
  <2>1. Cardinality(Running') = Cardinality(Running) + 1 /\ Cardinality(Running) \in Nat
    BY <1>1, FiniteRuns, CountAdd DEF Running
  <2>2. QED
    BY <2>1, AdmissionAssumption DEF IInv, SlotsExact, Start
<1>6. Waiting = {}
  BY AdmissionAssumption DEF IInv, TypeOK, WorkConserving, Start
<1>7. WorkConserving' /\ QueueBounded'
  BY <1>1, <1>6 DEF IInv, WorkConserving, QueueBounded
<1>8. Bookkeeping'
  <2>1. \A q \in Run : outcome'[q] # "none" <=> stage'[q] = "ended"
    BY DEF IInv, TypeOK, Bookkeeping, Start
  <2>2. \A q \in called' : stage'[q] \in {"running", "ended"}
    BY DEF IInv, TypeOK, Bookkeeping, Start
  <2>3. QED
    BY <1>1, <1>3, <1>6, <2>1, <2>2 DEF IInv, Bookkeeping, Start, LedgerGood
<1>9. QED
  BY <1>3, <1>4, <1>5, <1>7, <1>8 DEF IInv, LedgerGood

\* A smaller queue still respects both limits.
LEMMA SmallerQueue ==
  ASSUME IInv, Waiting' \in SUBSET Waiting
  PROVE  QueueBounded'
<1>1. IsFiniteSet(Waiting)
  BY FiniteRuns DEF Waiting
<1>2. Cardinality(Waiting') <= MaxQueue
  <2>1. /\ Cardinality(Waiting') <= Cardinality(Waiting)
        /\ Cardinality(Waiting') \in Nat /\ Cardinality(Waiting) \in Nat
    BY <1>1, FS_Subset, FS_CardinalityType
  <2>2. Cardinality(Waiting) <= MaxQueue
    BY DEF IInv, QueueBounded
  <2>3. QED
    BY <2>1, <2>2, AdmissionAssumption
<1>3. ASSUME NEW s \in Session
      PROVE  Cardinality(InSession(Waiting', s)) <= MaxQueuePerSession
  <2>1. /\ InSession(Waiting', s) \in SUBSET InSession(Waiting, s)
        /\ IsFiniteSet(InSession(Waiting, s))
    BY <1>1, FS_Subset DEF InSession
  <2>2. /\ Cardinality(InSession(Waiting', s)) <= Cardinality(InSession(Waiting, s))
        /\ Cardinality(InSession(Waiting', s)) \in Nat
        /\ Cardinality(InSession(Waiting, s)) \in Nat
    BY <2>1, FS_Subset, FS_CardinalityType
  <2>3. Cardinality(InSession(Waiting, s)) <= MaxQueuePerSession
    BY DEF IInv, QueueBounded
  <2>4. QED
    BY <2>2, <2>3, AdmissionAssumption
<1>4. QED
  BY <1>2, <1>3 DEF QueueBounded

\* The common part of every step that ends a run and pumps: r leaves, D is
\* dropped from the queue, L moves from the queue into the slots.
LEMMA PumpStep ==
  ASSUME IInv, NEW r \in Run, stage[r] # "ended", NEW out \in Answers, NEW D, NEW L,
         Pumped(Cardinality(Running \ {r}), Waiting \ {r}, D, L),
         EndAndPump(r, out, D, L),
         Refund(D \cup ({r} \cap Waiting))
  PROVE  IInv'
<1>1. /\ D \in SUBSET (Waiting \ {r}) /\ L \in SUBSET (Waiting \ {r}) /\ D \cap L = {}
      /\ r \notin D /\ r \notin L
      /\ Waiting \in SUBSET Run /\ Running \in SUBSET Run /\ Waiting \cap Running = {}
  BY DEF Pumped, Waiting, Running
<1>2. PICK why \in [D -> {"cancelled", "timed-out"}] :
        outcome' = [q \in Run |-> IF q = r THEN out
                                  ELSE IF q \in D THEN why[q] ELSE outcome[q]]
  BY DEF EndAndPump
<1>3. /\ Waiting' = Waiting \ (D \cup L \cup {r})
      /\ Running' = (Running \ {r}) \cup L
  BY <1>1 DEF EndAndPump, Waiting, Running
<1>4. called' = called \cup L /\ called \in SUBSET Run /\ closed' = closed
  BY DEF Pumped, EndAndPump, IInv, TypeOK
<1>5. LedgerGood'
  <2>1. Waiting \cap called = {}
    BY DEF IInv, Bookkeeping, Waiting
  <2>2. Charged' = Charged \ (D \cup ({r} \cap Waiting))
    BY <1>1, <1>3, <1>4, <2>1 DEF Charged
  <2>3. D \cup ({r} \cap Waiting) \in SUBSET Charged
    BY <1>1 DEF Charged
  <2>4. QED
    BY <2>2, <2>3, RefundLedger
<1>6. /\ Cardinality(Running') = Cardinality(Running \ {r}) + Cardinality(L)
      /\ Cardinality(Running \ {r}) \in Nat /\ Cardinality(L) \in Nat
  <2>1. IsFiniteSet(Running \ {r}) /\ IsFiniteSet(L) /\ (Running \ {r}) \cap L = {}
    BY <1>1, FiniteRuns
  <2>2. QED
    BY <1>3, <2>1, CountUnion
<1>7. Cardinality(Running \ {r}) <= MaxConcurrent
  <2>1. IsFiniteSet(Running) /\ Running \ {r} \in SUBSET Running
    BY <1>1, FiniteRuns
  <2>2. /\ Cardinality(Running \ {r}) <= Cardinality(Running)
        /\ Cardinality(Running) \in Nat
    BY <2>1, FS_Subset, FS_CardinalityType
  <2>3. Cardinality(Running) <= MaxConcurrent
    BY DEF IInv, SlotsExact
  <2>4. QED
    BY <1>6, <2>2, <2>3, AdmissionAssumption
<1>8. SlotsExact'
  <2>1. CASE Cardinality(Running \ {r}) >= MaxConcurrent
    <3>1. L = {} /\ Cardinality(L) = 0
      BY <2>1, FS_EmptySet DEF Pumped
    <3>2. QED
      BY <1>6, <1>7, <3>1, AdmissionAssumption DEF SlotsExact, Pumped
  <2>2. CASE Cardinality(Running \ {r}) < MaxConcurrent
    BY <1>6, <2>2, AdmissionAssumption DEF SlotsExact, Pumped
  <2>3. QED
    BY <1>6, <2>1, <2>2, AdmissionAssumption
<1>9. WorkConserving'
  <2>1. CASE Cardinality(Running \ {r}) >= MaxConcurrent
    <3>1. L = {} /\ Cardinality(L) = 0
      BY <2>1, FS_EmptySet DEF Pumped
    <3>2. QED
      BY <1>6, <1>7, <2>1, <3>1, AdmissionAssumption DEF WorkConserving, Pumped
  <2>2. CASE Cardinality(Running \ {r}) < MaxConcurrent
    <3>1. \/ inflight' = MaxConcurrent
          \/ D \cup L = Waiting \ {r}
      BY <2>2 DEF Pumped
    <3>2. D \cup L = Waiting \ {r} => Waiting' = {}
      BY <1>3
    <3>3. QED
      BY <3>1, <3>2 DEF WorkConserving
  <2>3. QED
    BY <1>6, <2>1, <2>2, AdmissionAssumption
<1>10. TypeOK'
  <2>1. stage' \in [Run -> Stages]
    BY DEF EndAndPump, IInv, TypeOK, Stages
  <2>2. outcome' \in [Run -> Answers \cup Refusals \cup {"none"}]
    BY <1>2 DEF IInv, TypeOK, Answers
  <2>3. inflight' \in Nat /\ called' \in SUBSET Run
    BY <1>1, <1>4, <1>6 DEF Pumped
  <2>4. QED
    BY <1>4, <1>5, <2>1, <2>2, <2>3 DEF TypeOK, LedgerGood, IInv
<1>11. Bookkeeping'
  <2>1. ASSUME NEW q \in Run
        PROVE  outcome'[q] # "none" <=> stage'[q] = "ended"
    <3>1. CASE q = r
      BY <1>2, <3>1 DEF EndAndPump, Answers
    <3>2. CASE q \in D
      BY <1>1, <1>2, <3>2 DEF EndAndPump
    <3>3. CASE q \in L
      BY <1>1, <1>2, <3>3 DEF EndAndPump, IInv, Bookkeeping, Waiting
    <3>4. CASE q # r /\ q \notin D /\ q \notin L
      BY <1>2, <3>4 DEF EndAndPump, IInv, Bookkeeping
    <3>5. QED
      BY <3>1, <3>2, <3>3, <3>4
  <2>2. Running' \subseteq called'
    BY <1>3, <1>4 DEF IInv, Bookkeeping
  <2>3. \A q \in called' : stage'[q] \in {"running", "ended"}
    BY <1>1, <1>4 DEF EndAndPump, IInv, Bookkeeping
  <2>4. closed' => Waiting' = {}
    BY <1>3, <1>4 DEF IInv, Bookkeeping
  <2>5. QED
    BY <1>5, <2>1, <2>2, <2>3, <2>4 DEF Bookkeeping, LedgerGood
<1>12. QueueBounded'
  BY <1>3, SmallerQueue
<1>13. QED
  BY <1>5, <1>8, <1>9, <1>10, <1>11, <1>12 DEF IInv, LedgerGood

\* A run dropped at the start is refunded and its slot goes to the next waiters.
LEMMA DropAtStartStep ==
  ASSUME IInv, NEW r \in Run, DropAtStart(r)
  PROVE  IInv'
<1>1. Running \ {r} = Running /\ Waiting \ {r} = Waiting /\ {r} \cap Waiting = {}
  BY DEF DropAtStart, Running, Waiting
<1>2. PICK D \in SUBSET Waiting, L \in SUBSET Waiting, out \in {"cancelled", "timed-out"} :
        Pumped(inflight, Waiting, D, L) /\ EndAndPump(r, out, D, L) /\ Refund(D)
  BY DEF DropAtStart
<1>3. Pumped(Cardinality(Running \ {r}), Waiting \ {r}, D, L)
  BY <1>1, <1>2 DEF IInv, SlotsExact
<1>4. Refund(D \cup ({r} \cap Waiting))
  <2>1. D \cup ({r} \cap Waiting) = D
    BY <1>1
  <2>2. QED
    BY <1>2, <2>1
<1>5. out \in Answers /\ stage[r] # "ended"
  BY DEF Answers, DropAtStart
<1>6. QED
  BY <1>2, <1>3, <1>4, <1>5, PumpStep

\* A cancelled waiter is refunded; it held no slot, so none is handed on.
LEMMA CancelWaitingStep ==
  ASSUME IInv, NEW r \in Run, CancelWaiting(r)
  PROVE  IInv'
<1>1. Running \ {r} = Running /\ {r} \cap Waiting = {r}
  BY DEF CancelWaiting, Running, Waiting
<1>2. PICK D \in SUBSET (Waiting \ {r}), L \in SUBSET (Waiting \ {r}) :
        /\ Pumped(inflight, Waiting \ {r}, D, L)
        /\ EndAndPump(r, "cancelled", D, L)
        /\ Refund(D \cup {r})
  BY DEF CancelWaiting
<1>3. Pumped(Cardinality(Running \ {r}), Waiting \ {r}, D, L)
  BY <1>1, <1>2 DEF IInv, SlotsExact
<1>4. Refund(D \cup ({r} \cap Waiting))
  BY <1>1, <1>2
<1>5. "cancelled" \in Answers /\ stage[r] # "ended"
  BY DEF Answers, CancelWaiting
<1>6. QED
  BY <1>2, <1>3, <1>4, <1>5, PumpStep

\* A settled run keeps its charge and hands its slot on.
LEMMA SettleStep ==
  ASSUME IInv, NEW r \in Run, NEW out \in Answers, Settle(r, out)
  PROVE  IInv'
<1>1. Waiting \ {r} = Waiting /\ {r} \cap Waiting = {} /\ r \in Running
  BY DEF Settle, Running, Waiting
<1>2. PICK D \in SUBSET Waiting, L \in SUBSET Waiting :
        Pumped(inflight - 1, Waiting, D, L) /\ EndAndPump(r, out, D, L) /\ Refund(D)
  BY DEF Settle
<1>3. Cardinality(Running \ {r}) = inflight - 1
  <2>1. IsFiniteSet(Running)
    BY FiniteRuns DEF Running
  <2>2. Cardinality(Running \ {r}) = Cardinality(Running) - 1
    BY <1>1, <2>1, FS_RemoveElement
  <2>3. QED
    BY <2>2 DEF IInv, SlotsExact
<1>4. Pumped(Cardinality(Running \ {r}), Waiting \ {r}, D, L)
  BY <1>1, <1>2, <1>3
<1>5. Refund(D \cup ({r} \cap Waiting))
  <2>1. D \cup ({r} \cap Waiting) = D
    BY <1>1
  <2>2. QED
    BY <1>2, <2>1
<1>6. stage[r] # "ended"
  BY DEF Settle
<1>7. QED
  BY <1>2, <1>4, <1>5, <1>6, PumpStep

\* Closing answers everything that waits, refunds it, and starts nothing.
LEMMA CloseStep ==
  ASSUME IInv, Close
  PROVE  IInv'
<1>1. Waiting' = {} /\ Running' = Running /\ Waiting \in SUBSET Run
  BY DEF Close, Waiting, Running
<1>2. Charged' = Charged \ Waiting /\ Waiting \in SUBSET Charged
  <2>1. Waiting \cap called = {}
    BY DEF IInv, Bookkeeping, Waiting
  <2>2. QED
    BY <1>1, <2>1 DEF Close, Charged
<1>3. LedgerGood'
  BY <1>2, RefundLedger DEF Close
<1>4. TypeOK'
  BY <1>3 DEF IInv, TypeOK, Close, Stages, Answers, LedgerGood
<1>5. SlotsExact' /\ WorkConserving'
  BY <1>1 DEF IInv, SlotsExact, WorkConserving, Close
<1>6. QueueBounded'
  BY <1>1, SmallerQueue
<1>7. Bookkeeping'
  <2>1. \A q \in Run : outcome'[q] # "none" <=> stage'[q] = "ended"
    BY DEF IInv, Bookkeeping, Close, Waiting
  <2>2. \A q \in called' : stage'[q] \in {"running", "ended"}
    BY DEF IInv, TypeOK, Bookkeeping, Close, Waiting
  <2>3. QED
    BY <1>1, <1>3, <2>1, <2>2 DEF IInv, Bookkeeping, Close, LedgerGood
<1>8. QED
  BY <1>3, <1>4, <1>5, <1>6, <1>7 DEF IInv, LedgerGood

-----------------------------------------------------------------------------
(* The theorems.                                                           *)

\* The inductive invariant holds initially: nothing runs, waits or is charged.
LEMMA InitIInv == Init => IInv
<1> SUFFICES ASSUME Init PROVE IInv
  OBVIOUS
<1>1. Waiting = {} /\ Running = {} /\ Charged = {}
  BY DEF Init, Waiting, Running, Charged
<1>2. Cardinality({}) = 0
  BY FS_EmptySet
<1>3. \A s : InSession({}, s) = {} /\ InTurn({}, s) = {}
  BY DEF InSession, InTurn
<1>4. TypeOK
  BY DEF Init, TypeOK, Stages
<1>5. SlotsExact /\ WorkConserving /\ QueueBounded
  BY <1>1, <1>2, <1>3, AdmissionAssumption DEF Init, SlotsExact, WorkConserving, QueueBounded
<1>6. LedgerExact
  BY <1>1, <1>2, <1>3 DEF Init, LedgerExact
<1>7. Bookkeeping
  BY <1>1, AdmissionAssumption DEF Init, Bookkeeping
<1>8. QED
  BY <1>4, <1>5, <1>6, <1>7 DEF IInv

\* Every step preserves it, one case per action.
LEMMA NextIInv == IInv /\ [Next]_vars => IInv'
<1> SUFFICES ASSUME IInv, [Next]_vars PROVE IInv'
  OBVIOUS
<1>1. ASSUME NEW r \in Run, Submit(r) PROVE IInv'
  <2>1. CASE RefuseClosed(r) \/ RefuseDuplicate(r) \/ RefuseBudget(r) \/ RefuseQueueFull(r)
    <3>1. \E out \in Refusals : Refuse(r, out)
      BY <2>1 DEF Refusals, RefuseClosed, RefuseDuplicate, RefuseBudget, RefuseQueueFull
    <3>2. QED
      BY <3>1, RefuseStep
  <2>2. CASE Enqueue(r)
    BY <2>2, EnqueueStep
  <2>3. CASE Start(r)
    BY <2>3, StartStep
  <2>4. CASE DropAtStart(r)
    BY <2>4, DropAtStartStep
  <2>5. QED
    BY <1>1, <2>1, <2>2, <2>3, <2>4 DEF Submit
<1>2. ASSUME NEW r \in Run, CancelWaiting(r) PROVE IInv'
  BY <1>2, CancelWaitingStep
<1>3. ASSUME NEW r \in Run, NEW out \in Answers, Settle(r, out) PROVE IInv'
  BY <1>3, SettleStep
<1>4. CASE Close
  BY <1>4, CloseStep
<1>5. CASE UNCHANGED vars
  BY <1>5 DEF vars, IInv, TypeOK, SlotsExact, WorkConserving, LedgerExact, QueueBounded,
              Bookkeeping, Waiting, Running, Charged
<1>6. QED
  BY <1>1, <1>2, <1>3, <1>4, <1>5 DEF Next

\* The inductive invariant holds in every reachable state.
LEMMA Invariance == Spec => []IInv
BY InitIInv, NextIInv, PTL DEF Spec

\* Type correctness of the admission contract.
THEOREM TypeCorrect == Spec => []TypeOK
<1>1. IInv => TypeOK
  BY DEF IInv
<1>2. QED
  BY <1>1, Invariance, PTL

\* #inflight counts the executing runs and stays within maxConcurrent, for any
\* number of submissions and slots (coordinator.ts: submit, #release, #pump).
THEOREM SlotsCorrect == Spec => []SlotsExact
<1>1. IInv => SlotsExact
  BY DEF IInv
<1>2. QED
  BY <1>1, Invariance, PTL

\* No waiter is ever left beside a free slot (coordinator.ts: #pump, called by
\* every path that gives a slot back).
THEOREM NoIdleSlot == Spec => []WorkConserving
<1>1. IInv => WorkConserving
  BY DEF IInv
<1>2. QED
  BY <1>1, Invariance, PTL

\* Each ledger entry equals the runs of its key that wait or were handed to the
\* provider: no reservation leaks and none is refunded twice (budget.ts).
THEOREM LedgerCorrect == Spec => []LedgerExact
<1>1. IInv => LedgerExact
  BY DEF IInv
<1>2. QED
  BY <1>1, Invariance, PTL

\* The provider is never called more often than a ceiling allows: the calls are
\* part of what the ledger counts, and the ledger respects the ceilings.
THEOREM CeilingsHold == Spec => []CallsBounded
<1>1. IInv => CallsBounded
  <2> SUFFICES ASSUME IInv PROVE CallsBounded
    OBVIOUS
  <2>1. Charged \in SUBSET Run /\ called \in SUBSET Charged
    BY DEF IInv, TypeOK, Charged, Waiting
  <2>2. ASSUME NEW s \in Session
        PROVE  Cardinality(InSession(called, s)) <= PerSessionCalls
    <3>1. /\ InSession(called, s) \in SUBSET InSession(Charged, s)
          /\ IsFiniteSet(InSession(Charged, s))
      BY <2>1, FiniteRuns DEF InSession
    <3>2. /\ Cardinality(InSession(called, s)) <= Cardinality(InSession(Charged, s))
          /\ Cardinality(InSession(called, s)) \in Nat
          /\ Cardinality(InSession(Charged, s)) \in Nat
      BY <3>1, FS_Subset, FS_CardinalityType
    <3>3. Cardinality(InSession(Charged, s)) <= PerSessionCalls
      BY DEF IInv, LedgerExact, Bookkeeping
    <3>4. QED
      BY <3>2, <3>3, AdmissionAssumption
  <2>3. ASSUME NEW t \in Turn
        PROVE  Cardinality(InTurn(called, t)) <= PerTurnCalls
    <3>1. /\ InTurn(called, t) \in SUBSET InTurn(Charged, t)
          /\ IsFiniteSet(InTurn(Charged, t))
      BY <2>1, FiniteRuns DEF InTurn
    <3>2. /\ Cardinality(InTurn(called, t)) <= Cardinality(InTurn(Charged, t))
          /\ Cardinality(InTurn(called, t)) \in Nat
          /\ Cardinality(InTurn(Charged, t)) \in Nat
      BY <3>1, FS_Subset, FS_CardinalityType
    <3>3. Cardinality(InTurn(Charged, t)) <= PerTurnCalls
      BY DEF IInv, LedgerExact, Bookkeeping
    <3>4. QED
      BY <3>2, <3>3, AdmissionAssumption
  <2>4. QED
    BY <2>2, <2>3 DEF CallsBounded
<1>2. QED
  BY <1>1, Invariance, PTL

\* Both queue limits hold in every reachable state (coordinator.ts: submit).
THEOREM QueueCorrect == Spec => []QueueBounded
<1>1. IInv => QueueBounded
  BY DEF IInv
<1>2. QED
  BY <1>1, Invariance, PTL

\* After close() no step reaches the provider: the queue is empty then, and
\* submit refuses before it looks at the slots (coordinator.ts: close, submit).
THEOREM QuietAfterClose == Spec => NothingStartsAfterClose
<1>1. IInv /\ [Next]_vars => [closed => called' = called]_vars
  <2> SUFFICES ASSUME IInv, Next, closed PROVE called' = called
    BY DEF vars
  <2>1. Waiting = {}
    BY DEF IInv, Bookkeeping
  <2>2. ASSUME NEW r \in Run, Submit(r) PROVE called' = called
    BY <2>2 DEF Submit, RefuseClosed, RefuseDuplicate, RefuseBudget, RefuseQueueFull,
                Refuse, Enqueue, Start, DropAtStart
  <2>3. ASSUME NEW r \in Run, CancelWaiting(r) PROVE called' = called
    BY <2>1, <2>3 DEF CancelWaiting, Waiting
  <2>4. ASSUME NEW r \in Run, NEW out \in Answers, Settle(r, out) PROVE called' = called
    BY <2>1, <2>4 DEF Settle, Pumped
  <2>5. CASE Close
    BY <2>5 DEF Close
  <2>6. QED
    BY <2>2, <2>3, <2>4, <2>5 DEF Next
<1>2. QED
  BY <1>1, Invariance, PTL DEF Spec, NothingStartsAfterClose

\* The part of OutcomeFinal that concerns the steps with a pump: the run that
\* ends and the ones dropped had no outcome yet.
LEMMA PumpKeepsOutcomes ==
  ASSUME IInv, NEW r \in Run, stage[r] # "ended", NEW out, NEW D \in SUBSET Waiting, NEW L,
         EndAndPump(r, out, D, L)
  PROVE  \A q \in Run : outcome[q] # "none" => outcome'[q] = outcome[q]
<1>1. ASSUME NEW q \in Run, outcome[q] # "none" PROVE q # r /\ q \notin D
  BY <1>1 DEF IInv, Bookkeeping, Waiting
<1>2. QED
  BY <1>1 DEF EndAndPump

\* A submission is answered once and its answer never changes, whatever later
\* cancellations, settlements and the shutdown do (coordinator.ts: #settled).
THEOREM FinalOutcome == Spec => OutcomeFinal
<1>1. IInv /\ [Next]_vars => [AnswersKept]_vars
  <2> SUFFICES ASSUME IInv, Next PROVE AnswersKept
    BY DEF vars
  <2>1. ASSUME NEW r \in Run, NEW out \in Refusals, Refuse(r, out) PROVE AnswersKept
    BY <2>1 DEF AnswersKept, Refuse, IInv, TypeOK, Bookkeeping
  <2>2. ASSUME NEW r \in Run, Enqueue(r) \/ Start(r) PROVE AnswersKept
    BY <2>2 DEF AnswersKept, Enqueue, Start
  <2>3. ASSUME NEW r \in Run, DropAtStart(r) PROVE AnswersKept
    BY <2>3, PumpKeepsOutcomes DEF AnswersKept, DropAtStart
  <2>4. ASSUME NEW r \in Run, CancelWaiting(r) PROVE AnswersKept
    BY <2>4, PumpKeepsOutcomes DEF AnswersKept, CancelWaiting
  <2>5. ASSUME NEW r \in Run, NEW out \in Answers, Settle(r, out) PROVE AnswersKept
    BY <2>5, PumpKeepsOutcomes DEF AnswersKept, Settle
  <2>6. CASE Close
    BY <2>6 DEF AnswersKept, Close, IInv, Bookkeeping, Waiting
  <2>7. ASSUME NEW r \in Run, Submit(r) PROVE AnswersKept
    BY <2>1, <2>2, <2>3, <2>7 DEF Submit, Refusals, RefuseClosed, RefuseDuplicate,
                                  RefuseBudget, RefuseQueueFull
  <2>8. QED
    BY <2>4, <2>5, <2>6, <2>7 DEF Next
<1>2. QED
  BY <1>1, Invariance, PTL DEF Spec, OutcomeFinal


-----------------------------------------------------------------------------
(* The configuration rules.                                                *)

\* A configuration that loads and restricts egress to this machine sends
\* nothing elsewhere: local-only with an origin that is not loopback is refused
\* at load time, and a cloud request needs the allowlist (config.ts: 181-244).
THEOREM LocalOnlyStaysHere ==
  ASSUME NEW conf, NEW host, NEW attempt,
         Loads(conf, host), conf.egress = "local-only", CheckEgress(conf, attempt)
  PROVE  attempt.provider = "local" /\ attempt.endpoint \in Loopback
<1>1. attempt.provider = "local" /\ attempt.endpoint \in conf.origins
  BY DEF CheckEgress, AllowsLocal
<1>2. conf.origins \subseteq Loopback
  BY DEF Loads, Contradictory, LocalOnlyElsewhere
<1>3. QED
  BY <1>1, <1>2

\* Any local provider that loads asks this machine only, in every egress mode:
\* the schema pins its endpoint.
THEOREM LocalProviderStaysHere ==
  ASSUME NEW conf, NEW host, NEW tool, Loads(conf, host), conf.provider = "local",
         CheckEgress(conf, [provider |-> conf.provider, endpoint |-> conf.endpoint,
                              purpose |-> Purpose[tool], destination |-> "none", fields |-> {},
                              credential |-> TRUE, selected |-> TRUE])
  PROVE  /\ conf.egress # "deny"
         /\ conf.endpoint \in conf.origins \cap Loopback
         /\ Purpose[tool] \in conf.purposes
  BY DEF Loads, Structured, CheckEgress, AllowsLocal

-----------------------------------------------------------------------------
(* The server implements the admission contract.                           *)

\* A call is admitted by a step of submit().
LEMMA AdmitStep ==
  ASSUME NEW r \in Run, Admit(r)
  PROVE  Next
  BY DEF Admit, Next, Submit

LEMMA ConsiderStep ==
  ASSUME NEW r \in Run, NEW input, NEW who, Consider(r, input, who)
  PROVE  Next \/ UNCHANGED vars
  BY AdmitStep DEF Consider

LEMMA ServerStep ==
  ASSUME [MNext]_mvars
  PROVE  [Next]_vars
<1>1. ASSUME NEW r \in Run, NEW input, Receive(r, input)
      PROVE  [Next]_vars
  <2>1. CASE EarlyReply(input) # "none"
    BY <1>1, <2>1 DEF Receive
  <2>2. CASE EarlyReply(input) = "none" /\ (config.provider = "mock" \/ cache # 0)
    BY <1>1, <2>2, ConsiderStep DEF Receive
  <2>3. CASE EarlyReply(input) = "none" /\ ~(config.provider = "mock" \/ cache # 0)
    BY <1>1, <2>3 DEF Receive
  <2>4. QED
    BY <2>1, <2>2, <2>3
<1>2. ASSUME NEW r \in Run, ServiceNames(r) \/ ProbeFails(r) \/ Reaches(r) \/ Resume(r)
      PROVE  [Next]_vars
  BY <1>2 DEF ServiceNames, ProbeFails, Reaches, Resume, vars
<1>3. ASSUME NEW r \in Run, Told(r)
      PROVE  [Next]_vars
  BY <1>3, ConsiderStep DEF Told
<1>4. ASSUME NEW r \in Run, Abort(r)
      PROVE  [Next]_vars
  BY <1>4 DEF Abort, Next
<1>5. ASSUME NEW r \in Run, NEW out \in Answers, End(r, out)
      PROVE  [Next]_vars
  BY <1>5 DEF End, Next
<1>6. ASSUME ServiceReplaced \/ Shutdown \/ UNCHANGED mvars
      PROVE  [Next]_vars
  BY <1>6 DEF ServiceReplaced, Shutdown, mvars, Next
<1>7. QED
  BY <1>1, <1>2, <1>3, <1>4, <1>5, <1>6 DEF MNext

\* Whatever clients cancel, probes answer and operators replace, submissions,
\* slots and the ledger move as the contract of DecisionCoordinator says.
THEOREM McpImplementsAdmission == MSpec => Spec
<1>1. MInit => Init
  BY DEF MInit
<1>2. [MNext]_mvars => [Next]_vars
  BY ServerStep
<1>3. QED
  BY <1>1, <1>2, PTL DEF MSpec, Spec

\* The ledger of the server charges exactly the calls that wait or were given
\* to the provider: a call refused by the identity check or cancelled in the
\* queue costs nothing.
THEOREM McpLedgerCorrect == MSpec => []LedgerExact
  BY McpImplementsAdmission, LedgerCorrect, PTL

-----------------------------------------------------------------------------
(* Which calls contacts and state go out for.                              *)

Stations == {"idle", "asking", "submitted", "answered"}

\* The inductive invariant, for one call.  A call that is not admitted yet has
\* nothing in the coordinator; one that was admitted relies on an identity that
\* was the pinned one; and the identity is older than the service that its
\* state was sent to.
CallInv(r) ==
  /\ call[r].at \in Stations
  /\ call[r].basis \in 0..service /\ call[r].sentTo \in 0..service
  /\ call[r].at \in {"idle", "asking"} => stage[r] = "new"
  /\ call[r].at \in {"asking", "submitted"} =>
       call[r].input \in Inputs[r] /\ Allowed(call[r].input.tool)
  /\ stage[r] # "new" /\ config.provider = "local" => WeightsOf[call[r].basis] = config.expected
  /\ call[r].sentTo # 0 =>
       stage[r] # "new" /\ config.provider = "local" /\ call[r].basis <= call[r].sentTo

AnyInput == {NoInput} \cup UNION {Inputs[r] : r \in Run}
EarlyReplies == {"ok", "INVALID_PARAMS", "INVALID_INPUT", "INSUFFICIENT_CONTEXT", "EGRESS_DENIED"}
Replies == EarlyReplies \cup {"none", "UNSUPPORTED_CAPABILITY", "PROVIDER_ERROR"}
           \cup {Judgement(out) : out \in Answers \cup Refusals}
CallRecord == [at : Stations, input : AnyInput, basis : Nat, sentTo : Nat, reply : Replies]

McpInv ==
  /\ Starts(config)
  /\ service \in Nat \ {0} /\ cache \in 0..service
  /\ call \in [Run -> CallRecord]
  /\ \A r \in Run : CallInv(r)

\* Steps of the contract touch the stage of a call that is not submitted only
\* by submitting it.
LEMMA OthersStayNew ==
  ASSUME TypeOK, NEW q \in Run
  PROVE  /\ \A r \in Run \ {q} : Admit(r) => (stage'[q] = "new" <=> stage[q] = "new")
         /\ \A r \in Run : CancelWaiting(r) => (stage'[q] = "new" <=> stage[q] = "new")
         /\ \A r \in Run, out \in Answers : Settle(r, out) => (stage'[q] = "new" <=> stage[q] = "new")
         /\ Close => (stage'[q] = "new" <=> stage[q] = "new")
<1>1. ASSUME NEW r \in Run, NEW out, NEW D \in SUBSET Waiting, NEW L \in SUBSET Waiting,
             EndAndPump(r, out, D, L), r # q \/ stage[q] # "new"
      PROVE  stage'[q] = "new" <=> stage[q] = "new"
  BY <1>1 DEF EndAndPump, Waiting, TypeOK
<1>2. ASSUME NEW r \in Run \ {q}, Admit(r)
      PROVE  stage'[q] = "new" <=> stage[q] = "new"
  <2>1. CASE RefuseClosed(r) \/ RefuseBudget(r) \/ RefuseQueueFull(r) \/ Enqueue(r) \/ Start(r)
    BY <2>1 DEF RefuseClosed, RefuseBudget, RefuseQueueFull, Refuse, Enqueue, Start, TypeOK
  <2>2. CASE DropAtStart(r)
    BY <1>1, <2>2 DEF DropAtStart
  <2>3. QED
    BY <1>2, <2>1, <2>2 DEF Admit
<1>3. ASSUME NEW r \in Run, CancelWaiting(r)
      PROVE  stage'[q] = "new" <=> stage[q] = "new"
  BY <1>1, <1>3 DEF CancelWaiting
<1>4. ASSUME NEW r \in Run, NEW out \in Answers, Settle(r, out)
      PROVE  stage'[q] = "new" <=> stage[q] = "new"
  BY <1>1, <1>4 DEF Settle
<1>5. ASSUME Close
      PROVE  stage'[q] = "new" <=> stage[q] = "new"
  BY <1>5 DEF Close, Waiting, TypeOK
<1>6. QED
  BY <1>2, <1>3, <1>4, <1>5

LEMMA RepliesTyped == \A input : EarlyReply(input) \in EarlyReplies \cup {"none"}
  BY DEF EarlyReply, EarlyReplies

\* What an answered call looks like.
LEMMA AnsweredCall ==
  ASSUME McpInv, NEW r \in Run, NEW code \in Replies
  PROVE  /\ Answered(r, code) \in CallRecord
         /\ Answered(r, code).at = "answered"
         /\ Answered(r, code).basis = call[r].basis
         /\ Answered(r, code).sentTo = call[r].sentTo
  BY DEF McpInv, CallRecord, Answered, Stations, AnyInput

\* A step that leaves the other calls alone keeps their part of the invariant.
LEMMA OtherCalls ==
  ASSUME TypeOK, McpInv, NEW r \in Run, NEW c, call' = [call EXCEPT ![r] = c],
         UNCHANGED <<config, service>>, UNCHANGED vars \/ Admit(r), NEW q \in Run \ {r}
  PROVE  CallInv(q)'
<1>1. call'[q] = call[q]
  BY DEF McpInv
<1>2. stage'[q] = "new" <=> stage[q] = "new"
  BY OthersStayNew DEF vars
<1>3. CallInv(q) /\ Allowed(call[q].input.tool)' = Allowed(call'[q].input.tool)
  BY DEF McpInv, Allowed
<1>4. QED
  BY <1>1, <1>2, <1>3 DEF CallInv, Allowed

\* Replying to a call keeps the invariant: what was true of the identity of the
\* call stays true.
LEMMA AnswerStep ==
  ASSUME TypeOK, McpInv, NEW r \in Run, NEW code \in Replies,
         call' = [call EXCEPT ![r] = Answered(r, code)],
         UNCHANGED <<vars, config, service>>
  PROVE  call' \in [Run -> CallRecord] /\ \A q \in Run : CallInv(q)'
<1>1. call' \in [Run -> CallRecord] /\ call'[r] = Answered(r, code)
  BY AnsweredCall DEF McpInv
<1>2. CallInv(r)'
  BY <1>1, AnsweredCall DEF McpInv, CallInv, Stations, vars
<1>3. QED
  BY <1>1, <1>2, OtherCalls

\* Considering a call against the identity of a service that has reported it.
LEMMA ConsiderKeeps ==
  ASSUME TypeOK, McpInv, NEW r \in Run, NEW input \in Inputs[r], NEW who \in 0..service,
         call[r].at \in {"idle", "asking"}, Allowed(input.tool),
         Consider(r, input, who), UNCHANGED <<config, service>>
  PROVE  call' \in [Run -> CallRecord] /\ \A q \in Run : CallInv(q)'
<1>1. CASE Mismatched(r, who) \/ Questions(input) > ServiceQuestions
  BY <1>1, AnswerStep DEF Consider, Replies
<1>2. CASE ~(Mismatched(r, who) \/ Questions(input) > ServiceQuestions)
  <2> DEFINE c == [call[r] EXCEPT !.at = "submitted", !.input = input, !.basis = who]
  <2>1. call' = [call EXCEPT ![r] = c] /\ Admit(r)
    BY <1>2 DEF Consider
  <2>2. call[r] \in CallRecord /\ call[r].sentTo = 0 /\ who \in Nat
    BY DEF McpInv, CallInv
  <2>3. c \in CallRecord /\ c.at = "submitted" /\ c.input = input /\ c.basis = who /\ c.sentTo = 0
    BY <2>2 DEF CallRecord, Stations, AnyInput
  <2>4. call' \in [Run -> CallRecord] /\ call'[r] = c
    BY <2>1, <2>3 DEF McpInv
  <2>5. config.provider = "local" => WeightsOf[who] = config.expected
    BY <1>2 DEF Mismatched
  <2>6. CallInv(r)'
    BY <2>3, <2>4, <2>5 DEF CallInv, Stations, Allowed, McpInv
  <2>7. QED
    BY <2>1, <2>4, <2>6, OtherCalls
<1>3. QED
  BY <1>1, <1>2

LEMMA InitMcpInv == MInit => McpInv
<1>1. SUFFICES ASSUME MInit PROVE McpInv
  OBVIOUS
<1>2. call \in [Run -> CallRecord] /\ \A r \in Run : call[r] = NewCall
  BY <1>1 DEF MInit, NewCall, CallRecord, Stations, AnyInput, Replies
<1>3. \A r \in Run : CallInv(r)
  BY <1>1, <1>2 DEF MInit, Init, NewCall, CallInv, Stations
<1>4. QED
  BY <1>1, <1>2, <1>3 DEF MInit, McpInv

\* The invariant is inductive, given the types of the admission contract.
LEMMA NextMcpInv ==
  ASSUME TypeOK, McpInv, [MNext]_mvars
  PROVE  McpInv'
<1> USE DEF mcp
<1>1. ASSUME NEW r \in Run, NEW input \in Inputs[r], Receive(r, input)
      PROVE  McpInv'
  <2>1. UNCHANGED <<config, service, cache>>
    BY <1>1 DEF Receive
  <2>2. call' \in [Run -> CallRecord] /\ \A q \in Run : CallInv(q)'
    <3>1. CASE EarlyReply(input) # "none"
      BY <1>1, <2>1, <3>1, AnswerStep, RepliesTyped DEF Receive, Replies
    <3>2. CASE EarlyReply(input) = "none" /\ (config.provider = "mock" \/ cache # 0)
      <4>1. Allowed(input.tool)
        BY <3>2 DEF EarlyReply
      <4>2. QED
        BY <1>1, <2>1, <3>2, <4>1, ConsiderKeeps DEF Receive, McpInv
    <3>3. CASE EarlyReply(input) = "none" /\ ~(config.provider = "mock" \/ cache # 0)
      <4> DEFINE c == [call[r] EXCEPT !.at = "asking", !.input = input]
      <4>1. Allowed(input.tool)
        BY <3>3 DEF EarlyReply
      <4>2. call' = [call EXCEPT ![r] = c] /\ UNCHANGED vars /\ call[r].at = "idle"
        BY <1>1, <3>3 DEF Receive
      <4>3. call[r] \in CallRecord /\ CallInv(r)
        BY DEF McpInv
      <4>4. /\ c \in CallRecord /\ c.at = "asking" /\ c.input = input
            /\ c.basis = call[r].basis /\ c.sentTo = call[r].sentTo
        BY <4>3 DEF CallRecord, Stations, AnyInput
      <4>5. call' \in [Run -> CallRecord] /\ call'[r] = c
        BY <4>2, <4>4 DEF McpInv
      <4>6. CallInv(r)'
        BY <2>1, <4>1, <4>2, <4>3, <4>4, <4>5 DEF CallInv, Stations, Allowed, vars
      <4>7. QED
        BY <2>1, <4>2, <4>5, <4>6, OtherCalls
    <3>4. QED
      BY <3>1, <3>2, <3>3
  <2>3. QED
    BY <2>1, <2>2 DEF McpInv
<1>2. ASSUME NEW r \in Run, ServiceNames(r)
      PROVE  McpInv'
  <2> DEFINE c == [call[r] EXCEPT !.basis = service]
  <2>1. call' = [call EXCEPT ![r] = c] /\ UNCHANGED <<vars, config, service, cache>> /\ call[r].at = "asking"
    BY <1>2 DEF ServiceNames
  <2>2. call[r] \in CallRecord /\ CallInv(r) /\ service \in Nat
    BY DEF McpInv
  <2>3. /\ c \in CallRecord /\ c.at = "asking" /\ c.input = call[r].input
        /\ c.basis = service /\ c.sentTo = call[r].sentTo
    BY <2>1, <2>2 DEF CallRecord
  <2>4. call' \in [Run -> CallRecord] /\ call'[r] = c
    BY <2>1, <2>3 DEF McpInv
  <2>5. CallInv(r)'
    BY <2>1, <2>2, <2>3, <2>4 DEF CallInv, Stations, Allowed, vars
  <2>6. QED
    BY <2>1, <2>4, <2>5, OtherCalls DEF McpInv
<1>3. ASSUME NEW r \in Run, Told(r)
      PROVE  McpInv'
  <2>1. /\ UNCHANGED <<config, service>> /\ cache' = call[r].basis
        /\ call[r].at = "asking" /\ Consider(r, call[r].input, call[r].basis)
    BY <1>3 DEF Told
  <2>2. CallInv(r) /\ Allowed(call[r].input.tool) /\ call[r].basis \in 0..service
    BY <2>1 DEF McpInv, CallInv
  <2>3. call[r].input \in Inputs[r]
    BY <2>1 DEF McpInv, CallInv
  <2>4. call' \in [Run -> CallRecord] /\ \A q \in Run : CallInv(q)'
    BY <2>1, <2>2, <2>3, ConsiderKeeps
  <2>5. QED
    BY <2>1, <2>2, <2>4 DEF McpInv
<1>4. ASSUME NEW r \in Run, ProbeFails(r)
      PROVE  McpInv'
  BY <1>4, AnswerStep DEF ProbeFails, McpInv, Replies
<1>5. ASSUME NEW r \in Run, Resume(r)
      PROVE  McpInv'
  <2>1. Judgement(outcome[r]) \in Replies
    BY <1>5 DEF Resume, TypeOK, Replies
  <2>2. QED
    BY <1>5, <2>1, AnswerStep DEF Resume, McpInv
<1>6. ASSUME NEW r \in Run, Reaches(r)
      PROVE  McpInv'
  <2> DEFINE c == [call[r] EXCEPT !.sentTo = service]
  <2>1. /\ call' = [call EXCEPT ![r] = c] /\ UNCHANGED <<vars, config, service, cache>>
        /\ stage[r] = "running" /\ config.provider = "local"
    BY <1>6 DEF Reaches
  <2>2. call[r] \in CallRecord /\ CallInv(r) /\ service \in Nat
    BY DEF McpInv
  <2>3. /\ c \in CallRecord /\ c.at = call[r].at /\ c.input = call[r].input
        /\ c.basis = call[r].basis /\ c.sentTo = service
    BY <2>1, <2>2 DEF CallRecord
  <2>4. call' \in [Run -> CallRecord] /\ call'[r] = c
    BY <2>1, <2>3 DEF McpInv
  <2>5. CallInv(r)'
    BY <2>1, <2>2, <2>3, <2>4 DEF CallInv, Stations, Allowed, vars
  <2>6. QED
    BY <2>1, <2>4, <2>5, OtherCalls DEF McpInv
\* the steps that leave the calls of the server alone
<1>7. ASSUME UNCHANGED <<call, config>>, service' >= service, service' \in Nat, cache' = cache,
             \A q \in Run : stage'[q] = "new" <=> stage[q] = "new"
      PROVE  McpInv'
  <2>1. ASSUME NEW q \in Run
        PROVE  CallInv(q)'
    <3>1. CallInv(q) /\ service \in Nat /\ call[q] \in CallRecord
      BY DEF McpInv
    <3>2. QED
      BY <1>7, <3>1 DEF CallInv, Allowed, Stations
  <2>2. QED
    BY <1>7, <2>1 DEF McpInv
<1>8. ASSUME NEW r \in Run, Abort(r)
      PROVE  McpInv'
  <2>1. \A q \in Run : stage'[q] = "new" <=> stage[q] = "new"
    BY <1>8, OthersStayNew DEF Abort, vars
  <2>2. QED
    BY <1>7, <1>8, <2>1 DEF Abort, McpInv
<1>9. ASSUME NEW r \in Run, NEW out \in Answers, End(r, out)
      PROVE  McpInv'
  <2>1. \A q \in Run : stage'[q] = "new" <=> stage[q] = "new"
    BY <1>9, OthersStayNew DEF End
  <2>2. QED
    BY <1>7, <1>9, <2>1 DEF End, McpInv
<1>10. ASSUME ServiceReplaced
       PROVE  McpInv'
  BY <1>7, <1>10 DEF ServiceReplaced, McpInv, vars
<1>11. ASSUME Shutdown
       PROVE  McpInv'
  <2>1. \A q \in Run : stage'[q] = "new" <=> stage[q] = "new"
    BY <1>11, OthersStayNew DEF Shutdown
  <2>2. QED
    BY <1>7, <1>11, <2>1 DEF Shutdown, McpInv
<1>12. CASE UNCHANGED mvars
  BY <1>7, <1>12 DEF mvars, McpInv, vars
<1>13. QED
  BY <1>1, <1>2, <1>3, <1>4, <1>5, <1>6, <1>8, <1>9, <1>10, <1>11, <1>12 DEF MNext

LEMMA McpInvariance == MSpec => []McpInv
<1>1. TypeOK /\ McpInv /\ [MNext]_mvars => McpInv'
  BY NextMcpInv
<1>2. MSpec => []TypeOK
  BY McpImplementsAdmission, TypeCorrect, PTL
<1>3. QED
  BY <1>1, <1>2, InitMcpInv, PTL DEF MSpec

\* The pinned identity decides where state goes, for any number of overlapping
\* calls and of services that follow one another.
THEOREM PinnedIdentity == MSpec => []StateOnlyToNamed
<1>1. McpInv => StateOnlyToNamed
  <2> SUFFICES ASSUME McpInv, NEW r \in Run, call[r].sentTo # 0,
                      WeightsOf[call[r].sentTo] # config.expected
               PROVE  call[r].basis < call[r].sentTo
    BY DEF StateOnlyToNamed
  <2>1. CallInv(r) /\ call[r] \in CallRecord
    BY DEF McpInv
  <2>2. QED
    BY <2>1 DEF CallInv, CallRecord
<1>2. QED
  BY <1>1, McpInvariance, PTL

\* Nothing goes out for a call that the configuration does not list, in every
\* configuration that the server starts with.
THEOREM NoUnlistedContact == MSpec => []NoContactUnlisted
<1>1. McpInv => NoContactUnlisted
  <2> SUFFICES ASSUME McpInv, NEW r \in Run, config.provider = "local",
                      call[r].at \in {"asking", "submitted"}
               PROVE  /\ config.egress # "deny"
                      /\ config.endpoint \in config.origins \cap Loopback
                      /\ Purpose[call[r].input.tool] \in config.purposes
    BY DEF NoContactUnlisted
  <2>1. Allowed(call[r].input.tool) /\ Loads(config, McpHost)
    BY DEF McpInv, CallInv, Starts
  <2>2. QED
    BY <2>1, LocalProviderStaysHere DEF Allowed
<1>2. QED
  BY <1>1, McpInvariance, PTL

\* The pump starts nobody whose signal is aborted.
LEMMA PumpSkipsAborted ==
  ASSUME TypeOK, Pumps, NEW r \in Run, NEW out, NEW busy, NEW W \in SUBSET Waiting,
         NEW D, NEW L, r \notin W, Pumped(busy, W, D, L), EndAndPump(r, out, D, L),
         NEW q \in aborted
  PROVE  q \in called' => q \in called
<1>1. called' = called \cup L /\ L \subseteq W \ D /\ r \notin L
  BY DEF Pumped
<1>2. ASSUME q \in L
      PROVE  FALSE
  <2>1. q \in Waiting /\ q \in Run
    BY <1>1, <1>2 DEF Waiting
  <2>2. stage'[q] = "running"
    BY <1>1, <1>2, <2>1 DEF EndAndPump
  <2>3. QED
    BY <2>1, <2>2 DEF Pumps
<1>3. QED
  BY <1>1, <1>2

LEMMA AdmitSkipsAborted ==
  ASSUME TypeOK, NEW r \in Run, Admit(r), NEW q \in aborted
  PROVE  q \in called' => q \in called
<1>1. CASE RefuseClosed(r) \/ RefuseBudget(r) \/ RefuseQueueFull(r) \/ Enqueue(r)
  BY <1>1 DEF RefuseClosed, RefuseBudget, RefuseQueueFull, Refuse, Enqueue
<1>2. CASE r \notin aborted /\ Start(r)
  BY <1>2 DEF Start
<1>3. CASE DropAtStart(r) /\ Pumps
  <2>1. r \notin Waiting
    BY <1>3 DEF DropAtStart, Waiting
  <2>2. QED
    BY <1>3, <2>1, PumpSkipsAborted DEF DropAtStart
<1>4. QED
  BY <1>1, <1>2, <1>3 DEF Admit

\* A cancelled call is not given to the provider, from whichever place of the
\* way it was cancelled at.
THEOREM CancelledStaysHere == MSpec => CancelledNeverAsked
<1>1. ASSUME TypeOK, [MNext]_mvars, NEW r \in aborted, r \in called'
      PROVE  r \in called
  <2>1. ASSUME NEW q \in Run, NEW input, NEW who, Consider(q, input, who)
        PROVE  r \in called
    BY <1>1, <2>1, AdmitSkipsAborted DEF Consider, vars
  <2>2. ASSUME NEW q \in Run, NEW input \in Inputs[q], Receive(q, input)
        PROVE  r \in called
    BY <1>1, <2>1, <2>2 DEF Receive, vars
  <2>3. ASSUME NEW q \in Run, Told(q)
        PROVE  r \in called
    BY <2>1, <2>3 DEF Told
  <2>4. ASSUME NEW q \in Run, ServiceNames(q) \/ ProbeFails(q) \/ Reaches(q) \/ Resume(q)
        PROVE  r \in called
    BY <1>1, <2>4 DEF ServiceNames, ProbeFails, Reaches, Resume, vars
  <2>5. ASSUME NEW q \in Run, Abort(q)
        PROVE  r \in called
    <3>1. CASE CancelWaiting(q) /\ Pumps
      BY <1>1, <3>1, PumpSkipsAborted DEF CancelWaiting
    <3>2. QED
      BY <1>1, <2>5, <3>1 DEF Abort, vars
  <2>6. ASSUME NEW q \in Run, NEW out \in Answers, End(q, out)
        PROVE  r \in called
    <3>1. q \notin Waiting
      BY <2>6 DEF End, Settle, Waiting
    <3>2. QED
      BY <1>1, <2>6, <3>1, PumpSkipsAborted DEF End, Settle
  <2>7. CASE ServiceReplaced \/ Shutdown \/ UNCHANGED mvars
    BY <1>1, <2>7 DEF ServiceReplaced, Shutdown, Close, mvars, vars
  <2>8. QED
    BY <1>1, <2>2, <2>3, <2>4, <2>5, <2>6, <2>7 DEF MNext
<1>2. QED
  <2>1. TypeOK /\ [MNext]_mvars => [\A r \in aborted : r \in called' => r \in called]_mvars
    BY <1>1
  <2>2. QED
    BY <2>1, McpImplementsAdmission, TypeCorrect, PTL DEF MSpec, CancelledNeverAsked
=============================================================================
