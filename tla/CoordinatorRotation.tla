------------------------- MODULE CoordinatorRotation -------------------------
(***************************************************************************)
(* How fair the rotation of #nextWaiter is: Coordinator, with a history of *)
(* how many others had their turn while a session waited for its own.      *)
(***************************************************************************)
EXTENDS Coordinator

ASSUME RotationAssumption == IsFiniteSet(Session)

VARIABLE bypassed  \* bypassed[k]: turns of others while k waited for one

rvars == <<vars, bypassed>>

HasWaiter(s, k) == s.queues[k] # <<>>

\* Waiters that this step took out of the queues.
Taken == {r \in Run : co.phase[r] = "queued" /\ co'.phase[r] # "queued"}

\* A waiter cancelled out of the middle of the Map may leave the place in the
\* rotation, an index, beyond the keys that are left; the next turn mends it.
InRange(s) == s.cursor <= Len(s.order)

\* Every waiter that left was served in its turn, and it was not one of k's.
PassedOver(k) ==
  /\ HasWaiter(co, k) /\ InRange(co)
  /\ \A r \in Taken : SessionOf[r] # k /\ r \notin cancelled' \ cancelled

Counts ==
  bypassed' = [k \in Session |->
                 IF PassedOver(k) THEN bypassed[k] + Cardinality(Taken) ELSE 0]

RInit == Init /\ bypassed = [k \in Session |-> 0]
RNext == Next /\ Counts
RSpec == RInit /\ [][RNext]_rvars

\* What "drained round-robin: a chatty agent cannot starve the others"
\* (coordinator.ts:148) amounts to.  Among n sessions one that keeps a waiter
\* sees at most n * (n - 1) turns of others before its own, however they refill
\* their queues: n at most each time that one of those ahead of it in the Map
\* leaves and moves it up, since the place in the rotation is an index into
\* keys that come and go.  The count starts again when a cancellation takes a
\* waiter out of its turn: that may move the place past k each time.
BoundedBypass ==
  LET n == Cardinality(Session) IN \A k \in Session : bypassed[k] <= n * (n - 1)
=============================================================================
