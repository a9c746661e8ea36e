----------------------------- MODULE Truncation -----------------------------
(***************************************************************************)
(* fitToBudget (packages/core/src/truncation.ts): the state of a request   *)
(* is cut to a byte budget, whole entries of history first.  A section     *)
(* keeps the sizes of its entries; one that is not a list has one entry.   *)
(* The bytes of a state are those of its entries.                          *)
(***************************************************************************)
EXTENDS Naturals, Sequences, SequencesExt

Kinds == {"policy", "current-call", "recent-result", "conversation"}
Sacrificial == {"conversation", "recent-result"}

Sum(numbers) == FoldLeft(LAMBDA total, n : total + n, 0, numbers)
BytesOf(sections) == Sum([i \in DOMAIN sections |->
                            IF sections[i].kept THEN Sum(sections[i].entries) ELSE 0])

Droppable(section) == section.kept /\ section.kind \in Sacrificial

\* The first section that may lose an entry, 0 if there is none.
Target(sections) == SelectInSeq(sections, Droppable)

\* The oldest entry of a list goes first; the last one goes with its section.
DropOne(sections) ==
  [sections EXCEPT ![Target(sections)] =
     IF @.list /\ Len(@.entries) > 1 THEN [@ EXCEPT !.entries = Tail(@)] ELSE [@ EXCEPT !.kept = FALSE]]

\* As long as it is too large and there is something to drop, but not more
\* than 501 times.
Rounds(sections) ==
  LET entries == Sum([i \in DOMAIN sections |-> Len(sections[i].entries)])
  IN  [n \in 1..(IF entries > 501 THEN 501 ELSE entries) |-> n]

FitToBudget(sections, maxBytes) ==
  LET Fits(left) == BytesOf(left) <= maxBytes
      Round(left, n) == IF Fits(left) \/ Target(left) = 0 THEN left ELSE DropOne(left)
      fit == FoldLeft(Round, sections, Rounds(sections))
  IN  IF Fits(fit) THEN [ok |-> TRUE, state |-> fit] ELSE [ok |-> FALSE, state |-> <<>>]

-----------------------------------------------------------------------------
(* What the budget may cost.                                               *)

\* What may be left of a section: the newest of its entries, or nothing.
LeftOf(section, left) ==
  /\ left # section => section.kind \in Sacrificial
  /\ left.kept => \E n \in DOMAIN section.entries :
                    left = [section EXCEPT !.entries = SubSeq(@, n, Len(@))]

Essential(sections) == SelectSeq(sections, LAMBDA s : s.kind \notin Sacrificial)

\* fitToBudget against its description: it succeeds exactly when policy and
\* current call fit, leaves those alone, cuts the history of a section from its
\* old end, touches a section only when the ones before it are gone, and drops
\* no entry that could have stayed.
FitsAsPromised(sections, maxBytes) ==
  LET fit == FitToBudget(sections, maxBytes)
      Kept(i) == IF fit.state[i].kept THEN Len(fit.state[i].entries) ELSE 0
      Lost(i) == Len(sections[i].entries) - Kept(i)
      \* section i with one more of its entries
      Restored(i) ==
        [fit.state EXCEPT ![i] =
           [sections[i] EXCEPT !.entries = SubSeq(@, Lost(i), Len(@))]]
  IN  /\ fit.ok <=> BytesOf(Essential(sections)) <= maxBytes
      /\ fit.ok =>
           /\ BytesOf(fit.state) <= maxBytes
           /\ \A i \in DOMAIN sections : LeftOf(sections[i], fit.state[i])
           /\ \A i, j \in DOMAIN sections :
                j < i /\ Lost(i) > 0 /\ sections[j].kind \in Sacrificial => Kept(j) = 0
           /\ \A i \in DOMAIN sections :
                Lost(i) > 0 /\ (\A j \in DOMAIN sections : j > i => Lost(j) = 0) =>
                  BytesOf(Restored(i)) > maxBytes
=============================================================================
