---------------------------- MODULE ProviderCall ----------------------------
(***************************************************************************)
(* What a DecisionProvider owes its caller, packages/contracts and the     *)
(* uses of evaluate() in the coordinator: a call settles once, state goes  *)
(* out at most once and never after the caller's signal, and what is said  *)
(* at the end is what happened.                                            *)
(***************************************************************************)
CONSTANT Req    \* requests given to evaluate()

VARIABLE call   \* Req -> stage, what its caller did and what it was told

Idle == [stage |-> "idle", sent |-> FALSE, aborted |-> FALSE, result |-> "none"]

Init == call = [q \in Req |-> Idle]

Open(q) == call[q].stage = "open"

\* evaluate() is called; the signal may be aborted already.
Begin(q) ==
  /\ call[q].stage = "idle"
  /\ call' = [call EXCEPT ![q].stage = "open"]

\* The caller aborts the signal it passed.
Abort(q) ==
  /\ ~call[q].aborted
  /\ call' = [call EXCEPT ![q].aborted = TRUE]

\* Task state leaves this process.
Send(q) ==
  /\ Open(q) /\ ~call[q].aborted /\ ~call[q].sent
  /\ call' = [call EXCEPT ![q].sent = TRUE]

\* How a call may end.  "ok" is an answer about nothing but what was asked, and
\* comes back for state that went out; an answer with anything "foreign" in it
\* is no end.  A caller that cancelled may be told so; if its state had gone out
\* by then, it is not told that the time ran out.
Ends(c) ==
  {[c EXCEPT !.stage = "settled", !.result = result] : result \in
     {"error"} \cup (IF c.sent THEN {"ok"} ELSE {})
               \cup (IF c.aborted THEN {"CANCELLED"} ELSE {})
               \cup (IF c.sent /\ c.aborted THEN {} ELSE {"TIMEOUT"})}

\* Promises are settled, several at once when they waited for the same thing.
Settle ==
  \E Q \in SUBSET {q \in Req : call[q].stage # "settled"} :
    \E end \in [Q -> UNION {Ends(call[q]) : q \in Q}] :
      /\ \A q \in Q : end[q] \in Ends(call[q])
      /\ call' = [q \in Req |-> IF q \in Q THEN end[q] ELSE call[q]]

Next == Settle \/ \E q \in Req : Begin(q) \/ Abort(q) \/ Send(q)

Spec == Init /\ [][Next]_call
=============================================================================
