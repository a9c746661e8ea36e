----------------------------- MODULE HostAdapter -----------------------------
(***************************************************************************)
(* The DSH plugin (packages/adapter-dsh/src/jey-plugin.ts): what happens   *)
(* to a tool call between the host's decision about it and its result.     *)
(*                                                                         *)
(* The host runs a call through the pre-execute waterfall, an approval,    *)
(* the synchronous guards, the tool body and the result event.  The plugin *)
(* listens at four of these points; its pre-execute listener awaits the    *)
(* capability probe and the provider, so calls, results, steps and         *)
(* assemblies interleave with it.  What a listener does before it awaits   *)
(* is one step here.                                                       *)
(*                                                                         *)
(* The verdicts are those of Policy, the summaries of failing paths those  *)
(* of Progress.  The coordinator appears by what submit() resolves to (see *)
(* Admission), a journal write by whether it lands.                        *)
(***************************************************************************)
EXTENDS Integers, Sequences, FiniteSets, SequencesExt

CONSTANTS
  Call,                \* tool executions
  Scope, Path, Root,   \* sessions; scope, tool and arguments; root calls
  ScopeOf, PathOf, RootOf, \* functions on Call
  NoRoot,              \* not a root
  Digest, EmptyCatalog,\* digests of advertised tool sets; that of none
  Unseen,              \* the digest of a scope nothing was assembled for
  Config,              \* the configurations a mount may have
  HostSays,            \* Call -> what the rest of the waterfall may decide
  Reply,               \* what the provider may answer: [Question -> Answer]
  MaxIdenticalFailures,
  DispatchCap,         \* DISPATCH_CAP
  MaxSequence,         \* bound: no step begins later in a scope
  Top, Report, DefaultThresholds, FittedThresholds \* of Policy

VARIABLES
  config,       \* JeyConfig, and whether the host has an approval service
  mounted,      \* the listeners are installed
  call,         \* Call -> how far it got, and what is known about it
  sequence,     \* Scope -> ScopeState.sequence
  catalog,      \* catalogByScope
  catalogGlobal,
  store,        \* runtime.progress
  auditBlocked, \* runtime.auditBlocked
  dispatched,   \* Map: call -> the refusal its row will tell
  asked,        \* Map: approval -> call
  approvals,    \* Map: call -> outcome of its approval
  failures      \* history: Path -> roots that ran and failed, since a success

vars == <<config, mounted, call, sequence, catalog, catalogGlobal, store, auditBlocked,
          dispatched, asked, approvals, failures>>

Layer == INSTANCE Policy WITH call <- call

Paths == INSTANCE Progress WITH
  Fingerprint <- {"no error"}, PollPath <- {}, MixedOutcomes <- TRUE, PollBudget <- 0,
  last <- call, started <- Root, run <- failures

Decision == Layer!Decision
\* "rejected" also stands for "unavailable", which is recorded alike.
Outcomes == {"allowed-once", "rejected", "cancelled"}
Refusals == {"not-dispatched", "denied-by-host", "cancelled"}
Statuses == Refusals \cup {"succeeded", "failed"}
None     == "none"

Ref == [sequence : Nat, catalog : Digest]
NoRef == [sequence |-> 0, catalog |-> EmptyCatalog]

\* A call at a stage; what matters there beside the stage is filled in.
At(stage) ==
  [stage |-> stage, host |-> "allow", verdict |-> "allow", ref |-> NoRef, row |-> None,
   by |-> None, execution |-> None]

Stages ==
  {"new", "probing", "submitted", "returned", "asking", "approved", "running", "refused",
   "done"}

ASSUME HostAdapterAssumption ==
  /\ ScopeOf \in [Call -> Scope] /\ PathOf \in [Call -> Path]
  /\ HostSays \in [Call -> SUBSET Decision]
  /\ \A c, d \in Call : PathOf[c] = PathOf[d] => ScopeOf[c] = ScopeOf[d]
  /\ RootOf \in [Call -> Root \cup {NoRoot}] /\ NoRoot \notin Root
  /\ EmptyCatalog \in Digest /\ Unseen \notin Digest
  /\ Config \subseteq [mode : {"off", "shadow", "enforce"}, toolAssessment : BOOLEAN,
                       failClosed : BOOLEAN, service : BOOLEAN, approvalRequests : BOOLEAN]
  /\ \A c \in Config : c.approvalRequests => c.service
  /\ \A c \in Config : c.failClosed => c.mode # "off"
  /\ Reply \subseteq [Layer!Question -> Layer!Answer]
  /\ MaxIdenticalFailures \in Nat \ {0} /\ DispatchCap \in Nat \ {0} /\ MaxSequence \in Nat

-----------------------------------------------------------------------------
(* The bounded side tables: a Map keeps its keys in the order they came.   *)

Has(table, key) == \E i \in DOMAIN table : table[i].key = key

Place(table, key) == CHOOSE i \in DOMAIN table : table[i].key = key

Lookup(table, key) == table[Place(table, key)].value

Forget(table, key) == IF Has(table, key) THEN RemoveAt(table, Place(table, key)) ELSE table

Remember(table, key, value) ==
  LET entry == [key |-> key, value |-> value]
  IN  IF Has(table, key)
      THEN [i \in DOMAIN table |-> IF table[i].key = key THEN entry ELSE table[i]]
      ELSE IF Len(table) < DispatchCap THEN Append(table, entry)
      ELSE Append(Tail(table), entry)

-----------------------------------------------------------------------------
(* Reading the state.                                                      *)

Active == config.mode # "off" /\ config.toolAssessment

Channel == config.approvalRequests /\ config.service

CatalogFor(s) == IF catalog[s] = Unseen THEN catalogGlobal ELSE catalog[s]

\* factsFor and buildSnapshot.  Of the fields isFresh compares, the task version
\* only changes in a step that also changes the sequence, and the others are the
\* same whenever one call is assessed.
Snapshot(c) == [sequence |-> sequence[ScopeOf[c]], catalog |-> CatalogFor(ScopeOf[c])]

Paused(c) == store[PathOf[c]].paused

\* Mutant: the snapshot is compared with itself.
AlwaysFresh(c) == call[c].ref = call[c].ref

Fresh(c) == call[c].ref = Snapshot(c)

Unanswered == [q \in Layer!Question |-> [kind |-> "none", raw |-> Layer!Invalid,
                                         fitted |-> Layer!Absent]]

Facts(host, reply, fresh) ==
  [mode |-> config.mode, host |-> host, answers |-> reply, fresh |-> fresh,
   channel |-> Channel, fittedFor |-> TRUE, hardRule |-> FALSE, cancelled |-> FALSE]

\* evaluatePolicy's action: shadow only observes.
ActionOf(facts) == IF config.mode = "enforce" THEN Layer!Action(facts) ELSE "abstain"

\* Mutant: a call that the host denied is left to its result.
RefusalOfLayer(verdict, action) ==
  CASE verdict = "cancel"                   -> "cancelled"
    [] verdict = "deny" /\ action = "deny" -> "not-dispatched"
    [] OTHER                                -> None

\* refusalOf: the status the row of a call will have that does not dispatch.
RefusalOf(verdict, action) ==
  CASE verdict = "cancel" -> "cancelled"
    [] verdict = "deny"   -> IF action = "deny" THEN "not-dispatched" ELSE "denied-by-host"
    [] OTHER              -> None

-----------------------------------------------------------------------------
(* tools/pre-execute.                                                      *)

\* The listener hands a verdict to the host; row says what became of the decision
\* row of the call.
Return(c, host, verdict, row) ==
  call' = [call EXCEPT ![c] = [At("returned") EXCEPT !.host = host, !.verdict = verdict,
                                                     !.row = row]]

Track(c, verdict, action) ==
  dispatched' = Remember(dispatched, c, RefusalOf(verdict, action))

\* record, then either hand back the decision or, where a row is required and did
\* not land, refuse the call at once.
Conclude(c, host, verdict, action) ==
  \/ /\ \E row \in {"written", "lost"} :
          /\ row = "lost" => ~config.failClosed
          /\ Return(c, host, verdict, row)
     /\ Track(c, verdict, action)
     /\ UNCHANGED auditBlocked
  \/ /\ config.failClosed
     /\ Return(c, host, IF Channel THEN "ask" ELSE "deny", "lost")
     /\ auditBlocked' = TRUE
     /\ UNCHANGED dispatched

\* The provider was not asked, or did not answer: every question has an error.
ConcludeUnanswered(c, host) ==
  LET facts == Facts(host, Unanswered, TRUE)
  IN  Conclude(c, host, Layer!Evaluate(facts), ActionOf(facts))

\* A path is paused: refused in every mode, and the row is not waited for.
RefusePaused(c, host) ==
  LET verdict == IF host \in {"deny", "cancel"} THEN host ELSE "deny"
  IN  /\ \E row \in {"written", "lost"} : Return(c, host, verdict, row)
      /\ Track(c, verdict, "deny")
      /\ UNCHANGED auditBlocked

RefuseBlocked(c, host) ==
  /\ \E row \in {"written", "lost"} : Return(c, host, "deny", row)
  /\ Track(c, "deny", "deny")
  /\ UNCHANGED auditBlocked

\* Up to the await of capabilityRefusal.  Whether the call's own arguments fit the
\* budget and whether egress allows the request are facts about the call.
Assess(c, host) ==
  \E fits, mayLeave \in BOOLEAN :
    IF ~fits THEN ConcludeUnanswered(c, host)
    ELSE IF Paused(c) THEN RefusePaused(c, host)
    ELSE IF auditBlocked THEN RefuseBlocked(c, host)
    ELSE IF ~mayLeave THEN ConcludeUnanswered(c, host)
    ELSE /\ call' = [call EXCEPT ![c] = [At("probing") EXCEPT !.host = host,
                                                              !.ref = Snapshot(c)]]
         /\ UNCHANGED <<dispatched, auditBlocked>>

\* Unmounted, off, or not assessing: the host's decision and nothing else.
PassBy(c, host) ==
  /\ Return(c, host, host, None)
  /\ UNCHANGED <<dispatched, auditBlocked>>

PreExecute(c) ==
  /\ call[c].stage = "new"
  /\ \E host \in HostSays[c] :
       IF mounted /\ Active THEN Assess(c, host) ELSE PassBy(c, host)
  /\ UNCHANGED <<config, mounted, sequence, catalog, catalogGlobal, store, asked,
                 approvals, failures>>

\* The capability probe failed, or the provider cannot answer such a request.
Probe(c) ==
  /\ call[c].stage = "probing"
  /\ \/ ConcludeUnanswered(c, call[c].host)
     \/ /\ call' = [call EXCEPT ![c].stage = "submitted"]
        /\ UNCHANGED <<dispatched, auditBlocked>>
  /\ UNCHANGED <<config, mounted, sequence, catalog, catalogGlobal, store, asked,
                 approvals, failures>>

\* Mutant: shadow mode escalates like the others.
StaleVerdictInShadow(host) ==
  IF host \in {"deny", "cancel"} THEN host ELSE IF Channel THEN "ask" ELSE "deny"

\* Mutant: what the host decided is not looked at.
StaleVerdictAlone(host) ==
  IF config.mode = "shadow" THEN host ELSE IF Channel THEN "ask" ELSE "deny"

\* The verdict on a snapshot that moved: discarded, but not for nothing.
StaleVerdict(host) ==
  IF host \in {"deny", "cancel"} \/ config.mode = "shadow" THEN host
  ELSE IF Channel THEN "ask" ELSE "deny"

\* submit() resolved.
Answer(c) ==
  /\ call[c].stage = "submitted"
  /\ \/ ConcludeUnanswered(c, call[c].host)
     \/ \E reply \in Reply :
          LET facts == Facts(call[c].host, reply, Fresh(c))
          IN  Conclude(c, call[c].host,
                       IF Fresh(c) THEN Layer!Combine(call[c].host, ActionOf(facts))
                       ELSE StaleVerdict(call[c].host),
                       ActionOf(facts))
  /\ UNCHANGED <<config, mounted, sequence, catalog, catalogGlobal, store, asked,
                 approvals, failures>>

-----------------------------------------------------------------------------
(* The host between the verdict and the result.                            *)

Refused(c, by) == call' = [call EXCEPT ![c] = [At("refused") EXCEPT !.by = by]]

\* A cancelled signal, or a listener mounted before this one, refuses the call; where
\* the signal was cancelled already, the listener above has passed the call by.
HostRefuses(c) ==
  /\ call[c].stage \in {"new", "returned"}
  /\ Refused(c, "host")
  /\ UNCHANGED <<config, mounted, sequence, catalog, catalogGlobal, store, auditBlocked,
                 dispatched, asked, approvals, failures>>

VerdictRefuses(c) ==
  /\ call[c].stage = "returned" /\ call[c].verdict \in {"deny", "cancel"}
  /\ Refused(c, "verdict")
  /\ UNCHANGED <<config, mounted, sequence, catalog, catalogGlobal, store, auditBlocked,
                 dispatched, asked, approvals, failures>>

\* approval/asked is published where there is somebody to ask.
Ask(c) ==
  /\ call[c].stage = "returned" /\ call[c].verdict = "ask"
  /\ IF config.service
     THEN /\ call' = [call EXCEPT ![c].stage = "asking", ![c].verdict = "allow"]
          /\ asked' = IF mounted THEN Remember(asked, c, c) ELSE asked
     ELSE Refused(c, "approval") /\ UNCHANGED asked
  /\ UNCHANGED <<config, mounted, sequence, catalog, catalogGlobal, store, auditBlocked,
                 dispatched, approvals, failures>>

\* approval/decided.
Decide(c) ==
  /\ call[c].stage = "asking"
  /\ \E outcome \in Outcomes :
       /\ IF outcome = "allowed-once" THEN call' = [call EXCEPT ![c].stage = "approved"]
          ELSE Refused(c, "approval")
       /\ approvals' = IF mounted /\ Has(asked, c)
                       THEN Remember(approvals, Lookup(asked, c), outcome) ELSE approvals
  /\ UNCHANGED <<config, mounted, sequence, catalog, catalogGlobal, store, auditBlocked,
                 dispatched, asked, failures>>

\* Mutants: the guard looks at one of its two facts only.
GuardedByPause(c) == mounted /\ Active /\ Paused(c)
GuardedByAudit(c) == mounted /\ Active /\ auditBlocked

\* The synchronous guard: what may have changed since the verdict.
Guarded(c) == mounted /\ Active /\ (auditBlocked \/ Paused(c))

Dispatch(c) ==
  /\ \/ call[c].stage = "returned" /\ call[c].verdict = "allow"
     \/ call[c].stage = "approved"
  /\ IF Guarded(c) THEN Refused(c, "guard")
     ELSE call' = [call EXCEPT ![c] = At("running")]
  /\ UNCHANGED <<config, mounted, sequence, catalog, catalogGlobal, store, auditBlocked,
                 dispatched, asked, approvals, failures>>

-----------------------------------------------------------------------------
(* tools/result, for calls that ran and for calls that did not.            *)

\* executionStatusOf: what the host did, as far as the plugin can see it.
StatusOf(c, isError) ==
  LET outcome == IF Has(approvals, c) THEN Lookup(approvals, c) ELSE "allowed-once"
  IN  CASE outcome = "allowed-once" -> IF isError THEN "failed" ELSE "succeeded"
        [] outcome = "cancelled"    -> "cancelled"
        [] OTHER                    -> "denied-by-host"

\* The row of the execution; a write that fails leaves none.
ExecutionRow(c, isError) ==
  IF Has(dispatched, c)
  THEN LET refused == Lookup(dispatched, c)
           status  == IF refused = None THEN StatusOf(c, isError) ELSE refused
       IN  /\ \E execution \in {status, None} :
                call' = [call EXCEPT ![c] = [At("done") EXCEPT !.execution = execution]]
           /\ dispatched' = Forget(dispatched, c)
           /\ approvals' = Forget(approvals, c)
  ELSE /\ call' = [call EXCEPT ![c] = At("done")]
       /\ UNCHANGED <<dispatched, approvals>>

Observe(c, isError) ==
  store' = [store EXCEPT ![PathOf[c]] =
    Paths!Observed([path |-> PathOf[c], failed |-> isError, fingerprint |-> "no error",
                    root |-> RootOf[c], poll |-> FALSE,
                    sequence |-> sequence[ScopeOf[c]] + 1])]

Attempt(c) == IF RootOf[c] = NoRoot THEN c ELSE RootOf[c]

Result(c) ==
  /\ call[c].stage \in {"running", "refused"}
  /\ \E isError \in BOOLEAN :
       /\ call[c].stage = "refused" => isError
       /\ failures' =
            IF call[c].stage = "refused" THEN failures
            ELSE [failures EXCEPT ![PathOf[c]] = IF isError THEN @ \cup {Attempt(c)} ELSE {}]
       /\ IF mounted /\ Active
          THEN /\ sequence' = [sequence EXCEPT ![ScopeOf[c]] = @ + 1]
               /\ ExecutionRow(c, isError)
               /\ Observe(c, isError)
          ELSE /\ call' = [call EXCEPT ![c] = At("done")]
               /\ UNCHANGED <<sequence, dispatched, approvals, store>>
  /\ UNCHANGED <<config, mounted, catalog, catalogGlobal, auditBlocked, asked>>

-----------------------------------------------------------------------------
(* agent/pre-step, system-prompt/assemble, and the end of the mount.       *)

PreStep(s) ==
  /\ mounted /\ sequence[s] < MaxSequence
  /\ sequence' = [sequence EXCEPT ![s] = @ + 1]
  /\ UNCHANGED <<config, mounted, call, catalog, catalogGlobal, store, auditBlocked,
                 dispatched, asked, approvals, failures>>

\* For a scope, or for a requester without one.
Assemble(digest) ==
  /\ mounted
  /\ catalogGlobal' = digest
  /\ \/ \E s \in Scope : catalog' = [catalog EXCEPT ![s] = digest]
     \/ UNCHANGED catalog
  /\ UNCHANGED <<config, mounted, call, sequence, store, auditBlocked, dispatched, asked,
                 approvals, failures>>

\* Listeners and guard go; calls that are being assessed are answered all the same.
Close ==
  /\ mounted /\ mounted' = FALSE
  /\ UNCHANGED <<config, call, sequence, catalog, catalogGlobal, store, auditBlocked,
                 dispatched, asked, approvals, failures>>

Init ==
  /\ config \in Config
  /\ mounted = TRUE
  /\ call = [c \in Call |-> At("new")]
  /\ sequence = [s \in Scope |-> 0]
  /\ catalog = [s \in Scope |-> Unseen] /\ catalogGlobal = EmptyCatalog
  /\ store = [p \in Path |-> Paths!None]
  /\ auditBlocked = FALSE
  /\ dispatched = <<>> /\ asked = <<>> /\ approvals = <<>>
  /\ failures = [p \in Path |-> {}]

Next ==
  \/ \E c \in Call :
       \/ PreExecute(c) \/ Probe(c) \/ Answer(c)
       \/ HostRefuses(c) \/ VerdictRefuses(c) \/ Ask(c) \/ Decide(c) \/ Dispatch(c)
       \/ Result(c)
  \/ \E s \in Scope : PreStep(s)
  \/ \E digest \in Digest : Assemble(digest)
  \/ Close

Spec == Init /\ [][Next]_vars

-----------------------------------------------------------------------------
(* Properties.                                                             *)

CallState ==
  [stage : Stages, host : Decision, verdict : Decision, ref : Ref,
   row : {None, "written", "lost"}, by : {None, "host", "verdict", "approval", "guard"},
   execution : Statuses \cup {None}]

Bounded(table) == Len(table) <= DispatchCap

\* The side tables stay within their cap however many calls are refused, dropped
\* or never settle (jey-plugin.ts: remember), and everything has its type.
TypeOK ==
  /\ config \in Config /\ mounted \in BOOLEAN /\ auditBlocked \in BOOLEAN
  /\ call \in [Call -> CallState]
  /\ sequence \in [Scope -> Nat]
  /\ catalog \in [Scope -> Digest \cup {Unseen}] /\ catalogGlobal \in Digest
  /\ DOMAIN store = Path
  /\ Bounded(dispatched) /\ Bounded(asked) /\ Bounded(approvals)
  /\ failures \in [Path -> SUBSET (Root \cup Call)]

Starts(c)  == call[c].stage # "running" /\ call'[c].stage = "running"
Returns(c) == call[c].stage # "returned" /\ call'[c].stage = "returned"
Settles(c) == call[c].stage # "done" /\ call'[c].stage = "done"

\* Where auditing is required, no call runs whose decision row did not land, not
\* even one that a human then approved (jey-plugin.ts: conclude with the guard).
UnrecordedNeverRuns ==
  [][\A c \in Call :
       Starts(c) /\ mounted /\ config.failClosed => call[c].row # "lost"]_vars

\* A call runs only if the host allowed it, or asked and was told yes: whatever the
\* plugin returns in place of the host's decision, the guard makes good.
HostHasTheLastWord ==
  [][\A c \in Call :
       Starts(c) /\ mounted =>
         \/ call[c].host = "allow"
         \/ call[c].host = "ask" /\ call[c].stage = "approved"]_vars

\* Enforcing, the provider's answer passes no call of a scope that has got a result,
\* a step or another catalog since the call was looked at.
NoPassOnOldSnapshot ==
  [][\A c \in Call :
       Returns(c) /\ call[c].stage = "submitted" /\ config.mode = "enforce"
         /\ call[c].ref # Snapshot(c) => call'[c].verdict # "allow"]_vars

\* In shadow mode the host's decision comes back as it went in, fresh or stale,
\* answered or not; only recorded facts restrict: a paused path, a lost audit row.
ShadowOnlyObserves ==
  [][\A c \in Call :
       Returns(c) /\ config.mode = "shadow" =>
         \/ call'[c].verdict = call'[c].host
         \/ call'[c].row = "lost" /\ config.failClosed
         \/ call[c].stage = "new" /\ (Paused(c) \/ auditBlocked)]_vars

\* Once MaxIdenticalFailures attempts on a path have run and failed, no other starts,
\* though it may have been assessed, and approved, before the last of them failed.
NoAttemptPastTheLimit ==
  [][\A c \in Call :
       Starts(c) /\ mounted /\ Active =>
         Cardinality(failures[PathOf[c]]) < MaxIdenticalFailures]_vars

\* The execution row tells what happened: a refusal of a call that did not run, a
\* success of one that did, and a failure never for a refusal by the verdict that
\* the plugin returned, whoever wanted it, nor for an approval withheld whose outcome
\* was published and not dropped.  A refusal by the host or by another plugin cannot
\* be told from a failure (HOST_CONTRACT 14, consequence 3); one by the layer's own
\* guard could, see GuardRefusalIsNoFailure.
RowsAreHonest ==
  [][\A c \in Call :
       Settles(c) =>
         LET told == call'[c].execution
         IN  /\ told \in Refusals => call[c].stage = "refused"
             /\ told = "succeeded" => call[c].stage = "running"
             /\ told = "failed" =>
                  \/ call[c].stage = "running"
                  \/ call[c].by \in {"guard", "host"}
                  \/ call[c].by = "approval" /\ ~Has(approvals, c)]_vars

\* "`status: 'not-dispatched'` is the honest value for a call that was refused before
\* the tool body ran" (audit.ts:425), and `not-dispatched` is what HOST_CONTRACT.md:246
\* says of a call that the layer refused itself: its guard's refusal is no failure.
GuardRefusalIsNoFailure ==
  [][\A c \in Call :
       Settles(c) /\ call[c].by = "guard" => call'[c].execution # "failed"]_vars

\* What the layer hands back is never looser than the host's decision.
VerdictNeverWidens ==
  [][\A c \in Call :
       Returns(c) => Layer!Rank[call'[c].verdict] >= Layer!Rank[call'[c].host]]_vars
=============================================================================
