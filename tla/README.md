# Formal models of jev-dsh

jev-dsh is a decision layer that sits inside an agent host (DSH). Before the
host runs a tool, the layer builds a snapshot of what is about to happen, asks a
provider a fixed set of questions about it, combines the answers with the host's
own decision by a policy table, and records what it did. It may only withhold; it
never grants. The same core serves explicit questions through an MCP server, and
a Python service answers them with a local model.

This directory holds TLA+ models of that core, the TLC runs that check them, and
TLAPS proofs of the theorems that matter most.

## 1. Inventory

Paths are relative to `src/`. "Hard" names what ordinary tests hardly reach.

| component | state it keeps | operations | hard |
|---|---|---|---|
| **Decision coordinator** `packages/core/src/coordinator.ts` | slots in use, a queue per session with a rotation cursor, the keys already answered, the controllers of running calls, one phase per run | `submit`, abort of a waiter, `#pump`, `#execute`, `apply`, `close` | submissions, aborts, timers, answers and close interleave; an answer races the deadline; slot, queue and ledger must stay in step on every exit path |
| **Budget ledger** `core/src/budget.ts` | calls per turn and per session | reserve, refund | refunds on exactly the paths that never called the provider |
| **Policy** `core/src/policy.ts` | none | `calibrationApplies`, `decide`, `combineHostAndJey`, `evaluatePolicy` | order of the checks; answers that are missing, malformed or only partly calibrated |
| **Progress** `core/src/progress.ts` | one summary per path | `observeCall`, `pausedPath` | results that are repeated, nested, interleaved, mixed with polls |
| **Snapshots** `core/src/snapshot.ts` | none | `buildSnapshot`, `isFresh` | the state moves while the provider computes |
| **Host adapter** `packages/adapter-dsh/src/jey-plugin.ts` | per scope: position, sequence, task, history; the audit flag; dispatched calls; approval outcomes; cached capabilities | assemble, pre-step, pre-execute, guard, result, session events, close | awaits in the middle of a decision; audit failure; bounded tables |
| **Audit** `core/src/audit.ts`, file sink in `jey-plugin.ts` | counters, what the sink believes the size of its file to be; the file and its renamed predecessors | emit, rotate, scan | a crash or a failed write in the middle of a line, a rename that fails or replaces, restart |
| **Egress** `core/src/egress.ts`, **truncation** `core/src/truncation.ts` | none | `checkEgress`, `fitToBudget` | many conditions in one table; what may be cut |
| **Expected provider** `adapter-dsh/src/identity.ts` | a cached gate | capabilities, evaluate, close | one probe shared by overlapping calls; an identity that has become stale |
| **Local provider** `packages/provider-local/src`, **TypeSafe provider** `packages/provider-typesafe/src` | cached capabilities, counters | request, evaluate, close | signal, timer, network and body race to end one request; the reason is told afterwards |
| **MCP server** `packages/adapter-mcp/src` | a call sequence; through the coordinator one budget line | `runTool`, start, shutdown | the order of refusals; overlapping probes; cancellation while waiting; one session for the life of the process |
| **Local decider** `python/local_decider/service.py`, `scoring.py` | bounded queue, one worker, counters; per job a result, an event and a flag | submit, run, shutdown, HTTP handlers | handler and worker threads race at the deadline |
| **Configuration** `core/src/config.ts` | none | `loadConfig` | contradictions between sections that are each valid |
| **Contracts, canonical JSON, questions, validation, model identity** `core/src` | none | | formats |
| **Mock provider**, **doctor, probes, scripted model**, weight download | none that another part reads | | |

Interactions. A tool call enters through the adapter's `tools/pre-execute`
handler: snapshot → hard rules (progress) → audit flag → egress → capability probe
(await) → `coordinator.submit` (await) → freshness → policy → `apply` → audit row →
decision. The host then runs its synchronous guards (which may only deny), asks
for an approval where the decision is `ask`, runs the tool, and reports the result,
which feeds the progress store and moves the scope's sequence number. The
coordinator calls the provider (mock, local, cloud); the local provider calls the
Python service over loopback HTTP. Two tool calls of one scope overlap at the
awaits only: everything else is a single JavaScript turn. The Python service is the
one place with real threads.

What makes each component correct:

* coordinator: at most `maxConcurrent` runs execute; no slot is idle while somebody
  waits; the ledger counts exactly the runs that were queued or executed; each
  submission gets exactly one, true outcome; nobody waits for ever; a decision is
  applied once, and not when it is stale; nothing starts after close;
* policy: never wider than the host; a check that was not made is not a pass;
  probabilities deny only when they are calibrated; worse evidence never helps;
* progress: a path is paused exactly when enough attempts failed alike in a row;
* adapter: nothing executes on the strength of a stale or unrecorded decision
  (where recording is required); a disabled layer changes nothing;
* audit: a row reported as written is found, in spite of crashes and rotations; a tear
  costs one line;
* provider clients: a call is settled once, with the reason that is true; task state goes
  only to the model that was expected;
* MCP server: nothing is sent, not even a probe, that the configuration does not allow;
  a call that its client cancelled does not reach the provider; every call is answered;
* decider: a job is in one place, its handler finds its own result, the lane does not
  work for nobody, every request is answered.

## 2. Modules

```
Admission            the abstract admission contract      AdmissionProofs (TLAPS)
   ^ refined by
   |- Coordinator    the code of coordinator.ts           MCCoordinator,
   |     ^ extended by                                    CoordinatorProofs (TLAPS)
   |  CoordinatorRotation  fairness of the rotation       MCRotation, CoordinatorProofs
   `- McpServer      the MCP server over it               MCMcpServer, AdmissionProofs
         uses Egress (configuration and egress rules), Truncation (the state budget)

Policy               the two policy tables                MCPolicy, PolicyProofs (TLAPS)
Progress             no-progress detection                ProgressProofs (TLAPS)
   ^ instanced by, with Policy
HostAdapter          the plugin between host and core     MCHostAdapter,
                                                          HostAdapterProofs (TLAPS)

ProviderCall         the contract of one provider call
   ^ refined by
ProviderClients      local and TypeSafe client, and gate  ClientProofs (TLAPS)

AuditJournal         the journal's file sink on a disk    JournalProofs (TLAPS)
LocalDecider         the Python service                   DeciderProofs (TLAPS)
```

**Admission** says what the coordinator promises about slots, queue and ledger
without saying how: a submission is *new*, *waiting*, *running* or *ended*; which
waiter is taken next, why a run is dropped and what happens inside a call are left
open. One action per way a submission can end: the four refusals of `submit`,
`Enqueue`, `Start`, `DropAtStart` (aborted or late before `evaluate`), `Settle`,
`CancelWaiting`, `Close`. The pump of the code is part of the step that
triggers it: `Pumped` is what the loop of `#pump` may have done when it exits. A
duplicate is any run submitted after some other has ended, because the contract
does not know request identities.

**Coordinator** follows `coordinator.ts` method by method. `co` is the object's
private state; each operator on a state `s` is one method (`AbortWaiter`, `Pump`,
`Execute`, `Release`, `TakeWaiter` for `#nextWaiter`, …), and each action is one
turn of the event loop: `Submit`, `Cancel` (the caller's signal), `Tick` and
`DeadlineFires` (clock and timer), `ProviderAnswers` (the provider's promise, before
or after the race is decided), `Settle` (the continuation of the await with its
`finally`), `Apply`, `Close`. A `Run.to` along an edge that `NEXT` lacks yields the
phase `illegal`, which stands for the exception. The clock is in ticks, followed
only for runs that are pending; a run one tick short of its deadline may have it pass
between the several reads of the clock in one synchronous step (`slip`).
The loops of `#pump` and `close` are functions of the number of turns taken
(`PumpTurns`, `DrainTurns`): a turn that has nothing left to do changes nothing, and as
many turns as there are runs are enough. The pumps that `#abortWaiter` and a drop in
`#execute` call from within the loop are its next turns, since the loop that called them is
at its end when they return; so nothing here is recursive.
Every waiter carries its own `startedAt`, the deadline left over is what the timer
is armed with. A settled call's controller, which the code keeps in
`#localControls` until `close`, has no listener left and is not represented.

**CoordinatorRotation** adds a history: for each session that waits, how many turns others
had meanwhile. A waiter cancelled out of its turn may take its session out of the Map and so
move the place in the rotation, an index, past somebody else; the count starts again there,
and while that index is beyond the keys that are left.

**Policy** holds the facts of one call in one variable: mode, host decision, three
answers, freshness, approval channel, calibration, hard rule, cancellation. The
functions are those of the code; probabilities are naturals up to `Top`, with
`Invalid` for a number that is none and `Absent` for a missing calibrated value.
The actions are the ways the facts get worse while the call is being assessed, so
that action properties can compare the verdict before and after.

**Progress** folds observations into the store exactly as `observeCall` does, and
keeps the history `run`: the distinct attempts that failed alike in a row. In the
regular case the results of one attempt arrive together and agree, and a path is
either polled or called. `MixedOutcomes` lets the results of one attempt disagree.

**HostAdapter** is the plugin. A call goes through the stages of the host: `PreExecute`
(the listener up to its first await), `Probe` (the capability probe resolved), `Answer`
(`submit` resolved), then the host's own part (`HostRefuses`, `VerdictRefuses`, `Ask`,
`Decide`, `Dispatch` with the synchronous guard) and `Result`. Between any two of them
other calls, `PreStep`, `Assemble` and `Close` may come. The verdict of a call is
`Policy`'s operator, the summary of a path `Progress`'s; the coordinator appears by
what `submit` may resolve to, a journal write by whether it lands. `dispatched`,
`asked` and `approvals` are the bounded tables of the code, with the order in which
their keys came, since that decides what is dropped. `failures` is history: the
attempts on a path that ran and failed since the last success. Of a snapshot only what
can move while a call is assessed is kept, the sequence number and the catalog; turn,
step and task version change only in a step that changes the sequence too. Whether a
call's arguments fit the budget, whether egress allows the request and whether the probe
succeeds are choices. Not represented: failure codes, the conversation, the cap of 64
catalogs, and the reasons that go with a verdict.

**ProviderCall** is what a caller may expect of `DecisionProvider.evaluate`: a call is
*idle*, *open*, *settled*; its state may be sent once, and not after the signal; it settles
once, as `ok` only after sending and with nothing in the answer that was not asked, as
`CANCELLED` only after its signal was aborted, as `TIMEOUT` not if that was so once the state
had gone out. Any other failure is one `error`.

**ProviderClients** has both HTTP clients, of which the configuration selects one. For the
local one the gate of `identity.ts` comes first: the shared probe (`Capabilities`,
`GateOpens`, `GateRefuses`, `ProbeFails`), the calls that wait for it, the refusal that
stays. A request then goes from `Attempt` over the sent headers (`Headers`) and the body to
one of its ends; `Expires`, `Abort` and the failures of the network may come at each await,
and `Interrupted` is the moment the rejected promise is noticed and its reason read from the
signals. An answer is one of the classes that the parser and the client tell apart;
`Returned` is what the caller gets of one that is accepted, and `Own` says independently of
the parsers that it is about what was asked. A result is a code the client made up itself;
what the service says in an error response is `REFUSED`, whatever its code. The
service may be stopped or replaced by one with other weights at any time.

**AuditJournal** has a disk (one file, and the renamed ones by their time stamps) and a sink
that knows only what it counted. An `Emit` is one synchronous call: oversized or not,
rotation or not, and an append that lands, or breaks off and throws, or is cut by a crash.
A file is a sequence of rows and tears; what a scan confirms is computed from it as
`scanJournal` does. The limit of a line is that of the file, as the plugin sets both from
one option. `told`, `hidden` and `replaced` are history: the rows reported as
written, those appended behind a tear, and those whose file was replaced by another of the
same millisecond.

**Egress** is the part of `loadConfig` that concerns egress, and `checkEgress`.
**Truncation** is `fitToBudget` over the sizes of sections, with a reference definition
(`FitsAsPromised`) that TLC compares for every state of up to three sections and every
budget up to seven when the `mcp` run starts.

**McpServer** is `runTool` from arguments to reply, over `Admission` in the place of the
coordinator. `Receive` runs to the first await: shape, number of questions, fit, nothing to
ask, egress, and where capabilities are already there the admission too. A probe is
`ServiceNames` (the service answers), `Told` (the answer arrives), or `ProbeFails`; probes
overlap and the last to arrive fills the cache. `Reaches` is the service reading the state,
`End` the outcome of the coordinator, `Resume` the continuation of a call whose submission
was settled by somebody else's step. All calls are session `mcp`, turn 1, as in `factsFor`.

**LocalDecider** has one thread per connection, the lane and the main thread. A step is what
a thread does between two points where another thread can notice it: the queue, the
result, the event, the flag. The clock of a job is what the code compares it with: deadline
not spent, spent, grace period over as well. The forward pass is native code that may never
return. A connection on which a request was refused before its body was read stays open and
garbles the next one (`RefuseUnread`, `Garble`).

## 3. Runs

| run | what it shows | bounds |
|---|---|---|
| `coordinator` | no illegal transition; outcomes tell the truth; a decision is consumed at most once; the provider is called only for wanted work; `Coordinator` implements `Admission` with all its counters; every submission is answered | 4 submissions in 2 sessions, two with one identity; one slot, one place per session, two calls per turn, so that submissions are refused by budget and by session limit; deadline of 2 ticks, so that a run can be late in the queue, at the edge and while running; a decision applied twice. Callers are restricted to one of each kind (one that cancels, two whose provider is in trouble, one that applies, an order of arrival), the coordinator's own steps are not |
| `rotation` | a session that keeps a waiter sees at most n(n − 1) turns of others before its own, n being the number of sessions; each waiter is in its session's list once and in order | 9 submissions of 3 sessions: two refill their queues of up to 3 throughout, one of their waiters may be cancelled, also out of the middle, the third has one run; 4 places in all, so that both queue limits are reached |
| `policy` | the tables, over 196 608 calls | six kinds of Boolean report around fitted and default thresholds, all modes, host decisions and circumstances |
| `progress` | pauses are earned, timely and kept | 5 results of 3 attempts on a polled and a called path, limit 2, poll budget 1 |
| `host_adapter` | an unrecorded call does not run where rows are required; the host has the last word; no pass on a snapshot that moved; shadow mode only observes; no attempt starts beyond the limit; rows tell what happened | 2 overlapping calls on one path of one scope, one pre-step, two catalogs, limit 1 (the smallest the configuration allows), tables of one entry so that the older call's entry is dropped, and five configurations: enforcing with and without a channel, shadow, rows not required, not assessing |
| `provider_clients` | state reaches other weights only if the service was replaced after naming itself; each call is a call of the provider contract; each call settles | 2 overlapping calls, so that one probe is shared, and one can come between failure and retry; two sets of weights; 2 questions and answers with up to 2 outcomes, which may be missing, foreign, repeated or of the wrong form |
| `audit_journal` | what was reported as written is found; a tear costs one line; the file keeps its bound; a confirmed row stays | 5 rows of 1, 2, 5 or 6 bytes, a limit of 5 for line and file, so that a row may be the limit exactly or above it, 3 time stamps, up to 2 tears and failures: two rotations, also within one time stamp, with faults before and after each |
| `mcp` | the shared budget line is exact; identity, egress and cancellation hold for overlapping calls; every call is answered | 3 calls of the three tools, one slot, a queue limited to one; the third call may be any of six inputs, one per refusal; a service that is replaced once; six configurations, of which three start |
| `local_decider` | one lane; a handler finds its own result; a delivered answer is nobody's discard; no forward pass for nobody; every request answered | 2 connections, 2 jobs, 2 questions, a queue of one: the queue is full while one job is in the lane, the deadline falls between the questions, and shutdown comes anywhere |
| `host_widens`, `host_guard_row`, `progress_outcomes` | the documented statements that the code does not meet, see 5 | the instance of the passing run of the same module, or the smallest one with the counterexample |

Deadlock is not checked: each model ends when all submissions are answered, when its bound
on results or rows is reached, or when the service has stopped.

The counters and limits of `Admission` have no run of their own: `coordinator`
and `mcp` check the contract on the code's side, and `AdmissionProofs` proves its
consequences for every size.

**Fairness.** Safety needs none. For liveness:

* `coordinator`: weak fairness of `EventLoop`, the disjunction of the clock, due
  timers and resolved awaits, which is what a JavaScript event loop does by itself. One
  condition on the disjunction is enough because a run is ticked a bounded number of times
  and settles once. Nothing is assumed of the provider, of callers, or of `close`.
* `provider_clients`: the timer of the probe (`ProbeFails`), the synchronous code after the
  gate (`Request`), the timer of each request (`Expires`), and the rejection that an aborted
  controller brings (`Interrupted`). The service and its network need not do anything.
* `mcp`: the probe's timer, the coordinator's deadline (`End`; that it ends every submission
  is what `coordinator` shows), and the continuation of settled promises.
* `local_decider`: deadlines pass, handlers that can run do, and so does the lane, except
  inside the forward pass: `Scored` and `Raise` are not fair.

**Bounds.** The coordinator treats runs, sessions and turns alike apart from the
functions that assign them, so two sessions and a few runs exercise every
comparison; the limits are at the smallest values at which both sides of each test
occur. The one exception is the global queue limit, which needs five runs: `rotation` reaches
it, and that the code then does what the contract says is shown by `AdmissionImplemented`
alone. Two calls are enough for what a call can do to another through the gate, the
side tables, or the lane; a third is there where a queue has to be full. Sizes in general
are the business of the proofs.

**Mutants.** Each property of a passing run has a mutant in the module, next to the
definition it replaces and named in `PROJECT.json`: a forgotten refund, a limit off by
one, a missing pump, a check in the wrong order, a flag counted too early. Each one makes
its property fail.

## 4. Theorems

`AdmissionProofs` proves, for any finite set of runs and all values of the limits:
`TypeCorrect`, `SlotsCorrect`, `NoIdleSlot`, `LedgerCorrect`, `CeilingsHold`,
`QueueCorrect`, `QuietAfterClose`, `FinalOutcome`. Assumptions:
`AdmissionAssumption` (finitely many submissions, at least one slot, natural limits).

The argument is one inductive invariant `IInv`: the types, `SlotsExact`,
`WorkConserving`, `LedgerExact`, and the bookkeeping that connects stage, outcome,
and the set of called runs. None of the properties is inductive alone. That the ledger
does not go below zero needs that each refunded run was charged; that the pump of
a cancelled waiter starts nobody needs that no slot was free; and the ceilings follow
from the ledger, since a called run stays charged. The counting lemmas
(`CountRemove`, `CountUnion`, `CountAdd`) reduce every step to cardinalities of
disjoint sets; `PumpStep` treats what any pump may have done once, for the three
actions that end in one.

`CoordinatorProofs` proves every invariant and action property that the runs check of the
coordinator, and its refinement, for any finite set of runs, any sessions, turns and keys,
and all limits: `TypeCorrect`, `LifecycleLegal`, `QueuesWellFormed`, `OutcomesHonest`,
`AppliesOnce`, `CallsAreWanted`, `CountersExact`, `AdmissionImplemented`. Assumption:
`CoordinatorAssumption` (finitely many runs, each with a session, a turn and a key; at least
one slot, a deadline of at least one tick, natural limits).

* The invariant `Inv` has five parts. `Good(co)` is about the object: types, queues that
  list the queued runs (`Holds`), slots and both ledger lines as cardinalities, and for each
  run which phase, outcome and state of the race go together (`Life`). `Slots`: no waiter
  beside a free slot, nobody waiting after `close`. `Clock`, `Cause` (an aborted race has an
  aborted controller, a `cancelled` outcome a signal) and `OnceApplied` are about the rest.
  `OutcomeHonest` and `NoIllegalTransition` are not inductive: that no edge is missing for
  `Settle` needs to know that a decided race means a running phase.
* `Good` speaks of a state of the object rather than of a variable, because the loops pass
  through states between two steps. A turn of the loop keeps `Good` and moves one run, to the
  provider or to its end (`PumpOneStep`, `PumpOneEffect`), and so does the loop, by induction
  over its turns (`PumpEffect`, `DrainEffect`). That it ends with no waiter beside a free
  slot is counting: each turn that is not idle takes one of finitely many waiters. The
  induction is over a *set* of numbers (`SetInduction`), proved from the well-foundedness of
  the naturals; the library's own induction takes the property as an operator.
* `close` aborts waiters one by one and each abort pumps. With all slots taken, which is what
  `Slots` says while anybody waits, such a pump is idle (`PumpIdle`).
* `AdmissionImplemented`: the initial state and every step map to the contract's
  (`ContractStep`), one lemma per action and one for what a pump has done. Everything that
  `AdmissionProofs` has of `Admission` thus holds of the code's model, among it the ceilings
  on calls of the provider.
* `RotationIsFair` proves `BoundedBypass`. `TurnsAhead` of a waiting session is the number of
  turns of others that it may still see, from its position in the Map and the place in the
  rotation; each turn of another session lowers it by one, also when that one leaves the Map
  (`TurnIsNearer`), one that joins does so behind everybody (`JoinsBehind`), and the whole of
  a pump lowers it by the number of waiters it took (`PumpPassed`). The invariant `RInv` says
  that turns seen and turns ahead together are within the bound. Assumption besides:
  `RotationAssumption` (finitely many sessions).

`AdmissionProofs` also has the MCP server over the contract. It proves
`McpImplementsAdmission`: every step of the server is a step of the admission contract or
leaves its state alone, so that everything proved of `Admission` holds of the server (`McpLedgerCorrect` is one case). `PinnedIdentity` and
`NoUnlistedContact` come from `McpInv`, inductive given the types of the contract: it says
for each station of a call what has been checked on the way there, and that a probe's
answer is no newer than the service. `CancelledStaysHere` is an action property: the only
steps that call the provider are an admission and a pump, and both look at the signal.
`LocalOnlyStaysHere` and `LocalProviderStaysHere` are about configurations: what loads and
is allowed stays on this machine. Assumptions: `McpAssumption` (one session and turn, the
derived queue limit, weights for each service), `EgressAssumption`, `AdmissionAssumption`.

`PolicyProofs` proves the policy properties for every number of score levels,
every set of reports and all thresholds. `PolicyAssumption` gives types only.
`NeverWidens` rests on `CombineTable`; monotonicity (`WorseEvidenceHolds`) on
`WorseAnswer`, which says that a worse answer keeps the question usable and moves
every comparison in one direction, and on the order of the checks.

`ClientProofs` proves, for any sets of calls, weights and questions, the types, the
expected identity, and that the clients implement `ProviderCall` (safety: initial states and
steps). `IInv` relates gate, probe and service (`GateInv`: an open gate means that the
service is the expected one or was replaced since), each call that has passed the gate
(`PassInv`), and what a call at a stage has sent (`StageInv`). `StateOnlyToExpected` alone
says nothing of a call that has passed and not yet sent. That an accepted answer is one to
what was asked (`AcceptedIsOwn`) is a lemma about the parsers, and which calls a step may
settle with which word (`SettlesAll`) is what each end of a request is proved to be. Assumption:
`ProviderClientsAssumption` (the expected weights exist, names do not clash).

`DeciderProofs` proves, for any number of connections, jobs, questions and queue places:
the types, `OneLane`, `OwnResult`, `DeliveredIsNotDiscarded` and `ScoredForSomebody`.
`IInv` says of the lane
that the queue has no repetitions and does not hold the job that is scored (`LaneInv`), of
jobs that each is unused, finished with its result written, or in the lane (`JobInv`), that
no two handlers hold one job (`OwnJobs`), and of handlers that one that is waiting or
replying has not given up its job, which is what keeps the worker from counting it
(`HandlerInv`). `ScoredForSomebody` needs one invariant more, `Awaited`: a job whose
deadline is not spent has a handler waiting for it. Assumption: `LocalDeciderAssumption`.

`ProgressProofs` proves, for any paths, attempts, fingerprints and limits, the types, and
`LimitPauses`, `PauseEarned` and `PauseHolds` under the hypothesis `~MixedOutcomes`, that
the results of one attempt agree; without it they fail (`progress_outcomes`). The invariant
says of each called path that its summary agrees with the history, the same fingerprint
and, until it is paused, as many counted as there are attempts (`Agrees`), and that no attempt still to come is
among those counted (`Past`), which is what lets a count stand for distinct attempts.
Assumption: `ProgressAssumption`.

`HostAdapterProofs` proves the six properties of the plugin, for any calls, scopes,
paths, configurations, answers and table sizes. `Calls` says what is known of a call at its
stage: what is probed or submitted is being assessed (`Assessed`), a verdict that was made
without regard to the host's decision comes with `auditBlocked` (`Backed`), and so does a
lost row that was required, unless the verdict refuses the call (`Recorded`). Neither
`UnrecordedNeverRuns` nor `HostHasTheLastWord` mentions `auditBlocked`; it is what ties the
verdict to the guard that runs later, with other calls between them. `Limits` is about a
path while results are observed: one that is not paused has counted at least the attempts
that ran and failed, with the one its summary remembers, and fewer than the limit. The
remembered one belongs in it because a refused attempt is counted too and then shields a
later result of the same root call. Assumption: `HostAdapterAssumption`; besides types it says
that calls on one path are of one scope, since the key of a path is made with the scope
(`progress.ts:81`), and that `failClosed` is not configured with the layer off.
`RowsAreHonest` says nothing of failures that stand for a refusal by the guard or by the
host, see 5; of verdicts and approvals it needs an invariant of the side tables, `Rows`: what `dispatched` says of a
call fits the stage the call is at, and an outcome that `approvals` still holds is the one
that the call went on with. An entry leaves a table in three ways, taken, replaced or dropped as the
oldest, and the lemmas on `Remember` and `Forget` say what remains. `SideTablesBounded` is
the cap on each of them.

`JournalProofs` proves, for any number of rows, sizes, faults, restarts and renamed files,
`ToldIsFound`, `TearHidesOne`, `ConfirmedStays` and `FileStaysBounded`. The scan is a function of positions
in a file, so that a step adds one chunk and the lemmas say what a scan makes of a file that
is one chunk longer. The invariant adds to `ToldIsFound` two counts: the rows hidden, and
one more if the file ends in a tear, are at most the tears that happened, because the next
row hides behind that tear; and so are the lines of the file that a scan keeps out. The
bound on the file rests on `Metered`: as long as nothing failed, what the sink believes the
size to be is the size of the file on disk, or not known. It comes with the one byte by which
a line of the full size outgrows the file. `ConfirmedStays` is about one step: a row leaves the
file only with the file, and a renamed file changes only in a rename of its own millisecond. The size is the cardinality of a
set of bytes, so that what an append adds to it follows from the theorems on finite sets.
Assumption: `AuditJournalAssumption`.

Model-checked only:

* liveness, everywhere (`EveryRunAnswered`, `EveryCallSettles`, `EveryCallAnswered`,
  `EveryRequestAnswered`): fairness and `ENABLED` are beyond the provers;
* `fitToBudget` against its promises, evaluated for the bounded inputs of the `mcp` run: it is
  a recursion over the sections, and what it returns for every input is an induction over data.

## 5. Where documentation and code differ

With a run that shows it:

* *A success clears the path* (`packages/core/test/unit/progress.test.ts:96`): not if the
  same root call failed before (`progress_outcomes`, `progress.ts:123`).
* *No cell of the table widens* (`policy.ts:19-21`): the table does not, but `conclude`
  replaces its result by `ask` when a required row did not land, even where the host
  had said deny or cancel (`host_widens`, `jey-plugin.ts:534`). The guard catches the call
  while the plugin is mounted, which is what `HostHasTheLastWord` shows.
* *`not-dispatched` for what the layer refused before the tool ran* (`audit.ts:425-426`,
  `docs/HOST_CONTRACT.md:246`): a refusal by the layer's own guard, of a call whose verdict
  had let it through, is recorded as `failed` (`host_guard_row`, `jey-plugin.ts:953`).

Seen while modelling, without a run of its own:

* *Round-robin* (`coordinator.ts:148`, `:178`): the cursor is an index that goes stale
  when a session drains, so one session can be served twice while another waits. Among n
  sessions one that waits sees up to n(n − 1) turns of others, not n − 1, and no more than
  that (`RotationIsFair`), as long as no cancellation takes a waiter out of its turn. Such
  cancellations may leave the place beyond the end, and the remainder then skips sessions:
  of K, x, y, z, w with the place at 4 (w, then K), the cancellation of the only waiters of z
  and w makes it 4 mod 3 = 1, and K waits for another round. When that recurs, only K's
  deadline ends its wait.
* *The journal never rewrites what an earlier line already confirmed* (`audit.ts:251`): the file
  sink renames to a name made of the time alone (`jey-plugin.ts:176`), and a second rename in
  the same millisecond replaces the first renamed file with all its confirmed rows.
  `ConfirmedStays` and `ToldIsFound` have this as their exception; nothing else loses rows.
* *`maxFileBytes`*: the plugin gives the same number to the journal as the limit of a line
  (`jey-plugin.ts:308`) and to its sink as the limit of the file (`:203`). A line of exactly
  that size is accepted (`audit.ts:279`) and with its newline makes a file one byte larger,
  which is what `FileBounded` allows.
* Two overlapping submissions of one key both run; `docs/MAIN_MERGE_REVIEW_20261001.md:72-75`
  records this as a known limitation.
* The coordinator keeps the controller of every call until `close` and every key for ever
  (`coordinator.ts:344`).
* Progress remembers the last root call only, so results of two attempts that alternate
  on a path (R1, R2, R1) count three times. The runs assume they do not alternate. A poll
  keeps the count of the failures before it and gives it the poll's fingerprint
  (`progress.ts:137-150`); the plugin never reports a poll (`jey-plugin.ts:976`), and paths
  that are both polled and called are not modelled.
* `tools/result` counts a call that the layer refused as a failure on its path.
* A job given up while it is scored is counted as discarded by its handler
  (`service.py:354`) and by the worker (`:167`), whose comment calls the count separate. A
  caller that leaves before the headers are written is counted by nobody (`:228`).
* A request refused before its body was read leaves the body in the connection, which stays
  open (`service.py:308`): the next request on it is parsed from the old body.
* `fitToBudget` may drop `context` from a `jey_choose` call; the result does not mention it
  (`tools.ts:188`).
* The state of an MCP call is fitted to `maxStateBytes` by its sections, and the local client
  measures the whole body against the same number (`provider-local/src/index.ts:152`): a
  state that just fits can be refused after it was charged.
* A local endpoint that is not among `allowedOrigins` loads (`config.ts:194`) and is denied
  at every call.
* The journal counts a rotation (`audit.ts:294`) whether or not its sink has `rotate`; the
  file sink has none and rotates by size.
* After a failed rename, or an append that failed half-way, the audit file may pass its
  bound until the next rotation; `FileBounded` is stated for files that met neither.

## 6. Not modelled, and why

* *Canonical JSON, digests, schema validation, the parsing of protocol messages*: functions
  of one value without state, whose content is string and number formats. The models have
  what depends on their result: equal or not, valid or not, and the classes of answers.
* *The composition of audit rows, and counters that only diagnostics read*: nothing in the
  program depends on them, except for the discards of the Python service that are modelled.
* *Numerics of `scoring.py` and calibration fits; weight download and its lock file*.
* *GET endpoints of the service, `live()` and `ready()`*: they change nothing.
* *The plugin's capability cache and the conversation in a snapshot*: a probe succeeds or
  fails, and a conversation changes only with the sequence number.
* *Structural rules of the configuration*, apart from the contradictions in `Egress`.
* *The mock provider, doctor, probes and scripted model, scripts*: fixtures and read-only
  diagnostics.

What would add most next: a composition of `ProviderClients` with `LocalDecider` over a
connection that is kept alive; the counters of the coordinator that only diagnostics read.
