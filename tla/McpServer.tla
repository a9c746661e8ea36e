------------------------------ MODULE McpServer ------------------------------
(***************************************************************************)
(* The MCP server (packages/adapter-mcp): runTool from the arguments of a  *)
(* call to its reply, over the coordinator's admission contract, the       *)
(* configuration and egress rules, the state budget, and LocalProvider's   *)
(* cached capabilities.  Every call is of session "mcp", turn 1.           *)
(*                                                                         *)
(* A call awaits twice, the capabilities and the coordinator.  Meanwhile   *)
(* other calls run, clients cancel, probes overlap, the operator replaces  *)
(* the service behind the port, and the process is told to stop.           *)
(***************************************************************************)
EXTENDS Admission, Egress, Truncation

CONSTANTS
  Configs,        \* configurations given to runtimeFrom
  Inputs,         \* Run -> the arguments that the call may have
  Cancellable,    \* calls whose client may cancel
  MaxQuestions, MaxStateBytes,  \* limits of the configuration
  Weights, WeightsOf,           \* what the services run one after the other have loaded
  ServiceQuestions              \* maxQuestions of the provider's capabilities

\* services are numbered in the order in which they are started
Services == DOMAIN WeightsOf

ASSUME McpAssumption ==
  /\ Session = {"mcp"} /\ Turn = {"mcp turn 1"}
  /\ MaxQueuePerSession = IF MaxConcurrent > 1 THEN MaxConcurrent ELSE 1
  /\ WeightsOf \in [1..Cardinality(Services) -> Weights]

VARIABLES
  config,   \* the configuration that was loaded
  service,  \* the process behind the local port
  cache,    \* LocalProvider.#capabilities: who named itself, 0 if nobody
  call,     \* Run -> one call of a tool
  aborted   \* calls whose signal is aborted

mcp == <<config, service, cache, call, aborted>>
mvars == <<vars, mcp>>

-----------------------------------------------------------------------------
(* What a call asks.                                                       *)

Purpose == [jev_check |-> "evidence-check", jev_choose |-> "explicit-query", jev_rank |-> "tool-relevance"]

Section(kind, entries) == [kind |-> kind, entries |-> entries, list |-> FALSE, kept |-> TRUE]

\* buildQuestions: how many questions, and the sections of the state.  Of the
\* input, the sizes of its claim or instruction, of its context and of its
\* evidence, options or candidates.
Questions(input) == IF input.tool = "jev_rank" THEN Len(input.items) ELSE 1

Sections(input) ==
  <<Section("policy", <<input.instruction>>)>> \o
  CASE input.tool = "jev_check"  -> <<Section("current-call", input.items)>>
    [] input.tool = "jev_choose" -> <<Section("recent-result", <<input.context>>),
                                      Section("current-call", <<Sum(input.items)>>)>>
    [] input.tool = "jev_rank"   -> [i \in DOMAIN input.items |-> Section("current-call", <<input.items[i]>>)]

\* [mutant] the purpose of the tool is not looked at
AllowedAnyPurpose(tool) ==
  \/ config.provider = "mock"
  \/ config.egress # "deny" /\ AllowsLocal(config, [endpoint |-> config.endpoint])

\* egressCheck: mock asks nobody; the endpoint is the configured one.
Allowed(tool) ==
  \/ config.provider = "mock"
  \/ CheckEgress(config, [provider |-> config.provider, endpoint |-> config.endpoint,
       purpose |-> Purpose[tool], destination |-> "none", fields |-> {},
       credential |-> TRUE, selected |-> TRUE])

-----------------------------------------------------------------------------
(* The process.                                                            *)

\* An MCP client has no approval channel for the server.
McpHost == [approvalChannel |-> FALSE]

\* runtimeFrom: loadConfig, then providerFor, which knows mock and local.
Starts(c) == Loads(c, McpHost) /\ c.provider \in {"mock", "local"}

NoInput == [tool |-> "none"]
NewCall == [at |-> "idle", input |-> NoInput, basis |-> 0, sentTo |-> 0, reply |-> "none"]

MInit ==
  /\ Init
  /\ config \in {c \in Configs : Starts(c)}
  /\ service = 1 /\ cache = 0
  /\ call = [r \in Run |-> NewCall]
  /\ aborted = {}

-----------------------------------------------------------------------------
(* runTool.                                                                *)

\* Signals and clocks decide what the contract leaves open: whoever is aborted
\* is not started by the pump, and nobody else is dropped as cancelled.
Pumps ==
  \A q \in Waiting : /\ stage'[q] = "running" => q \notin aborted
                     /\ outcome'[q] = "cancelled" => q \in aborted'

\* [mutant] submit() is not given the signal
AdmitUnsignalled(r) ==
  \/ RefuseClosed(r) \/ RefuseBudget(r) \/ RefuseQueueFull(r) \/ Enqueue(r) \/ Start(r)

\* coordinator.submit(request, { signal }).  Request ids are random: there are
\* no duplicates.
Admit(r) ==
  \/ RefuseClosed(r) \/ RefuseBudget(r) \/ RefuseQueueFull(r) \/ Enqueue(r)
  \/ r \notin aborted /\ Start(r)
  \/ r \in aborted /\ DropAtStart(r) /\ outcome'[r] = "cancelled" /\ Pumps

\* [mutant] the identity is compared when it arrives, not when it is remembered
MismatchedOnArrival(r, who) ==
  config.provider = "local" /\ WeightsOf[who] # config.expected /\ call[r].at = "asking"

Mismatched(r, who) == config.provider = "local" /\ WeightsOf[who] # config.expected

Answered(r, code) == [call[r] EXCEPT !.at = "answered", !.input = NoInput, !.reply = code]

\* Capabilities are known, reported by `who`.
Consider(r, input, who) ==
  IF Mismatched(r, who) \/ Questions(input) > ServiceQuestions
  THEN call' = [call EXCEPT ![r] = Answered(r, "UNSUPPORTED_CAPABILITY")] /\ UNCHANGED vars
  ELSE /\ call' = [call EXCEPT ![r] = [@ EXCEPT !.at = "submitted", !.input = input, !.basis = who]]
       /\ Admit(r)

\* What is refused, or answered, before anybody is asked; "none" otherwise.
EarlyReply(input) ==
  CASE ~input.valid -> "INVALID_PARAMS"
    [] input.valid /\ Questions(input) > MaxQuestions -> "INVALID_INPUT"
    [] OTHER -> IF ~FitToBudget(Sections(input), MaxStateBytes).ok THEN "INSUFFICIENT_CONTEXT"
                ELSE IF Questions(input) = 0 THEN "ok"
                ELSE IF Allowed(input.tool) THEN "none" ELSE "EGRESS_DENIED"

\* From the arguments to the first thing that is not there: a reply, or the
\* capabilities, which a mock and a filled cache give at once.
Receive(r, input) ==
  /\ call[r].at = "idle"
  /\ UNCHANGED <<config, service, cache, aborted>>
  /\ IF EarlyReply(input) # "none"
     THEN call' = [call EXCEPT ![r] = Answered(r, EarlyReply(input))] /\ UNCHANGED vars
     ELSE IF config.provider = "mock" \/ cache # 0 THEN Consider(r, input, cache)
     ELSE call' = [call EXCEPT ![r] = [@ EXCEPT !.at = "asking", !.input = input]] /\ UNCHANGED vars

\* The request for capabilities, which carries no signal, reaches the service.
ServiceNames(r) ==
  /\ call[r].at = "asking" /\ call[r].basis = 0
  /\ call' = [call EXCEPT ![r].basis = service]
  /\ UNCHANGED <<vars, config, service, cache, aborted>>

\* Its answer arrives.  Overlapping requests are not shared: the last wins.
Told(r) ==
  /\ call[r].at = "asking" /\ call[r].basis # 0
  /\ cache' = call[r].basis
  /\ UNCHANGED <<config, service, aborted>>
  /\ Consider(r, call[r].input, call[r].basis)

\* [mutant] a request that nobody answers is waited for
ProbeFailsAnswered(r) ==
  /\ call[r].at = "asking" /\ call[r].basis # 0
  /\ call' = [call EXCEPT ![r] = Answered(r, "PROVIDER_ERROR")]
  /\ UNCHANGED <<vars, config, service, cache, aborted>>

\* Nobody is there, no token, or no usable answer within 5 s.
ProbeFails(r) ==
  /\ call[r].at = "asking"
  /\ call' = [call EXCEPT ![r] = Answered(r, "PROVIDER_ERROR")]
  /\ UNCHANGED <<vars, config, service, cache, aborted>>

\* The coordinator hands the call to the provider, and the bytes of its state
\* reach whoever listens; a cancelled request is not sent.
Reaches(r) ==
  /\ config.provider = "local" /\ stage[r] = "running" /\ call[r].sentTo = 0
  /\ r \notin aborted /\ ~closed
  /\ call' = [call EXCEPT ![r].sentTo = service]
  /\ UNCHANGED <<vars, config, service, cache, aborted>>

\* A running call comes to its end: answered, refused by the provider, out of
\* time, or stopped by its caller or by close().
End(r, out) ==
  /\ out = "cancelled" => r \in aborted \/ closed
  /\ config.provider = "mock" => out \in {"response", "cancelled"}
  /\ config.provider = "local" /\ out = "response" => call[r].sentTo # 0
  /\ UNCHANGED mcp
  /\ Settle(r, out) /\ Pumps

\* failedJudgement; PROVIDER_ERROR stands for the code that the provider gave.
Judgement(out) ==
  CASE out = "response" -> "ok"
    [] out = "failed" -> "PROVIDER_ERROR"
    [] out = "timed-out" -> "TIMEOUT"
    [] out \in {"cancelled", "closed"} -> "CANCELLED"
    [] out = "queue-full" -> "QUEUE_FULL"
    [] out = "budget-exceeded" -> "BUDGET_EXCEEDED"

\* submit() resolved, and runTool goes on.
Resume(r) ==
  /\ call[r].at = "submitted" /\ outcome[r] # "none"
  /\ call' = [call EXCEPT ![r] = Answered(r, Judgement(outcome[r]))]
  /\ UNCHANGED <<vars, config, service, cache, aborted>>

-----------------------------------------------------------------------------
(* The client, the operator and the process.                               *)

\* The client cancels.  Only a waiter whose signal was not aborted when it was
\* queued hears of it; all others notice at their next step.
Abort(r) ==
  /\ r \in Cancellable \ aborted
  /\ call[r].at \in {"asking", "submitted"} /\ outcome[r] = "none"
  /\ aborted' = aborted \cup {r}
  /\ IF stage[r] = "waiting" THEN CancelWaiting(r) /\ Pumps ELSE UNCHANGED vars
  /\ UNCHANGED <<config, service, cache, call>>

ServiceReplaced ==
  /\ config.provider = "local" /\ service + 1 \in Services
  /\ service' = service + 1
  /\ UNCHANGED <<vars, config, cache, call, aborted>>

\* The client has gone, or a signal: the coordinator is closed.  Calls that
\* are still asking, or arrive before the process ends, find it closed.
Shutdown == Close /\ UNCHANGED mcp

MNext ==
  \/ \E r \in Run :
       \/ \E input \in Inputs[r] : Receive(r, input)
       \/ ServiceNames(r) \/ Told(r) \/ ProbeFails(r) \/ Reaches(r) \/ Resume(r) \/ Abort(r)
       \/ \E out \in Answers : End(r, out)
  \/ ServiceReplaced \/ Shutdown

MSpec == MInit /\ [][MNext]_mvars

\* The probe's timer and the deadline timer of the coordinator fire, and
\* resolved promises are continued.  Nobody has to answer.
FairMSpec ==
  /\ MSpec
  /\ \A r \in Run : /\ WF_mvars(ProbeFails(r)) /\ WF_mvars(Resume(r))
                    /\ WF_mvars(\E out \in Answers : End(r, out))

-----------------------------------------------------------------------------
(* Properties.                                                             *)

\* The state of a call reaches other weights than the pinned ones only if the
\* service was replaced after the identity that this call relies on was
\* reported: a refused service stays refused, although runTool asks once and
\* remembers, and calls overlap (tools.ts: 223-244).
StateOnlyToNamed ==
  \A r \in Run : LET c == call[r] IN
    c.sentTo # 0 /\ WeightsOf[c.sentTo] # config.expected => c.basis < c.sentTo

\* Nobody outside the process hears of a call whose purpose or endpoint the
\* configuration does not list, not even a request for capabilities
\* (docs/INSTALL_MCP.md:98, egress.ts:23-27).
NoContactUnlisted ==
  \A r \in Run : config.provider = "local" /\ call[r].at \in {"asking", "submitted"} =>
    /\ config.egress # "deny"
    /\ config.endpoint \in config.origins \cap Loopback
    /\ Purpose[call[r].input.tool] \in config.purposes

\* The provider is never given a call that was cancelled before, whether while
\* it waited for capabilities or in the queue.
CancelledNeverAsked ==
  [][\A r \in aborted : r \in called' => r \in called]_mvars

\* Every call is replied to, though the service may never answer.
EveryCallAnswered == \A r \in Run : (call[r].at # "idle") ~> (call[r].at = "answered")
=============================================================================
