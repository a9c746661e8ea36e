---------------------------- MODULE MCMcpServer ----------------------------
(* One slot, a queue of two of which a session may take one, and calls for  *)
(* two: three calls meet every refusal.  The service with the pinned weights *)
(* is replaced by one with others.                                          *)
EXTENDS McpServer

mcRun       == {"c1", "c2", "c3"}
mcSession   == {"mcp"}
mcTurn      == {"mcp turn 1"}
mcSessionOf == [r \in mcRun |-> "mcp"]
mcTurnOf    == [r \in mcRun |-> "mcp turn 1"]

mcWeights   == {"pinned", "other"}
mcWeightsOf == <<"pinned", "other">>

mcOrigins   == {"loopback", "loopback elsewhere", "remote"}
mcLoopback  == {"loopback", "loopback elsewhere"}

Base == [provider |-> "local", endpoint |-> "loopback", mode |-> "enforce", egress |-> "local-only",
         origins |-> {"loopback"}, purposes |-> {"evidence-check", "explicit-query"}, destinations |-> <<>>,
         failClosed |-> FALSE, approvalRequests |-> FALSE, expected |-> "pinned"]

mcConfigs ==
  { Base,
    [Base EXCEPT !.origins = {"loopback elsewhere"}],              \* loads, and never asks
    [Base EXCEPT !.provider = "mock", !.endpoint = "missing", !.mode = "shadow", !.egress = "deny"],
    \* none of these loads or starts
    [Base EXCEPT !.origins = {"loopback", "remote"}],
    [Base EXCEPT !.endpoint = "remote", !.egress = "allowlist", !.origins = {"remote"}],
    [Base EXCEPT !.provider = "typesafe", !.egress = "allowlist"] }

Input(tool, context, items) ==
  [valid |-> TRUE, tool |-> tool, instruction |-> 1, context |-> context, items |-> items]

\* A check that is fine, a choice that fits without its context, and a ranking
\* that the provider declines; the last call may be anything.
Fine     == Input("jev_check", 0, <<1>>)
Choice   == Input("jev_choose", 9, <<1, 1>>)
Declined == Input("jev_rank", 0, <<1, 1>>)

mcCancellable == {"c2"}

mcInputs ==
  [c1 |-> {Fine}, c2 |-> {Choice},
   c3 |-> {Fine, Declined,
           Input("jev_rank", 0, <<>>),                \* nothing to ask
           Input("jev_rank", 0, <<1, 1, 1>>),         \* too many questions
           Input("jev_choose", 0, <<4, 4>>),          \* does not fit
           [Fine EXCEPT !.valid = FALSE]}]

\* States of up to three sections in any order: a list, another history, and
\* what may not be cut.
mcSections ==
  LET Whole(kind, sizes) == [kind : {kind}, entries : [1..1 -> sizes], list : {FALSE}, kept : {TRUE}]
      Listed == [kind : {"conversation"}, entries : UNION {[1..n -> 1..2] : n \in 1..2},
                 list : {TRUE}, kept : {TRUE}]
      Sorts  == Listed \cup Whole("recent-result", 1..2) \cup Whole("policy", {1}) \cup Whole("current-call", {2})
  IN  UNION {[1..n -> Sorts] : n \in 0..3}

\* fitToBudget keeps what its comment promises, for every such state and budget.
ASSUME FitIsAsPromised ==
  \A sections \in mcSections, maxBytes \in 0..7 : FitsAsPromised(sections, maxBytes)
=============================================================================
