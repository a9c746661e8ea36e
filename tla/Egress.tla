------------------------------- MODULE Egress -------------------------------
(***************************************************************************)
(* Which requests may leave the process: loadConfig (packages/core/src/    *)
(* config.ts), which refuses contradictory configurations, and checkEgress *)
(* (egress.ts), which every request passes before a provider is asked      *)
(* anything.  An endpoint is its origin, or one of two defects.            *)
(***************************************************************************)
EXTENDS Naturals, Sequences, SequencesExt

CONSTANTS Origins, Loopback   \* what endpoints and origins may be; those on this machine

ASSUME EgressAssumption == Loopback \subseteq Origins /\ {"missing", "not-a-url"} \cap Origins = {}

-----------------------------------------------------------------------------
(* loadConfig.                                                             *)

ModeWithoutProvider(config) == config.mode # "off" /\ config.provider = "unconfigured"
EnforceWithMock(config) == config.mode = "enforce" /\ config.provider = "mock"
CloudWithoutAllowlist(config) == config.provider = "typesafe" /\ config.egress # "allowlist"
LocalWithEgressDeny(config) == config.provider = "local" /\ config.egress = "deny"
LocalOnlyElsewhere(config) ==
  config.egress = "local-only" /\ (config.origins = {} \/ ~ config.origins \subseteq Loopback)
EmptyPurposes(config) == config.egress # "deny" /\ config.purposes = {}
FailClosedWhileOff(config) == config.mode = "off" /\ config.failClosed
Unbacked(config, host) == config.approvalRequests /\ ~host.approvalChannel

Contradictory(config, host) ==
  \/ ModeWithoutProvider(config) \/ EnforceWithMock(config)
  \/ CloudWithoutAllowlist(config) \/ LocalWithEgressDeny(config)
  \/ LocalOnlyElsewhere(config) \/ EmptyPurposes(config)
  \/ FailClosedWhileOff(config) \/ Unbacked(config, host)

\* The schema pins the endpoint of a local provider to this machine.
Structured(config) == config.provider = "local" => config.endpoint \in Loopback

Loads(config, host) == Structured(config) /\ ~Contradictory(config, host)

-----------------------------------------------------------------------------
(* checkEgress.                                                            *)

AllowsLocal(config, attempt) == attempt.endpoint \in config.origins \cap Origins

\* The first destination with the name that the caller looked up.
Named(config, attempt) == SelectInSeq(config.destinations, LAMBDA d : d.id = attempt.destination)

\* All five conditions at once.
AllowsCloud(config, attempt) ==
  /\ attempt.selected /\ attempt.credential
  /\ attempt.destination # "none" /\ attempt.endpoint # "missing"
  /\ Named(config, attempt) # 0
  /\ LET destination == config.destinations[Named(config, attempt)]
     IN  /\ destination.endpoint = attempt.endpoint
         /\ attempt.purpose \in destination.purposes
         /\ attempt.fields \subseteq destination.fields

CheckEgress(config, attempt) ==
  /\ config.egress # "deny"
  /\ attempt.provider # "mock"
  /\ attempt.purpose \in config.purposes
  /\ IF attempt.provider = "local" THEN AllowsLocal(config, attempt)
     ELSE config.egress = "allowlist" /\ AllowsCloud(config, attempt)
=============================================================================
