----------------------------- MODULE NodeHealth -----------------------------
(***************************************************************************)
(* The health of the panel's nodes (internal/panel): an administrator      *)
(* enables, disables and maintains nodes while probes ask their agents for *)
(* a status.  A probe reads the node, asks its agent with no lock held,    *)
(* and records the outcome in a later Store.Update; the node may have been *)
(* switched, probed by another goroutine or deleted in between.            *)
(*                                                                         *)
(* A probe starts from the 15 s ticker, from the probe and sync endpoints, *)
(* or after a request that changes the node: at any moment, that is.       *)
(***************************************************************************)
EXTENDS Naturals

CONSTANTS NodeId,
          Probe        \* goroutines running probeNode at one time

VARIABLES
  nodes,     \* State.Nodes: a function on the nodes that exist
  issued,    \* the identifiers handed out so far
  answers,   \* answers[n]: n's agent is reachable and answers in time
  probe      \* the goroutine in each slot

vars == <<nodes, issued, answers, probe>>

OfflineAfter == 3      \* failures from which on a node is offline

Statuses == {"unknown", "online", "degraded", "offline", "maintenance", "disabled"}

(* FailureCount saturates here: no code tells larger counts apart.          *)
Node == [enabled : BOOLEAN, maintenance : BOOLEAN, status : Statuses,
         failures : 0..OfflineAfter]

Idle == [phase |-> "idle"]
Probing == [phase : {"held", "asking", "answered", "failed"}, node : NodeId]

TypeOK ==
  /\ nodes \in UNION {[D -> Node] : D \in SUBSET issued}
  /\ issued \subseteq NodeId
  /\ answers \in [NodeId -> BOOLEAN]
  /\ probe \in [Probe -> Probing \cup {Idle}]

(* Slip: the row literal leaves the status at its zero value.                *)
NewNodeWithoutStatus == [enabled |-> TRUE, maintenance |-> FALSE, status |-> "", failures |-> 0]

NewNode == [enabled |-> TRUE, maintenance |-> FALSE, status |-> "unknown", failures |-> 0]

(* A panel without nodes.                                                   *)
Init ==
  /\ nodes = [n \in {} |-> NewNode]
  /\ issued = {}
  /\ answers \in [NodeId -> BOOLEAN]
  /\ probe = [p \in Probe |-> Idle]

-----------------------------------------------------------------------------
(* Slip: the three-failures threshold is one too low.                       *)
StatusAfterProbeEarly(node) ==
  CASE ~node.enabled      -> "disabled"
    [] node.enabled /\ node.maintenance -> "maintenance"
    [] OTHER -> IF node.failures >= OfflineAfter - 1 THEN "offline"
                ELSE IF node.failures > 0 THEN "degraded" ELSE "online"

nodeStatusAfterProbe(node) ==
  CASE ~node.enabled      -> "disabled"
    [] node.enabled /\ node.maintenance -> "maintenance"
    [] OTHER -> IF node.failures >= OfflineAfter THEN "offline"
                ELSE IF node.failures > 0 THEN "degraded" ELSE "online"

Settled(node) == [node EXCEPT !.status = nodeStatusAfterProbe(node)]

(* A clean slate: the next probe decides.                                   *)
Unknown(node) == [node EXCEPT !.status = "unknown", !.failures = 0]

(* Store.Update on one node's row.                                          *)
SetNode(n, node) ==
  /\ n \in DOMAIN nodes
  /\ nodes' = [nodes EXCEPT ![n] = node]
  /\ UNCHANGED <<issued, answers, probe>>

CreateNode(n) ==
  /\ n \notin issued
  /\ issued' = issued \cup {n}
  /\ nodes' = [m \in DOMAIN nodes \cup {n} |-> IF m = n THEN NewNode ELSE nodes[m]]
  /\ UNCHANGED <<answers, probe>>

EnableNode(n) ==
  n \in DOMAIN nodes /\ SetNode(n, Unknown([nodes[n] EXCEPT !.enabled = TRUE]))

DisableNode(n) ==
  n \in DOMAIN nodes
    /\ SetNode(n, [nodes[n] EXCEPT !.enabled = FALSE, !.status = "disabled"])

(* Slip: a disabled node taken out of maintenance is shown as unknown.      *)
SetMaintenanceBlindly(n, on) ==
  /\ n \in DOMAIN nodes
  /\ LET node == [nodes[n] EXCEPT !.maintenance = on] IN
     SetNode(n, IF on THEN [node EXCEPT !.status = "maintenance"] ELSE Unknown(node))

SetMaintenance(n, on) ==
  /\ n \in DOMAIN nodes
  /\ LET node == [nodes[n] EXCEPT !.maintenance = on] IN
     SetNode(n, IF ~node.enabled THEN [node EXCEPT !.status = "disabled"]
                ELSE IF on THEN [node EXCEPT !.status = "maintenance"]
                ELSE Unknown(node))

DeleteNode(n) ==
  /\ n \in DOMAIN nodes
  /\ nodes' = [m \in DOMAIN nodes \ {n} |-> nodes[m]]
  /\ UNCHANGED <<issued, answers, probe>>

-----------------------------------------------------------------------------
(* probeNode *)

(* Its Read: a node that is off or in maintenance is not asked.             *)
StartProbe(p, n) ==
  /\ probe[p] = Idle
  /\ n \in DOMAIN nodes
  /\ probe' = [probe EXCEPT ![p] =
       [phase |-> IF nodes[n].enabled /\ ~nodes[n].maintenance THEN "asking" ELSE "held",
        node |-> n]]
  /\ UNCHANGED <<nodes, issued, answers>>

(* The agent's answer to GET /v1/status arrives, or the request fails.      *)
Hear(p) ==
  /\ probe[p].phase = "asking"
  /\ probe' = [probe EXCEPT ![p].phase = IF answers[probe[p].node] THEN "answered" ELSE "failed"]
  /\ UNCHANGED <<nodes, issued, answers>>

(* Slip: a failed probe of a node that was online starts no count.          *)
AfterProbeForgiving(phase, node) ==
  CASE phase = "held"     -> Settled(node)
    [] phase = "failed"   -> IF node.status = "online" THEN node
                             ELSE Settled([node EXCEPT !.failures = IF @ < OfflineAfter THEN @ + 1 ELSE @])
    [] phase = "answered" -> [node EXCEPT !.status = "online", !.failures = 0]

(* Slip: a success does not forget the failures before it.                  *)
AfterProbeUnforgiving(phase, node) ==
  CASE phase = "held"     -> Settled(node)
    [] phase = "failed"   -> Settled([node EXCEPT !.failures = IF @ < OfflineAfter THEN @ + 1 ELSE @])
    [] phase = "answered" -> Settled(node)

(* What the probe's Update makes of the node's row as it is by then.        *)
AfterProbe(phase, node) ==
  CASE phase = "held"     -> Settled(node)
    [] phase = "failed"   -> Settled([node EXCEPT !.failures = IF @ < OfflineAfter THEN @ + 1 ELSE @])
    [] phase = "answered" -> [node EXCEPT !.status = "online", !.failures = 0]

Record(p) ==
  LET n == probe[p].node IN
  /\ probe[p].phase \in {"held", "answered", "failed"}
  /\ probe' = [probe EXCEPT ![p] = Idle]
  /\ nodes' = [m \in DOMAIN nodes |->
                 IF m = n THEN AfterProbe(probe[p].phase, nodes[m]) ELSE nodes[m]]
  /\ UNCHANGED <<issued, answers>>

(* The Update cannot be saved: its outcome is dropped.                      *)
RecordNotSaved(p) ==
  /\ probe[p].phase \in {"held", "answered", "failed"}
  /\ probe' = [probe EXCEPT ![p] = Idle]
  /\ UNCHANGED <<nodes, issued, answers>>

(* The panel restarts: goroutines are lost, the state file is not.          *)
Restart ==
  /\ probe' = [p \in Probe |-> Idle]
  /\ UNCHANGED <<nodes, issued, answers>>

(* Agents and the network come and go.                                      *)
AgentChanges(n) ==
  /\ answers' = [answers EXCEPT ![n] = ~@]
  /\ UNCHANGED <<nodes, issued, probe>>

-----------------------------------------------------------------------------
AdminRequest(n) ==
  \/ CreateNode(n)
  \/ EnableNode(n)
  \/ DisableNode(n)
  \/ \E on \in BOOLEAN : SetMaintenance(n, on)
  \/ DeleteNode(n)

(* The ticker starts a probe of each enabled node.                          *)
Tick(n) == n \in DOMAIN nodes /\ nodes[n].enabled /\ \E p \in Probe : StartProbe(p, n)

Next ==
  \/ \E n \in NodeId : AdminRequest(n) \/ AgentChanges(n)
  \/ \E p \in Probe : \/ \E n \in NodeId : StartProbe(p, n)
                      \/ Hear(p)
                      \/ Record(p)
                      \/ RecordNotSaved(p)
  \/ Restart

ProbeOf(n) == {p \in Probe : probe[p] # Idle /\ probe[p].node = n}

(* The ticker goes on for ever and agentJSON has a timeout.  Strong         *)
(* fairness, for each node: goroutines are not limited to Probe, so a full  *)
(* set of slots must not starve the ticker, and neither restarts nor        *)
(* failing writes meet every single probe of a node.                        *)
Fairness ==
  \A n \in NodeId :
    /\ SF_vars(Tick(n))
    /\ SF_vars(\E p \in ProbeOf(n) : Hear(p))
    /\ SF_vars(\E p \in ProbeOf(n) : Record(p))

Spec == Init /\ [][Next]_vars /\ Fairness

-----------------------------------------------------------------------------
Held(n) == nodes[n].maintenance \/ ~nodes[n].enabled

(* Whatever a late probe records, the status shown fits the switches: a     *)
(* held node is never blamed for not answering, one that is released never  *)
(* goes on being shown as held.                                             *)
StatusFitsFlags ==
  \A n \in DOMAIN nodes :
    LET node == nodes[n] IN
    /\ Held(n) => node.status \notin {"degraded", "offline"}
    /\ node.status = "disabled" => ~node.enabled
    /\ node.status = "maintenance" => node.maintenance /\ node.enabled
    /\ node.status = "unknown" => node.enabled

(* The status agrees with the failures counted, over all interleavings of   *)
(* probes and requests: a node is offline after three failures, never       *)
(* after fewer.                                                             *)
StatusFitsFailures ==
  \A n \in DOMAIN nodes :
    LET node == nodes[n] IN
    /\ node.status \in {"online", "unknown"} => node.failures = 0
    /\ node.status = "degraded" => node.failures \in 1..OfflineAfter - 1
    /\ node.status = "offline" => node.failures = OfflineAfter

Released(n) == n \in DOMAIN nodes /\ ~Held(n)
Shows(n, status) == n \in DOMAIN nodes /\ nodes[n].status = status

(* Left alone by the administrators from some time on.                      *)
LeftAlone(n) == <>[][~AdminRequest(n)]_vars

(* A node in use, left alone, whose agent answers from some time on ends up *)
(* online, and one whose agent is silent ends up offline, for good: the     *)
(* outcomes of old probes do not undo it.                                   *)
OnlineSettles ==
  \A n \in NodeId :
    LeftAlone(n) /\ <>[](Released(n) /\ answers[n]) => <>[]Shows(n, "online")

OfflineSettles ==
  \A n \in NodeId :
    LeftAlone(n) /\ <>[](Released(n) /\ ~answers[n]) => <>[]Shows(n, "offline")

(* A node that has been disabled ends up shown as disabled                  *)
(* (TestNodeStatusAfterProbe).  A probe that was asking when the node was   *)
(* disabled records its success as "online" whatever the switches say, and  *)
(* the ticker does not probe a disabled node again.                         *)
DisabledSettles ==
  \A n \in NodeId :
    LeftAlone(n) /\ <>[](n \in DOMAIN nodes /\ ~nodes[n].enabled) => <>[]Shows(n, "disabled")

=============================================================================
