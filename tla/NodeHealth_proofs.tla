-------------------------- MODULE NodeHealth_proofs --------------------------
(***************************************************************************)
(* The safety properties of NodeHealth, for any nodes and any number of    *)
(* probes.  The invariant is a property of each row by itself: every       *)
(* request and every outcome of a probe takes a good row to a good row,    *)
(* whenever it comes.                                                      *)
(***************************************************************************)
EXTENDS NodeHealth, TLAPS

(* The two status properties, for one row.                                  *)
FitsFlags(node) ==
  /\ node.maintenance \/ ~node.enabled => node.status \notin {"degraded", "offline"}
  /\ node.status = "disabled" => ~node.enabled
  /\ node.status = "maintenance" => node.maintenance /\ node.enabled
  /\ node.status = "unknown" => node.enabled

FitsFailures(node) ==
  /\ node.status \in {"online", "unknown"} => node.failures = 0
  /\ node.status = "degraded" => node.failures \in 1..OfflineAfter - 1
  /\ node.status = "offline" => node.failures = OfflineAfter

Good(node) == node \in Node /\ FitsFlags(node) /\ FitsFailures(node)

GoodRows == \A n \in DOMAIN nodes : Good(nodes[n])

(* Every good row is as the two properties ask, and conversely.             *)
LEMMA GoodRowsFit ==
  ASSUME TypeOK
  PROVE  GoodRows <=> StatusFitsFlags /\ StatusFitsFailures
  BY DEF TypeOK, GoodRows, Good, FitsFlags, FitsFailures,
         StatusFitsFlags, StatusFitsFailures, Held

(* Forgetting the failures of a row keeps it a row.                         *)
LEMMA ClearedIsNode ==
  ASSUME NEW node \in Node, NEW status \in Statuses
  PROVE  LET cleared == [node EXCEPT !.status = status, !.failures = 0] IN
         /\ cleared \in Node
         /\ cleared.status = status /\ cleared.failures = 0
         /\ cleared.enabled = node.enabled
  <1>1. 0 \in 0..OfflineAfter
    BY DEF OfflineAfter
  <1> DEFINE shown == [node EXCEPT !.status = status]
  <1>2. shown \in Node /\ shown.status = status /\ shown.enabled = node.enabled
    BY DEF Node
  <1>3. [node EXCEPT !.status = status, !.failures = 0] = [shown EXCEPT !.failures = 0]
    OBVIOUS
  <1> HIDE DEF shown
  <1> QED BY <1>1, <1>2, <1>3 DEF Node

(* nodeStatusAfterProbe, saved by whichever probe, fits a row whose         *)
(* failures were counted.                                                   *)
LEMMA AfterProbeGood ==
  ASSUME NEW node, Good(node), NEW phase \in {"held", "answered", "failed"}
  PROVE  Good(AfterProbe(phase, node))
  <1> DEFINE counted == [node EXCEPT !.failures = IF @ < OfflineAfter THEN @ + 1 ELSE @]
  <1>1. node \in Node /\ FitsFlags(node) /\ FitsFailures(node)
    BY DEF Good
  <1>2. CASE phase = "held"
    <2>1. \/ ~node.enabled
          \/ node.enabled /\ node.maintenance
          \/ /\ node.enabled /\ ~node.maintenance
             /\ node.failures \in 0..OfflineAfter
      BY <1>1 DEF Node
    <2>2. Settled(node) \in Node
      BY <1>1 DEF Settled, nodeStatusAfterProbe, Node, Statuses
    <2>3. FitsFlags(Settled(node))
      BY <1>1, <2>1 DEF Settled, nodeStatusAfterProbe, Node, Statuses, FitsFlags, OfflineAfter
    <2>4. FitsFailures(Settled(node))
      BY <1>1, <2>1 DEF Settled, nodeStatusAfterProbe, Node, Statuses, FitsFailures, OfflineAfter
    <2> QED BY <1>2, <2>2, <2>3, <2>4 DEF AfterProbe, Good
  <1>3. CASE phase = "failed"
    <2>1. counted \in Node /\ counted.failures \in 1..OfflineAfter
      BY <1>1 DEF Node, OfflineAfter
    <2> HIDE DEF counted
    <2>2. Settled(counted) \in Node
      BY <2>1 DEF Settled, nodeStatusAfterProbe, Node, Statuses
    <2>3. FitsFlags(Settled(counted))
      BY <2>1 DEF Settled, nodeStatusAfterProbe, Node, Statuses, FitsFlags, OfflineAfter
    <2>4. FitsFailures(Settled(counted))
      BY <2>1 DEF Settled, nodeStatusAfterProbe, Node, Statuses, FitsFailures, OfflineAfter
    <2>5. AfterProbe(phase, node) = Settled(counted)
      BY <1>3 DEF AfterProbe, counted
    <2> QED BY <2>2, <2>3, <2>4, <2>5 DEF Good
  <1>4. CASE phase = "answered"
    <2> DEFINE online == [node EXCEPT !.status = "online", !.failures = 0]
    <2>1. /\ online \in Node
          /\ online.status = "online" /\ online.failures = 0
      <3>1. "online" \in Statuses
        BY DEF Statuses
      <3> QED BY <1>1, <3>1, ClearedIsNode, Zenon
    <2> HIDE DEF online
    <2>2. FitsFlags(online) /\ FitsFailures(online)
      BY <2>1 DEF FitsFlags, FitsFailures
    <2>3. AfterProbe(phase, node) = online
      BY <1>4 DEF AfterProbe, online
    <2> QED BY <2>1, <2>2, <2>3 DEF Good
  <1> QED BY <1>2, <1>3, <1>4

(* A request that rewrites one row keeps all rows good if the new one is.   *)
LEMMA SetNodeGood ==
  ASSUME TypeOK, GoodRows, NEW n \in NodeId, NEW node, Good(node), SetNode(n, node)
  PROVE  TypeOK' /\ GoodRows'
  <1>1. n \in DOMAIN nodes /\ nodes' = [nodes EXCEPT ![n] = node] /\ node \in Node
    BY DEF SetNode, Good
  <1>2. PICK D \in SUBSET issued : nodes \in [D -> Node]
    BY DEF TypeOK
  <1>3. nodes' \in [D -> Node] /\ DOMAIN nodes' = DOMAIN nodes
    BY <1>1, <1>2
  <1>4. TypeOK'
    BY <1>2, <1>3 DEF TypeOK, SetNode
  <1>5. GoodRows'
    BY <1>1, <1>3 DEF GoodRows
  <1> QED BY <1>4, <1>5

(* A row with the status and the switches of a good one is good.            *)
LEMMA SwitchGood ==
  ASSUME NEW node, Good(node),
         NEW next \in Node,
         \/ next.status = "unknown" /\ next.failures = 0 /\ next.enabled
         \/ next.status = "disabled" /\ ~next.enabled
         \/ next.status = "maintenance" /\ next.enabled /\ next.maintenance
  PROVE  Good(next)
  <1>1. FitsFlags(next)
    BY DEF FitsFlags
  <1>2. FitsFailures(next)
    BY DEF FitsFailures
  <1> QED BY <1>1, <1>2 DEF Good

(* The invariant holds at first ...                                         *)
LEMMA InitGood == Init => TypeOK /\ GoodRows
  <1> SUFFICES ASSUME Init PROVE TypeOK /\ GoodRows
    OBVIOUS
  <1>1. issued = {} /\ DOMAIN nodes = {} /\ nodes \in [issued -> Node]
    BY DEF Init
  <1>2. GoodRows
    BY <1>1 DEF GoodRows
  <1>3. nodes \in UNION {[D -> Node] : D \in SUBSET issued}
    BY <1>1
  <1>4. issued \in SUBSET NodeId /\ answers \in [NodeId -> BOOLEAN]
    BY <1>1 DEF Init
  <1>5. probe \in [Probe -> Probing \cup {Idle}]
    BY DEF Init
  <1> QED BY <1>2, <1>3, <1>4, <1>5 DEF TypeOK

(* ... and every step keeps it.                                             *)
LEMMA NextGood ==
  ASSUME TypeOK, GoodRows, [Next]_vars
  PROVE  TypeOK' /\ GoodRows'
  <1>0. ASSUME NEW n \in DOMAIN nodes
        PROVE  n \in NodeId /\ Good(nodes[n])
    BY <1>0 DEF TypeOK, GoodRows
  <1>1. ASSUME NEW n \in NodeId, CreateNode(n)
        PROVE  TypeOK' /\ GoodRows'
    <2>1. Good(NewNode)
      BY DEF NewNode, Good, FitsFlags, FitsFailures, Node, Statuses, OfflineAfter
    <2>2. /\ issued' = issued \cup {n} /\ issued' \subseteq NodeId
          /\ DOMAIN nodes \subseteq issued
          /\ nodes' = [m \in DOMAIN nodes \cup {n} |-> IF m = n THEN NewNode ELSE nodes[m]]
          /\ UNCHANGED <<answers, probe>>
      BY <1>1 DEF CreateNode, TypeOK
    <2>3. GoodRows'
      BY <1>0, <2>1, <2>2 DEF GoodRows
    <2>4. DOMAIN nodes' \in SUBSET issued' /\ nodes' \in [DOMAIN nodes' -> Node]
      BY <1>0, <2>1, <2>2 DEF Good
    <2> QED BY <2>2, <2>3, <2>4 DEF TypeOK
  <1>2. ASSUME NEW n \in NodeId, EnableNode(n) \/ DisableNode(n)
        PROVE  TypeOK' /\ GoodRows'
    <2> DEFINE on == Unknown([nodes[n] EXCEPT !.enabled = TRUE])
               off == [nodes[n] EXCEPT !.enabled = FALSE, !.status = "disabled"]
    <2>1. Good(nodes[n]) /\ nodes[n] \in Node
      BY <1>0, <1>2 DEF EnableNode, DisableNode, Good
    <2>2. /\ on \in Node
          /\ on.status = "unknown" /\ on.failures = 0 /\ on.enabled
      <3> DEFINE enabled == [nodes[n] EXCEPT !.enabled = TRUE]
      <3>1. enabled \in Node /\ enabled.enabled
        BY <2>1 DEF Node
      <3>2. on = [enabled EXCEPT !.status = "unknown", !.failures = 0]
        BY DEF Unknown
      <3>3. "unknown" \in Statuses
        BY DEF Statuses
      <3> HIDE DEF enabled, on
      <3> QED BY <3>1, <3>2, <3>3, ClearedIsNode, Zenon
    <2>3. off \in Node /\ off.status = "disabled" /\ ~off.enabled
      BY <2>1 DEF Node, Statuses
    <2>4. SetNode(n, on) \/ SetNode(n, off)
      BY <1>2 DEF EnableNode, DisableNode
    <2> HIDE DEF on, off
    <2> QED BY <2>1, <2>2, <2>3, <2>4, SwitchGood, SetNodeGood
  <1>3. ASSUME NEW n \in NodeId, NEW on \in BOOLEAN, SetMaintenance(n, on)
        PROVE  TypeOK' /\ GoodRows'
    <2> DEFINE node == [nodes[n] EXCEPT !.maintenance = on]
               next == IF ~node.enabled THEN [node EXCEPT !.status = "disabled"]
                       ELSE IF on THEN [node EXCEPT !.status = "maintenance"]
                       ELSE Unknown(node)
    <2>1. Good(nodes[n]) /\ nodes[n] \in Node
      BY <1>0, <1>3 DEF SetMaintenance, Good
    <2>2. node \in Node /\ node.maintenance = on
      BY <2>1 DEF Node
    <2>3. SetNode(n, next)
      BY <1>3 DEF SetMaintenance
    <2> HIDE DEF node
    <2>4. /\ next \in Node
          /\ \/ next.status = "unknown" /\ next.failures = 0 /\ next.enabled
             \/ next.status = "disabled" /\ ~next.enabled
             \/ next.status = "maintenance" /\ next.enabled /\ next.maintenance
      <3>1. CASE ~node.enabled
        BY <2>2, <3>1 DEF Node, Statuses
      <3>2. CASE node.enabled /\ on
        BY <2>2, <3>2 DEF Node, Statuses
      <3>3. CASE node.enabled /\ ~on
        <4>1. next = [node EXCEPT !.status = "unknown", !.failures = 0]
          BY <3>3 DEF Unknown
        <4>2. "unknown" \in Statuses
          BY DEF Statuses
        <4>3. /\ [node EXCEPT !.status = "unknown", !.failures = 0] \in Node
              /\ [node EXCEPT !.status = "unknown", !.failures = 0].status = "unknown"
              /\ [node EXCEPT !.status = "unknown", !.failures = 0].failures = 0
              /\ [node EXCEPT !.status = "unknown", !.failures = 0].enabled = node.enabled
          BY <2>2, <4>2, ClearedIsNode, Zenon
        <4> HIDE DEF next
        <4> QED BY <3>3, <4>1, <4>3
      <3> QED BY <2>2, <3>1, <3>2, <3>3 DEF Node
    <2> HIDE DEF next
    <2> QED BY <2>1, <2>3, <2>4, SwitchGood, SetNodeGood
  <1>4. ASSUME NEW n \in NodeId, DeleteNode(n)
        PROVE  TypeOK' /\ GoodRows'
    <2>1. /\ nodes' = [m \in DOMAIN nodes \ {n} |-> nodes[m]]
          /\ UNCHANGED <<issued, answers, probe>>
      BY <1>4 DEF DeleteNode
    <2>2. DOMAIN nodes' \in SUBSET issued' /\ nodes' \in [DOMAIN nodes' -> Node]
      BY <1>0, <2>1 DEF TypeOK, Good
    <2> QED BY <1>0, <2>1, <2>2 DEF TypeOK, GoodRows
  <1>5. ASSUME NEW p \in Probe, NEW n \in NodeId, StartProbe(p, n)
        PROVE  TypeOK' /\ GoodRows'
    BY <1>5 DEF StartProbe, TypeOK, GoodRows, Probing
  <1>6. ASSUME NEW p \in Probe, Hear(p)
        PROVE  TypeOK' /\ GoodRows'
    <2>1. probe[p] \in Probing
      BY <1>6 DEF Hear, TypeOK, Idle
    <2>2. [probe[p] EXCEPT !.phase = IF answers[probe[p].node] THEN "answered" ELSE "failed"] \in Probing
      BY <2>1 DEF Probing
    <2> QED BY <1>6, <2>2 DEF Hear, TypeOK, GoodRows
  <1>7. ASSUME NEW p \in Probe, Record(p)
        PROVE  TypeOK' /\ GoodRows'
    <2> DEFINE n == probe[p].node
               phase == probe[p].phase
    <2>1. phase \in {"held", "answered", "failed"}
      BY <1>7 DEF Record
    <2>2. /\ nodes' = [m \in DOMAIN nodes |-> IF m = n THEN AfterProbe(phase, nodes[m]) ELSE nodes[m]]
          /\ probe' = [probe EXCEPT ![p] = Idle]
          /\ UNCHANGED <<issued, answers>>
      BY <1>7 DEF Record
    <2> HIDE DEF n, phase
    <2>3. \A m \in DOMAIN nodes : Good(AfterProbe(phase, nodes[m]))
      BY <1>0, <2>1, AfterProbeGood
    <2>4. DOMAIN nodes' = DOMAIN nodes /\ \A m \in DOMAIN nodes' : Good(nodes'[m])
      BY <1>0, <2>2, <2>3
    <2>5. DOMAIN nodes' \in SUBSET issued' /\ nodes' \in [DOMAIN nodes' -> Node]
      <3>1. nodes' = [m \in DOMAIN nodes' |-> nodes'[m]]
        BY <2>2
      <3> QED BY <2>2, <2>4, <3>1 DEF TypeOK, Good
    <2> QED BY <2>2, <2>4, <2>5 DEF TypeOK, GoodRows
  <1>8. ASSUME \/ \E p \in Probe : RecordNotSaved(p)
               \/ Restart
               \/ \E n \in NodeId : AgentChanges(n)
               \/ UNCHANGED vars
        PROVE  TypeOK' /\ GoodRows'
    BY <1>8 DEF RecordNotSaved, Restart, AgentChanges, vars, TypeOK, GoodRows
  <1> QED BY <1>1, <1>2, <1>3, <1>4, <1>5, <1>6, <1>7, <1>8 DEF Next, AdminRequest

(* Every row keeps its type, in whatever order probes and requests come.    *)
THEOREM TypeCorrect == Spec => []TypeOK
  <1>1. Spec => [](TypeOK /\ GoodRows)
    BY InitGood, NextGood, PTL DEF Spec
  <1> QED BY <1>1, PTL

(* The status shown fits the switches: a late outcome of a probe (Record)   *)
(* never blames a node that is held meanwhile.                              *)
THEOREM StatusCorrect == Spec => []StatusFitsFlags
  <1>1. Spec => [](TypeOK /\ GoodRows)
    BY InitGood, NextGood, PTL DEF Spec
  <1>2. TypeOK /\ GoodRows => StatusFitsFlags
    BY GoodRowsFit
  <1> QED BY <1>1, <1>2, PTL

(* It also fits the failures counted, whatever order probes end in.         *)
THEOREM FailuresCorrect == Spec => []StatusFitsFailures
  <1>1. Spec => [](TypeOK /\ GoodRows)
    BY InitGood, NextGood, PTL DEF Spec
  <1>2. TypeOK /\ GoodRows => StatusFitsFailures
    BY GoodRowsFit
  <1> QED BY <1>1, <1>2, PTL
=============================================================================
