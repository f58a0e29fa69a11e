----------------------------- MODULE PanelState -----------------------------
(***************************************************************************)
(* The part of the panel's State (internal/panel/models.go) that the       *)
(* control-plane transactions read and write, the validators that guard    *)
(* them, and the referential integrity those validators are there to keep. *)
(*                                                                         *)
(* A table is a function from the identifiers in use to rows; the order of *)
(* a slice, names' spelling, credentials, timestamps and status texts are  *)
(* abstracted.  A Slot stands for a listen address with its port, a Tag    *)
(* for an outbound's tag and name (both are compared in the same way).     *)
(***************************************************************************)
EXTENDS Naturals

CONSTANTS NodeId, UserId, InboundId, OutboundId, GroupId, RuleId, ClientId,
          Name, Slot, Tag

None == ""                      \* the empty identifier
Builtin == {"builtin"}          \* direct and blocked: always there, on every node

ASSUME IdAssumption ==
  /\ None \notin InboundId \cup OutboundId \cup GroupId
  /\ Builtin \cap OutboundId = {}
  /\ OutboundId \cap GroupId = {}

-----------------------------------------------------------------------------
(* Rows and tables. *)

NodeRow     == [usable : BOOLEAN]   \* enabled and not in maintenance
InboundRow  == [node : NodeId, name : Name, slot : Slot, enabled : BOOLEAN]
OutboundRow == [node : NodeId, tag : Tag, enabled : BOOLEAN, blackhole : BOOLEAN]
GroupRow    == [node : NodeId, name : Name, enabled : BOOLEAN,
                members : SUBSET OutboundId, fallback : OutboundId \cup Builtin]
RuleRow     == [node : NodeId, enabled : BOOLEAN,
                outbound : OutboundId \cup Builtin \cup {None},
                group : GroupId \cup {None},
                inbounds : SUBSET InboundId, users : SUBSET UserId]
ClientRow   == [inbound : InboundId, user : UserId]

Table(Id, Row) == UNION {[D -> Row] : D \in SUBSET Id}

Store == [nodes     : Table(NodeId, NodeRow),
          users     : SUBSET UserId,
          inbounds  : Table(InboundId, InboundRow),
          outbounds : Table(OutboundId, OutboundRow),
          groups    : Table(GroupId, GroupRow),
          rules     : Table(RuleId, RuleRow),
          clients   : Table(ClientId, ClientRow)]

EmptyTable == [x \in {} |-> x]

EmptyStore == [nodes |-> EmptyTable, users |-> {}, inbounds |-> EmptyTable,
               outbounds |-> EmptyTable, groups |-> EmptyTable,
               rules |-> EmptyTable, clients |-> EmptyTable]

Put(table, id, row) ==
  [x \in DOMAIN table \cup {id} |-> IF x = id THEN row ELSE table[x]]

Drop(table, id) == [x \in DOMAIN table \ {id} |-> table[x]]

(* The rows of a table that satisfy a predicate: Go's filtering loops. *)
Keep(table, Good(_)) ==
  [x \in {y \in DOMAIN table : Good(table[y])} |-> table[x]]

-----------------------------------------------------------------------------
(* Validators: each is the nil-error case of the Go function it names. *)

(* A node that may receive configuration: it exists, is enabled and is not  *)
(* in maintenance.  No validator tells the two flags apart.                 *)
NodeUsable(s, n) ==
  /\ n \in DOMAIN s.nodes
  /\ s.nodes[n].usable

validateInboundTarget(s, id, row) ==
  /\ NodeUsable(s, row.node)
  /\ \A x \in DOMAIN s.inbounds \ {id} :
       s.inbounds[x].node = row.node => s.inbounds[x].slot # row.slot

validateInboundTargetSpec(s, id, row) ==
  /\ NodeUsable(s, row.node)
  /\ \A x \in DOMAIN s.inbounds \ {id} :
       /\ s.inbounds[x].name # row.name
       /\ s.inbounds[x].node = row.node => s.inbounds[x].slot # row.slot

(* Slip: the node the rule is on is not compared.                           *)
validateInboundReferenceChangeAnyNode(s, id, newNode, enabled, deleting) ==
  \A k \in DOMAIN s.rules :
    id \in s.rules[k].inbounds => ~deleting /\ (s.rules[k].enabled => enabled)

validateInboundReferenceChange(s, id, newNode, enabled, deleting) ==
  \A k \in DOMAIN s.rules :
    id \in s.rules[k].inbounds =>
      /\ ~deleting
      /\ s.rules[k].node = newNode
      /\ s.rules[k].enabled => enabled

validateOutboundTargetSpec(s, id, row) ==
  /\ NodeUsable(s, row.node)
  /\ \A x \in DOMAIN s.outbounds \ {id} :
       s.outbounds[x].node = row.node => s.outbounds[x].tag # row.tag

(* Slip: a group's custom fallback is forgotten.                            *)
validateOutboundGroupMembersForChange(s, id, newNode, enabled) ==
  \A g \in DOMAIN s.groups :
    id \in s.groups[g].members => enabled /\ s.groups[g].node = newNode

validateOutboundGroupReferencesForChange(s, id, newNode, enabled) ==
  \A g \in DOMAIN s.groups :
    id \in s.groups[g].members \cup {s.groups[g].fallback} =>
      enabled /\ s.groups[g].node = newNode

(* Slip: disabled rules never count.                                        *)
outboundGroupReferencedByEnabled(s, g, enabledOnly) ==
  \E k \in DOMAIN s.rules : s.rules[k].group = g /\ s.rules[k].enabled

outboundGroupReferencedByRouting(s, g, enabledOnly) ==
  \E k \in DOMAIN s.rules :
    s.rules[k].group = g /\ (enabledOnly => s.rules[k].enabled)

(* An outbound a group or a rule on node n may point at. *)
OutboundUsable(s, o, n) ==
  /\ o \in DOMAIN s.outbounds
  /\ s.outbounds[o].node = n
  /\ s.outbounds[o].enabled

validateOutboundGroupSpec(s, id, row) ==
  /\ NodeUsable(s, row.node)
  /\ \A g \in DOMAIN s.groups \ {id} :
       s.groups[g].node = row.node => s.groups[g].name # row.name
  /\ \A o \in row.members :
       OutboundUsable(s, o, row.node) /\ ~s.outbounds[o].blackhole
  /\ row.fallback \notin Builtin =>
       row.fallback \notin row.members /\ OutboundUsable(s, row.fallback, row.node)

validateRoutingReferences(s, row) ==
  /\ row.node \in DOMAIN s.nodes
  /\ row.group # None =>
       /\ row.group \in DOMAIN s.groups
       /\ s.groups[row.group].node = row.node
       /\ s.groups[row.group].enabled
  /\ row.group = None /\ row.outbound \notin Builtin =>
       OutboundUsable(s, row.outbound, row.node)
  /\ \A i \in row.inbounds : i \in DOMAIN s.inbounds /\ s.inbounds[i].node = row.node
  /\ row.users \subseteq s.users

(* The part of normalizeRoutingRule and normalizeOutboundGroupInput that is *)
(* about references: exactly one target, at least one member.              *)
normalizeRoutingRule(row) == (row.outbound = None) # (row.group = None)
normalizeOutboundGroupInput(row) == row.members # {}

validateNodeDeleteReferences(s, n) ==
  /\ \A x \in DOMAIN s.inbounds  : s.inbounds[x].node # n
  /\ \A x \in DOMAIN s.outbounds : s.outbounds[x].node # n
  /\ \A x \in DOMAIN s.groups    : s.groups[x].node # n
  /\ \A x \in DOMAIN s.rules     : s.rules[x].node # n

-----------------------------------------------------------------------------
(* Referential integrity: what the validators are there to keep. *)

NodesResolve(s) ==
  /\ \A x \in DOMAIN s.inbounds  : s.inbounds[x].node \in DOMAIN s.nodes
  /\ \A x \in DOMAIN s.outbounds : s.outbounds[x].node \in DOMAIN s.nodes
  /\ \A x \in DOMAIN s.groups    : s.groups[x].node \in DOMAIN s.nodes
  /\ \A x \in DOMAIN s.rules     : s.rules[x].node \in DOMAIN s.nodes

InboundSlotsUnique(s) ==
  \A x, y \in DOMAIN s.inbounds :
    x # y /\ s.inbounds[x].node = s.inbounds[y].node =>
      s.inbounds[x].slot # s.inbounds[y].slot

InboundNamesUnique(s) ==
  \A x, y \in DOMAIN s.inbounds : x # y => s.inbounds[x].name # s.inbounds[y].name

OutboundTagsUnique(s) ==
  \A x, y \in DOMAIN s.outbounds :
    x # y /\ s.outbounds[x].node = s.outbounds[y].node =>
      s.outbounds[x].tag # s.outbounds[y].tag

GroupNamesUnique(s) ==
  \A x, y \in DOMAIN s.groups :
    x # y /\ s.groups[x].node = s.groups[y].node =>
      s.groups[x].name # s.groups[y].name

(* A group's members and custom fallback exist on its node and are enabled. *)
GroupMembersResolve(s) ==
  \A g \in DOMAIN s.groups :
    \A o \in (s.groups[g].members \cup {s.groups[g].fallback}) \ Builtin :
      OutboundUsable(s, o, s.groups[g].node)

RuleInboundsResolve(s) ==
  \A k \in DOMAIN s.rules : \A i \in s.rules[k].inbounds :
    i \in DOMAIN s.inbounds /\ s.inbounds[i].node = s.rules[k].node

(* A rule's outbound exists; its group exists on its node and is enabled if *)
(* the rule is.                                                             *)
RuleTargetsResolve(s) ==
  \A k \in DOMAIN s.rules :
    LET rule == s.rules[k] IN
    /\ rule.outbound \in DOMAIN s.outbounds \cup Builtin \cup {None}
    /\ rule.group # None =>
         /\ rule.group \in DOMAIN s.groups
         /\ s.groups[rule.group].node = rule.node
         /\ rule.enabled => s.groups[rule.group].enabled

RuleUsersResolve(s) == \A k \in DOMAIN s.rules : s.rules[k].users \subseteq s.users

ClientsResolve(s) ==
  \A c \in DOMAIN s.clients :
    s.clients[c].inbound \in DOMAIN s.inbounds /\ s.clients[c].user \in s.users

(* A user is attached to an inbound at most once. *)
ClientsUnique(s) ==
  \A c, d \in DOMAIN s.clients : s.clients[c] = s.clients[d] => c = d

Integrity(s) ==
  /\ NodesResolve(s)
  /\ InboundSlotsUnique(s)
  /\ InboundNamesUnique(s)
  /\ OutboundTagsUnique(s)
  /\ GroupNamesUnique(s)
  /\ GroupMembersResolve(s)
  /\ RuleInboundsResolve(s)
  /\ RuleTargetsResolve(s)
  /\ RuleUsersResolve(s)
  /\ ClientsResolve(s)
  /\ ClientsUnique(s)
=============================================================================
