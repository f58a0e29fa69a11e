---------------------------- MODULE ControlPlane ----------------------------
(***************************************************************************)
(* The panel's transactional control plane (internal/panel).               *)
(*                                                                         *)
(* Every HTTP request runs in a goroutine of its own.  A request that      *)
(* changes an inbound, outbound, group or routing rule                     *)
(*   1. validates and writes the state inside one Store.Update,            *)
(*   2. deploys the affected nodes, outside the store's lock,              *)
(*   3. if a deployment fails, undoes its change in a second Update that   *)
(*      validates nothing, and deploys again.                              *)
(* Other requests run between 1 and 3.  The runtime on the nodes is not    *)
(* modelled here: a deployment is its outcome.                             *)
(*                                                                         *)
(* job[r] is the goroutine of request r: the local variables of its        *)
(* function.  fresh, prev and stale are history: they record who has       *)
(* written since whom, and no guard reads them.                            *)
(***************************************************************************)
EXTENDS PanelState

CONSTANT Req                    \* concurrent request slots

CONSTANT SavedStates            \* what OpenStore may find on disk

ASSUME SavedStatesAssumption ==
  \A s \in SavedStates : s \in Store /\ Integrity(s)

VARIABLES
  st,      \* Store.st
  job,     \* the request each slot is serving
  issued,  \* every identifier randomHex(12) has handed out
  fresh,   \* requests since whose Read or Update nobody else has written
  prev,    \* the state before the Update of the deploying request in fresh
  stale    \* an Update has been built from a state that had changed

history == <<fresh, prev, stale>>
vars == <<st, job, issued, history>>

Tables == {"inbounds", "outbounds", "groups", "rules"}

IdsOf(tab) == CASE tab = "inbounds"  -> InboundId
                [] tab = "outbounds" -> OutboundId
                [] tab = "groups"    -> GroupId
                [] tab = "rules"     -> RuleId

RowsOf(tab) == CASE tab = "inbounds"  -> InboundRow
                 [] tab = "outbounds" -> OutboundRow
                 [] tab = "groups"    -> GroupRow
                 [] tab = "rules"     -> RuleRow

Ids == NodeId \cup UserId \cup InboundId \cup OutboundId \cup GroupId
         \cup RuleId \cup ClientId

(* A request between its Update and the end of its deployment. *)
DeployingOn(tab) ==
  [how : {"create", "update", "toggle", "delete"}, tab : {tab}, id : IdsOf(tab),
   before : RowsOf(tab), nodes : SUBSET NodeId, clients : Table(ClientId, ClientRow)]

Deploying == DeployingOn("inbounds") \cup DeployingOn("outbounds")
               \cup DeployingOn("groups") \cup DeployingOn("rules")

(* attachUserToInbound between its Read and its Update. *)
Attaching == [how : {"attach"}, inbound : InboundId, user : UserId]

Idle == [how |-> "idle"]

TypeOK ==
  /\ st \in Store
  /\ job \in [Req -> Deploying \cup Attaching \cup {Idle}]
  /\ issued \subseteq Ids
  /\ fresh \subseteq Req
  /\ prev \in Store
  /\ stale \in BOOLEAN

IdsIn(s) ==
  DOMAIN s.nodes \cup s.users \cup DOMAIN s.inbounds \cup DOMAIN s.outbounds
    \cup DOMAIN s.groups \cup DOMAIN s.rules \cup DOMAIN s.clients

Init ==
  /\ st \in SavedStates
  /\ job = [r \in Req |-> Idle]
  /\ issued = IdsIn(st)
  /\ fresh = {}
  /\ prev = EmptyStore
  /\ stale = FALSE

-----------------------------------------------------------------------------
(* Store.Update by a request that has nothing to undo later. *)
Write(next) ==
  /\ st' = next
  /\ fresh' = {}
  /\ prev' = EmptyStore
  /\ UNCHANGED <<job, stale>>

(* Slip: collects the row's own identifier where its node's is meant.       *)
DeployOrderOfIds(tab, id, before, next) == {before.node} \cup ({id} \cap DOMAIN next[tab])

(* The row's old and new node (deleting or creating, there is just one).    *)
DeployOrder(tab, id, before, next) ==
  {before.node} \cup {next[tab][x].node : x \in {id} \cap DOMAIN next[tab]}

(* The first Update of a transaction: write, and keep what the deployments  *)
(* and the undo need.  Deleting an inbound keeps the whole client list.     *)
Begin(r, how, tab, id, before, next) ==
  /\ job[r] = Idle
  /\ st' = next
  /\ job' = [job EXCEPT ![r] =
       [how |-> how, tab |-> tab, id |-> id, before |-> before,
        nodes |-> DeployOrder(tab, id, before, next),
        clients |-> IF how = "delete" /\ tab = "inbounds" THEN st.clients ELSE EmptyTable]]
  /\ fresh' = {r}
  /\ prev' = st
  /\ stale' = stale

Fresh(id) == id \notin issued /\ issued' = issued \cup {id}

SetRow(tab, id, row) == [st EXCEPT ![tab] = Put(@, id, row)]

(* Inbounds *)

CreateInbound(r, id, row) ==
  /\ row.enabled
  /\ validateInboundTargetSpec(st, None, row)
  /\ Fresh(id)
  /\ Begin(r, "create", "inbounds", id, row, SetRow("inbounds", id, row))

UpdateInbound(r, id, row) ==
  /\ id \in DOMAIN st.inbounds
  /\ validateInboundTargetSpec(st, id, row)
  /\ validateInboundReferenceChange(st, id, row.node, row.enabled, FALSE)
  /\ Begin(r, "update", "inbounds", id, st.inbounds[id], SetRow("inbounds", id, row))
  /\ UNCHANGED issued

SetInboundEnabled(r, id, enabled) ==
  /\ id \in DOMAIN st.inbounds
  /\ LET in == st.inbounds[id] IN
     /\ enabled => validateInboundTarget(st, id, in)
     /\ validateInboundReferenceChange(st, id, in.node, enabled, FALSE)
     /\ Begin(r, "update", "inbounds", id, in,
              SetRow("inbounds", id, [in EXCEPT !.enabled = enabled]))
  /\ UNCHANGED issued

(* Slip: the clients of the deleted inbound stay.                           *)
DeleteInboundOnly(r, id) ==
  /\ id \in DOMAIN st.inbounds
  /\ validateInboundReferenceChange(st, id, st.inbounds[id].node, FALSE, TRUE)
  /\ Begin(r, "delete", "inbounds", id, st.inbounds[id], [st EXCEPT !.inbounds = Drop(@, id)])
  /\ UNCHANGED issued

DeleteInbound(r, id) ==
  /\ id \in DOMAIN st.inbounds
  /\ validateInboundReferenceChange(st, id, st.inbounds[id].node, FALSE, TRUE)
  /\ LET OfAnother(c) == c.inbound # id IN
     Begin(r, "delete", "inbounds", id, st.inbounds[id],
           [st EXCEPT !.inbounds = Drop(@, id), !.clients = Keep(@, OfAnother)])
  /\ UNCHANGED issued

(* Outbounds *)

CreateOutbound(r, id, row) ==
  /\ row.enabled
  /\ validateOutboundTargetSpec(st, None, row)
  /\ Fresh(id)
  /\ Begin(r, "create", "outbounds", id, row, SetRow("outbounds", id, row))

UpdateOutbound(r, id, row) ==
  /\ id \in DOMAIN st.outbounds
  /\ validateOutboundTargetSpec(st, id, row)
  /\ validateOutboundGroupReferencesForChange(st, id, row.node, row.enabled)
  /\ Begin(r, "update", "outbounds", id, st.outbounds[id], SetRow("outbounds", id, row))
  /\ UNCHANGED issued

SetOutboundEnabled(r, id, enabled) ==
  /\ id \in DOMAIN st.outbounds
  /\ LET out == st.outbounds[id] IN
     /\ enabled => validateOutboundTargetSpec(st, id, out)
     /\ ~enabled =>
          /\ \A k \in DOMAIN st.rules : st.rules[k].enabled => st.rules[k].outbound # id
          /\ validateOutboundGroupReferencesForChange(st, id, out.node, FALSE)
     /\ Begin(r, "toggle", "outbounds", id, out,
              SetRow("outbounds", id, [out EXCEPT !.enabled = enabled]))
  /\ UNCHANGED issued

DeleteOutbound(r, id) ==
  /\ id \in DOMAIN st.outbounds
  /\ \A k \in DOMAIN st.rules : st.rules[k].outbound # id
  /\ validateOutboundGroupReferencesForChange(st, id, st.outbounds[id].node, FALSE)
  /\ Begin(r, "delete", "outbounds", id, st.outbounds[id],
           [st EXCEPT !.outbounds = Drop(@, id)])
  /\ UNCHANGED issued

(* Outbound groups *)

CreateGroup(r, id, row) ==
  /\ row.enabled
  /\ normalizeOutboundGroupInput(row)
  /\ validateOutboundGroupSpec(st, id, row)
  /\ Fresh(id)
  /\ Begin(r, "create", "groups", id, row, SetRow("groups", id, row))

UpdateGroup(r, id, row) ==
  /\ id \in DOMAIN st.groups
  /\ normalizeOutboundGroupInput(row)
  /\ row.node # st.groups[id].node => ~outboundGroupReferencedByRouting(st, id, FALSE)
  /\ ~row.enabled => ~outboundGroupReferencedByRouting(st, id, TRUE)
  /\ validateOutboundGroupSpec(st, id, row)
  /\ Begin(r, "update", "groups", id, st.groups[id], SetRow("groups", id, row))
  /\ UNCHANGED issued

DeleteGroup(r, id) ==
  /\ id \in DOMAIN st.groups
  /\ ~outboundGroupReferencedByRouting(st, id, FALSE)
  /\ Begin(r, "delete", "groups", id, st.groups[id], [st EXCEPT !.groups = Drop(@, id)])
  /\ UNCHANGED issued

(* Routing rules *)

CreateRule(r, id, row) ==
  /\ row.enabled
  /\ normalizeRoutingRule(row)
  /\ validateRoutingReferences(st, row)
  /\ Fresh(id)
  /\ Begin(r, "create", "rules", id, row, SetRow("rules", id, row))

UpdateRule(r, id, row) ==
  /\ id \in DOMAIN st.rules
  /\ normalizeRoutingRule(row)
  /\ validateRoutingReferences(st, row)
  /\ Begin(r, "update", "rules", id, st.rules[id], SetRow("rules", id, row))
  /\ UNCHANGED issued

DeleteRule(r, id) ==
  /\ id \in DOMAIN st.rules
  /\ Begin(r, "delete", "rules", id, st.rules[id], [st EXCEPT !.rules = Drop(@, id)])
  /\ UNCHANGED issued

-----------------------------------------------------------------------------
(* The end of a transaction. *)

(* Slips in the second Update: the clients of a deleted inbound are not put *)
(* back; the created inbound is looked up by name instead of identifier;    *)
(* a toggle is undone by flipping the flag again.                           *)
UndoWithoutClients(s, j) ==
  CASE j.how = "create" -> [s EXCEPT ![j.tab] = Drop(@, j.id)]
    [] j.how = "delete" -> [s EXCEPT ![j.tab] = Put(@, j.id, j.before)]
    [] OTHER -> IF j.id \in DOMAIN s[j.tab] THEN [s EXCEPT ![j.tab] = Put(@, j.id, j.before)] ELSE s

UndoByName(s, j) ==
  LET OtherName(row) == row.name # j.before.name IN
  IF j.how = "create" THEN [s EXCEPT ![j.tab] = Keep(@, OtherName)] ELSE UndoWithoutClients(s, j)

UndoByFlipping(s, j) ==
  IF j.how = "toggle" /\ j.id \in DOMAIN s.outbounds
  THEN [s EXCEPT !.outbounds[j.id].enabled = ~@]
  ELSE UndoWithoutClients(s, j)

(* The state after the second Update: j's change taken back, whatever the   *)
(* others have done since.  The row is put back without validation; undoing *)
(* the deletion of an inbound also puts back the whole client list it saw.  *)
Undo(s, j) ==
  LET present == j.id \in DOMAIN s[j.tab] IN
  CASE j.how = "create" -> [s EXCEPT ![j.tab] = Drop(@, j.id)]
    [] j.how = "update" -> IF present THEN [s EXCEPT ![j.tab] = Put(@, j.id, j.before)]
                                      ELSE s
    [] j.how = "toggle" ->
         IF present
         THEN [s EXCEPT ![j.tab] = Put(@, j.id, [@[j.id] EXCEPT !.enabled = j.before.enabled])]
         ELSE s
    [] j.how = "delete" ->
         [s EXCEPT ![j.tab] = IF present THEN @ ELSE Put(@, j.id, j.before),
                   !.clients = IF j.tab = "inbounds" THEN j.clients ELSE @]

(* The request ends without writing again. *)
Leave(r) ==
  /\ job' = [job EXCEPT ![r] = Idle]
  /\ fresh' = fresh \ {r}
  /\ prev' = IF r \in fresh THEN EmptyStore ELSE prev

(* The request ends with an Update that rests on what it saw earlier. *)
WriteBack(r) ==
  /\ job' = [job EXCEPT ![r] = Idle]
  /\ stale' = (stale \/ r \notin fresh)
  /\ fresh' = {}
  /\ prev' = EmptyStore

IsDeploying(r) == job[r].how \in {"create", "update", "toggle", "delete"}

(* Every deployment succeeds; a node the panel no longer knows cannot. *)
DeploySucceeds(r) ==
  /\ IsDeploying(r)
  /\ job[r].nodes \subseteq DOMAIN st.nodes
  /\ Leave(r)
  /\ UNCHANGED <<st, issued, stale>>

(* A deployment fails and the undoing Update is saved. *)
RollBack(r) ==
  /\ IsDeploying(r)
  /\ st' = Undo(st, job[r])
  /\ WriteBack(r)
  /\ UNCHANGED issued

(* A deployment fails and the undoing Update cannot be saved: the change    *)
(* stays.                                                                   *)
RollBackNotSaved(r) ==
  /\ IsDeploying(r)
  /\ Leave(r)
  /\ UNCHANGED <<st, issued, stale>>

-----------------------------------------------------------------------------
(* Requests on nodes, users and attachments.                                *)

CreateNode(n) ==
  /\ Fresh(n)
  /\ Write([st EXCEPT !.nodes = Put(@, n, [usable |-> TRUE])])

(* enable, disable, and maintenance on or off                               *)
SetNodeUsable(n, on) ==
  /\ n \in DOMAIN st.nodes
  /\ Write([st EXCEPT !.nodes[n].usable = on])
  /\ UNCHANGED issued

DeleteNode(n) ==
  /\ n \in DOMAIN st.nodes
  /\ validateNodeDeleteReferences(st, n)
  /\ Write([st EXCEPT !.nodes = Drop(@, n)])
  /\ UNCHANGED issued

CreateUser(u) == Fresh(u) /\ Write([st EXCEPT !.users = @ \cup {u}])

DeleteUser(u) ==
  /\ u \in st.users
  /\ LET OfAnother(c) == c.user # u IN
     Write([st EXCEPT !.users = @ \ {u},
                      !.clients = Keep(@, OfAnother),
                      !.rules = [k \in DOMAIN st.rules |->
                                   [st.rules[k] EXCEPT !.users = @ \ {u}]]])
  /\ UNCHANGED issued

(* attachUserToInbound checks in a Read and appends in a later Update. *)
AttachCheck(r, i, u) ==
  /\ job[r] = Idle
  /\ i \in DOMAIN st.inbounds
  /\ u \in st.users
  /\ \A c \in DOMAIN st.clients : st.clients[c] # [inbound |-> i, user |-> u]
  /\ job' = [job EXCEPT ![r] = [how |-> "attach", inbound |-> i, user |-> u]]
  /\ fresh' = fresh \cup {r}
  /\ UNCHANGED <<st, issued, prev, stale>>

AttachAppend(r, c) ==
  /\ job[r].how = "attach"
  /\ Fresh(c)
  /\ st' = [st EXCEPT !.clients =
              Put(@, c, [inbound |-> job[r].inbound, user |-> job[r].user])]
  /\ WriteBack(r)

Detach(i, u) ==
  /\ i \in DOMAIN st.inbounds
  /\ LET Other(c) == c # [inbound |-> i, user |-> u] IN
     Write([st EXCEPT !.clients = Keep(@, Other)])
  /\ UNCHANGED issued

-----------------------------------------------------------------------------
InboundRequest(r) ==
  \E id \in InboundId :
    \/ \E row \in InboundRow : CreateInbound(r, id, row) \/ UpdateInbound(r, id, row)
    \/ \E enabled \in BOOLEAN : SetInboundEnabled(r, id, enabled)
    \/ DeleteInbound(r, id)

OutboundRequest(r) ==
  \E id \in OutboundId :
    \/ \E row \in OutboundRow : CreateOutbound(r, id, row) \/ UpdateOutbound(r, id, row)
    \/ \E enabled \in BOOLEAN : SetOutboundEnabled(r, id, enabled)
    \/ DeleteOutbound(r, id)

GroupRequest(r) ==
  \E id \in GroupId :
    \/ \E row \in GroupRow : CreateGroup(r, id, row) \/ UpdateGroup(r, id, row)
    \/ DeleteGroup(r, id)

RuleRequest(r) ==
  \E id \in RuleId :
    \/ \E row \in RuleRow : CreateRule(r, id, row) \/ UpdateRule(r, id, row)
    \/ DeleteRule(r, id)

Finish(r) == DeploySucceeds(r) \/ RollBack(r) \/ RollBackNotSaved(r)

NodeRequest ==
  \E n \in NodeId :
    \/ CreateNode(n)
    \/ DeleteNode(n)
    \/ \E on \in BOOLEAN : SetNodeUsable(n, on)

AccessRequest ==
  \E u \in UserId :
    \/ CreateUser(u)
    \/ DeleteUser(u)
    \/ \E i \in InboundId : Detach(i, u)

Attach(r) ==
  \/ \E i \in InboundId, u \in UserId : AttachCheck(r, i, u)
  \/ \E c \in ClientId : AttachAppend(r, c)

Next ==
  \/ NodeRequest
  \/ AccessRequest
  \/ \E r \in Req : \/ InboundRequest(r)
                    \/ OutboundRequest(r)
                    \/ GroupRequest(r)
                    \/ RuleRequest(r)
                    \/ Attach(r)
                    \/ Finish(r)

Spec == Init /\ [][Next]_vars

-----------------------------------------------------------------------------
(* The validators keep every reference resolvable and every unique field    *)
(* unique, across all interleavings, as long as no Update has been built on *)
(* a state another request changed meanwhile (a rollback, or an attachment  *)
(* after its check).                                                        *)
IntegrityUnlessStale == ~stale => Integrity(st)

(* A rollback that nobody interfered with takes the state back to exactly   *)
(* what it was before the transaction (the handlers answer "state rolled    *)
(* back"), the clients of a deleted inbound included.                       *)
RollBackRestores ==
  [][\A r \in Req : RollBack(r) /\ r \in fresh => st' = prev]_vars

(* A rollback never touches another request's rows, whatever the            *)
(* interference, except for the client list of a deleted inbound, which     *)
(* deleteInboundTransactional puts back whole.                              *)
RollBackIsLocal ==
  [][\A r \in Req : RollBack(r) =>
       /\ st'.nodes = st.nodes /\ st'.users = st.users
       /\ \A tab \in Tables : \A id \in (DOMAIN st[tab] \cup DOMAIN st'[tab]) :
            \/ tab = job[r].tab /\ id = job[r].id
            \/ /\ id \in DOMAIN st[tab] \cap DOMAIN st'[tab]
               /\ st'[tab][id] = st[tab][id]
       /\ st'.clients # st.clients => job[r].how = "delete" /\ job[r].tab = "inbounds"]_vars

-----------------------------------------------------------------------------
(* The inductive invariant behind these properties. *)

(* Nothing in the state or in a pending undo can meet a new identifier. *)
IdsIssued ==
  /\ IdsIn(st) \subseteq issued
  /\ \A r \in Req : IsDeploying(r) => {job[r].id} \cup DOMAIN job[r].clients \subseteq issued

(* Only the last writer may still be deploying undisturbed, and its undo    *)
(* gives back the state before it.                                          *)
UndoRestores ==
  \A r \in fresh : IsDeploying(r) =>
    /\ Undo(st, job[r]) = prev
    /\ \A q \in fresh : IsDeploying(q) => q = r

(* What an undisturbed request has checked still holds. *)
ChecksHold ==
  ~stale =>
    /\ Integrity(st)
    /\ \A r \in fresh :
         /\ IsDeploying(r) => Integrity(prev)
         /\ job[r].how = "attach" =>
              /\ job[r].inbound \in DOMAIN st.inbounds
              /\ job[r].user \in st.users
              /\ \A c \in DOMAIN st.clients :
                   st.clients[c] # [inbound |-> job[r].inbound, user |-> job[r].user]

(* The conjunction of these is inductive: a rollback keeps Integrity        *)
(* because UndoRestores says which state it leads to.                       *)
Inv == TypeOK /\ IdsIssued /\ UndoRestores /\ ChecksHold

-----------------------------------------------------------------------------
(* What the tests promise and the code does not keep.                       *)

(* Two inbounds of a node never listen on one address and port              *)
(* (TestValidateInboundTarget); restoreInboundSnapshot takes back a port    *)
(* another inbound has been given meanwhile.                                *)
ListenPortsDistinct == InboundSlotsUnique(st)
=============================================================================
