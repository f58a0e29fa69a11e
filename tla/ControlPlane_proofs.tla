------------------------- MODULE ControlPlane_proofs -------------------------
(***************************************************************************)
(* ControlPlane keeps its types, undoes exactly what it did, and keeps the *)
(* references and unique fields of the state, for any number of requests   *)
(* and any identifiers.  TLC checks the same formulas on the instances of  *)
(* MCControlPlane.                                                         *)
(***************************************************************************)
EXTENDS ControlPlane, TLAPS

-----------------------------------------------------------------------------
(* Tables. *)

(* What membership in a table set says. *)
LEMMA TableType ==
  ASSUME NEW Id, NEW Row, NEW t \in Table(Id, Row)
  PROVE  /\ DOMAIN t \subseteq Id
         /\ \A x \in DOMAIN t : t[x] \in Row
         /\ t = [x \in DOMAIN t |-> t[x]]
  BY DEF Table

(* How to show it. *)
LEMMA TableIntro ==
  ASSUME NEW Id, NEW Row, NEW D \in SUBSET Id, NEW t \in [D -> Row]
  PROVE  t \in Table(Id, Row)
  BY DEF Table

(* Appending or overwriting a row. *)
LEMMA PutType ==
  ASSUME NEW Id, NEW Row, NEW t \in Table(Id, Row), NEW id \in Id, NEW row \in Row
  PROVE  Put(t, id, row) \in Table(Id, Row)
  <1>1. DOMAIN t \cup {id} \in SUBSET Id
    BY TableType
  <1>2. Put(t, id, row) \in [DOMAIN t \cup {id} -> Row]
    BY TableType DEF Put
  <1> QED BY <1>1, <1>2, TableIntro

(* Keeping only some rows: deleteByID and the filtering loops. *)
LEMMA RestrictType ==
  ASSUME NEW Id, NEW Row, NEW t \in Table(Id, Row), NEW D \in SUBSET DOMAIN t
  PROVE  [x \in D |-> t[x]] \in Table(Id, Row)
  <1>1. D \in SUBSET Id
    BY TableType
  <1>2. [x \in D |-> t[x]] \in [D -> Row]
    BY TableType
  <1> QED BY <1>1, <1>2, TableIntro

(* deleteByID. *)
LEMMA DropType ==
  ASSUME NEW Id, NEW Row, NEW t \in Table(Id, Row), NEW id
  PROVE  Drop(t, id) \in Table(Id, Row)
  <1>1. DOMAIN t \ {id} \in SUBSET DOMAIN t
    OBVIOUS
  <1> QED BY <1>1, RestrictType DEF Drop

(* Undoing an append, an overwrite and a deletion gives the table back. *)
LEMMA TableUndo ==
  ASSUME NEW Id, NEW Row, NEW t \in Table(Id, Row), NEW id, NEW row
  PROVE  /\ id \notin DOMAIN t => Drop(Put(t, id, row), id) = t
         /\ id \in DOMAIN t => /\ id \in DOMAIN Put(t, id, row)
                               /\ Put(t, id, row)[id] = row
                               /\ Put(Put(t, id, row), id, t[id]) = t
                               /\ id \notin DOMAIN Drop(t, id)
                               /\ Put(Drop(t, id), id, t[id]) = t
  <1>1. t = [x \in DOMAIN t |-> t[x]]
    BY TableType
  <1>2. ASSUME id \notin DOMAIN t
        PROVE  Drop(Put(t, id, row), id) = t
    <2>1. DOMAIN Put(t, id, row) \ {id} = DOMAIN t
      BY <1>2 DEF Put
    <2> QED BY <1>1, <1>2, <2>1 DEF Put, Drop
  <1>3. ASSUME id \in DOMAIN t
        PROVE  /\ id \in DOMAIN Put(t, id, row)
               /\ Put(t, id, row)[id] = row
               /\ Put(Put(t, id, row), id, t[id]) = t
               /\ id \notin DOMAIN Drop(t, id)
               /\ Put(Drop(t, id), id, t[id]) = t
    <2>1. /\ DOMAIN Put(t, id, row) = DOMAIN t
          /\ DOMAIN Drop(t, id) \cup {id} = DOMAIN t
      BY <1>3 DEF Put, Drop
    <2> QED BY <1>1, <1>3, <2>1 DEF Put, Drop
  <1> QED BY <1>2, <1>3

(* The same at the level of the store. *)
LEMMA StoreTables ==
  ASSUME NEW s \in Store, NEW tab \in Tables
  PROVE  s[tab] \in Table(IdsOf(tab), RowsOf(tab))
  BY DEF Store, Tables, IdsOf, RowsOf

LEMMA StoreWith ==
  ASSUME NEW s \in Store, NEW tab \in Tables, NEW t \in Table(IdsOf(tab), RowsOf(tab))
  PROVE  [s EXCEPT ![tab] = t] \in Store
  BY DEF Store, Tables, IdsOf, RowsOf

-----------------------------------------------------------------------------
(* Types. *)

(* An undoing Update leaves a well-formed state. *)
LEMMA UndoType ==
  ASSUME NEW s \in Store, NEW j \in Deploying
  PROVE  Undo(s, j) \in Store
  <1> DEFINE present == j.id \in DOMAIN s[j.tab]
  <1>1. /\ j.tab \in Tables /\ j.id \in IdsOf(j.tab) /\ j.before \in RowsOf(j.tab)
        /\ j.how \in {"create", "update", "toggle", "delete"}
        /\ j.clients \in Table(ClientId, ClientRow)
    BY DEF Deploying, DeployingOn, Tables, IdsOf, RowsOf
  <1>2. s[j.tab] \in Table(IdsOf(j.tab), RowsOf(j.tab))
    BY <1>1, StoreTables
  <1>3. CASE j.how = "create"
    BY <1>1, <1>2, <1>3, DropType, StoreWith DEF Undo
  <1>4. CASE j.how = "update"
    BY <1>1, <1>2, <1>4, PutType, StoreWith DEF Undo
  <1>5. CASE j.how = "toggle"
    <2> DEFINE row == [s[j.tab][j.id] EXCEPT !.enabled = j.before.enabled]
    <2>1. ASSUME present PROVE row \in RowsOf(j.tab)
      <3>1. s[j.tab][j.id] \in RowsOf(j.tab)
        BY <1>2, <2>1, TableType
      <3>2. j.before.enabled \in BOOLEAN
        BY <1>1 DEF RowsOf, Tables, InboundRow, OutboundRow, GroupRow, RuleRow
      <3> QED BY <1>1, <3>1, <3>2 DEF RowsOf, Tables, InboundRow, OutboundRow, GroupRow, RuleRow
    <2>2. ASSUME present PROVE [s EXCEPT ![j.tab] = Put(s[j.tab], j.id, row)] \in Store
      BY <1>1, <1>2, <2>1, <2>2, PutType, StoreWith
    <2> QED BY <1>5, <2>2 DEF Undo
  <1>6. CASE j.how = "delete"
    <2> DEFINE t == IF present THEN s[j.tab] ELSE Put(s[j.tab], j.id, j.before)
               c == IF j.tab = "inbounds" THEN j.clients ELSE s.clients
    <2>1. [s EXCEPT ![j.tab] = t] \in Store
      BY <1>1, <1>2, PutType, StoreWith
    <2>2. c \in Table(ClientId, ClientRow)
      BY <1>1 DEF Store
    <2>3. Undo(s, j) = [[s EXCEPT ![j.tab] = t] EXCEPT !.clients = c]
      BY <1>1, <1>6 DEF Undo, Tables, Store
    <2> QED BY <2>1, <2>2, <2>3 DEF Store
  <1> QED BY <1>1, <1>3, <1>4, <1>5, <1>6

(* Filtering a table by a predicate on its rows (Keep, expanded). *)
LEMMA ClientsKept ==
  ASSUME NEW s \in Store, NEW D \in SUBSET DOMAIN s.clients
  PROVE  [s EXCEPT !.clients = [x \in D |-> s.clients[x]]] \in Store
  <1>1. [x \in D |-> s.clients[x]] \in Table(ClientId, ClientRow)
    BY RestrictType DEF Store
  <1> QED BY <1>1 DEF Store

(* The first Update of a transaction. *)
LEMMA BeginType ==
  ASSUME TypeOK, NEW r \in Req,
         NEW how \in {"create", "update", "toggle", "delete"},
         NEW tab \in Tables, NEW id \in IdsOf(tab), NEW before \in RowsOf(tab),
         NEW next \in Store, Begin(r, how, tab, id, before, next), issued' \subseteq Ids
  PROVE  TypeOK'
  <1> DEFINE j == [how |-> how, tab |-> tab, id |-> id, before |-> before,
                   nodes |-> DeployOrder(tab, id, before, next),
                   clients |-> IF how = "delete" /\ tab = "inbounds" THEN st.clients
                                                                     ELSE EmptyTable]
  <1>1. \A row \in RowsOf(tab) : row.node \in NodeId
    BY DEF Tables, RowsOf, InboundRow, OutboundRow, GroupRow, RuleRow
  <1>2. \A x \in DOMAIN next[tab] : next[tab][x] \in RowsOf(tab)
    BY StoreTables, TableType
  <1>3. DeployOrder(tab, id, before, next) \in SUBSET NodeId
    BY <1>1, <1>2 DEF DeployOrder
  <1>4. j.clients \in Table(ClientId, ClientRow)
    <2>1. EmptyTable \in [{} -> ClientRow]
      BY DEF EmptyTable
    <2>2. EmptyTable \in Table(ClientId, ClientRow)
      BY <2>1, TableIntro
    <2> QED BY <2>2 DEF TypeOK, Store
  <1>5. j \in DeployingOn(tab)
    BY <1>3, <1>4 DEF DeployingOn
  <1>6. j \in Deploying
    BY <1>5 DEF Deploying, Tables
  <1>7. job' \in [Req -> Deploying \cup Attaching \cup {Idle}]
    BY <1>6 DEF TypeOK, Begin
  <1> QED BY <1>7 DEF TypeOK, Begin

(* A row written into a table, or deleted from it. *)
LEMMA SetRowType ==
  ASSUME TypeOK, NEW tab \in Tables, NEW id \in IdsOf(tab), NEW row \in RowsOf(tab)
  PROVE  SetRow(tab, id, row) \in Store
  BY StoreTables, StoreWith, PutType DEF TypeOK, SetRow

LEMMA DropRowType ==
  ASSUME TypeOK, NEW tab \in Tables, NEW id
  PROVE  [st EXCEPT ![tab] = Drop(@, id)] \in Store
  BY StoreTables, StoreWith, DropType DEF TypeOK

LEMMA EmptyStoreType == EmptyStore \in Store
  <1>1. \A Id, Row : EmptyTable \in Table(Id, Row)
    <2> SUFFICES ASSUME NEW Id, NEW Row PROVE EmptyTable \in Table(Id, Row)
      OBVIOUS
    <2>1. EmptyTable \in [{} -> Row]
      BY DEF EmptyTable
    <2> QED BY <2>1, TableIntro
  <1> QED BY <1>1 DEF EmptyStore, Store

(* Store.Update by a request that undoes nothing. *)
LEMMA WriteType ==
  ASSUME TypeOK, NEW next \in Store, Write(next), issued' \subseteq Ids
  PROVE  TypeOK'
  BY EmptyStoreType DEF TypeOK, Write

(* The two ways a request ends. *)
LEMMA EndType ==
  ASSUME TypeOK, NEW r \in Req, st' \in Store, issued' \subseteq Ids,
         (Leave(r) /\ stale' = stale) \/ WriteBack(r)
  PROVE  TypeOK'
  BY EmptyStoreType DEF TypeOK, Leave, WriteBack

(* The rows of the four tables the transactions change. *)
LEMMA RowType ==
  ASSUME TypeOK, NEW tab \in Tables, NEW id \in DOMAIN st[tab]
  PROVE  id \in IdsOf(tab) /\ st[tab][id] \in RowsOf(tab)
  BY StoreTables, TableType DEF TypeOK

(* Every step of a request on an inbound, outbound, group or rule keeps the *)
(* types.                                                                   *)
LEMMA RequestType ==
  ASSUME TypeOK, NEW r \in Req,
         InboundRequest(r) \/ OutboundRequest(r) \/ GroupRequest(r) \/ RuleRequest(r)
  PROVE  TypeOK'
  <1> USE DEF Tables, IdsOf, RowsOf
  <1>0. \A x \in Ids : Fresh(x) => issued' \subseteq Ids
    BY DEF TypeOK, Fresh
  <1>1. ASSUME NEW id \in InboundId, NEW row \in InboundRow, CreateInbound(r, id, row)
        PROVE  TypeOK'
    BY <1>0, <1>1, SetRowType, BeginType DEF CreateInbound, Ids
  <1>2. ASSUME NEW id \in InboundId, NEW row \in InboundRow, UpdateInbound(r, id, row)
        PROVE  TypeOK'
    BY <1>2, SetRowType, BeginType, RowType DEF UpdateInbound, TypeOK
  <1>3. ASSUME NEW id \in InboundId, NEW enabled \in BOOLEAN, SetInboundEnabled(r, id, enabled)
        PROVE  TypeOK'
    <2>1. /\ st.inbounds[id] \in InboundRow
          /\ [st.inbounds[id] EXCEPT !.enabled = enabled] \in InboundRow
      BY <1>3, RowType DEF SetInboundEnabled, InboundRow
    <2> QED BY <1>3, <2>1, SetRowType, BeginType DEF SetInboundEnabled, TypeOK
  <1>4. ASSUME NEW id \in InboundId, DeleteInbound(r, id)
        PROVE  TypeOK'
    <2> DEFINE s == [st EXCEPT !.inbounds = Drop(@, id)]
               D == {c \in DOMAIN st.clients : st.clients[c].inbound # id}
               t == [s EXCEPT !.clients = [x \in D |-> s.clients[x]]]
    <2>1. s \in Store /\ s.clients = st.clients
      BY DropRowType DEF TypeOK, Store
    <2>2. t \in Store
      BY <2>1, ClientsKept
    <2>3. Begin(r, "delete", "inbounds", id, st.inbounds[id], t)
      BY <1>4, <2>1 DEF DeleteInbound, Keep, TypeOK, Store
    <2> QED BY <1>4, <2>2, <2>3, BeginType, RowType DEF DeleteInbound, TypeOK
  <1>5. ASSUME NEW id \in OutboundId, NEW row \in OutboundRow, CreateOutbound(r, id, row)
        PROVE  TypeOK'
    BY <1>0, <1>5, SetRowType, BeginType DEF CreateOutbound, Ids
  <1>6. ASSUME NEW id \in OutboundId, NEW row \in OutboundRow, UpdateOutbound(r, id, row)
        PROVE  TypeOK'
    BY <1>6, SetRowType, BeginType, RowType DEF UpdateOutbound, TypeOK
  <1>7. ASSUME NEW id \in OutboundId, NEW enabled \in BOOLEAN, SetOutboundEnabled(r, id, enabled)
        PROVE  TypeOK'
    <2>1. /\ st.outbounds[id] \in OutboundRow
          /\ [st.outbounds[id] EXCEPT !.enabled = enabled] \in OutboundRow
      BY <1>7, RowType DEF SetOutboundEnabled, OutboundRow
    <2> QED BY <1>7, <2>1, SetRowType, BeginType DEF SetOutboundEnabled, TypeOK
  <1>8. ASSUME NEW id \in OutboundId, DeleteOutbound(r, id)
        PROVE  TypeOK'
    <2>1. [st EXCEPT !.outbounds = Drop(@, id)] \in Store
      BY DropRowType
    <2> QED BY <1>8, <2>1, BeginType, RowType DEF DeleteOutbound, TypeOK
  <1>9. ASSUME NEW id \in GroupId, NEW row \in GroupRow, CreateGroup(r, id, row)
        PROVE  TypeOK'
    BY <1>0, <1>9, SetRowType, BeginType DEF CreateGroup, Ids
  <1>10. ASSUME NEW id \in GroupId, NEW row \in GroupRow, UpdateGroup(r, id, row)
         PROVE  TypeOK'
    BY <1>10, SetRowType, BeginType, RowType DEF UpdateGroup, TypeOK
  <1>11. ASSUME NEW id \in GroupId, DeleteGroup(r, id)
         PROVE  TypeOK'
    <2>1. [st EXCEPT !.groups = Drop(@, id)] \in Store
      BY DropRowType
    <2> QED BY <1>11, <2>1, BeginType, RowType DEF DeleteGroup, TypeOK
  <1>12. ASSUME NEW id \in RuleId, NEW row \in RuleRow, CreateRule(r, id, row)
         PROVE  TypeOK'
    BY <1>0, <1>12, SetRowType, BeginType DEF CreateRule, Ids
  <1>13. ASSUME NEW id \in RuleId, NEW row \in RuleRow, UpdateRule(r, id, row)
         PROVE  TypeOK'
    BY <1>13, SetRowType, BeginType, RowType DEF UpdateRule, TypeOK
  <1>14. ASSUME NEW id \in RuleId, DeleteRule(r, id)
         PROVE  TypeOK'
    <2>1. [st EXCEPT !.rules = Drop(@, id)] \in Store
      BY DropRowType
    <2> QED BY <1>14, <2>1, BeginType, RowType DEF DeleteRule, TypeOK
  <1> QED
    BY <1>1, <1>2, <1>3, <1>4, <1>5, <1>6, <1>7, <1>8, <1>9, <1>10, <1>11, <1>12, <1>13, <1>14
    DEF InboundRequest, OutboundRequest, GroupRequest, RuleRequest

(* Every request on nodes, users and attachments keeps the types. *)
LEMMA DirectType ==
  ASSUME TypeOK, NodeRequest \/ AccessRequest \/ \E r \in Req : Attach(r)
  PROVE  TypeOK'
  <1>0. \A x \in Ids : Fresh(x) => issued' \subseteq Ids
    BY DEF TypeOK, Fresh
  <1>1. \A nodes \in Table(NodeId, NodeRow) : [st EXCEPT !.nodes = nodes] \in Store
    BY DEF TypeOK, Store
  <1>2. ASSUME NEW n \in NodeId, CreateNode(n)
        PROVE  TypeOK'
    <2>1. Put(st.nodes, n, [usable |-> TRUE]) \in Table(NodeId, NodeRow)
      BY PutType DEF TypeOK, Store, NodeRow
    <2>2. [st EXCEPT !.nodes = Put(@, n, [usable |-> TRUE])] \in Store
      BY <1>1, <2>1
    <2> QED BY <1>0, <1>2, <2>2, WriteType DEF CreateNode, Ids
  <1>3. ASSUME NEW n \in NodeId, DeleteNode(n)
        PROVE  TypeOK'
    <2>1. [st EXCEPT !.nodes = Drop(@, n)] \in Store
      BY <1>1, DropType DEF TypeOK, Store
    <2> QED BY <1>3, <2>1, WriteType DEF DeleteNode, TypeOK
  <1>4. ASSUME NEW n \in NodeId, NEW on \in BOOLEAN, n \in DOMAIN st.nodes
        PROVE  [st EXCEPT !.nodes[n].usable = on] \in Store
    <2>1. st.nodes \in Table(NodeId, NodeRow)
      BY DEF TypeOK, Store
    <2>2. /\ DOMAIN st.nodes \in SUBSET NodeId
          /\ st.nodes \in [DOMAIN st.nodes -> NodeRow]
      BY <2>1, TableType
    <2>3. [st.nodes EXCEPT ![n].usable = on] \in [DOMAIN st.nodes -> NodeRow]
      BY <1>4, <2>2 DEF NodeRow
    <2>4. [st.nodes EXCEPT ![n].usable = on] \in Table(NodeId, NodeRow)
      BY <2>2, <2>3, TableIntro
    <2> QED BY <1>1, <2>4
  <1>5. ASSUME NEW n \in NodeId, NEW on \in BOOLEAN, SetNodeUsable(n, on)
        PROVE  TypeOK'
    BY <1>4, <1>5, WriteType DEF SetNodeUsable, TypeOK
  <1>6. ASSUME NEW u \in UserId, CreateUser(u)
        PROVE  TypeOK'
    <2>1. [st EXCEPT !.users = @ \cup {u}] \in Store
      BY DEF TypeOK, Store
    <2> QED BY <1>0, <1>6, <2>1, WriteType DEF CreateUser, Ids
  <1>7. ASSUME NEW u \in UserId, DeleteUser(u)
        PROVE  TypeOK'
    <2> DEFINE clients == [x \in {c \in DOMAIN st.clients : st.clients[c].user # u} |->
                             st.clients[x]]
               rules == [k \in DOMAIN st.rules |->
                           [st.rules[k] EXCEPT !.users = st.rules[k].users \ {u}]]
               next == [st EXCEPT !.users = @ \ {u}, !.clients = clients, !.rules = rules]
    <2>1. clients \in Table(ClientId, ClientRow)
      BY RestrictType DEF TypeOK, Store
    <2>2. /\ DOMAIN st.rules \in SUBSET RuleId
          /\ \A k \in DOMAIN st.rules : st.rules[k] \in RuleRow
      BY TableType DEF TypeOK, Store
    <2>3. \A k \in DOMAIN st.rules :
            [st.rules[k] EXCEPT !.users = st.rules[k].users \ {u}] \in RuleRow
      BY <2>2 DEF RuleRow
    <2>4. rules \in [DOMAIN st.rules -> RuleRow]
      BY <2>3
    <2>5. rules \in Table(RuleId, RuleRow)
      BY <2>2, <2>4, TableIntro
    <2>6. next \in Store
      BY <2>1, <2>5 DEF TypeOK, Store
    <2>7. Write(next)
      BY <1>7 DEF DeleteUser, Keep, TypeOK, Store
    <2> QED BY <1>7, <2>6, <2>7, WriteType DEF DeleteUser, TypeOK
  <1>8. ASSUME NEW i \in InboundId, NEW u \in UserId, Detach(i, u)
        PROVE  TypeOK'
    <2> DEFINE D == {c \in DOMAIN st.clients : st.clients[c] # [inbound |-> i, user |-> u]}
               next == [st EXCEPT !.clients = [x \in D |-> st.clients[x]]]
    <2>1. next \in Store
      BY ClientsKept DEF TypeOK
    <2>2. Write(next)
      BY <1>8 DEF Detach, Keep
    <2> QED BY <1>8, <2>1, <2>2, WriteType DEF Detach, TypeOK
  <1>9. ASSUME NEW r \in Req, NEW i \in InboundId, NEW u \in UserId, AttachCheck(r, i, u)
        PROVE  TypeOK'
    <2>1. [how |-> "attach", inbound |-> i, user |-> u] \in Attaching
      BY DEF Attaching
    <2> QED BY <1>9, <2>1 DEF AttachCheck, TypeOK
  <1>10. ASSUME NEW r \in Req, NEW c \in ClientId, AttachAppend(r, c)
         PROVE  TypeOK'
    <2>1. job[r] \in Attaching
      BY <1>10 DEF AttachAppend, TypeOK, Deploying, DeployingOn, Idle
    <2>2. [inbound |-> job[r].inbound, user |-> job[r].user] \in ClientRow
      BY <2>1 DEF Attaching, ClientRow
    <2>3. Put(st.clients, c, [inbound |-> job[r].inbound, user |-> job[r].user])
            \in Table(ClientId, ClientRow)
      BY <2>2, PutType DEF TypeOK, Store
    <2>4. st' \in Store
      BY <1>10, <2>3 DEF AttachAppend, TypeOK, Store
    <2> QED BY <1>0, <1>10, <2>4, EndType DEF AttachAppend, Ids
  <1> QED
    BY <1>2, <1>3, <1>5, <1>6, <1>7, <1>8, <1>9, <1>10
    DEF NodeRequest, AccessRequest, Attach

(* So does the end of a transaction. *)
LEMMA FinishType ==
  ASSUME TypeOK, NEW r \in Req, Finish(r)
  PROVE  TypeOK'
  <1>1. CASE DeploySucceeds(r) \/ RollBackNotSaved(r)
    BY <1>1, EndType DEF DeploySucceeds, RollBackNotSaved, TypeOK
  <1>2. CASE RollBack(r)
    <2>1. job[r] \in Deploying
      BY <1>2 DEF RollBack, IsDeploying, TypeOK, Attaching, Idle
    <2>2. st' \in Store
      BY <1>2, <2>1, UndoType DEF RollBack, TypeOK
    <2> QED BY <1>2, <2>2, EndType DEF RollBack, TypeOK
  <1> QED BY <1>1, <1>2 DEF Finish

(* The initial states, and every step. *)
LEMMA InitType == Init => TypeOK
  <1> SUFFICES ASSUME Init PROVE TypeOK
    OBVIOUS
  <1>1. st \in Store
    BY SavedStatesAssumption DEF Init
  <1>2. IdsIn(st) \subseteq Ids
    BY <1>1, TableType DEF IdsIn, Ids, Store
  <1> QED BY <1>1, <1>2, EmptyStoreType DEF Init, TypeOK

LEMMA NextType == TypeOK /\ [Next]_vars => TypeOK'
  <1> SUFFICES ASSUME TypeOK, [Next]_vars PROVE TypeOK'
    OBVIOUS
  <1>1. CASE Next
    BY <1>1, RequestType, DirectType, FinishType DEF Next
  <1>2. CASE UNCHANGED vars
    BY <1>2 DEF vars, history, TypeOK
  <1> QED BY <1>1, <1>2

(* Whatever requests run at once, the state, the pending undos and the      *)
(* identifiers they use stay well formed: an undoing Update never puts a    *)
(* row in a table it does not belong to.                                    *)
THEOREM TypeCorrect == Spec => []TypeOK
  BY InitType, NextType, PTL DEF Spec

-----------------------------------------------------------------------------
(* Integrity: what each kind of change needs to preserve it.               *)

(* An inbound written: its node exists, its name and listen address are     *)
(* free, the rules that name it stay on its node.                           *)
LEMMA InboundWritten ==
  ASSUME NEW s \in Store, Integrity(s), NEW id \in InboundId, NEW row \in InboundRow,
         row.node \in DOMAIN s.nodes,
         \A x \in DOMAIN s.inbounds \ {id} :
           /\ s.inbounds[x].name # row.name
           /\ s.inbounds[x].node = row.node => s.inbounds[x].slot # row.slot,
         \A k \in DOMAIN s.rules : id \in s.rules[k].inbounds => s.rules[k].node = row.node
  PROVE  Integrity([s EXCEPT !.inbounds = Put(@, id, row)])
  <1> DEFINE t == [s EXCEPT !.inbounds = Put(@, id, row)]
  <1>1. /\ t.nodes = s.nodes /\ t.users = s.users /\ t.outbounds = s.outbounds
        /\ t.groups = s.groups /\ t.rules = s.rules /\ t.clients = s.clients
        /\ t.inbounds = Put(s.inbounds, id, row)
    BY DEF Store
  <1>2. /\ DOMAIN t.inbounds = DOMAIN s.inbounds \cup {id}
        /\ t.inbounds[id] = row
        /\ \A x \in DOMAIN s.inbounds \ {id} : t.inbounds[x] = s.inbounds[x]
    BY <1>1 DEF Put
  <1> HIDE DEF t
  <1>3. NodesResolve(t) /\ InboundSlotsUnique(t) /\ InboundNamesUnique(t)
    BY <1>1, <1>2 DEF Integrity, NodesResolve, InboundSlotsUnique, InboundNamesUnique
  <1>4. RuleInboundsResolve(t) /\ ClientsResolve(t)
    BY <1>1, <1>2 DEF Integrity, RuleInboundsResolve, ClientsResolve
  <1>5. /\ OutboundTagsUnique(t) /\ GroupNamesUnique(t) /\ GroupMembersResolve(t)
        /\ RuleTargetsResolve(t) /\ RuleUsersResolve(t) /\ ClientsUnique(t)
    BY <1>1 DEF Integrity, OutboundTagsUnique, GroupNamesUnique, GroupMembersResolve,
                OutboundUsable, RuleTargetsResolve, RuleUsersResolve, ClientsUnique
  <1>6. Integrity(t)
    BY <1>3, <1>4, <1>5 DEF Integrity
  <1> QED BY <1>6 DEF t

(* An inbound deleted with its clients: no rule names it.                   *)
LEMMA InboundDropped ==
  ASSUME NEW s \in Store, Integrity(s), NEW id \in InboundId,
         \A k \in DOMAIN s.rules : id \notin s.rules[k].inbounds,
         NEW D, D = {c \in DOMAIN s.clients : s.clients[c].inbound # id}
  PROVE  Integrity([s EXCEPT !.inbounds = Drop(@, id),
                             !.clients = [x \in D |-> s.clients[x]]])
  <1> DEFINE t == [s EXCEPT !.inbounds = Drop(@, id),
                            !.clients = [x \in D |-> s.clients[x]]]
  <1>1. /\ t.nodes = s.nodes /\ t.users = s.users /\ t.outbounds = s.outbounds
        /\ t.groups = s.groups /\ t.rules = s.rules
        /\ t.inbounds = Drop(s.inbounds, id) /\ t.clients = [x \in D |-> s.clients[x]]
    BY DEF Store
  <1>2. /\ DOMAIN t.inbounds = DOMAIN s.inbounds \ {id}
        /\ \A x \in DOMAIN t.inbounds : t.inbounds[x] = s.inbounds[x]
        /\ DOMAIN t.clients = D
        /\ \A c \in D : t.clients[c] = s.clients[c]
    BY <1>1 DEF Drop
  <1> HIDE DEF t
  <1>3. NodesResolve(t) /\ InboundSlotsUnique(t) /\ InboundNamesUnique(t)
    BY <1>1, <1>2 DEF Integrity, NodesResolve, InboundSlotsUnique, InboundNamesUnique
  <1>4. RuleInboundsResolve(t) /\ ClientsResolve(t) /\ ClientsUnique(t)
    BY <1>1, <1>2 DEF Integrity, RuleInboundsResolve, ClientsResolve, ClientsUnique
  <1>5. /\ OutboundTagsUnique(t) /\ GroupNamesUnique(t) /\ GroupMembersResolve(t)
        /\ RuleTargetsResolve(t) /\ RuleUsersResolve(t)
    BY <1>1 DEF Integrity, OutboundTagsUnique, GroupNamesUnique, GroupMembersResolve,
                OutboundUsable, RuleTargetsResolve, RuleUsersResolve
  <1>6. Integrity(t)
    BY <1>3, <1>4, <1>5 DEF Integrity
  <1> QED BY <1>6 DEF t

(* An outbound written: its node exists, its tag is free, the groups that   *)
(* use it find it enabled on their node.                                    *)
LEMMA OutboundWritten ==
  ASSUME NEW s \in Store, Integrity(s), NEW id \in OutboundId, NEW row \in OutboundRow,
         row.node \in DOMAIN s.nodes,
         \A x \in DOMAIN s.outbounds \ {id} :
           s.outbounds[x].node = row.node => s.outbounds[x].tag # row.tag,
         \A g \in DOMAIN s.groups : id \in s.groups[g].members \cup {s.groups[g].fallback} =>
           row.enabled /\ s.groups[g].node = row.node
  PROVE  Integrity([s EXCEPT !.outbounds = Put(@, id, row)])
  <1> DEFINE t == [s EXCEPT !.outbounds = Put(@, id, row)]
  <1>1. /\ t.nodes = s.nodes /\ t.users = s.users /\ t.inbounds = s.inbounds
        /\ t.groups = s.groups /\ t.rules = s.rules /\ t.clients = s.clients
        /\ t.outbounds = Put(s.outbounds, id, row)
    BY DEF Store
  <1>2. /\ DOMAIN t.outbounds = DOMAIN s.outbounds \cup {id}
        /\ t.outbounds[id] = row
        /\ \A x \in DOMAIN s.outbounds \ {id} : t.outbounds[x] = s.outbounds[x]
    BY <1>1 DEF Put
  <1> HIDE DEF t
  <1>3. NodesResolve(t) /\ OutboundTagsUnique(t)
    BY <1>1, <1>2 DEF Integrity, NodesResolve, OutboundTagsUnique
  <1>4. GroupMembersResolve(t)
    BY <1>1, <1>2 DEF Integrity, GroupMembersResolve, OutboundUsable
  <1>5. RuleTargetsResolve(t)
    BY <1>1, <1>2 DEF Integrity, RuleTargetsResolve
  <1>6. /\ InboundSlotsUnique(t) /\ InboundNamesUnique(t) /\ GroupNamesUnique(t)
        /\ RuleInboundsResolve(t) /\ RuleUsersResolve(t) /\ ClientsResolve(t)
        /\ ClientsUnique(t)
    BY <1>1 DEF Integrity, InboundSlotsUnique, InboundNamesUnique, GroupNamesUnique,
                RuleInboundsResolve, RuleUsersResolve, ClientsResolve, ClientsUnique
  <1>7. Integrity(t)
    BY <1>3, <1>4, <1>5, <1>6 DEF Integrity
  <1> QED BY <1>7 DEF t

(* An outbound deleted: neither a rule nor a group uses it.                 *)
LEMMA OutboundDropped ==
  ASSUME NEW s \in Store, Integrity(s), NEW id \in OutboundId,
         \A k \in DOMAIN s.rules : s.rules[k].outbound # id,
         \A g \in DOMAIN s.groups : id \notin s.groups[g].members \cup {s.groups[g].fallback}
  PROVE  Integrity([s EXCEPT !.outbounds = Drop(@, id)])
  <1> DEFINE t == [s EXCEPT !.outbounds = Drop(@, id)]
  <1>1. /\ t.nodes = s.nodes /\ t.users = s.users /\ t.inbounds = s.inbounds
        /\ t.groups = s.groups /\ t.rules = s.rules /\ t.clients = s.clients
        /\ t.outbounds = Drop(s.outbounds, id)
    BY DEF Store
  <1>2. /\ DOMAIN t.outbounds = DOMAIN s.outbounds \ {id}
        /\ \A x \in DOMAIN t.outbounds : t.outbounds[x] = s.outbounds[x]
    BY <1>1 DEF Drop
  <1> HIDE DEF t
  <1>3. NodesResolve(t) /\ OutboundTagsUnique(t)
    BY <1>1, <1>2 DEF Integrity, NodesResolve, OutboundTagsUnique
  <1>4. GroupMembersResolve(t)
    BY <1>1, <1>2 DEF Integrity, GroupMembersResolve, OutboundUsable
  <1>5. RuleTargetsResolve(t)
    BY <1>1, <1>2 DEF Integrity, RuleTargetsResolve
  <1>6. /\ InboundSlotsUnique(t) /\ InboundNamesUnique(t) /\ GroupNamesUnique(t)
        /\ RuleInboundsResolve(t) /\ RuleUsersResolve(t) /\ ClientsResolve(t)
        /\ ClientsUnique(t)
    BY <1>1 DEF Integrity, InboundSlotsUnique, InboundNamesUnique, GroupNamesUnique,
                RuleInboundsResolve, RuleUsersResolve, ClientsResolve, ClientsUnique
  <1>7. Integrity(t)
    BY <1>3, <1>4, <1>5, <1>6 DEF Integrity
  <1> QED BY <1>7 DEF t

(* A group written: validateOutboundGroupSpec accepts it and the rules that *)
(* use it find it on their node, and enabled if they are.                   *)
LEMMA GroupWritten ==
  ASSUME NEW s \in Store, Integrity(s), NEW id \in GroupId, NEW row \in GroupRow,
         validateOutboundGroupSpec(s, id, row),
         \A k \in DOMAIN s.rules : s.rules[k].group = id =>
           s.rules[k].node = row.node /\ (s.rules[k].enabled => row.enabled)
  PROVE  Integrity([s EXCEPT !.groups = Put(@, id, row)])
  <1> DEFINE t == [s EXCEPT !.groups = Put(@, id, row)]
  <1>1. /\ t.nodes = s.nodes /\ t.users = s.users /\ t.inbounds = s.inbounds
        /\ t.outbounds = s.outbounds /\ t.rules = s.rules /\ t.clients = s.clients
        /\ t.groups = Put(s.groups, id, row)
    BY DEF Store
  <1>2. /\ DOMAIN t.groups = DOMAIN s.groups \cup {id}
        /\ t.groups[id] = row
        /\ \A x \in DOMAIN s.groups \ {id} : t.groups[x] = s.groups[x]
    BY <1>1 DEF Put
  <1> HIDE DEF t
  <1>3. NodesResolve(t) /\ GroupNamesUnique(t)
    BY <1>1, <1>2 DEF Integrity, NodesResolve, GroupNamesUnique,
                      validateOutboundGroupSpec, NodeUsable
  <1>4. GroupMembersResolve(t)
    BY <1>1, <1>2 DEF Integrity, GroupMembersResolve, OutboundUsable, validateOutboundGroupSpec
  <1>5. RuleTargetsResolve(t)
    BY <1>1, <1>2 DEF Integrity, RuleTargetsResolve
  <1>6. /\ InboundSlotsUnique(t) /\ InboundNamesUnique(t) /\ OutboundTagsUnique(t)
        /\ RuleInboundsResolve(t) /\ RuleUsersResolve(t) /\ ClientsResolve(t)
        /\ ClientsUnique(t)
    BY <1>1 DEF Integrity, InboundSlotsUnique, InboundNamesUnique, OutboundTagsUnique,
                RuleInboundsResolve, RuleUsersResolve, ClientsResolve, ClientsUnique
  <1>7. Integrity(t)
    BY <1>3, <1>4, <1>5, <1>6 DEF Integrity
  <1> QED BY <1>7 DEF t

(* A group deleted: no rule uses it. *)
LEMMA GroupDropped ==
  ASSUME NEW s \in Store, Integrity(s), NEW id \in GroupId,
         \A k \in DOMAIN s.rules : s.rules[k].group # id
  PROVE  Integrity([s EXCEPT !.groups = Drop(@, id)])
  <1> DEFINE t == [s EXCEPT !.groups = Drop(@, id)]
  <1>1. /\ t.nodes = s.nodes /\ t.users = s.users /\ t.inbounds = s.inbounds
        /\ t.outbounds = s.outbounds /\ t.rules = s.rules /\ t.clients = s.clients
        /\ t.groups = Drop(s.groups, id)
    BY DEF Store
  <1>2. /\ DOMAIN t.groups = DOMAIN s.groups \ {id}
        /\ \A x \in DOMAIN t.groups : t.groups[x] = s.groups[x]
    BY <1>1 DEF Drop
  <1> HIDE DEF t
  <1>3. /\ NodesResolve(t) /\ GroupNamesUnique(t) /\ RuleTargetsResolve(t)
    BY <1>1, <1>2 DEF Integrity, NodesResolve, GroupNamesUnique, RuleTargetsResolve
  <1>4. GroupMembersResolve(t)
    BY <1>1, <1>2 DEF Integrity, GroupMembersResolve, OutboundUsable
  <1>5. /\ InboundSlotsUnique(t) /\ InboundNamesUnique(t) /\ OutboundTagsUnique(t)
        /\ RuleInboundsResolve(t) /\ RuleUsersResolve(t) /\ ClientsResolve(t)
        /\ ClientsUnique(t)
    BY <1>1 DEF Integrity, InboundSlotsUnique, InboundNamesUnique, OutboundTagsUnique,
                RuleInboundsResolve, RuleUsersResolve, ClientsResolve, ClientsUnique
  <1>6. Integrity(t)
    BY <1>3, <1>4, <1>5 DEF Integrity
  <1> QED BY <1>6 DEF t

(* A rule written: validateRoutingReferences accepts it. *)
LEMMA RuleWritten ==
  ASSUME NEW s \in Store, Integrity(s), NEW id \in RuleId, NEW row \in RuleRow,
         normalizeRoutingRule(row), validateRoutingReferences(s, row)
  PROVE  Integrity([s EXCEPT !.rules = Put(@, id, row)])
  <1> DEFINE t == [s EXCEPT !.rules = Put(@, id, row)]
  <1>1. /\ t.nodes = s.nodes /\ t.users = s.users /\ t.inbounds = s.inbounds
        /\ t.outbounds = s.outbounds /\ t.groups = s.groups /\ t.clients = s.clients
        /\ t.rules = Put(s.rules, id, row)
    BY DEF Store
  <1>2. /\ DOMAIN t.rules = DOMAIN s.rules \cup {id}
        /\ t.rules[id] = row
        /\ \A k \in DOMAIN s.rules \ {id} : t.rules[k] = s.rules[k]
    BY <1>1 DEF Put
  <1> HIDE DEF t
  <1>3. NodesResolve(t) /\ RuleInboundsResolve(t) /\ RuleUsersResolve(t)
    BY <1>1, <1>2 DEF Integrity, NodesResolve, RuleInboundsResolve, RuleUsersResolve,
                      validateRoutingReferences
  <1>4. RuleTargetsResolve(t)
    BY <1>1, <1>2 DEF Integrity, RuleTargetsResolve, validateRoutingReferences,
                      normalizeRoutingRule, OutboundUsable
  <1>5. /\ InboundSlotsUnique(t) /\ InboundNamesUnique(t) /\ OutboundTagsUnique(t)
        /\ GroupNamesUnique(t) /\ GroupMembersResolve(t) /\ ClientsResolve(t)
        /\ ClientsUnique(t)
    BY <1>1 DEF Integrity, InboundSlotsUnique, InboundNamesUnique, OutboundTagsUnique,
                GroupNamesUnique, GroupMembersResolve, OutboundUsable, ClientsResolve,
                ClientsUnique
  <1>6. Integrity(t)
    BY <1>3, <1>4, <1>5 DEF Integrity
  <1> QED BY <1>6 DEF t

(* A rule deleted: nothing refers to rules. *)
LEMMA RuleDropped ==
  ASSUME NEW s \in Store, Integrity(s), NEW id \in RuleId
  PROVE  Integrity([s EXCEPT !.rules = Drop(@, id)])
  <1> DEFINE t == [s EXCEPT !.rules = Drop(@, id)]
  <1>1. /\ t.nodes = s.nodes /\ t.users = s.users /\ t.inbounds = s.inbounds
        /\ t.outbounds = s.outbounds /\ t.groups = s.groups /\ t.clients = s.clients
        /\ t.rules = Drop(s.rules, id)
    BY DEF Store
  <1>2. /\ DOMAIN t.rules = DOMAIN s.rules \ {id}
        /\ \A k \in DOMAIN t.rules : t.rules[k] = s.rules[k]
    BY <1>1 DEF Drop
  <1> HIDE DEF t
  <1>3. /\ NodesResolve(t) /\ RuleInboundsResolve(t) /\ RuleUsersResolve(t)
        /\ RuleTargetsResolve(t)
    BY <1>1, <1>2 DEF Integrity, NodesResolve, RuleInboundsResolve, RuleUsersResolve,
                      RuleTargetsResolve
  <1>4. /\ InboundSlotsUnique(t) /\ InboundNamesUnique(t) /\ OutboundTagsUnique(t)
        /\ GroupNamesUnique(t) /\ GroupMembersResolve(t) /\ ClientsResolve(t)
        /\ ClientsUnique(t)
    BY <1>1 DEF Integrity, InboundSlotsUnique, InboundNamesUnique, OutboundTagsUnique,
                GroupNamesUnique, GroupMembersResolve, OutboundUsable, ClientsResolve,
                ClientsUnique
  <1>5. Integrity(t)
    BY <1>3, <1>4 DEF Integrity
  <1> QED BY <1>5 DEF t

(* Nodes changed: every row's node is still there. *)
LEMMA NodesChanged ==
  ASSUME NEW s \in Store, Integrity(s), NEW nodes,
         \A x \in DOMAIN s.inbounds  : s.inbounds[x].node \in DOMAIN nodes,
         \A x \in DOMAIN s.outbounds : s.outbounds[x].node \in DOMAIN nodes,
         \A x \in DOMAIN s.groups    : s.groups[x].node \in DOMAIN nodes,
         \A x \in DOMAIN s.rules     : s.rules[x].node \in DOMAIN nodes
  PROVE  Integrity([s EXCEPT !.nodes = nodes])
  <1> DEFINE t == [s EXCEPT !.nodes = nodes]
  <1>1. /\ t.nodes = nodes /\ t.users = s.users /\ t.inbounds = s.inbounds
        /\ t.outbounds = s.outbounds /\ t.groups = s.groups /\ t.clients = s.clients
        /\ t.rules = s.rules
    BY DEF Store
  <1> HIDE DEF t
  <1>2. NodesResolve(t)
    BY <1>1 DEF NodesResolve
  <1>3. /\ InboundSlotsUnique(t) /\ InboundNamesUnique(t) /\ OutboundTagsUnique(t)
        /\ GroupNamesUnique(t) /\ GroupMembersResolve(t) /\ RuleInboundsResolve(t)
        /\ RuleTargetsResolve(t) /\ RuleUsersResolve(t) /\ ClientsResolve(t)
        /\ ClientsUnique(t)
    BY <1>1 DEF Integrity, InboundSlotsUnique, InboundNamesUnique, OutboundTagsUnique,
                GroupNamesUnique, GroupMembersResolve, OutboundUsable, RuleInboundsResolve,
                RuleTargetsResolve, RuleUsersResolve, ClientsResolve, ClientsUnique
  <1>4. Integrity(t)
    BY <1>2, <1>3 DEF Integrity
  <1> QED BY <1>4 DEF t

(* Users, clients and the rules' user lists changed together: deleting or   *)
(* adding a user, attaching and detaching one.                              *)
LEMMA AccessChanged ==
  ASSUME NEW s \in Store, Integrity(s), NEW t \in Store,
         t.nodes = s.nodes, t.inbounds = s.inbounds, t.outbounds = s.outbounds,
         t.groups = s.groups, DOMAIN t.rules = DOMAIN s.rules,
         \A k \in DOMAIN s.rules :
           /\ t.rules[k].node = s.rules[k].node
           /\ t.rules[k].enabled = s.rules[k].enabled
           /\ t.rules[k].outbound = s.rules[k].outbound
           /\ t.rules[k].group = s.rules[k].group
           /\ t.rules[k].inbounds = s.rules[k].inbounds
           /\ t.rules[k].users \subseteq t.users,
         ClientsResolve(t), ClientsUnique(t)
  PROVE  Integrity(t)
  <1>1. NodesResolve(t)
    BY DEF Integrity, NodesResolve
  <1>2. /\ InboundSlotsUnique(t) /\ InboundNamesUnique(t) /\ OutboundTagsUnique(t)
        /\ GroupNamesUnique(t) /\ GroupMembersResolve(t)
    BY DEF Integrity, InboundSlotsUnique, InboundNamesUnique, OutboundTagsUnique,
           GroupNamesUnique, GroupMembersResolve, OutboundUsable
  <1>3. /\ RuleInboundsResolve(t) /\ RuleTargetsResolve(t) /\ RuleUsersResolve(t)
    BY DEF Integrity, RuleInboundsResolve, RuleTargetsResolve, RuleUsersResolve
  <1> QED BY <1>1, <1>2, <1>3 DEF Integrity

-----------------------------------------------------------------------------
(* Undoing at once gives the state back. *)

LEMMA StoreUndo ==
  ASSUME NEW s \in Store, NEW tab \in Tables, NEW t
  PROVE  /\ [s EXCEPT ![tab] = t][tab] = t
         /\ [[s EXCEPT ![tab] = t] EXCEPT ![tab] = s[tab]] = s
  BY DEF Store, Tables

LEMMA UndoCreate ==
  ASSUME NEW s \in Store, NEW tab \in Tables, NEW id, NEW row, id \notin DOMAIN s[tab],
         NEW j, j.how = "create", j.tab = tab, j.id = id
  PROVE  Undo([s EXCEPT ![tab] = Put(@, id, row)], j) = s
  <1>1. Drop(Put(s[tab], id, row), id) = s[tab]
    BY StoreTables, TableUndo
  <1> QED BY <1>1, StoreUndo DEF Undo

LEMMA UndoUpdate ==
  ASSUME NEW s \in Store, NEW tab \in Tables, NEW id, NEW row, id \in DOMAIN s[tab],
         NEW j, j.how = "update", j.tab = tab, j.id = id, j.before = s[tab][id]
  PROVE  Undo([s EXCEPT ![tab] = Put(@, id, row)], j) = s
  <1>1. /\ id \in DOMAIN Put(s[tab], id, row)
        /\ Put(Put(s[tab], id, row), id, s[tab][id]) = s[tab]
    BY StoreTables, TableUndo
  <1> QED BY <1>1, StoreUndo DEF Undo

LEMMA UndoToggle ==
  ASSUME NEW s \in Store, NEW id, NEW enabled, id \in DOMAIN s.outbounds,
         NEW j, j.how = "toggle", j.tab = "outbounds", j.id = id, j.before = s.outbounds[id]
  PROVE  Undo([s EXCEPT !.outbounds = Put(@, id, [s.outbounds[id] EXCEPT !.enabled = enabled])],
              j) = s
  <1> DEFINE out == s.outbounds[id]
             row == [out EXCEPT !.enabled = enabled]
             t == Put(s.outbounds, id, row)
  <1>1. "outbounds" \in Tables
    BY DEF Tables
  <1>2. out \in OutboundRow
    BY <1>1, StoreTables, TableType DEF IdsOf, RowsOf
  <1>3. [row EXCEPT !.enabled = out.enabled] = out
    BY <1>2 DEF OutboundRow
  <1>4. /\ id \in DOMAIN t
        /\ t[id] = row
        /\ Put(t, id, out) = s.outbounds
    BY <1>1, StoreTables, TableUndo DEF IdsOf, RowsOf
  <1> DEFINE u == [s EXCEPT !.outbounds = t]
  <1>5. /\ u.outbounds = t
        /\ [u EXCEPT !.outbounds = s.outbounds] = s
    BY DEF Store
  <1> HIDE DEF t, u, row
  <1>6. Undo(u, j) = [u EXCEPT !.outbounds = Put(t, id, [t[id] EXCEPT !.enabled = out.enabled])]
    BY <1>4, <1>5 DEF Undo
  <1>7. Undo(u, j) = s
    BY <1>3, <1>4, <1>5, <1>6
  <1> QED BY <1>7 DEF u, t, row

LEMMA UndoDelete ==
  ASSUME NEW s \in Store, NEW tab \in Tables \ {"inbounds"}, NEW id, id \in DOMAIN s[tab],
         NEW j, j.how = "delete", j.tab = tab, j.id = id, j.before = s[tab][id]
  PROVE  Undo([s EXCEPT ![tab] = Drop(@, id)], j) = s
  <1> DEFINE t == [s EXCEPT ![tab] = Drop(s[tab], id)]
  <1>1. /\ id \notin DOMAIN Drop(s[tab], id)
        /\ Put(Drop(s[tab], id), id, s[tab][id]) = s[tab]
    BY StoreTables, TableUndo
  <1>2. /\ t[tab] = Drop(s[tab], id)
        /\ [t EXCEPT ![tab] = s[tab]] = s
    BY StoreUndo
  <1>3. [t EXCEPT ![tab] = s[tab], !.clients = t.clients] = s
    BY <1>2 DEF Store, Tables
  <1>4. t.clients = s.clients
    BY DEF Store, Tables
  <1> HIDE DEF t
  <1>5. Undo(t, j) = s
    BY <1>1, <1>2, <1>3 DEF Undo
  <1> QED BY <1>5 DEF t

-----------------------------------------------------------------------------
(* The inductive invariant. *)

(* Identifiers in use after writing or deleting a row. *)
LEMMA RowIds ==
  ASSUME NEW s \in Store, NEW tab \in Tables, NEW id, NEW row
  PROVE  /\ IdsIn([s EXCEPT ![tab] = Put(@, id, row)]) \subseteq IdsIn(s) \cup {id}
         /\ IdsIn([s EXCEPT ![tab] = Drop(@, id)]) \subseteq IdsIn(s)
         /\ DOMAIN s[tab] \subseteq IdsIn(s)
  BY DEF IdsIn, Put, Drop, Store, Tables

(* Undoing brings back no other identifiers than the job's own. *)
LEMMA UndoIds ==
  ASSUME NEW s \in Store, NEW j \in Deploying
  PROVE  IdsIn(Undo(s, j)) \subseteq IdsIn(s) \cup {j.id} \cup DOMAIN j.clients
  <1>1. j.tab \in Tables /\ j.how \in {"create", "update", "toggle", "delete"}
    BY DEF Deploying, DeployingOn, Tables
  <1>2. CASE j.how = "create"
    BY <1>1, <1>2, RowIds DEF Undo
  <1>3. CASE j.how = "update"
    BY <1>1, <1>3, RowIds DEF Undo
  <1>4. CASE j.how = "toggle"
    <2> DEFINE row == [s[j.tab][j.id] EXCEPT !.enabled = j.before.enabled]
    <2>1. Undo(s, j) = IF j.id \in DOMAIN s[j.tab]
                       THEN [s EXCEPT ![j.tab] = Put(s[j.tab], j.id, row)]
                       ELSE s
      BY <1>4 DEF Undo
    <2> HIDE DEF row
    <2>2. IdsIn([s EXCEPT ![j.tab] = Put(s[j.tab], j.id, row)]) \subseteq IdsIn(s) \cup {j.id}
      BY <1>1, RowIds
    <2> QED BY <2>1, <2>2
  <1>5. CASE j.how = "delete"
    <2> DEFINE t == IF j.id \in DOMAIN s[j.tab] THEN s[j.tab] ELSE Put(s[j.tab], j.id, j.before)
               c == IF j.tab = "inbounds" THEN j.clients ELSE s.clients
    <2>1. Undo(s, j) = [s EXCEPT ![j.tab] = t, !.clients = c]
      BY <1>5 DEF Undo
    <2>2. DOMAIN t \subseteq DOMAIN s[j.tab] \cup {j.id}
      BY DEF Put
    <2>3. DOMAIN c \subseteq DOMAIN s.clients \cup DOMAIN j.clients
      OBVIOUS
    <2> DEFINE u == [s EXCEPT ![j.tab] = t, !.clients = c]
    <2> HIDE DEF t, c
    <2>4. /\ u.nodes = s.nodes /\ u.users = s.users
          /\ u.clients \in {c, s.clients}
          /\ u[j.tab] \in {t, s[j.tab]}
      BY <1>1 DEF Store, Tables, u
    <2>5. \A tab \in Tables : tab # j.tab => u[tab] = s[tab]
      BY <1>1 DEF Store, Tables, u
    <2> HIDE DEF u
    <2> DEFINE all == IdsIn(s) \cup {j.id} \cup DOMAIN j.clients
    <2>6. /\ DOMAIN s.nodes \subseteq all /\ s.users \subseteq all
          /\ DOMAIN s.clients \subseteq all
          /\ \A tab \in Tables : DOMAIN s[tab] \subseteq all
      BY DEF IdsIn, Tables
    <2> HIDE DEF all
    <2>7. j.id \in all /\ DOMAIN j.clients \subseteq all
      BY DEF all
    <2>8. \A tab \in Tables : DOMAIN u[tab] \subseteq all
      <3>1. DOMAIN u[j.tab] \subseteq all
        BY <1>1, <2>2, <2>4, <2>6, <2>7
      <3>. QED  BY <2>6, <2>5, <3>1
    <2>9. /\ DOMAIN u.nodes \subseteq all /\ u.users \subseteq all
          /\ DOMAIN u.clients \subseteq all
      BY <2>3, <2>4, <2>6, <2>7
    <2>10. IdsIn(u) \subseteq all
      BY <2>8, <2>9 DEF IdsIn, Tables
    <2> QED BY <2>1, <2>10 DEF u, all
  <1> QED BY <1>1, <1>2, <1>3, <1>4, <1>5

(* The first Update of a transaction keeps the invariant if undoing it at   *)
(* once gives the old state and the new state is as sound as the old.       *)
LEMMA BeginInv ==
  ASSUME Inv, NEW r \in Req,
         NEW how \in {"create", "update", "toggle", "delete"},
         NEW tab \in Tables, NEW id, NEW before, NEW next,
         Begin(r, how, tab, id, before, next),
         issued \subseteq issued', id \in issued', IdsIn(next) \subseteq issued',
         \A j : /\ j.how = how /\ j.tab = tab /\ j.id = id /\ j.before = before
                /\ j.clients = (IF how = "delete" /\ tab = "inbounds" THEN st.clients
                                                                     ELSE EmptyTable)
                => Undo(next, j) = st,
         ~stale => Integrity(next)
  PROVE  IdsIssued' /\ UndoRestores' /\ ChecksHold'
  <1> DEFINE clients == IF how = "delete" /\ tab = "inbounds" THEN st.clients ELSE EmptyTable
             j == [how |-> how, tab |-> tab, id |-> id, before |-> before,
                   nodes |-> DeployOrder(tab, id, before, next), clients |-> clients]
  <1>1. /\ st' = next /\ fresh' = {r} /\ prev' = st /\ stale' = stale
        /\ job' = [job EXCEPT ![r] = j]
    BY DEF Begin
  <1>2. job'[r] = j /\ \A q \in Req \ {r} : job'[q] = job[q]
    BY <1>1 DEF Inv, TypeOK
  <1>3. DOMAIN clients \subseteq issued'
    <2>1. DOMAIN st.clients \subseteq issued'
      BY DEF Inv, IdsIssued, IdsIn
    <2> QED BY <2>1 DEF EmptyTable
  <1>4. IdsIssued'
    BY <1>1, <1>2, <1>3 DEF Inv, IdsIssued, IsDeploying
  <1>5. UndoRestores'
    BY <1>1, <1>2 DEF UndoRestores
  <1>6. ChecksHold'
    BY <1>1, <1>2 DEF Inv, ChecksHold
  <1> QED BY <1>4, <1>5, <1>6

(* Creating a row: its identifier is new. *)
LEMMA CreateInv ==
  ASSUME Inv, NEW r \in Req, NEW tab \in Tables, NEW id, NEW row, Fresh(id),
         Begin(r, "create", tab, id, row, SetRow(tab, id, row)),
         ~stale => Integrity(SetRow(tab, id, row))
  PROVE  IdsIssued' /\ UndoRestores' /\ ChecksHold'
  <1> DEFINE next == SetRow(tab, id, row)
  <1>1. st \in Store /\ IdsIn(st) \subseteq issued
    BY DEF Inv, TypeOK, IdsIssued
  <1>2. issued' = issued \cup {id} /\ id \notin DOMAIN st[tab]
    BY <1>1, RowIds DEF Fresh
  <1>3. IdsIn(next) \subseteq issued'
    BY <1>1, <1>2, RowIds DEF SetRow
  <1>4. \A j : j.how = "create" /\ j.tab = tab /\ j.id = id => Undo(next, j) = st
    BY <1>1, <1>2, UndoCreate DEF SetRow
  <1> HIDE DEF next
  <1>5. Begin(r, "create", tab, id, row, next) /\ (~stale => Integrity(next))
    BY DEF next
  <1> QED BY <1>2, <1>3, <1>4, <1>5, BeginInv

(* Overwriting a row: the undo writes the old one back. *)
LEMMA UpdateInv ==
  ASSUME Inv, NEW r \in Req, NEW tab \in Tables, NEW id \in DOMAIN st[tab], NEW row,
         UNCHANGED issued,
         Begin(r, "update", tab, id, st[tab][id], SetRow(tab, id, row)),
         ~stale => Integrity(SetRow(tab, id, row))
  PROVE  IdsIssued' /\ UndoRestores' /\ ChecksHold'
  <1> DEFINE next == SetRow(tab, id, row)
  <1>1. st \in Store /\ IdsIn(st) \subseteq issued
    BY DEF Inv, TypeOK, IdsIssued
  <1>2. id \in issued' /\ IdsIn(next) \subseteq issued'
    <2>1. DOMAIN st[tab] \subseteq IdsIn(st)
      BY <1>1, RowIds
    <2>2. IdsIn(next) \subseteq IdsIn(st) \cup {id}
      BY <1>1, RowIds DEF SetRow
    <2> QED BY <1>1, <2>1, <2>2
  <1>3. \A j : j.how = "update" /\ j.tab = tab /\ j.id = id /\ j.before = st[tab][id]
               => Undo(next, j) = st
    BY <1>1, UndoUpdate DEF SetRow
  <1> HIDE DEF next
  <1>4. Begin(r, "update", tab, id, st[tab][id], next) /\ (~stale => Integrity(next))
    BY DEF next
  <1> QED BY <1>2, <1>3, <1>4, BeginInv

(* Deleting a row of a table no other table's rows are deleted with. *)
LEMMA DeleteInv ==
  ASSUME Inv, NEW r \in Req, NEW tab \in Tables \ {"inbounds"}, NEW id \in DOMAIN st[tab],
         UNCHANGED issued,
         Begin(r, "delete", tab, id, st[tab][id], [st EXCEPT ![tab] = Drop(@, id)]),
         ~stale => Integrity([st EXCEPT ![tab] = Drop(@, id)])
  PROVE  IdsIssued' /\ UndoRestores' /\ ChecksHold'
  <1> DEFINE next == [st EXCEPT ![tab] = Drop(@, id)]
  <1>1. st \in Store /\ IdsIn(st) \subseteq issued
    BY DEF Inv, TypeOK, IdsIssued
  <1>2. id \in issued' /\ IdsIn(next) \subseteq issued'
    BY <1>1, RowIds
  <1>3. \A j : j.how = "delete" /\ j.tab = tab /\ j.id = id /\ j.before = st[tab][id]
               => Undo(next, j) = st
    BY <1>1, UndoDelete
  <1> HIDE DEF next
  <1>4. Begin(r, "delete", tab, id, st[tab][id], next) /\ (~stale => Integrity(next))
    BY DEF next
  <1> QED BY <1>2, <1>3, <1>4, BeginInv

(* Every request on an inbound, outbound, group or rule. *)
LEMMA RequestInv ==
  ASSUME Inv, NEW r \in Req,
         InboundRequest(r) \/ OutboundRequest(r) \/ GroupRequest(r) \/ RuleRequest(r)
  PROVE  IdsIssued' /\ UndoRestores' /\ ChecksHold'
  <1> USE DEF Tables
  <1>a. st \in Store /\ IdsIn(st) \subseteq issued /\ (~stale => Integrity(st))
    BY DEF Inv, TypeOK, IdsIssued, ChecksHold
  <1>b. \A x : Fresh(x) => issued \subseteq issued' /\ x \in issued' /\ x \notin IdsIn(st)
    BY <1>a DEF Fresh
  <1>1. ASSUME NEW id \in InboundId, NEW row \in InboundRow, CreateInbound(r, id, row)
        PROVE  IdsIssued' /\ UndoRestores' /\ ChecksHold'
    <2> DEFINE next == SetRow("inbounds", id, row)
    <2>1. id \notin DOMAIN st.inbounds
      BY <1>a, <1>b, <1>1, RowIds DEF CreateInbound
    <2>2. ~stale => Integrity(next)
      <3> SUFFICES ASSUME ~stale PROVE Integrity(next)
        OBVIOUS
      <3>1. \A k \in DOMAIN st.rules : id \notin st.rules[k].inbounds
        BY <1>a, <2>1 DEF Integrity, RuleInboundsResolve
      <3>2. /\ row.node \in DOMAIN st.nodes
            /\ \A x \in DOMAIN st.inbounds \ {id} :
                 /\ st.inbounds[x].name # row.name
                 /\ st.inbounds[x].node = row.node => st.inbounds[x].slot # row.slot
        <4>1. None \notin DOMAIN st.inbounds
          BY <1>a, TableType, IdAssumption DEF Store
        <4> QED BY <1>1, <4>1 DEF CreateInbound, validateInboundTargetSpec, NodeUsable
      <3> QED BY <1>a, <3>1, <3>2, InboundWritten DEF SetRow
    <2> QED BY <1>1, <2>2, CreateInv DEF CreateInbound
  <1>2. ASSUME NEW id \in InboundId, NEW row \in InboundRow, UpdateInbound(r, id, row)
        PROVE  IdsIssued' /\ UndoRestores' /\ ChecksHold'
    <2> DEFINE next == SetRow("inbounds", id, row)
    <2>1. ~stale => Integrity(next)
      BY <1>a, <1>2, InboundWritten
      DEF SetRow, UpdateInbound, validateInboundTargetSpec, NodeUsable, validateInboundReferenceChange
    <2> QED BY <1>2, <2>1, UpdateInv DEF UpdateInbound
  <1>3. ASSUME NEW id \in InboundId, NEW enabled \in BOOLEAN, SetInboundEnabled(r, id, enabled)
        PROVE  IdsIssued' /\ UndoRestores' /\ ChecksHold'
    <2> DEFINE row == [st.inbounds[id] EXCEPT !.enabled = enabled]
               next == SetRow("inbounds", id, row)
    <2>1. st.inbounds[id] \in InboundRow
      BY <1>3, RowType DEF SetInboundEnabled, Inv, IdsOf, RowsOf
    <2>2. /\ row \in InboundRow /\ row.node = st.inbounds[id].node
          /\ row.name = st.inbounds[id].name /\ row.slot = st.inbounds[id].slot
      BY <2>1 DEF InboundRow
    <2>3. ~stale => Integrity(next)
      <3> SUFFICES ASSUME ~stale PROVE Integrity(next)
        OBVIOUS
      <3>1. /\ row.node \in DOMAIN st.nodes
            /\ \A x \in DOMAIN st.inbounds \ {id} :
                 /\ st.inbounds[x].name # row.name
                 /\ st.inbounds[x].node = row.node => st.inbounds[x].slot # row.slot
            /\ \A k \in DOMAIN st.rules :
                 id \in st.rules[k].inbounds => st.rules[k].node = row.node
        BY <1>a, <1>3, <2>2
        DEF SetInboundEnabled, Integrity, NodesResolve, InboundSlotsUnique, InboundNamesUnique,
            RuleInboundsResolve
      <3> HIDE DEF row
      <3> QED BY <1>a, <2>2, <3>1, InboundWritten DEF SetRow
    <2> QED BY <1>3, <2>3, UpdateInv DEF SetInboundEnabled
  <1>4. ASSUME NEW id \in InboundId, DeleteInbound(r, id)
        PROVE  IdsIssued' /\ UndoRestores' /\ ChecksHold'
    <2> DEFINE D == {c \in DOMAIN st.clients : st.clients[c].inbound # id}
               clients == [x \in D |-> st.clients[x]]
               next == [st EXCEPT !.inbounds = Drop(@, id), !.clients = clients]
    <2>1. Begin(r, "delete", "inbounds", id, st.inbounds[id], next)
      BY <1>4 DEF DeleteInbound, Keep
    <2>2. IdsIn(next) \subseteq IdsIn(st)
      BY <1>a DEF IdsIn, Drop, Store
    <2>3. ~stale => Integrity(next)
      BY <1>a, <1>4, InboundDropped DEF DeleteInbound, validateInboundReferenceChange
    <2>4. id \in DOMAIN st.inbounds /\ issued' = issued
      BY <1>4 DEF DeleteInbound
    <2>5. id \in issued'
      BY <1>a, <2>4 DEF IdsIn
    <2>6. \A j : /\ j.how = "delete" /\ j.tab = "inbounds" /\ j.id = id
                 /\ j.before = st.inbounds[id] /\ j.clients = st.clients
                 => Undo(next, j) = st
      <3>0. st \in Store
        BY <1>a
      <3>1. /\ next.inbounds = Drop(st.inbounds, id)
            /\ [next EXCEPT !.inbounds = st.inbounds, !.clients = st.clients] = st
        BY <3>0 DEF Store
      <3> HIDE DEF next
      <3> SUFFICES ASSUME NEW j, j.how = "delete", j.tab = "inbounds", j.id = id,
                          j.before = st.inbounds[id], j.clients = st.clients
                   PROVE  Undo(next, j) = st
        OBVIOUS
      <3>2. /\ id \notin DOMAIN Drop(st.inbounds, id)
            /\ Put(Drop(st.inbounds, id), id, st.inbounds[id]) = st.inbounds
        <4>1. st.inbounds \in Table(InboundId, InboundRow)
          BY <3>0 DEF Store
        <4> QED BY <2>4, <4>1, TableUndo
      <3> QED BY <3>1, <3>2 DEF Undo
    <2> HIDE DEF next
    <2> QED BY <1>a, <2>1, <2>2, <2>3, <2>4, <2>5, <2>6, BeginInv
  <1>5. ASSUME NEW id \in OutboundId, NEW row \in OutboundRow, CreateOutbound(r, id, row)
        PROVE  IdsIssued' /\ UndoRestores' /\ ChecksHold'
    <2> DEFINE next == SetRow("outbounds", id, row)
    <2>1. id \notin DOMAIN st.outbounds
      BY <1>a, <1>b, <1>5, RowIds DEF CreateOutbound
    <2>2. ~stale => Integrity(next)
      <3> SUFFICES ASSUME ~stale PROVE Integrity(next)
        OBVIOUS
      <3>1. \A g \in DOMAIN st.groups : id \notin st.groups[g].members \cup {st.groups[g].fallback}
        BY <1>a, <2>1, IdAssumption DEF Integrity, GroupMembersResolve, OutboundUsable
      <3>2. /\ row.node \in DOMAIN st.nodes
            /\ \A x \in DOMAIN st.outbounds \ {id} :
                 st.outbounds[x].node = row.node => st.outbounds[x].tag # row.tag
        <4>1. None \notin DOMAIN st.outbounds
          BY <1>a, TableType, IdAssumption DEF Store
        <4> QED BY <1>5, <4>1 DEF CreateOutbound, validateOutboundTargetSpec, NodeUsable
      <3> QED BY <1>a, <3>1, <3>2, OutboundWritten DEF SetRow
    <2> QED BY <1>5, <2>2, CreateInv DEF CreateOutbound
  <1>6. ASSUME NEW id \in OutboundId, NEW row \in OutboundRow, UpdateOutbound(r, id, row)
        PROVE  IdsIssued' /\ UndoRestores' /\ ChecksHold'
    <2> DEFINE next == SetRow("outbounds", id, row)
    <2>1. ~stale => Integrity(next)
      BY <1>a, <1>6, OutboundWritten
      DEF SetRow, UpdateOutbound, validateOutboundTargetSpec, NodeUsable,
          validateOutboundGroupReferencesForChange
    <2> QED BY <1>6, <2>1, UpdateInv DEF UpdateOutbound
  <1>7. ASSUME NEW id \in OutboundId, NEW enabled \in BOOLEAN, SetOutboundEnabled(r, id, enabled)
        PROVE  IdsIssued' /\ UndoRestores' /\ ChecksHold'
    <2> DEFINE row == [st.outbounds[id] EXCEPT !.enabled = enabled]
               next == SetRow("outbounds", id, row)
    <2>1. st.outbounds[id] \in OutboundRow
      BY <1>7, RowType DEF SetOutboundEnabled, Inv, IdsOf, RowsOf
    <2>2. /\ row \in OutboundRow /\ row.node = st.outbounds[id].node
          /\ row.tag = st.outbounds[id].tag /\ row.enabled = enabled
      BY <2>1 DEF OutboundRow
    <2>3. ~stale => Integrity(next)
      <3> SUFFICES ASSUME ~stale PROVE Integrity(next)
        OBVIOUS
      <3>1. /\ row.node \in DOMAIN st.nodes
            /\ \A x \in DOMAIN st.outbounds \ {id} :
                 st.outbounds[x].node = row.node => st.outbounds[x].tag # row.tag
        BY <1>a, <1>7, <2>2 DEF SetOutboundEnabled, Integrity, NodesResolve, OutboundTagsUnique
      <3>2. \A g \in DOMAIN st.groups :
              id \in st.groups[g].members \cup {st.groups[g].fallback} =>
                row.enabled /\ st.groups[g].node = row.node
        BY <1>a, <1>7, <2>2, IdAssumption
        DEF SetOutboundEnabled, Integrity, GroupMembersResolve, OutboundUsable,
            validateOutboundGroupReferencesForChange
      <3> HIDE DEF row
      <3> QED BY <1>a, <2>2, <3>1, <3>2, OutboundWritten DEF SetRow
    <2>4. \A j : /\ j.how = "toggle" /\ j.tab = "outbounds" /\ j.id = id
                 /\ j.before = st.outbounds[id]
                 => Undo(next, j) = st
      BY <1>a, <1>7, UndoToggle DEF SetOutboundEnabled, SetRow
    <2>5. Begin(r, "toggle", "outbounds", id, st.outbounds[id], next)
      BY <1>7 DEF SetOutboundEnabled
    <2>6. id \in issued' /\ issued' = issued /\ IdsIn(next) \subseteq issued'
      <3>1. issued' = issued /\ id \in DOMAIN st["outbounds"]
        BY <1>7 DEF SetOutboundEnabled
      <3>2. DOMAIN st["outbounds"] \subseteq IdsIn(st)
        BY <1>a, RowIds
      <3>3. IdsIn(next) \subseteq IdsIn(st) \cup {id}
        <4> HIDE DEF row
        <4> QED BY <1>a, RowIds DEF SetRow
      <3> QED BY <1>a, <3>1, <3>2, <3>3
    <2> HIDE DEF next
    <2> QED BY <2>3, <2>4, <2>5, <2>6, BeginInv
  <1>8. ASSUME NEW id \in OutboundId, DeleteOutbound(r, id)
        PROVE  IdsIssued' /\ UndoRestores' /\ ChecksHold'
    <2>1. ~stale => Integrity([st EXCEPT !["outbounds"] = Drop(@, id)])
      BY <1>a, <1>8, OutboundDropped
      DEF DeleteOutbound, validateOutboundGroupReferencesForChange
    <2> QED BY <1>8, <2>1, DeleteInv DEF DeleteOutbound
  <1>9. ASSUME NEW id \in GroupId, NEW row \in GroupRow, CreateGroup(r, id, row)
        PROVE  IdsIssued' /\ UndoRestores' /\ ChecksHold'
    <2> DEFINE next == SetRow("groups", id, row)
    <2>1. id \notin DOMAIN st.groups
      BY <1>a, <1>b, <1>9, RowIds DEF CreateGroup
    <2>2. ~stale => Integrity(next)
      <3> SUFFICES ASSUME ~stale PROVE Integrity(next)
        OBVIOUS
      <3>1. \A k \in DOMAIN st.rules : st.rules[k].group # id
        BY <1>a, <2>1, IdAssumption DEF Integrity, RuleTargetsResolve
      <3> QED BY <1>a, <1>9, <3>1, GroupWritten DEF CreateGroup, SetRow
    <2> QED BY <1>9, <2>2, CreateInv DEF CreateGroup
  <1>10. ASSUME NEW id \in GroupId, NEW row \in GroupRow, UpdateGroup(r, id, row)
         PROVE  IdsIssued' /\ UndoRestores' /\ ChecksHold'
    <2> DEFINE next == SetRow("groups", id, row)
    <2>1. ~stale => Integrity(next)
      <3> SUFFICES ASSUME ~stale PROVE Integrity(next)
        OBVIOUS
      <3>1. \A k \in DOMAIN st.rules : st.rules[k].group = id =>
              st.rules[k].node = row.node /\ (st.rules[k].enabled => row.enabled)
        BY <1>a, <1>10, IdAssumption
        DEF UpdateGroup, Integrity, RuleTargetsResolve, outboundGroupReferencedByRouting, GroupRow
      <3> QED BY <1>a, <1>10, <3>1, GroupWritten DEF UpdateGroup, SetRow
    <2> QED BY <1>10, <2>1, UpdateInv DEF UpdateGroup
  <1>11. ASSUME NEW id \in GroupId, DeleteGroup(r, id)
         PROVE  IdsIssued' /\ UndoRestores' /\ ChecksHold'
    <2>1. ~stale => Integrity([st EXCEPT !["groups"] = Drop(@, id)])
      BY <1>a, <1>11, GroupDropped DEF DeleteGroup, outboundGroupReferencedByRouting
    <2> QED BY <1>11, <2>1, DeleteInv DEF DeleteGroup
  <1>12. ASSUME NEW id \in RuleId, NEW row \in RuleRow, CreateRule(r, id, row)
         PROVE  IdsIssued' /\ UndoRestores' /\ ChecksHold'
    <2>1. ~stale => Integrity(SetRow("rules", id, row))
      BY <1>a, <1>12, RuleWritten DEF CreateRule, SetRow
    <2> QED BY <1>12, <2>1, CreateInv DEF CreateRule
  <1>13. ASSUME NEW id \in RuleId, NEW row \in RuleRow, UpdateRule(r, id, row)
         PROVE  IdsIssued' /\ UndoRestores' /\ ChecksHold'
    <2>1. ~stale => Integrity(SetRow("rules", id, row))
      BY <1>a, <1>13, RuleWritten DEF UpdateRule, SetRow
    <2> QED BY <1>13, <2>1, UpdateInv DEF UpdateRule
  <1>14. ASSUME NEW id \in RuleId, DeleteRule(r, id)
         PROVE  IdsIssued' /\ UndoRestores' /\ ChecksHold'
    <2>1. ~stale => Integrity([st EXCEPT !["rules"] = Drop(@, id)])
      BY <1>a, RuleDropped
    <2> QED BY <1>14, <2>1, DeleteInv DEF DeleteRule
  <1> QED
    BY <1>1, <1>2, <1>3, <1>4, <1>5, <1>6, <1>7, <1>8, <1>9, <1>10, <1>11, <1>12, <1>13, <1>14
    DEF InboundRequest, OutboundRequest, GroupRequest, RuleRequest

(* An Update by a request that undoes nothing forgets all history. *)
LEMMA WriteInv ==
  ASSUME Inv, NEW next, Write(next), issued \subseteq issued', IdsIn(next) \subseteq issued',
         ~stale => Integrity(next)
  PROVE  IdsIssued' /\ UndoRestores' /\ ChecksHold'
  <1>1. /\ st' = next /\ fresh' = {} /\ job' = job /\ stale' = stale
    BY DEF Write
  <1>2. IdsIssued'
    BY <1>1 DEF Inv, IdsIssued, IsDeploying
  <1>3. UndoRestores' /\ ChecksHold'
    BY <1>1 DEF UndoRestores, ChecksHold
  <1> QED BY <1>2, <1>3

(* Requests on nodes, users and attachments. *)
LEMMA DirectInv ==
  ASSUME Inv, NodeRequest \/ AccessRequest \/ \E r \in Req : Attach(r)
  PROVE  IdsIssued' /\ UndoRestores' /\ ChecksHold'
  <1>a. st \in Store /\ IdsIn(st) \subseteq issued /\ (~stale => Integrity(st))
    BY DEF Inv, TypeOK, IdsIssued, ChecksHold
  <1>1. ASSUME NEW n \in NodeId, CreateNode(n)
        PROVE  IdsIssued' /\ UndoRestores' /\ ChecksHold'
    <2> DEFINE nodes == Put(st.nodes, n, [usable |-> TRUE])
               next == [st EXCEPT !.nodes = nodes]
    <2>1. DOMAIN nodes = DOMAIN st.nodes \cup {n} /\ DOMAIN st.nodes \subseteq issued
      BY <1>a DEF Put, IdsIn
    <2>2. issued' = issued \cup {n}
      BY <1>1 DEF CreateNode, Fresh
    <2>3. IdsIn(next) \subseteq issued'
      <3> HIDE DEF nodes
      <3> QED BY <1>a, <2>1, <2>2 DEF IdsIn, Store
    <2>4. ~stale => Integrity(next)
      <3> HIDE DEF nodes
      <3> QED BY <1>a, <2>1, NodesChanged DEF Integrity, NodesResolve
    <2>5. Write(next)
      BY <1>1 DEF CreateNode
    <2> HIDE DEF next
    <2> QED BY <2>2, <2>3, <2>4, <2>5, WriteInv
  <1>2. ASSUME NEW n \in NodeId, DeleteNode(n)
        PROVE  IdsIssued' /\ UndoRestores' /\ ChecksHold'
    <2> DEFINE nodes == Drop(st.nodes, n)
               next == [st EXCEPT !.nodes = nodes]
    <2>1. DOMAIN nodes = DOMAIN st.nodes \ {n} /\ DOMAIN st.nodes \subseteq issued
      BY <1>a DEF Drop, IdsIn
    <2>2. issued' = issued
      BY <1>2 DEF DeleteNode
    <2>3. IdsIn(next) \subseteq issued'
      <3> HIDE DEF nodes
      <3> QED BY <1>a, <2>1, <2>2 DEF IdsIn, Store
    <2>4. ~stale => Integrity(next)
      <3> HIDE DEF nodes
      <3> QED BY <1>a, <1>2, <2>1, NodesChanged
              DEF Integrity, NodesResolve, DeleteNode, validateNodeDeleteReferences
    <2>5. Write(next)
      BY <1>2 DEF DeleteNode
    <2> HIDE DEF next
    <2> QED BY <2>2, <2>3, <2>4, <2>5, WriteInv
  <1>3. ASSUME NEW n \in NodeId, NEW on \in BOOLEAN, SetNodeUsable(n, on)
        PROVE  IdsIssued' /\ UndoRestores' /\ ChecksHold'
    <2>1. PICK nodes : DOMAIN nodes = DOMAIN st.nodes /\ Write([st EXCEPT !.nodes = nodes])
      <3> WITNESS [st.nodes EXCEPT ![n].usable = on]
      <3> QED BY <1>3 DEF SetNodeUsable
    <2> DEFINE next == [st EXCEPT !.nodes = nodes]
    <2>2. issued' = issued
      BY <1>3 DEF SetNodeUsable
    <2>3. IdsIn(next) \subseteq issued'
      BY <1>a, <2>1, <2>2 DEF IdsIn, Store
    <2>4. ~stale => Integrity(next)
      BY <1>a, <2>1, NodesChanged DEF Integrity, NodesResolve
    <2>5. Write(next)
      BY <2>1
    <2> HIDE DEF next
    <2> QED BY <2>2, <2>3, <2>4, <2>5, WriteInv
  <1>4. ASSUME NEW u \in UserId, CreateUser(u)
        PROVE  IdsIssued' /\ UndoRestores' /\ ChecksHold'
    <2> DEFINE next == [st EXCEPT !.users = @ \cup {u}]
    <2>1. issued' = issued \cup {u} /\ Write(next)
      BY <1>4 DEF CreateUser, Fresh
    <2>2. /\ next.users = st.users \cup {u} /\ next.nodes = st.nodes
          /\ next.inbounds = st.inbounds /\ next.outbounds = st.outbounds
          /\ next.groups = st.groups /\ next.rules = st.rules /\ next.clients = st.clients
      BY <1>a DEF Store
    <2>3. next \in Store
      BY <1>a DEF Store
    <2> HIDE DEF next
    <2>4. IdsIn(next) \subseteq issued'
      BY <1>a, <2>1, <2>2 DEF IdsIn
    <2>5. ~stale => Integrity(next)
      <3> SUFFICES ASSUME ~stale PROVE Integrity(next)
        OBVIOUS
      <3>1. /\ \A k \in DOMAIN st.rules : next.rules[k].users \subseteq next.users
            /\ ClientsResolve(next) /\ ClientsUnique(next)
        BY <1>a, <2>2 DEF Integrity, RuleUsersResolve, ClientsResolve, ClientsUnique
      <3> QED BY <1>a, <2>2, <2>3, <3>1, AccessChanged
    <2> QED BY <2>1, <2>4, <2>5, WriteInv
  <1>5. ASSUME NEW u \in UserId, DeleteUser(u)
        PROVE  IdsIssued' /\ UndoRestores' /\ ChecksHold'
    <2> DEFINE D == {c \in DOMAIN st.clients : st.clients[c].user # u}
               clients == [x \in D |-> st.clients[x]]
               rules == [k \in DOMAIN st.rules |->
                           [st.rules[k] EXCEPT !.users = st.rules[k].users \ {u}]]
               next == [st EXCEPT !.users = @ \ {u}, !.clients = clients, !.rules = rules]
    <2>1. issued' = issued /\ Write(next)
      BY <1>5 DEF DeleteUser, Keep
    <2>2. /\ next.users = st.users \ {u} /\ next.nodes = st.nodes
          /\ next.inbounds = st.inbounds /\ next.outbounds = st.outbounds
          /\ next.groups = st.groups /\ next.rules = rules /\ next.clients = clients
      BY <1>a DEF Store
    <2>3. next \in Store
      <3>1. TypeOK'
        BY <1>5, DirectType DEF Inv, AccessRequest
      <3> QED BY <2>1, <3>1 DEF Write, TypeOK
    <2>4. \A k \in DOMAIN st.rules :
            /\ rules[k].node = st.rules[k].node /\ rules[k].enabled = st.rules[k].enabled
            /\ rules[k].outbound = st.rules[k].outbound /\ rules[k].group = st.rules[k].group
            /\ rules[k].inbounds = st.rules[k].inbounds
            /\ rules[k].users = st.rules[k].users \ {u}
      <3>1. \A k \in DOMAIN st.rules : st.rules[k] \in RuleRow
        BY <1>a, TableType DEF Store
      <3> QED BY <3>1 DEF RuleRow
    <2>5. DOMAIN rules = DOMAIN st.rules /\ DOMAIN clients = D
          /\ \A c \in D : clients[c] = st.clients[c]
      OBVIOUS
    <2> HIDE DEF next, rules, clients
    <2>6. IdsIn(next) \subseteq issued'
      BY <1>a, <2>1, <2>2, <2>5 DEF IdsIn
    <2>7. ~stale => Integrity(next)
      <3> SUFFICES ASSUME ~stale PROVE Integrity(next)
        OBVIOUS
      <3>1. \A k \in DOMAIN st.rules : next.rules[k].users \subseteq next.users
        BY <1>a, <2>2, <2>4 DEF Integrity, RuleUsersResolve
      <3>2. ClientsResolve(next) /\ ClientsUnique(next)
        BY <1>a, <2>2, <2>5 DEF Integrity, ClientsResolve, ClientsUnique
      <3> QED BY <1>a, <2>2, <2>3, <2>4, <2>5, <3>1, <3>2, AccessChanged
    <2> QED BY <2>1, <2>6, <2>7, WriteInv
  <1>6. ASSUME NEW i \in InboundId, NEW u \in UserId, Detach(i, u)
        PROVE  IdsIssued' /\ UndoRestores' /\ ChecksHold'
    <2> DEFINE D == {c \in DOMAIN st.clients : st.clients[c] # [inbound |-> i, user |-> u]}
               clients == [x \in D |-> st.clients[x]]
               next == [st EXCEPT !.clients = clients]
    <2>1. issued' = issued /\ Write(next)
      BY <1>6 DEF Detach, Keep
    <2>2. /\ next.users = st.users /\ next.nodes = st.nodes
          /\ next.inbounds = st.inbounds /\ next.outbounds = st.outbounds
          /\ next.groups = st.groups /\ next.rules = st.rules /\ next.clients = clients
      BY <1>a DEF Store
    <2>3. next \in Store
      BY <1>a, ClientsKept
    <2>4. DOMAIN clients = D /\ \A c \in D : clients[c] = st.clients[c]
      OBVIOUS
    <2> HIDE DEF next, clients
    <2>5. IdsIn(next) \subseteq issued'
      BY <1>a, <2>1, <2>2, <2>4 DEF IdsIn
    <2>6. ~stale => Integrity(next)
      <3> SUFFICES ASSUME ~stale PROVE Integrity(next)
        OBVIOUS
      <3>1. \A k \in DOMAIN st.rules : next.rules[k].users \subseteq next.users
        BY <1>a, <2>2 DEF Integrity, RuleUsersResolve
      <3>2. ClientsResolve(next) /\ ClientsUnique(next)
        BY <1>a, <2>2, <2>4 DEF Integrity, ClientsResolve, ClientsUnique
      <3> QED BY <1>a, <2>2, <2>3, <3>1, <3>2, AccessChanged
    <2> QED BY <2>1, <2>5, <2>6, WriteInv
  <1>7. ASSUME NEW r \in Req, NEW i \in InboundId, NEW u \in UserId, AttachCheck(r, i, u)
        PROVE  IdsIssued' /\ UndoRestores' /\ ChecksHold'
    <2>1. /\ st' = st /\ issued' = issued /\ prev' = prev /\ stale' = stale
          /\ fresh' = fresh \cup {r}
          /\ job'[r] = [how |-> "attach", inbound |-> i, user |-> u]
          /\ \A q \in Req \ {r} : job'[q] = job[q]
      BY <1>7 DEF AttachCheck, Inv, TypeOK
    <2>2. fresh \subseteq Req /\ IdsIssued /\ UndoRestores /\ ChecksHold
      BY DEF Inv, TypeOK
    <2>3. ~IsDeploying(r)'
      BY <2>1 DEF IsDeploying
    <2>4. IdsIssued'
      BY <2>1, <2>2, <2>3 DEF IdsIssued, IsDeploying
    <2>5. UndoRestores'
      BY <2>1, <2>2, <2>3 DEF UndoRestores, IsDeploying
    <2>6. ChecksHold'
      BY <1>7, <2>1, <2>2, <2>3 DEF AttachCheck, ChecksHold, IsDeploying
    <2> QED BY <2>4, <2>5, <2>6
  <1>8. ASSUME NEW r \in Req, NEW c \in ClientId, AttachAppend(r, c)
        PROVE  IdsIssued' /\ UndoRestores' /\ ChecksHold'
    <2> DEFINE row == [inbound |-> job[r].inbound, user |-> job[r].user]
               clients == Put(st.clients, c, row)
               next == [st EXCEPT !.clients = clients]
    <2>1. /\ st' = next /\ fresh' = {} /\ issued' = issued \cup {c}
          /\ stale' = (stale \/ r \notin fresh)
          /\ ~IsDeploying(r)' /\ \A q \in Req \ {r} : job'[q] = job[q]
      BY <1>8 DEF AttachAppend, WriteBack, Fresh, Idle, Inv, TypeOK, IsDeploying
    <2>2. /\ next.users = st.users /\ next.nodes = st.nodes
          /\ next.inbounds = st.inbounds /\ next.outbounds = st.outbounds
          /\ next.groups = st.groups /\ next.rules = st.rules /\ next.clients = clients
      BY <1>a DEF Store
    <2>3. next \in Store
      <3>1. TypeOK'
        BY <1>8, DirectType DEF Inv, Attach
      <3> QED BY <2>1, <3>1 DEF TypeOK
    <2>4. /\ DOMAIN clients = DOMAIN st.clients \cup {c} /\ clients[c] = row
          /\ \A d \in DOMAIN st.clients \ {c} : clients[d] = st.clients[d]
      BY DEF Put
    <2> HIDE DEF next, clients
    <2>5. IdsIssued'
      BY <1>a, <2>1, <2>2, <2>4 DEF Inv, IdsIssued, IdsIn, IsDeploying
    <2>6. UndoRestores'
      BY <2>1 DEF UndoRestores
    <2>7. ~stale' => Integrity(next)
      <3> SUFFICES ASSUME ~stale, r \in fresh PROVE Integrity(next)
        BY <2>1
      <3>1. /\ row.inbound \in DOMAIN st.inbounds /\ row.user \in st.users
            /\ \A d \in DOMAIN st.clients : st.clients[d] # row
        BY <1>8 DEF AttachAppend, Inv, ChecksHold
      <3> HIDE DEF row
      <3>2. \A k \in DOMAIN st.rules : next.rules[k].users \subseteq next.users
        BY <1>a, <2>2 DEF Integrity, RuleUsersResolve
      <3>3. ClientsResolve(next)
        BY <1>a, <2>2, <2>4, <3>1 DEF Integrity, ClientsResolve
      <3>4. ClientsUnique(next)
        BY <1>a, <2>2, <2>4, <3>1 DEF Integrity, ClientsUnique
      <3> QED BY <1>a, <2>2, <2>3, <3>2, <3>3, <3>4, AccessChanged
    <2>8. ChecksHold'
      BY <2>1, <2>7 DEF ChecksHold
    <2> QED BY <2>5, <2>6, <2>8
  <1> QED
    BY <1>1, <1>2, <1>3, <1>4, <1>5, <1>6, <1>7, <1>8
    DEF NodeRequest, AccessRequest, Attach

(* The end of a transaction: undisturbed, it leads back to prev, which is   *)
(* sound; disturbed, it marks the state stale.                              *)
LEMMA FinishInv ==
  ASSUME Inv, NEW r \in Req, Finish(r)
  PROVE  IdsIssued' /\ UndoRestores' /\ ChecksHold'
  <1>1. CASE DeploySucceeds(r) \/ RollBackNotSaved(r)
    <2>1. /\ st' = st /\ issued' = issued /\ stale' = stale /\ IsDeploying(r)
          /\ fresh' = fresh \ {r} /\ prev' = (IF r \in fresh THEN EmptyStore ELSE prev)
          /\ ~IsDeploying(r)' /\ \A q \in Req \ {r} : job'[q] = job[q]
      BY <1>1 DEF DeploySucceeds, RollBackNotSaved, Leave, Inv, TypeOK, IsDeploying, Idle
    <2>2. fresh \subseteq Req /\ IdsIssued /\ UndoRestores /\ ChecksHold
      BY DEF Inv, TypeOK
    <2>3. \A q \in fresh' : q \in fresh /\ q # r /\ q \in Req /\ job'[q] = job[q]
      BY <2>1, <2>2
    <2>4. \A q \in fresh' : IsDeploying(q) => prev' = prev
      BY <2>1, <2>2, <2>3 DEF UndoRestores
    <2>5. IdsIssued'
      BY <2>1, <2>2 DEF IdsIssued, IsDeploying
    <2>6. UndoRestores'
      BY <2>1, <2>2, <2>3, <2>4 DEF UndoRestores, IsDeploying
    <2>7. ChecksHold'
      BY <2>1, <2>2, <2>3, <2>4 DEF ChecksHold, IsDeploying
    <2> QED BY <2>5, <2>6, <2>7
  <1>2. CASE RollBack(r)
    <2>1. /\ st' = Undo(st, job[r]) /\ issued' = issued /\ IsDeploying(r)
          /\ fresh' = {} /\ stale' = (stale \/ r \notin fresh)
          /\ ~IsDeploying(r)' /\ \A q \in Req \ {r} : job'[q] = job[q]
      BY <1>2 DEF RollBack, WriteBack, Inv, TypeOK, IsDeploying, Idle
    <2>2. IdsIn(st') \subseteq issued
      <3> DEFINE j == job[r]
      <3>1. j \in Deploying /\ st \in Store
        BY <2>1 DEF IsDeploying, Inv, TypeOK, Attaching, Idle
      <3>2. IdsIn(st) \cup {j.id} \cup DOMAIN j.clients \subseteq issued
        BY <2>1 DEF Inv, IdsIssued
      <3>3. IdsIn(Undo(st, j)) \subseteq IdsIn(st) \cup {j.id} \cup DOMAIN j.clients
        <4> HIDE DEF j
        <4> QED BY <3>1, UndoIds
      <3> QED BY <2>1, <3>2, <3>3
    <2>3. IdsIssued'
      BY <2>1, <2>2 DEF Inv, IdsIssued, IsDeploying
    <2>4. UndoRestores'
      BY <2>1 DEF UndoRestores
    <2>5. ~stale' => Integrity(st')
      BY <2>1 DEF Inv, UndoRestores, ChecksHold
    <2>6. ChecksHold'
      BY <2>1, <2>5 DEF ChecksHold
    <2> QED BY <2>3, <2>4, <2>6
  <1> QED BY <1>1, <1>2 DEF Finish

LEMMA InitInv == Init => Inv
  <1> SUFFICES ASSUME Init PROVE Inv
    OBVIOUS
  <1>1. IdsIssued
    BY DEF Init, IdsIssued, IsDeploying, Idle
  <1>2. UndoRestores /\ ChecksHold
    BY SavedStatesAssumption DEF Init, UndoRestores, ChecksHold
  <1> QED BY <1>1, <1>2, InitType DEF Inv

LEMMA NextInv == Inv /\ [Next]_vars => Inv'
  <1> SUFFICES ASSUME Inv, [Next]_vars PROVE Inv'
    OBVIOUS
  <1>1. TypeOK'
    BY NextType DEF Inv
  <1>2. CASE Next
    BY <1>1, <1>2, RequestInv, DirectInv, FinishInv DEF Next, Inv
  <1>3. CASE UNCHANGED vars
    BY <1>1, <1>3 DEF vars, history, Inv, IdsIssued, UndoRestores, ChecksHold, IsDeploying
  <1> QED BY <1>2, <1>3

(* The inductive invariant. *)
THEOREM InvCorrect == Spec => []Inv
  BY InitInv, NextInv, PTL DEF Spec

(* As long as no rollback or attachment rests on a state another request    *)
(* has changed, the panel's state keeps every reference resolvable and      *)
(* every unique field unique.                                               *)
THEOREM IntegrityKept == Spec => []IntegrityUnlessStale
  <1>1. Inv => IntegrityUnlessStale
    BY DEF Inv, ChecksHold, IntegrityUnlessStale
  <1> QED BY <1>1, InvCorrect, PTL

(* A rollback nobody interfered with restores the state exactly.            *)
THEOREM RollBackExact == Spec => RollBackRestores
  <1>1. Inv /\ [Next]_vars => [\A r \in Req : RollBack(r) /\ r \in fresh => st' = prev]_vars
    BY DEF Inv, UndoRestores, RollBack
  <1> QED BY <1>1, InvCorrect, PTL DEF Spec, RollBackRestores

(* What an undoing Update may change: its own row, and with a deleted       *)
(* inbound the clients.                                                     *)
Local(s, u, j) ==
  /\ u.nodes = s.nodes /\ u.users = s.users
  /\ \A tab \in Tables : \A id \in (DOMAIN s[tab] \cup DOMAIN u[tab]) :
       \/ tab = j.tab /\ id = j.id
       \/ /\ id \in DOMAIN s[tab] \cap DOMAIN u[tab]
          /\ u[tab][id] = s[tab][id]
  /\ u.clients # s.clients => j.how = "delete" /\ j.tab = "inbounds"

(* One table is written, at one row.                                        *)
LEMMA OneRow ==
  ASSUME NEW s \in Store, NEW j, j.tab \in Tables, NEW t, NEW c,
         c # s.clients => j.how = "delete" /\ j.tab = "inbounds",
         \A id \in (DOMAIN s[j.tab] \cup DOMAIN t) \ {j.id} :
           id \in DOMAIN s[j.tab] \cap DOMAIN t /\ t[id] = s[j.tab][id]
  PROVE  /\ Local(s, [s EXCEPT ![j.tab] = t, !.clients = c], j)
         /\ Local(s, [s EXCEPT ![j.tab] = t], j)
         /\ Local(s, s, j)
  <1>1. ASSUME NEW u \in {[s EXCEPT ![j.tab] = t, !.clients = c], [s EXCEPT ![j.tab] = t], s}
        PROVE  Local(s, u, j)
    <2>1. /\ u.nodes = s.nodes /\ u.users = s.users
          /\ u[j.tab] \in {t, s[j.tab]} /\ u.clients \in {c, s.clients}
      BY DEF Store, Tables
    <2>2. \A tab \in Tables : tab # j.tab => u[tab] = s[tab]
      BY DEF Store, Tables
    <2>3. ASSUME NEW tab \in Tables, NEW id \in DOMAIN s[tab] \cup DOMAIN u[tab]
          PROVE  \/ tab = j.tab /\ id = j.id
                 \/ /\ id \in DOMAIN s[tab] \cap DOMAIN u[tab]
                    /\ u[tab][id] = s[tab][id]
      <3>1. CASE tab # j.tab
        <4>1. u[tab] = s[tab]
          BY <2>2, <3>1
        <4>. QED  BY <4>1
      <3>2. CASE tab = j.tab /\ u[tab] = s[tab]
        BY <3>2
      <3>3. CASE tab = j.tab /\ u[tab] = t
        BY <3>3
      <3>. QED  BY <2>1, <3>1, <3>2, <3>3
    <2>4. u.clients # s.clients => j.how = "delete" /\ j.tab = "inbounds"
      BY <2>1
    <2>. QED  BY <2>1, <2>3, <2>4 DEF Local
  <1>. QED  BY <1>1

LEMMA UndoLocal ==
  ASSUME NEW s \in Store, NEW j \in Deploying
  PROVE  Local(s, Undo(s, j), j)
  <1> DEFINE old == s[j.tab]
             row == [old[j.id] EXCEPT !.enabled = j.before.enabled]
  <1>1. j.tab \in Tables /\ j.how \in {"create", "update", "toggle", "delete"}
    BY DEF Deploying, DeployingOn, Tables
  <1>2. \A id \in (DOMAIN old \cup DOMAIN Drop(old, j.id)) \ {j.id} :
          id \in DOMAIN old \cap DOMAIN Drop(old, j.id) /\ Drop(old, j.id)[id] = old[id]
    BY DEF Drop
  <1>3. \A r : \A id \in (DOMAIN old \cup DOMAIN Put(old, j.id, r)) \ {j.id} :
          id \in DOMAIN old \cap DOMAIN Put(old, j.id, r) /\ Put(old, j.id, r)[id] = old[id]
    BY DEF Put
  <1>4. CASE j.how = "create"
    BY <1>1, <1>2, <1>4, OneRow DEF Undo
  <1>5. CASE j.how = "update"
    BY <1>1, <1>3, <1>5, OneRow DEF Undo
  <1>6. CASE j.how = "toggle"
    <2>. HIDE DEF row
    <2>1. Local(s, [s EXCEPT ![j.tab] = Put(old, j.id, row)], j) /\ Local(s, s, j)
      BY <1>1, <1>3, OneRow
    <2>2. Undo(s, j) = IF j.id \in DOMAIN old THEN [s EXCEPT ![j.tab] = Put(old, j.id, row)] ELSE s
      BY <1>6 DEF Undo, row
    <2>. QED  BY <2>1, <2>2
  <1>7. CASE j.how = "delete"
    <2> DEFINE t == IF j.id \in DOMAIN old THEN old ELSE Put(old, j.id, j.before)
               c == IF j.tab = "inbounds" THEN j.clients ELSE s.clients
    <2>1. c # s.clients => j.how = "delete" /\ j.tab = "inbounds"
      BY <1>7
    <2>2. \A id \in (DOMAIN old \cup DOMAIN t) \ {j.id} :
            id \in DOMAIN old \cap DOMAIN t /\ t[id] = old[id]
      BY <1>3
    <2>3. Undo(s, j) = [s EXCEPT ![j.tab] = t, !.clients = c]
      BY <1>1, <1>7 DEF Undo, Tables, Store
    <2>. HIDE DEF t, c
    <2>4. Local(s, [s EXCEPT ![j.tab] = t, !.clients = c], j)
      BY <1>1, <2>1, <2>2, OneRow
    <2>. QED  BY <2>3, <2>4
  <1>. QED  BY <1>1, <1>4, <1>5, <1>6, <1>7

(* A rollback, however stale, changes no row of another request, and the    *)
(* clients only for the inbound it brings back.                             *)
THEOREM RollBackLocal == Spec => RollBackIsLocal
  <1>1. ASSUME TypeOK, NEW r \in Req, RollBack(r) PROVE Local(st, st', job[r])
    <2>1. st \in Store /\ job[r] \in Deploying
      BY <1>1 DEF TypeOK, RollBack, IsDeploying, Attaching, Idle
    <2>. QED  BY <1>1, <2>1, UndoLocal DEF RollBack
  <1>2. TypeOK => \A r \in Req : RollBack(r) => Local(st, st', job[r])
    BY <1>1
  <1>3. TypeOK /\ [Next]_vars =>
          [\A r \in Req : RollBack(r) =>
             /\ st'.nodes = st.nodes /\ st'.users = st.users
             /\ \A tab \in Tables : \A id \in (DOMAIN st[tab] \cup DOMAIN st'[tab]) :
                  \/ tab = job[r].tab /\ id = job[r].id
                  \/ /\ id \in DOMAIN st[tab] \cap DOMAIN st'[tab]
                     /\ st'[tab][id] = st[tab][id]
             /\ st'.clients # st.clients => job[r].how = "delete" /\ job[r].tab = "inbounds"]_vars
    BY <1>2 DEF Local
  <1>. QED  BY <1>3, TypeCorrect, PTL DEF Spec, RollBackIsLocal

=============================================================================
