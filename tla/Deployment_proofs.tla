-------------------------- MODULE Deployment_proofs --------------------------
(***************************************************************************)
(* The safety properties of Deployment, for any outbounds, jobs, handlers  *)
(* and failures, by the invariant Inv.  A step of a handler is described   *)
(* once (Tidy) by what it may do to services and to its own record; each   *)
(* action is shown to be tidy, and tidy steps to keep the invariant.       *)
(***************************************************************************)
EXTENDS Deployment, TLAPS

-----------------------------------------------------------------------------
(* Kinds and stages *)

(* Each native kind has its own outbounds.                                  *)
LEMMA Kinds ==
  /\ OfKind("wireguard") = WireGuard /\ OfKind("tor") = Tor /\ OfKind("openvpn") = OpenVPN
  /\ \A k \in Native : OfKind(k) \subseteq Outbound
  /\ \A k, l \in Native : k # l => OfKind(k) \cap OfKind(l) = {}
  /\ None \notin Outbound
  BY NodeAssumption DEF OfKind, Native, Outbound

(* deployOutboundNode's order.                                              *)
LEMMA StageKinds ==
  /\ Stages[1] = "wireguard" /\ Stages[2] = "tor" /\ Stages[3] = "openvpn" /\ Stages[4] = "xray"
  /\ \A i \in 1..3 : Stages[i] \in Native
  /\ \A i, j \in 1..3 : i # j => Stages[i] # Stages[j]
  <1>1. Stages[1] = "wireguard" /\ Stages[2] = "tor" /\ Stages[3] = "openvpn" /\ Stages[4] = "xray"
    BY DEF Stages
  <1>2. \A i \in 1..3 : i = 1 \/ i = 2 \/ i = 3
    OBVIOUS
  <1> QED BY <1>1, <1>2 DEF Native

(* What is behind a stage is not of its kind.                               *)
LEMMA BehindStage ==
  ASSUME NEW s \in 1..LastStage
  PROVE  /\ Behind(s) \subseteq Outbound
         /\ Stages[s] \in Native => Behind(s) \cap OfKind(Stages[s]) = {}
  <1>1. SUFFICES ASSUME Stages[s] \in Native, NEW o \in Behind(s), o \in OfKind(Stages[s])
                 PROVE  FALSE
    BY DEF Behind
  <1>2. s \in 1..3
    <2>1. "xray" \notin Native
      BY DEF Native
    <2> QED BY <1>1, <2>1, StageKinds DEF LastStage
  <1>3. PICK i \in 1..(s - 1) : o \in OfKind(Stages[i])
    BY <1>1 DEF Behind
  <1>4. i \in 1..3 /\ i # s
    BY <1>2, <1>3
  <1> QED BY <1>1, <1>2, <1>3, <1>4, StageKinds, Kinds

(* Every outbound is behind Xray's stage, and none behind the first.        *)
LEMMA BehindEnds == Behind(1) = {} /\ Behind(LastStage) = Outbound
  <1>1. Behind(1) = {}
    BY DEF Behind
  <1>2. ASSUME NEW o \in Outbound PROVE \E i \in 1..3 : o \in OfKind(Stages[i])
    <2>1. o \in WireGuard \/ o \in Tor \/ o \in OpenVPN
      BY DEF Outbound
    <2> QED BY <2>1, Kinds, StageKinds
  <1> QED BY <1>1, <1>2 DEF Behind, LastStage

(* A stage that is done is behind the next.                                 *)
LEMMA BehindNext ==
  ASSUME NEW s \in 1..3
  PROVE  Behind(s + 1) = Behind(s) \cup OfKind(Stages[s])
  <1>1. OfKind(Stages[s]) \subseteq Outbound
    BY Kinds, StageKinds
  <1>2. \A i \in 1..(s + 1 - 1) : i \in 1..(s - 1) \/ i = s
    OBVIOUS
  <1>3. s \in 1..(s + 1 - 1) /\ \A i \in 1..(s - 1) : i \in 1..(s + 1 - 1)
    OBVIOUS
  <1> QED BY <1>1, <1>2, <1>3 DEF Behind

-----------------------------------------------------------------------------
(* Steps of handlers *)

(* A handler's own record goes on, with the same request.                   *)
Moves(h) ==
  /\ handler[h] # Idle /\ handler'[h] # Idle
  /\ handler' \in [Handler -> Syncing \cup Applying \cup {Idle}]
  /\ \A g \in Handler : g # h => handler'[g] = handler[g]
  /\ handler'[h].kind = handler[h].kind
  /\ handler'[h].want = handler[h].want /\ handler'[h].caller = handler[h].caller

(* Services change only if they are of its kind, are not and do not become  *)
(* the administrator's own.                                                 *)
Touches(h) ==
  /\ unit' \in [Outbound -> Unit]
  /\ \A o \in Outbound : unit'[o] = unit[o] \/
       /\ handler[h].kind \in Native /\ o \in OfKind(handler[h].kind)
       /\ unit[o].file # Own /\ unit'[o].file # Own

(* What a step of a handler may do: with that, services stay managed, and   *)
(* what it has done so far stays done.                                      *)
Tidy(h) ==
  /\ Moves(h) /\ Touches(h)
  /\ xray' \in Xray
  /\ Careful(h)'
  /\ ~blurred' => InTurn(h)'
  /\ ~blurred' => \A o \in Outbound : unit'[o] # unit[o] => Managed(o)'
  /\ ~blurred' /\ handler[h].want = rows /\ Progress(h) => Progress(h)'

(* A handler record is one of the two sorts, by where it is.                *)
LEMMA HandlerSorts ==
  ASSUME NodeTypeOK, NEW h \in Handler
  PROVE  /\ handler[h] # Idle <=> handler[h].at # "idle"
         /\ handler[h].at \in {"next", "mark", "enable", "restart", "sweep", "unfile", "unmark"}
              => handler[h] \in Syncing
         /\ handler[h].at \in {"test", "truncate", "fill", "start", "restore", "refill", "startold"}
              => handler[h] \in Applying
         /\ handler[h] # Idle => handler[h] \in Syncing \cup Applying
         /\ handler[h] \in Syncing => handler[h].kind \in Native
         /\ handler[h] \in Applying => handler[h].kind = "xray"
         /\ "xray" \notin Native
  <1>1. handler[h] \in Syncing \/ handler[h] \in Applying \/ handler[h] = Idle
    BY DEF NodeTypeOK
  <1>2. CASE handler[h] \in Syncing
    <2>1. /\ handler[h].at \in {"next", "mark", "enable", "restart", "sweep", "unfile",
                               "unmark", "done", "failed"}
          /\ handler[h].kind \in Native
      BY <1>2 DEF Syncing
    <2>2. handler[h] # Idle
      BY <2>1 DEF Idle
    <2>3. handler[h] \notin Applying
      BY <2>1 DEF Applying, Native
    <2> QED BY <1>2, <2>1, <2>2, <2>3 DEF Native
  <1>3. CASE handler[h] \in Applying
    <2>1. /\ handler[h].at \in {"test", "truncate", "fill", "start", "restore", "refill",
                              "startold", "done", "failed"}
          /\ handler[h].kind = "xray"
      BY <1>3 DEF Applying
    <2>2. handler[h] # Idle
      BY <2>1 DEF Idle
    <2>3. handler[h] \notin Syncing
      BY <2>1 DEF Syncing, Native
    <2> QED BY <1>3, <2>1, <2>2, <2>3 DEF Native
  <1>4. CASE handler[h] = Idle
    <2>1. handler[h].at = "idle"
      BY <1>4 DEF Idle
    <2>2. handler[h] \notin Syncing /\ handler[h] \notin Applying
      BY <2>1 DEF Syncing, Applying
    <2> QED BY <1>4, <2>1, <2>2 DEF Native
  <1> QED BY <1>1, <1>2, <1>3, <1>4

(* A tidy step keeps the invariant.                                         *)
LEMMA TidyKeeps ==
  ASSUME Inv, NEW h \in Handler, Tidy(h), UNCHANGED <<stored, job, lone>>,
         blurred' \in BOOLEAN, blurred => blurred', faults' \in 0..MaxFaults
  PROVE  Inv'
  <1>0. /\ TypeOK /\ NodeTypeOK /\ OwnKept /\ Called /\ Alone
        /\ ~blurred => Orderly /\ RunningIsManaged /\ OnTheWay
        /\ UNCHANGED <<rows, reality, password, status, job, lone>>
    BY DEF Inv, TypeOK, stored
  <1>1. TypeOK'
    BY <1>0 DEF TypeOK, NodeTypeOK, Tidy, Moves, Touches
  <1>2. ASSUME NEW o \in Outbound
        PROVE  /\ unit'[o].file = Own => unit'[o] = unit[o]
               /\ unit[o].file # Own => unit'[o].file # Own
    BY DEF Tidy, Moves, Touches
  <1>3. OwnKept'
    <2>1. ASSUME NEW o \in Outbound, unit'[o].file = Own
          PROVE  o \in WireGuard /\ unit'[o] = OwnUnit
      BY <1>0, <1>2, <2>1 DEF OwnKept
    <2>2. ASSUME NEW g \in Handler, g # h PROVE Careful(g)'
      <3>1. Careful(g) /\ handler'[g] = handler[g]
        BY <1>0, <2>2 DEF OwnKept, Tidy, Moves, Touches
      <3>2. handler[g].at \in {"next", "mark", "enable", "restart", "sweep", "unfile", "unmark"} =>
              OfKind(handler[g].kind) \subseteq Outbound
        BY <1>0, HandlerSorts, Kinds
      <3> QED BY <1>2, <3>1, <3>2 DEF Careful
    <2>3. Careful(h)'
      BY DEF Tidy, Moves, Touches
    <2> QED BY <2>1, <2>2, <2>3 DEF OwnKept
  <1>4. Alone'
    BY <1>0 DEF Alone, Tidy, Moves, Touches
  <1>5. Called'
    BY <1>0 DEF Called, Tidy, Moves
  <1>6. ASSUME ~blurred' PROVE Orderly' /\ RunningIsManaged' /\ OnTheWay'
    <2>0. Orderly /\ (\A o \in Outbound : Managed(o)) /\ OnTheWay
      BY <1>0, <1>6 DEF RunningIsManaged
    <2>1. ASSUME NEW g \in Handler, g # h, handler[g] # Idle
          PROVE  /\ handler[g].kind # handler[h].kind
                 /\ handler[g].kind \in Native =>
                      \A o \in OfKind(handler[g].kind) : unit'[o] = unit[o]
      <3>1. handler[g].kind # handler[h].kind
        BY <2>0, <2>1 DEF Orderly, Tidy, Moves, Touches
      <3> QED BY <3>1, Kinds DEF Tidy, Moves, Touches
    <2>2. ASSUME NEW g \in Handler PROVE InTurn(g)'
      <3>1. CASE g = h
        BY <1>6, <3>1 DEF Tidy, Moves, Touches
      <3>2. CASE g # h
        <4>1. InTurn(g) /\ Careful(g) /\ handler'[g] = handler[g]
          BY <1>0, <2>0, <3>2 DEF OwnKept, Orderly, Tidy, Moves, Touches
        <4>2. CASE handler[g].at \in {"enable", "restart", "unfile", "unmark"}
          <5>1. handler[g].kind \in Native /\ handler[g] # Idle
            BY <1>0, <4>2, HandlerSorts
          <5>2. unit'[handler[g].cur] = unit[handler[g].cur]
            BY <2>1, <3>2, <4>1, <4>2, <5>1 DEF Careful
          <5> QED BY <4>1, <5>2 DEF InTurn
        <4>3. CASE handler[g].at \notin {"enable", "restart", "unfile", "unmark"}
          BY <4>1, <4>3 DEF InTurn
        <4> QED BY <4>2, <4>3
      <3> QED BY <3>1, <3>2
    <2>3. Orderly'
      BY <2>0, <2>2 DEF Orderly, Tidy, Moves, Touches
    <2>4. RunningIsManaged'
      BY <1>6, <2>0 DEF RunningIsManaged, Managed, Tidy, Moves, Touches
    <2>5. ASSUME NEW d \in lone, job[d] # Idle
          PROVE  /\ \A g \in Handler : Progress(g)'
                 /\ job[d].at # "ok"
                 /\ job[d].o # None /\ job[d].at \notin {"failed", "bad"} =>
                      \A o \in Behind(job[d].stage) : Whole(o)'
      <3>1. /\ job[d].at = "waiting" /\ handler[h].kind = Stages[job[d].stage]
            /\ handler[h].want = rows
        BY <1>0 DEF Alone, Tidy, Moves, Touches
      <3>2. ASSUME NEW g \in Handler, g # h PROVE Progress(g)'
        <4>1. handler[g] = Idle
          BY <1>0, <2>0, <2>5, <3>1, <3>2 DEF Alone, Orderly, Tidy, Moves, Touches
        <4>2. handler'[g].at = "idle"
          BY <3>2, <4>1 DEF Tidy, Moves, Touches, Idle
        <4> QED BY <4>2 DEF Progress
      <3>3. Progress(h)'
        BY <1>6, <2>0, <2>5, <3>1 DEF OnTheWay, Tidy, Moves, Touches
      <3>4. ASSUME NEW o \in Behind(job[d].stage), Whole(o) PROVE Whole(o)'
        <4>1. job[d].stage \in 1..LastStage
          <5>1. d \in Job
            BY <1>0 DEF TypeOK
          <5>2. job[d] \in Deploying
            BY <1>0, <2>5, <5>1 DEF TypeOK
          <5> QED BY <5>2 DEF Deploying
        <4>2. unit'[o] = unit[o]
          BY <3>1, <3>4, <4>1, BehindStage DEF Tidy, Moves, Touches
        <4> QED BY <1>0, <3>4, <4>2 DEF Whole
      <3> QED BY <2>0, <2>5, <3>1, <3>2, <3>3, <3>4 DEF OnTheWay
    <2>6. OnTheWay'
      BY <1>0, <2>5 DEF OnTheWay
    <2> QED BY <2>3, <2>4, <2>6
  <1> QED BY <1>1, <1>3, <1>4, <1>6, <1>5 DEF Inv

-----------------------------------------------------------------------------
(* Each action of a handler is tidy *)

(* What the invariant says of a handler that is at work on a native kind.   *)
LEMMA Syncs ==
  ASSUME Inv, NEW h \in Handler,
         handler[h].at \in {"next", "mark", "enable", "restart", "sweep", "unfile", "unmark"}
  PROVE  /\ handler[h] # Idle /\ handler[h] \in Syncing /\ handler[h].kind \in Native
         /\ OfKind(handler[h].kind) \subseteq Outbound
         /\ handler \in [Handler -> Syncing \cup Applying \cup {Idle}]
         /\ unit \in [Outbound -> Unit] /\ xray \in Xray /\ blurred \in BOOLEAN
         /\ handler[h].todo \subseteq OfKind(handler[h].kind)
         /\ handler[h].want \in Rows
         /\ Careful(h)
         /\ ~blurred => InTurn(h) /\ \A o \in Outbound : Managed(o)
         /\ \A o \in Outbound : unit[o].file = Own => o \in WireGuard /\ unit[o] = OwnUnit
  <1>1. NodeTypeOK /\ TypeOK /\ OwnKept /\ (~blurred => Orderly /\ RunningIsManaged)
    BY DEF Inv, TypeOK
  <1>2. handler[h] # Idle /\ handler[h] \in Syncing /\ handler[h].kind \in Native
    BY <1>1, HandlerSorts
  <1>3. handler[h].want \in Rows
    BY <1>2 DEF Syncing
  <1>4. Careful(h)
    BY <1>1 DEF OwnKept
  <1>5. handler[h].todo \subseteq OfKind(handler[h].kind)
    BY <1>4 DEF Careful
  <1> QED BY <1>1, <1>2, <1>3, <1>4, <1>5, Kinds
        DEF NodeTypeOK, TypeOK, OwnKept, Orderly, RunningIsManaged

(* A service is what its fields say.                                        *)
LEMMA SameUnit ==
  ASSUME NEW u \in Unit, NEW v \in Unit, u.file = v.file, u.marker = v.marker,
         u.enabled = v.enabled, u.running = v.running
  PROVE  u = v
  BY DEF Unit

(* The marker is written beside the files.                                  *)
LEMMA MarkTidy ==
  ASSUME Inv, NEW h \in Handler, Mark(h), UNCHANGED <<stored, blurred>>
  PROVE  Tidy(h)
  <1> DEFINE r == handler[h]
  <1>0. r.at = "mark" /\ rows' = rows /\ blurred' = blurred /\ xray' = xray
    BY DEF Mark, stored
  <1>1. /\ r \in Syncing /\ r.kind \in Native /\ OfKind(r.kind) \subseteq Outbound
        /\ Careful(h) /\ xray \in Xray
    BY <1>0, Syncs
  <1>2. PICK o \in Outbound : o = r.cur /\ o \in OfKind(r.kind) /\ unit[o].file # Own
    BY <1>0, <1>1 DEF Careful
  <1>3. Moves(h)
    BY <1>0, <1>1, <1>2, Syncs DEF Mark, Go, Syncing, Idle, Moves
  <1>4. handler'[h].at = "enable" /\ handler'[h].cur = o /\ handler'[h].todo = r.todo
    BY <1>0, <1>1, <1>2, <1>3, Syncs DEF Mark, Go, Syncing, Moves
  <1> DEFINE u == [unit[o] EXCEPT !.marker = TRUE]
  <1>5. unit' = [unit EXCEPT ![o] = u] /\ unit[o] \in Unit
    BY <1>0, <1>2, Syncs DEF Mark
  <1>6. /\ u \in Unit /\ unit'[o] = u
        /\ \A p \in Outbound : p # o => unit'[p] = unit[p]
        /\ u.marker /\ u.file = unit[o].file
        /\ u.enabled = unit[o].enabled /\ u.running = unit[o].running
    BY <1>0, <1>2, <1>5, Syncs DEF Mark, Unit, Setting
  <1> HIDE DEF u
  <1>7. Touches(h)
    BY <1>0, <1>1, <1>2, <1>5, <1>6, Syncs DEF Touches
  <1>8. Careful(h)'
    BY <1>0, <1>1, <1>2, <1>3, <1>4, <1>6 DEF Careful, Moves
  <1>9. ~blurred' => InTurn(h)'
    BY <1>4, <1>6 DEF InTurn
  <1>10. ~blurred' => \A p \in Outbound : unit'[p] # unit[p] => Managed(p)'
    BY <1>6 DEF Managed, InTurn
  <1>11. ASSUME ~blurred', r.want = rows, Progress(h) PROVE Progress(h)'
    <2>1. rows[o] # None /\ unit[o].file = rows[o]
      BY <1>0, <1>2, <1>11 DEF Progress
    <2>2. ASSUME NEW p \in OfKind(r.kind), p \notin r.todo, rows[p] # None PROVE Whole(p)'
      <3>1. Whole(p)
        BY <1>0, <1>11, <2>2 DEF Progress
      <3>2. unit'[p] = unit[p]
        <4>1. CASE p = o
          <5>1. unit[o].marker
            BY <2>2, <3>1, <4>1 DEF Whole
          <5> QED BY <1>5, <1>6, <4>1, <5>1, SameUnit
        <4>2. CASE p # o
          BY <1>1, <1>6, <4>2
        <4> QED BY <4>1, <4>2
      <3> QED BY <1>0, <3>1, <3>2 DEF Whole
    <2>3. \A p \in OfKind(r.kind) : p \in r.todo => rows[p] # None
      BY <1>0, <1>11 DEF Progress
    <2> QED BY <1>0, <1>3, <1>4, <1>6, <2>1, <2>2, <2>3 DEF Progress, Whole, Moves
  <1> QED BY <1>0, <1>1, <1>3, <1>7, <1>8, <1>9, <1>10, <1>11 DEF Tidy

(* The service is enabled, for the reboots to come.                         *)
LEMMA EnableTidy ==
  ASSUME Inv, NEW h \in Handler, Enable(h), UNCHANGED <<stored, blurred>>
  PROVE  Tidy(h)
  <1> DEFINE r == handler[h]
  <1>0. r.at = "enable" /\ rows' = rows /\ blurred' = blurred /\ xray' = xray
    BY DEF Enable, stored
  <1>1. /\ r \in Syncing /\ r.kind \in Native /\ OfKind(r.kind) \subseteq Outbound
        /\ Careful(h) /\ xray \in Xray
    BY <1>0, Syncs
  <1>2. PICK o \in Outbound : o = r.cur /\ o \in OfKind(r.kind) /\ unit[o].file # Own
    BY <1>0, <1>1 DEF Careful
  <1>3. Moves(h)
    BY <1>0, <1>1, <1>2, Syncs DEF Enable, Go, Syncing, Idle, Moves
  <1>4. handler'[h].at = "restart" /\ handler'[h].cur = o /\ handler'[h].todo = r.todo
    BY <1>0, <1>1, <1>2, <1>3, Syncs DEF Enable, Go, Syncing, Moves
  <1> DEFINE u == [unit[o] EXCEPT !.enabled = TRUE]
  <1>5. unit' = [unit EXCEPT ![o] = u] /\ unit[o] \in Unit
    BY <1>0, <1>2, Syncs DEF Enable
  <1>6. /\ u \in Unit /\ unit'[o] = u
        /\ \A p \in Outbound : p # o => unit'[p] = unit[p]
        /\ u.marker = unit[o].marker /\ u.file = unit[o].file
        /\ u.enabled /\ u.running = unit[o].running
    BY <1>0, <1>2, <1>5, Syncs DEF Enable, Unit, Setting
  <1> HIDE DEF u
  <1>7. Touches(h)
    BY <1>0, <1>1, <1>2, <1>5, <1>6, Syncs DEF Touches
  <1>8. Careful(h)'
    BY <1>0, <1>1, <1>2, <1>3, <1>4, <1>6 DEF Careful, Moves
  <1>9. ~blurred' => InTurn(h)'
    BY <1>0, <1>2, <1>4, <1>6, Syncs DEF InTurn
  <1>10. ~blurred' => \A p \in Outbound : unit'[p] # unit[p] => Managed(p)'
    BY <1>0, <1>2, <1>6, Syncs DEF Managed, InTurn
  <1>11. ASSUME ~blurred', r.want = rows, Progress(h) PROVE Progress(h)'
    <2>1. rows[o] # None /\ unit[o].file = rows[o]
      BY <1>0, <1>2, <1>11 DEF Progress
    <2>2. ASSUME NEW p \in OfKind(r.kind), p \notin r.todo, rows[p] # None PROVE Whole(p)'
      <3>1. Whole(p)
        BY <1>0, <1>11, <2>2 DEF Progress
      <3>2. unit'[p] = unit[p]
        <4>1. CASE p = o
          <5>1. unit[o].enabled
            BY <2>2, <3>1, <4>1 DEF Whole
          <5> QED BY <1>5, <1>6, <4>1, <5>1, SameUnit
        <4>2. CASE p # o
          BY <1>1, <1>6, <4>2
        <4> QED BY <4>1, <4>2
      <3> QED BY <1>0, <3>1, <3>2 DEF Whole
    <2>3. \A p \in OfKind(r.kind) : p \in r.todo => rows[p] # None
      BY <1>0, <1>11 DEF Progress
    <2> QED BY <1>0, <1>3, <1>4, <1>6, <2>1, <2>2, <2>3 DEF Progress, Whole, Moves
  <1> QED BY <1>0, <1>1, <1>3, <1>7, <1>8, <1>9, <1>10, <1>11 DEF Tidy

(* A service starts from its files.                                         *)
LEMMA RestartTidy ==
  ASSUME Inv, NEW h \in Handler, Restart(h), UNCHANGED <<stored, blurred>>
  PROVE  Tidy(h)
  <1> DEFINE r == handler[h]
  <1>0. r.at = "restart" /\ rows' = rows /\ blurred' = blurred /\ xray' = xray
    BY DEF Restart, stored
  <1>1. /\ r \in Syncing /\ r.kind \in Native /\ OfKind(r.kind) \subseteq Outbound
        /\ Careful(h) /\ xray \in Xray
    BY <1>0, Syncs
  <1>2. PICK o \in Outbound : o = r.cur /\ o \in OfKind(r.kind) /\ unit[o].file # Own
    BY <1>0, <1>1 DEF Careful
  <1>3. Moves(h)
    BY <1>0, <1>1, <1>2, Syncs DEF Restart, Go, Syncing, Idle, Moves
  <1>4. handler'[h].at = "next" /\ handler'[h].cur = None /\ handler'[h].todo = r.todo \ {o}
    BY <1>0, <1>1, <1>2, <1>3, Syncs DEF Restart, Go, Syncing, Moves
  <1> DEFINE u == [unit[o] EXCEPT !.running = unit[o].file]
  <1>5. unit' = [unit EXCEPT ![o] = u] /\ unit[o] \in Unit
    BY <1>0, <1>2, Syncs DEF Restart
  <1>6. /\ u \in Unit /\ unit'[o] = u
        /\ \A p \in Outbound : p # o => unit'[p] = unit[p]
        /\ unit[o].file # None /\ u.file = unit[o].file
        /\ u.marker = unit[o].marker
        /\ u.enabled = unit[o].enabled /\ u.running = unit[o].file
    BY <1>0, <1>2, <1>5, Syncs DEF Restart, Unit, Setting
  <1> HIDE DEF u
  <1>7. Touches(h)
    BY <1>0, <1>1, <1>2, <1>5, <1>6, Syncs DEF Touches
  <1>8. Careful(h)'
    BY <1>0, <1>1, <1>2, <1>3, <1>4 DEF Careful, Moves
  <1>9. ~blurred' => InTurn(h)'
    BY <1>4 DEF InTurn
  <1>10. ~blurred' => \A p \in Outbound : unit'[p] # unit[p] => Managed(p)'
    BY <1>0, <1>2, <1>6, Syncs DEF Managed, InTurn
  <1>11. ASSUME ~blurred', r.want = rows, Progress(h) PROVE Progress(h)'
    <2>1. rows[o] # None /\ unit[o].file = rows[o] /\ unit[o].marker /\ unit[o].enabled
      BY <1>0, <1>2, <1>11, Syncs DEF Progress, InTurn
    <2>2. Whole(o)'
      <3>1. unit'[o] = [file |-> rows[o], marker |-> TRUE, enabled |-> TRUE, running |-> rows[o]]
        BY <1>6, <2>1 DEF Unit
      <3> QED BY <1>0, <2>1, <3>1 DEF Whole
    <2>3. ASSUME NEW p \in OfKind(r.kind), p # o
          PROVE  IF p \in r.todo THEN rows[p] # None ELSE rows[p] # None => Whole(p)'
      BY <1>0, <1>1, <1>6, <1>11, <2>3 DEF Progress, Whole
    <2> QED BY <1>0, <1>3, <1>4, <2>2, <2>3 DEF Progress, Moves, Whole, InTurn
  <1> QED BY <1>0, <1>1, <1>3, <1>7, <1>8, <1>9, <1>10, <1>11 DEF Tidy

(* A service is stopped.                                                    *)
LEMMA StopTidy ==
  ASSUME Inv, NEW h \in Handler, Stop(h), UNCHANGED <<stored, blurred>>
  PROVE  Tidy(h)
  <1> DEFINE r == handler[h]
  <1>0. r.at = "sweep" /\ rows' = rows /\ blurred' = blurred /\ xray' = xray
    BY DEF Stop, stored
  <1>1. /\ r \in Syncing /\ r.kind \in Native /\ OfKind(r.kind) \subseteq Outbound
        /\ Careful(h) /\ xray \in Xray
    BY <1>0, Syncs
  <1>2. PICK o \in r.todo :
          /\ o \in OfKind(r.kind) /\ o \in Outbound /\ unit[o].file # Own
          /\ unit' = [unit EXCEPT ![o].enabled = FALSE, ![o].running = None]
          /\ handler' = [handler EXCEPT ![h].at = "unfile", ![h].cur = o, ![h].todo = @ \ {o}]
    BY <1>0, <1>1 DEF Careful, Stop
  <1>3. Moves(h)
    BY <1>0, <1>1, <1>2, Syncs DEF Stop, Go, Syncing, Idle, Moves
  <1>4. handler'[h].at = "unfile" /\ handler'[h].cur = o /\ handler'[h].todo = r.todo \ {o}
    BY <1>0, <1>1, <1>2, <1>3, Syncs DEF Stop, Go, Syncing, Moves
  <1> DEFINE u == [unit[o] EXCEPT !.enabled = FALSE, !.running = None]
  <1>5. unit' = [unit EXCEPT ![o] = u] /\ unit[o] \in Unit
    BY <1>2, Syncs, <1>0
  <1>6. /\ u \in Unit /\ unit'[o] = u
        /\ \A p \in Outbound : p # o => unit'[p] = unit[p]
        /\ u.file = unit[o].file /\ u.marker = unit[o].marker
        /\ ~u.enabled /\ u.running = None
    <2>1. u \in Unit /\ u.file = unit[o].file /\ u.marker = unit[o].marker
          /\ ~u.enabled /\ u.running = None
      BY <1>5 DEF Unit, Setting
    <2>2. unit \in [Outbound -> Unit] /\ o \in Outbound
      BY <1>0, <1>2, Syncs
    <2> HIDE DEF u
    <2> QED BY <1>5, <2>1, <2>2
  <1> HIDE DEF u
  <1>7. Touches(h)
    BY <1>0, <1>1, <1>2, <1>5, <1>6, Syncs DEF Touches
  <1>8. Careful(h)'
    <2>1. /\ r.todo \subseteq OfKind(r.kind) /\ o \in OfKind(r.kind) /\ unit[o].file # Own
          /\ \A p \in r.todo : unit[p].file # Own
      BY <1>0, <1>1, <1>2 DEF Careful
    <2>2. \A p \in OfKind(r.kind) : unit'[p].file = unit[p].file
      BY <1>1, <1>6
    <2>3. handler'[h].kind = r.kind
      BY <1>3 DEF Moves
    <2> QED BY <1>4, <2>1, <2>2, <2>3 DEF Careful
  <1>9. ~blurred' => InTurn(h)'
    BY <1>4, <1>6 DEF InTurn
  <1>10. ~blurred' => \A p \in Outbound : unit'[p] # unit[p] => Managed(p)'
    BY <1>6 DEF Managed, InTurn
  <1>11. ASSUME ~blurred', r.want = rows, Progress(h) PROVE Progress(h)'
    <2>1. rows[o] = None /\ r.cur = None
      BY <1>0, <1>2, <1>11 DEF Progress
    <2>2. ASSUME NEW p \in OfKind(r.kind)
          PROVE  IF rows[p] # None THEN Whole(p)' /\ p \notin r.todo \ {o}
                 ELSE unit'[p].marker => p \in r.todo \ {o} \/ p = o
      <3>1. p \in Outbound /\ IF rows[p] # None THEN Whole(p) /\ p \notin r.todo
                              ELSE unit[p].marker => p \in r.todo
        BY <1>0, <1>1, <1>11, <2>1, <2>2, Kinds DEF Progress
      <3>2. CASE p = o
        BY <2>1, <3>1, <3>2
      <3>3. CASE p # o
        <4>1. unit'[p] = unit[p] /\ rows'[p] = rows[p]
          BY <1>0, <1>6, <3>1, <3>3
        <4>2. Whole(p)' = Whole(p)
          BY <4>1 DEF Whole
        <4> QED BY <3>1, <3>3, <4>1, <4>2
      <3> QED BY <3>2, <3>3
    <2> QED BY <1>0, <1>3, <1>4, <2>1, <2>2 DEF Progress, Moves, Whole
  <1> QED BY <1>0, <1>1, <1>3, <1>7, <1>8, <1>9, <1>10, <1>11 DEF Tidy

(* The files of a stopped service are removed.                              *)
LEMMA RemoveFilesTidy ==
  ASSUME Inv, NEW h \in Handler, RemoveFiles(h), UNCHANGED <<stored, blurred>>
  PROVE  Tidy(h)
  <1> DEFINE r == handler[h]
  <1>0. r.at = "unfile" /\ rows' = rows /\ blurred' = blurred /\ xray' = xray
    BY DEF RemoveFiles, stored
  <1>1. /\ r \in Syncing /\ r.kind \in Native /\ OfKind(r.kind) \subseteq Outbound
        /\ Careful(h) /\ xray \in Xray
    BY <1>0, Syncs
  <1>2. PICK o \in Outbound : o = r.cur /\ o \in OfKind(r.kind) /\ unit[o].file # Own
    BY <1>0, <1>1 DEF Careful
  <1>3. Moves(h)
    BY <1>0, <1>1, <1>2, Syncs DEF RemoveFiles, Go, Syncing, Idle, Moves
  <1>4. handler'[h].at = "unmark" /\ handler'[h].cur = o /\ handler'[h].todo = r.todo
    BY <1>0, <1>1, <1>2, <1>3, Syncs DEF RemoveFiles, Go, Syncing, Moves
  <1> DEFINE u == [unit[o] EXCEPT !.file = None]
  <1>5. unit' = [unit EXCEPT ![o] = u] /\ unit[o] \in Unit
    BY <1>0, <1>2, Syncs DEF RemoveFiles
  <1>6. /\ u \in Unit /\ unit'[o] = u
        /\ \A p \in Outbound : p # o => unit'[p] = unit[p]
        /\ u.file = None /\ u.marker = unit[o].marker
        /\ u.enabled = unit[o].enabled /\ u.running = unit[o].running
    BY <1>0, <1>2, <1>5, Syncs DEF RemoveFiles, Unit, Setting
  <1> HIDE DEF u
  <1>7. Touches(h)
    BY <1>0, <1>1, <1>2, <1>5, <1>6, Syncs, NodeAssumption DEF Touches
  <1>8. Careful(h)'
    BY <1>0, <1>1, <1>2, <1>3, <1>4, <1>6, NodeAssumption DEF Careful, Moves
  <1>9. ~blurred' => InTurn(h)'
    BY <1>0, <1>2, <1>4, <1>6, Syncs DEF InTurn
  <1>10. ~blurred' => \A p \in Outbound : unit'[p] # unit[p] => Managed(p)'
    BY <1>0, <1>2, <1>6, Syncs DEF Managed, InTurn
  <1>11. ASSUME ~blurred', r.want = rows, Progress(h) PROVE Progress(h)'
    <2>1. rows[o] = None
      BY <1>0, <1>2, <1>11 DEF Progress
    <2>2. ASSUME NEW p \in OfKind(r.kind)
          PROVE  IF rows[p] # None THEN Whole(p)' /\ p \notin r.todo
                 ELSE unit'[p].marker => p \in r.todo \/ p = o
      BY <1>0, <1>1, <1>2, <1>6, <1>11, <2>1, <2>2 DEF Progress, Whole
    <2> QED BY <1>0, <1>3, <1>4, <2>1, <2>2 DEF Progress, Moves, Whole
  <1> QED BY <1>0, <1>1, <1>3, <1>7, <1>8, <1>9, <1>10, <1>11 DEF Tidy

(* ... and its marker last.                                                 *)
LEMMA RemoveMarkerTidy ==
  ASSUME Inv, NEW h \in Handler, RemoveMarker(h), UNCHANGED <<stored, blurred>>
  PROVE  Tidy(h)
  <1> DEFINE r == handler[h]
  <1>0. r.at = "unmark" /\ rows' = rows /\ blurred' = blurred /\ xray' = xray
    BY DEF RemoveMarker, stored
  <1>1. /\ r \in Syncing /\ r.kind \in Native /\ OfKind(r.kind) \subseteq Outbound
        /\ Careful(h) /\ xray \in Xray
    BY <1>0, Syncs
  <1>2. PICK o \in Outbound : o = r.cur /\ o \in OfKind(r.kind) /\ unit[o].file # Own
    BY <1>0, <1>1 DEF Careful
  <1>3. Moves(h)
    BY <1>0, <1>1, <1>2, Syncs DEF RemoveMarker, Go, Syncing, Idle, Moves
  <1>4. handler'[h].at = "sweep" /\ handler'[h].cur = None /\ handler'[h].todo = r.todo
    BY <1>0, <1>1, <1>2, <1>3, Syncs DEF RemoveMarker, Go, Syncing, Moves
  <1> DEFINE u == [unit[o] EXCEPT !.marker = FALSE]
  <1>5. unit' = [unit EXCEPT ![o] = u] /\ unit[o] \in Unit
    BY <1>0, <1>2, Syncs DEF RemoveMarker
  <1>6. /\ u \in Unit /\ unit'[o] = u
        /\ \A p \in Outbound : p # o => unit'[p] = unit[p]
        /\ u.file = unit[o].file /\ ~u.marker
        /\ u.enabled = unit[o].enabled /\ u.running = unit[o].running
    BY <1>0, <1>2, <1>5, Syncs DEF RemoveMarker, Unit, Setting
  <1> HIDE DEF u
  <1>7. Touches(h)
    BY <1>0, <1>1, <1>2, <1>5, <1>6, Syncs DEF Touches
  <1>8. Careful(h)'
    BY <1>0, <1>1, <1>2, <1>3, <1>4, <1>6 DEF Careful, Moves
  <1>9. ~blurred' => InTurn(h)'
    BY <1>4 DEF InTurn
  <1>10. ~blurred' => \A p \in Outbound : unit'[p] # unit[p] => Managed(p)'
    BY <1>0, <1>2, <1>6, Syncs DEF Managed, InTurn
  <1>11. ASSUME ~blurred', r.want = rows, Progress(h) PROVE Progress(h)'
    <2>1. rows[o] = None
      BY <1>0, <1>2, <1>11 DEF Progress
    <2>2. ASSUME NEW p \in OfKind(r.kind)
          PROVE  IF rows[p] # None THEN Whole(p)' /\ p \notin r.todo
                 ELSE unit'[p].marker => p \in r.todo
      BY <1>0, <1>1, <1>2, <1>6, <1>11, <2>1, <2>2 DEF Progress, Whole
    <2> QED BY <1>0, <1>3, <1>4, <2>1, <2>2 DEF Progress, Moves, Whole
  <1> QED BY <1>0, <1>1, <1>3, <1>7, <1>8, <1>9, <1>10, <1>11 DEF Tidy

(* A service that does not start is marked all the same.                    *)
LEMMA RestartFailsTidy ==
  ASSUME Inv, NEW h \in Handler, RestartFails(h), UNCHANGED <<stored, blurred>>
  PROVE  Tidy(h)
  <1> DEFINE r == handler[h]
  <1>0. r.at = "restart" /\ rows' = rows /\ blurred' = blurred /\ xray' = xray
    BY DEF RestartFails, stored
  <1>1. /\ r \in Syncing /\ r.kind \in Native /\ OfKind(r.kind) \subseteq Outbound
        /\ Careful(h) /\ xray \in Xray
    BY <1>0, Syncs
  <1>2. PICK o \in Outbound : o = r.cur /\ o \in OfKind(r.kind) /\ unit[o].file # Own
    BY <1>0, <1>1 DEF Careful
  <1>2a. PICK c \in {None, unit[o].file} :
           unit' = [unit EXCEPT ![o].running = c]
    BY <1>2 DEF RestartFails
  <1>3. Moves(h)
    BY <1>0, <1>1, <1>2, Syncs DEF RestartFails, Go, Syncing, Idle, Moves
  <1>4. handler'[h].at = "failed"
    BY <1>0, <1>1, <1>2, <1>3, Syncs DEF RestartFails, Go, Syncing, Moves
  <1> DEFINE u == [unit[o] EXCEPT !.running = c]
  <1>5. unit' = [unit EXCEPT ![o] = u] /\ unit[o] \in Unit
    BY <1>0, <1>2, <1>2a, Syncs DEF RestartFails
  <1>6. /\ u \in Unit /\ unit'[o] = u
        /\ \A p \in Outbound : p # o => unit'[p] = unit[p]
        /\ u.file = unit[o].file /\ u.marker = unit[o].marker
    BY <1>0, <1>2, <1>2a, <1>5, Syncs DEF RestartFails, Unit, Setting
  <1> HIDE DEF u
  <1>7. Touches(h)
    BY <1>0, <1>1, <1>2, <1>5, <1>6, Syncs DEF Touches
  <1>8. Careful(h)'
    BY <1>4 DEF Careful, Moves
  <1>9. ~blurred' => InTurn(h)'
    BY <1>4 DEF InTurn
  <1>10. ~blurred' => \A p \in Outbound : unit'[p] # unit[p] => Managed(p)'
    BY <1>0, <1>2, <1>6, Syncs DEF Managed, InTurn
  <1>11. ASSUME ~blurred', r.want = rows, Progress(h) PROVE Progress(h)'
    BY <1>4, <1>11 DEF Progress
  <1> QED BY <1>0, <1>1, <1>3, <1>7, <1>8, <1>9, <1>10, <1>11 DEF Tidy

(* Nothing that is stopped, waits for its turn or has failed can be         *)
(* disturbed in what it has done.                                           *)
LEMMA RestTidy ==
  ASSUME Inv, NEW h \in Handler, Moves(h), UNCHANGED unit, xray' \in Xray,
         handler'[h].at \notin {"next", "mark", "enable", "restart", "sweep", "unfile", "unmark"},
         ~blurred' /\ handler[h].want = rows /\ Progress(h) => Progress(h)'
  PROVE  Tidy(h)
  <1>1. Touches(h)
    BY DEF Touches, Inv, TypeOK, NodeTypeOK
  <1>2. Careful(h)' /\ InTurn(h)'
    BY DEF Careful, InTurn
  <1> QED BY <1>1, <1>2 DEF Tidy

(* The files of a service are written, unless they are not GameBridge's.    *)
LEMMA WriteFilesTidy ==
  ASSUME Inv, NEW h \in Handler, WriteFiles(h), UNCHANGED <<stored, blurred>>
  PROVE  Tidy(h)
  <1> DEFINE r == handler[h]
  <1>0. r.at = "next" /\ rows' = rows /\ blurred' = blurred /\ xray' = xray
    BY DEF WriteFiles, stored
  <1>1. /\ r \in Syncing /\ r.kind \in Native /\ OfKind(r.kind) \subseteq Outbound
        /\ Careful(h) /\ xray \in Xray
    BY <1>0, Syncs
  <1>2. CASE UNCHANGED unit /\ Go(h, "failed")
    <2>1. Moves(h) /\ handler'[h].at = "failed"
      BY <1>0, <1>1, <1>2, Syncs DEF Go, Syncing, Idle, Moves
    <2>2. Progress(h)'
      BY <2>1 DEF Progress
    <2> QED BY <1>0, <1>1, <1>2, <2>1, <2>2, RestTidy
  <1>3. ASSUME NEW o \in r.todo, ~Foreign(o),
               unit' = [unit EXCEPT ![o].file = r.want[o]],
               handler' = [handler EXCEPT ![h].at = "mark", ![h].cur = o]
        PROVE  Tidy(h)
    <2>1. o \in OfKind(r.kind) /\ o \in Outbound
      BY <1>0, <1>1 DEF Careful
    <2>2. r.want[o] \in Setting /\ r.want[o] # Own
      BY <1>0, <2>1, Syncs, NodeAssumption DEF Rows, Setting
    <2>3. unit[o].file # Own
      <3>1. SUFFICES ASSUME unit[o].file = Own PROVE FALSE
        OBVIOUS
      <3>2. o \in WireGuard /\ unit[o] = OwnUnit
        BY <1>0, <2>1, <3>1, Syncs
      <3> QED BY <1>3, <3>1, <3>2, NodeAssumption DEF Foreign, OwnUnit
    <2>4. Moves(h)
      BY <1>0, <1>1, <1>3, <2>1, Syncs DEF Syncing, Idle, Moves
    <2>5. handler'[h].at = "mark" /\ handler'[h].cur = o /\ handler'[h].todo = r.todo
      BY <1>1, <1>3, Syncs, <1>0 DEF Syncing
    <2> DEFINE u == [unit[o] EXCEPT !.file = r.want[o]]
    <2>6. unit' = [unit EXCEPT ![o] = u] /\ unit[o] \in Unit
      BY <1>0, <1>3, <2>1, Syncs
    <2>7. /\ u \in Unit /\ unit'[o] = u
          /\ \A p \in Outbound : p # o => unit'[p] = unit[p]
          /\ u.file = r.want[o] /\ u.marker = unit[o].marker
          /\ u.enabled = unit[o].enabled /\ u.running = unit[o].running
      BY <1>0, <2>1, <2>2, <2>6, Syncs DEF Unit
    <2> HIDE DEF u
    <2>8. Touches(h)
      BY <1>0, <1>1, <2>1, <2>2, <2>3, <2>6, <2>7, Syncs DEF Touches
    <2>9. Careful(h)'
      BY <1>0, <1>1, <2>1, <2>2, <2>4, <2>5, <2>7 DEF Careful, Moves
    <2>10. InTurn(h)'
      BY <2>5 DEF InTurn
    <2>11. ~blurred' => \A p \in Outbound : unit'[p] # unit[p] => Managed(p)'
      <3>1. unit[o] # OwnUnit
        BY <2>3 DEF OwnUnit
      <3> QED BY <1>0, <2>1, <2>7, <3>1, Syncs DEF Managed
    <2>12. ASSUME ~blurred', r.want = rows, Progress(h) PROVE Progress(h)'
      <3>1. rows[o] # None
        BY <1>0, <2>1, <2>12 DEF Progress
      <3>2. ASSUME NEW p \in OfKind(r.kind)
            PROVE  IF p \in r.todo THEN rows[p] # None ELSE rows[p] # None => Whole(p)'
        BY <1>0, <1>1, <1>3, <2>7, <2>12, <3>2 DEF Progress, Whole
      <3> QED BY <1>0, <2>4, <2>5, <2>7, <2>12, <3>1, <3>2 DEF Progress, Moves, Whole
    <2> QED BY <1>0, <1>1, <2>4, <2>8, <2>9, <2>10, <2>11, <2>12 DEF Tidy
  <1> QED BY <1>2, <1>3 DEF WriteFiles

(* Only what has a marker is to be removed.                                 *)
LEMMA StartSweepTidy ==
  ASSUME Inv, NEW h \in Handler, StartSweep(h), UNCHANGED <<stored, blurred>>
  PROVE  Tidy(h)
  <1> DEFINE r == handler[h]
  <1>0. /\ r.at = "next" /\ r.todo = {} /\ rows' = rows /\ blurred' = blurred
        /\ xray' = xray /\ unit' = unit
    BY DEF StartSweep, stored
  <1>1. /\ r \in Syncing /\ r.kind \in Native /\ OfKind(r.kind) \subseteq Outbound
        /\ xray \in Xray /\ unit \in [Outbound -> Unit]
    BY <1>0, Syncs
  <1>2. Stale(h) \subseteq OfKind(r.kind) /\ Stale(h) \subseteq Outbound
    BY <1>1 DEF Stale
  <1>3. Moves(h)
    BY <1>0, <1>1, <1>2, Syncs DEF StartSweep, Syncing, Idle, Moves
  <1>4. handler'[h].at = "sweep" /\ handler'[h].todo = Stale(h) /\ handler'[h].cur = r.cur
    BY <1>0, <1>1, Syncs DEF StartSweep, Syncing
  <1>5. Touches(h)
    BY <1>0, <1>1 DEF Touches
  <1>6. \A o \in Stale(h) : unit[o].file # Own
    BY <1>0, <1>2, Syncs DEF Stale, OwnUnit
  <1>7. Careful(h)'
    BY <1>0, <1>2, <1>3, <1>4, <1>6 DEF Careful, Moves
  <1>8. InTurn(h)'
    BY <1>4 DEF InTurn
  <1>9. ASSUME r.want = rows, Progress(h) PROVE Progress(h)'
    <2>1. ASSUME NEW p \in OfKind(r.kind)
          PROVE  IF rows[p] # None THEN Whole(p)' /\ p \notin Stale(h)
                 ELSE unit'[p].marker => p \in Stale(h)
      BY <1>0, <1>9, <2>1 DEF Progress, Whole, Stale
    <2>2. r.cur = None
      BY <1>0, <1>9 DEF Progress
    <2> QED BY <1>0, <1>3, <1>4, <2>1, <2>2 DEF Progress, Moves, Whole
  <1> QED BY <1>0, <1>1, <1>3, <1>5, <1>7, <1>8, <1>9 DEF Tidy

(* What has no marker and is not the administrator's does not run.          *)
LEMMA EndSweepTidy ==
  ASSUME Inv, NEW h \in Handler, EndSweep(h), UNCHANGED <<stored, blurred>>
  PROVE  Tidy(h)
  <1> DEFINE r == handler[h]
  <1>0. /\ r.at = "sweep" /\ r.todo = {} /\ rows' = rows /\ blurred' = blurred
        /\ xray' = xray /\ unit' = unit
    BY DEF EndSweep, stored
  <1>1. /\ r \in Syncing /\ r.kind \in Native /\ OfKind(r.kind) \subseteq Outbound
        /\ xray \in Xray /\ unit \in [Outbound -> Unit]
    BY <1>0, Syncs
  <1>2. Moves(h) /\ handler'[h].at = "done"
    BY <1>0, <1>1, Syncs DEF EndSweep, Go, Syncing, Idle, Moves
  <1>3. ASSUME ~blurred', r.want = rows, Progress(h) PROVE Progress(h)'
    <2>1. ASSUME NEW p \in OfKind(r.kind), rows[p] = None PROVE Whole(p)'
      <3>1. ~unit[p].marker
        BY <1>0, <1>1, <1>3, <2>1, Kinds DEF Progress
      <3>2. Managed(p) /\ unit[p] \in Unit
        BY <1>0, <1>1, <1>3, <2>1, Syncs
      <3> QED BY <1>0, <2>1, <3>1, <3>2 DEF Managed, Whole
    <2>2. ASSUME NEW p \in OfKind(r.kind), rows[p] # None PROVE Whole(p)'
      BY <1>0, <1>3, <2>2 DEF Progress, Whole
    <2>3. "xray" \notin Native
      BY DEF Native
    <2> QED BY <1>0, <1>1, <1>2, <2>1, <2>2, <2>3 DEF Progress, Moves, Whole
  <1> QED BY <1>0, <1>1, <1>2, <1>3, RestTidy

(* An error in a removal is dropped, and is on record as blurred.           *)
LEMMA SweepFailsTidy ==
  ASSUME Inv, NEW h \in Handler, SweepFails(h), UNCHANGED stored, blurred' = TRUE
  PROVE  Tidy(h)
  <1> DEFINE r == handler[h]
  <1>0. r.at \in {"sweep", "unfile", "unmark"} /\ xray' = xray /\ unit' = unit
    BY DEF SweepFails
  <1>1. /\ r \in Syncing /\ r.kind \in Native /\ OfKind(r.kind) \subseteq Outbound
        /\ xray \in Xray /\ unit \in [Outbound -> Unit] /\ Careful(h)
    BY <1>0, Syncs
  <1>2. PICK a, c, t :
          /\ \/ a = "unfile" /\ r.at = "sweep" /\ c \in r.todo /\ t = r.todo \ {c}
             \/ a = "unmark" /\ r.at = "unfile" /\ c = r.cur /\ t = r.todo
             \/ a = "sweep" /\ r.at = "unmark" /\ c = None /\ t = r.todo
          /\ handler' \in [Handler -> Syncing \cup Applying \cup {Idle}]
          /\ \A g \in Handler : g # h => handler'[g] = handler[g]
          /\ handler'[h] \in Syncing
          /\ handler'[h].at = a /\ handler'[h].cur = c /\ handler'[h].todo = t
          /\ handler'[h].kind = r.kind /\ handler'[h].want = r.want
          /\ handler'[h].caller = r.caller
    <2>1. CASE /\ r.at = "sweep"
               /\ \E o \in r.todo :
                    handler' = [handler EXCEPT ![h].at = "unfile", ![h].cur = o,
                                               ![h].todo = @ \ {o}]
      <3>1. PICK o \in r.todo :
              handler' = [handler EXCEPT ![h].at = "unfile", ![h].cur = o, ![h].todo = @ \ {o}]
        BY <2>1
      <3>2. o \in Outbound /\ r.at = "sweep"
        BY <1>1, <2>1, <3>1 DEF Careful
      <3>3. handler \in [Handler -> Syncing \cup Applying \cup {Idle}]
        BY <1>0, Syncs
      <3> DEFINE v == [r EXCEPT !.at = "unfile", !.cur = o, !.todo = @ \ {o}]
      <3>4. handler' = [handler EXCEPT ![h] = v]
        BY <3>1, <3>3
      <3>5. v \in Syncing
        <4>1. o \in Outbound \cup {None} /\ r.todo \ {o} \in SUBSET Outbound
          BY <1>1, <3>2 DEF Syncing
        <4> QED BY <1>1, <4>1 DEF Syncing
      <3>6. /\ v.at = "unfile" /\ v.cur = o /\ v.todo = r.todo \ {o}
            /\ v.kind = r.kind /\ v.want = r.want /\ v.caller = r.caller
        BY <1>1 DEF Syncing
      <3> HIDE DEF v
      <3>7. handler' \in [Handler -> Syncing \cup Applying \cup {Idle}]
            /\ handler'[h] = v /\ \A g \in Handler : g # h => handler'[g] = handler[g]
        BY <3>3, <3>4, <3>5
      <3>8. o \in r.todo
        BY <3>1
      <3> QED BY <3>2, <3>5, <3>6, <3>7, <3>8, Zenon
    <2>2. CASE r.at = "unfile" /\ Go(h, "unmark")
      BY <1>0, <1>1, <2>2, Syncs DEF Go, Syncing
    <2>3. CASE r.at = "unmark" /\ handler' = [handler EXCEPT ![h].at = "sweep", ![h].cur = None]
      BY <1>0, <1>1, <2>3, Syncs DEF Syncing
    <2> QED BY <2>1, <2>2, <2>3 DEF SweepFails
  <1>3. Moves(h)
    BY <1>0, <1>2, Syncs DEF Moves, Syncing, Idle
  <1>4. Touches(h)
    BY <1>0, <1>1 DEF Touches
  <1>5. Careful(h)'
    BY <1>0, <1>1, <1>2 DEF Careful
  <1> QED BY <1>0, <1>1, <1>3, <1>4, <1>5 DEF Tidy

(* A failure ends the work of a handler where it is.                        *)
LEMMA StepFailsTidy ==
  ASSUME Inv, NEW h \in Handler, StepFails(h), UNCHANGED <<stored, blurred>>
  PROVE  Tidy(h)
  <1>0. /\ handler[h].at \in {"mark", "enable", "restart", "test", "truncate", "fill",
                              "restore", "next"}
        /\ xray' = xray /\ unit' = unit /\ Go(h, "failed")
    BY DEF StepFails
  <1>1. /\ NodeTypeOK /\ xray \in Xray
        /\ handler \in [Handler -> Syncing \cup Applying \cup {Idle}]
    BY DEF Inv, TypeOK, NodeTypeOK
  <1>2. handler[h] \in Syncing \/ handler[h] \in Applying
    BY <1>0, <1>1, HandlerSorts
  <1>3. Moves(h) /\ handler'[h].at = "failed"
    <2>1. CASE handler[h] \in Syncing
      BY <1>0, <1>1, <2>1 DEF Go, Syncing, Idle, Moves
    <2>2. CASE handler[h] \in Applying
      BY <1>0, <1>1, <2>2 DEF Go, Applying, Idle, Moves
    <2> QED BY <1>2, <2>1, <2>2
  <1>4. Progress(h)'
    BY <1>3 DEF Progress
  <1> QED BY <1>0, <1>1, <1>3, <1>4, RestTidy

(* What the invariant says of a handler that is at work on Xray.            *)
LEMMA Applies ==
  ASSUME Inv, NEW h \in Handler,
         handler[h].at \in {"test", "truncate", "fill", "start", "restore", "refill", "startold"}
  PROVE  /\ handler[h] # Idle /\ handler[h] \in Applying
         /\ handler[h].kind = "xray" /\ handler[h].want \in Config
         /\ handler \in [Handler -> Syncing \cup Applying \cup {Idle}]
         /\ unit \in [Outbound -> Unit] /\ xray \in Xray
  <1>1. NodeTypeOK
    BY DEF Inv, TypeOK
  <1>2. handler[h] # Idle /\ handler[h] \in Applying /\ handler[h].kind = "xray"
    BY <1>1, HandlerSorts
  <1> QED BY <1>1, <1>2 DEF NodeTypeOK, Applying

(* A handler of Xray moves on.                                              *)
LEMMA ApplyMoves ==
  ASSUME Inv, NEW h \in Handler,
         handler[h].at \in {"test", "truncate", "fill", "start", "restore", "refill", "startold"},
         NEW a \in {"truncate", "fill", "start", "restore", "refill", "startold", "done",
                  "failed"},
         Go(h, a)
  PROVE  Moves(h) /\ handler'[h].at = a
  <1>1. /\ handler[h] # Idle /\ handler[h] \in Applying
        /\ handler \in [Handler -> Syncing \cup Applying \cup {Idle}]
    BY Applies
  <1> QED BY <1>1 DEF Go, Applying, Idle, Moves

(* The configuration is tested, saved, emptied and written.                 *)
LEMMA WriteConfigTidy ==
  ASSUME Inv, NEW h \in Handler, Backup(h) \/ Truncate(h) \/ Fill(h),
         UNCHANGED <<stored, blurred>>
  PROVE  Tidy(h)
  <1>1. CASE Backup(h)
    <2>1. handler[h].at = "test" /\ unit' = unit
      BY <1>1 DEF Backup
    <2>2. xray' \in Xray
      BY <1>1, <2>1, Applies DEF Backup, Xray
    <2>3. Moves(h) /\ handler'[h].at = "truncate"
      <3>1. xray.file \in Config \cup {None, Broken}
        BY <2>1, Applies DEF Xray
      <3>2. /\ handler[h] # Idle /\ handler[h] \in Applying
            /\ handler \in [Handler -> Syncing \cup Applying \cup {Idle}]
        BY <2>1, Applies
      <3> DEFINE v == [handler[h] EXCEPT !.at = "truncate", !.old = xray.file]
      <3>3. handler' = [handler EXCEPT ![h] = v]
        BY <1>1, <3>2 DEF Backup
      <3>4. /\ v \in Applying /\ v.at = "truncate" /\ v.kind = handler[h].kind
            /\ v.want = handler[h].want /\ v.caller = handler[h].caller
        BY <3>1, <3>2 DEF Applying
      <3>5. v # Idle
        BY <3>4 DEF Idle
      <3> HIDE DEF v
      <3> QED BY <3>2, <3>3, <3>4, <3>5 DEF Moves
    <2>4. Progress(h)'
      BY <2>3 DEF Progress
    <2> QED BY <2>1, <2>2, <2>3, <2>4, RestTidy
  <1>2. CASE Truncate(h)
    <2>1. handler[h].at = "truncate" /\ unit' = unit /\ Go(h, "fill")
      BY <1>2 DEF Truncate
    <2>2. xray' \in Xray
      BY <1>2, <2>1, Applies DEF Truncate, Xray
    <2>3. Moves(h) /\ handler'[h].at = "fill"
      BY <2>1, ApplyMoves
    <2>4. Progress(h)'
      BY <2>3 DEF Progress
    <2> QED BY <2>1, <2>2, <2>3, <2>4, RestTidy
  <1>3. CASE Fill(h)
    <2>1. handler[h].at = "fill" /\ unit' = unit /\ Go(h, "start") /\ rows' = rows
      BY <1>3 DEF Fill, stored
    <2>2. xray' \in Xray /\ xray'.file = handler[h].want
      BY <1>3, <2>1, Applies DEF Fill, Xray
    <2>3. Moves(h) /\ handler'[h].at = "start"
      BY <2>1, ApplyMoves
    <2>4. handler[h].want = rows => Progress(h)'
      BY <2>1, <2>2, <2>3 DEF Progress
    <2> QED BY <2>1, <2>2, <2>3, <2>4, RestTidy
  <1> QED BY <1>1, <1>2, <1>3

(* Xray starts with the file it has, or does not start.                     *)
LEMMA StartTidy ==
  ASSUME Inv, NEW h \in Handler, Start(h) \/ StartFails(h), UNCHANGED <<stored, blurred>>
  PROVE  Tidy(h)
  <1>0. handler[h].at = "start" /\ unit' = unit /\ rows' = rows
    BY DEF Start, StartFails, stored
  <1>1. CASE Start(h)
    <2>1. Go(h, "done")
      BY <1>1 DEF Start
    <2>2. xray' \in Xray /\ xray'.file = xray.file /\ xray'.running = xray.file
      BY <1>0, <1>1, Applies DEF Start, Xray
    <2>3. Moves(h) /\ handler'[h].at = "done" /\ handler'[h].kind = "xray"
      BY <1>0, <2>1, ApplyMoves, Applies DEF Moves
    <2>4. Progress(h) => Progress(h)'
      BY <1>0, <2>2, <2>3 DEF Progress
    <2> QED BY <1>0, <2>2, <2>3, <2>4, RestTidy
  <1>2. CASE StartFails(h)
    <2>1. PICK a \in {"failed", "restore"} : Go(h, a)
      BY <1>2 DEF StartFails
    <2>2. xray' \in Xray
      BY <1>0, <1>2, Applies DEF StartFails, Xray
    <2>3. Moves(h) /\ handler'[h].at = a
      BY <1>0, <2>1, ApplyMoves
    <2>4. Progress(h)'
      BY <2>3 DEF Progress
    <2> QED BY <1>0, <2>2, <2>3, <2>4, RestTidy
  <1> QED BY <1>1, <1>2

(* The backup comes back, or does not, and is started.                      *)
LEMMA RestoreTidy ==
  ASSUME Inv, NEW h \in Handler, Restore(h) \/ Refill(h) \/ RestoreFails(h) \/ StartOld(h),
         UNCHANGED <<stored, blurred>>
  PROVE  Tidy(h)
  <1>1. PICK a \in {"refill", "startold", "failed"} : Go(h, a)
    BY DEF Restore, Refill, RestoreFails, StartOld
  <1>2. handler[h].at \in {"restore", "refill", "startold"} /\ unit' = unit
    BY DEF Restore, Refill, RestoreFails, StartOld
  <1>3. xray' \in Xray
    BY <1>2, Applies DEF Restore, Refill, RestoreFails, StartOld, Xray
  <1>4. Moves(h) /\ handler'[h].at = a
    BY <1>1, <1>2, ApplyMoves
  <1>5. Progress(h)'
    BY <1>4 DEF Progress
  <1> QED BY <1>2, <1>3, <1>4, <1>5, RestTidy

(* Every step of a handler, and every failure, is tidy.                     *)
LEMMA HandlerTidy ==
  ASSUME Inv, NEW h \in Handler, HandlerStep(h) \/ HandlerFails(h), UNCHANGED <<stored, blurred>>
  PROVE  Tidy(h)
  BY WriteFilesTidy, MarkTidy, EnableTidy, RestartTidy, StartSweepTidy, StopTidy, RemoveFilesTidy,
     RemoveMarkerTidy, EndSweepTidy, WriteConfigTidy, StartTidy, RestoreTidy,
     RestartFailsTidy, StepFailsTidy
  DEF HandlerStep, HandlerFails, CannotStart

-----------------------------------------------------------------------------
(* Steps of jobs *)

(* The parts of the invariant.                                              *)
LEMMA Parts ==
  ASSUME Inv
  PROVE  /\ TypeOK /\ NodeTypeOK /\ OwnKept /\ Called /\ Alone
         /\ ~blurred => Orderly /\ RunningIsManaged /\ OnTheWay
         /\ rows \in Rows /\ job \in [Job -> Deploying \cup {Idle}] /\ lone \in SUBSET Job
         /\ handler \in [Handler -> Syncing \cup Applying \cup {Idle}]
         /\ unit \in [Outbound -> Unit] /\ xray \in Xray /\ None \notin Job
  BY NodeAssumption DEF Inv, TypeOK, NodeTypeOK

(* Handlers that nothing has happened to keep their part of the invariant.  *)
LEMMA HandlersKept ==
  ASSUME Inv, UNCHANGED node
  PROVE  OwnKept' /\ (~blurred => Orderly') /\ (~blurred => \A o \in Outbound : Managed(o)')
  BY Parts DEF OwnKept, Careful, Orderly, InTurn, RunningIsManaged, Managed, node

(* An idle handler has done nothing.                                        *)
LEMMA IdleProgress ==
  ASSUME NEW h \in Handler, handler'[h] = Idle
  PROVE  Progress(h)'
  BY DEF Progress, Idle

(* A job that does not wait and is not Idle: whoever is alone is this one,  *)
(* and no handler is at work beside it, nor works for it.                   *)
LEMMA AtWork ==
  ASSUME Inv, NEW d \in Job, job[d] # Idle
  PROVE  /\ \A e \in lone : e = d
         /\ job[d].at # "waiting" =>
              /\ d \in lone => \A h \in Handler : handler[h] = Idle
              /\ \A h \in Handler : handler[h] = Idle \/ handler[h].caller # d
         /\ job[d] \in Deploying
  BY Parts DEF Alone, Called

(* A step of a job within the panel, before or after its calls of the       *)
(* agent.                                                                   *)
LEMMA JobKeeps ==
  ASSUME Inv, NEW d \in Job, job[d] # Idle, job[d].at # "waiting",
         NEW j \in Deploying \cup {Idle}, job' = [job EXCEPT ![d] = j],
         j # Idle =>
           /\ j.o = job[d].o /\ j.stage = job[d].stage /\ j.at \notin {"ok", "waiting"}
           /\ j.at \in {"failed", "bad"} \/ job[d].at \notin {"failed", "bad"}
           /\ j.at \in {"keys", "reality", "passwords", "password", "build", "apply"} =>
                job[d].stage = LastStage
           /\ j.at \in {"send", "apply"} => j.read = rows,
         UNCHANGED <<rows, node, lone, blurred>>, faults' \in 0..MaxFaults,
         reality' \in Key \cup {None}, password' \in Key \cup {None},
         status' \in {"pending", "online", "degraded"}
  PROVE  Inv'
  <1>0. /\ job'[d] = j /\ \A e \in Job : e # d => job'[e] = job[e]
        /\ handler' = handler /\ unit' = unit /\ xray' = xray
    BY Parts DEF node
  <1>1. TypeOK'
    BY Parts, <1>0 DEF TypeOK, NodeTypeOK
  <1>2. Called'
    BY Parts, AtWork, <1>0 DEF Called
  <1>3. Alone'
    BY Parts, AtWork, <1>0 DEF Alone
  <1>4. ASSUME ~blurred PROVE OnTheWay'
    <2>1. SUFFICES ASSUME d \in lone, j # Idle
                   PROVE  /\ \A h \in Handler : Progress(h)'
                          /\ j.o # None /\ j.at \notin {"failed", "bad"} =>
                               \A o \in Behind(j.stage) : Whole(o)'
                          /\ j.at # "ok"
      BY AtWork, <1>0 DEF OnTheWay
    <2>2. \A h \in Handler : Progress(h)'
      BY <1>0, <2>1, AtWork, IdleProgress
    <2>3. j.o # None /\ j.at \notin {"failed", "bad"} => \A o \in Behind(j.stage) : Whole(o)'
      BY Parts, <1>0, <1>4, <2>1 DEF OnTheWay, Whole
    <2> QED BY <2>1, <2>2, <2>3
  <1> QED BY <1>1, <1>2, <1>3, <1>4, HandlersKept DEF Inv, RunningIsManaged

(* The rows are read.                                                       *)
LEMMA ReadsKeeps ==
  ASSUME Inv, NEW d \in Job, desiredOutbounds(d) \/ buildXrayConfig(d), faults' \in 0..MaxFaults
  PROVE  Inv'
  <1>1. PICK a \in {"send", "apply"} :
          /\ job' = [job EXCEPT ![d].at = a, ![d].read = rows]
          /\ \/ job[d].at = "list" /\ a = "send"
             \/ job[d].at = "build" /\ a = "apply"
    BY DEF desiredOutbounds, buildXrayConfig, Reads
  <1>2. /\ UNCHANGED <<rows, reality, password, status, node, lone, blurred>>
        /\ reality \in Key \cup {None} /\ password \in Key \cup {None}
        /\ status \in {"pending", "online", "degraded"} /\ rows \in Rows
    BY Parts DEF desiredOutbounds, buildXrayConfig, Reads, stored, TypeOK
  <1>3. job[d] \in Deploying /\ job[d] # Idle
    BY <1>1, Parts DEF Idle
  <1> DEFINE j == [job[d] EXCEPT !.at = a, !.read = rows]
  <1>4. job' = [job EXCEPT ![d] = j]
    BY <1>1, Parts
  <1>5. /\ j \in Deploying /\ j # Idle /\ j.at = a /\ j.o = job[d].o /\ j.stage = job[d].stage
        /\ j.read = rows
    BY <1>2, <1>3 DEF Deploying, Idle
  <1>6. a = "apply" => job[d].stage = LastStage
    BY <1>1, <1>3, Parts DEF Called
  <1> HIDE DEF j
  <1> QED BY <1>1, <1>2, <1>3, <1>4, <1>5, <1>6, JobKeeps

(* Keys, failures and the answer to the caller.                             *)
LEMMA PanelStepKeeps ==
  ASSUME Inv, NEW d \in Job,
         \/ LookForKey(d) \/ ensureRealityKeys(d) \/ LookForPassword(d)
         \/ ensureShadowsocksServerPasswords(d) \/ GivesUp(d) \/ Return(d) \/ Fails(d),
         faults' \in 0..MaxFaults
  PROVE  Inv'
  <1>1. reality \in Key \cup {None} /\ password \in Key \cup {None}
        /\ status \in {"pending", "online", "degraded"}
    BY Parts DEF TypeOK
  <1>2. /\ reality' \in Key \cup {None} /\ password' \in Key \cup {None}
        /\ status' \in {"pending", "online", "degraded"}
        /\ UNCHANGED <<rows, node, lone, blurred>>
    BY <1>1 DEF LookForKey, ensureRealityKeys, LookForPassword, ensureShadowsocksServerPasswords,
                GivesUp, Return, Fails, PanelStep, stored, setNodeInboundStatus
  <1>3. ASSUME NEW a \in {"reality", "passwords", "password", "build", "failed", "bad"},
               job[d].at \in {"list", "send", "keys", "reality", "passwords", "password", "build",
                             "apply", "failed"},
               \/ a \in {"failed", "bad"}
               \/ job[d].at \in {"keys", "reality", "passwords", "password"},
               \/ At(d, a)
               \/ a = "failed" /\ job' = [job EXCEPT ![d].at = "failed", ![d].read = NoRows]
        PROVE  Inv'
    <2>1. job[d] \in Deploying /\ job[d] # Idle
      BY <1>3, Parts DEF Idle
    <2>2. PICK j \in Deploying :
            /\ job' = [job EXCEPT ![d] = j]
            /\ j.at = a /\ j.o = job[d].o /\ j.stage = job[d].stage
      <3>1. CASE At(d, a)
        <4> DEFINE j == [job[d] EXCEPT !.at = a]
        <4>1. /\ job' = [job EXCEPT ![d] = j] /\ j \in Deploying
              /\ j.at = a /\ j.o = job[d].o /\ j.stage = job[d].stage
          BY <1>3, <2>1, <3>1 DEF At, Deploying
        <4> QED BY <4>1
      <3>2. CASE a = "failed" /\ job' = [job EXCEPT ![d].at = "failed", ![d].read = NoRows]
        <4> DEFINE j == [job[d] EXCEPT !.at = "failed", !.read = NoRows]
        <4>1. NoRows \in Rows
          BY DEF NoRows, Rows, Setting
        <4>2. /\ job' = [job EXCEPT ![d] = j] /\ j \in Deploying
              /\ j.at = a /\ j.o = job[d].o /\ j.stage = job[d].stage
          BY <2>1, <3>2, <4>1, Parts DEF Deploying
        <4> QED BY <4>2
      <3> QED BY <1>3, <3>1, <3>2
    <2>3. a \in {"reality", "passwords", "password", "build"} => job[d].stage = LastStage
      BY <1>3, <2>1, Parts DEF Called
    <2> QED BY <1>2, <1>3, <2>1, <2>2, <2>3, JobKeeps
  <1>4. CASE Return(d)
    <2>1. job[d].at \in {"ok", "bad"} /\ job' = [job EXCEPT ![d] = Idle]
      BY <1>4 DEF Return
    <2>2. job[d] # Idle
      BY <2>1 DEF Idle
    <2> QED BY <1>2, <2>1, <2>2, JobKeeps
  <1>5. CASE Fails(d) \/ GivesUp(d)
    <2>1. PICK a \in {"failed", "bad"} :
            \/ At(d, a)
            \/ a = "failed" /\ job' = [job EXCEPT ![d].at = "failed", ![d].read = NoRows]
      BY <1>5 DEF Fails, GivesUp
    <2>2. job[d].at \in {"list", "send", "keys", "reality", "passwords", "password", "build",
                        "apply", "failed"}
      BY <1>5 DEF Fails, GivesUp
    <2> QED BY <1>3, <2>1, <2>2
  <1>6. CASE LookForKey(d)
    BY <1>3, <1>6 DEF LookForKey, PanelStep
  <1>7. CASE ensureRealityKeys(d)
    BY <1>3, <1>7 DEF ensureRealityKeys, PanelStep
  <1>8. CASE LookForPassword(d)
    BY <1>3, <1>8 DEF LookForPassword, PanelStep
  <1>9. CASE ensureShadowsocksServerPasswords(d)
    BY <1>3, <1>9 DEF ensureShadowsocksServerPasswords, PanelStep
  <1> QED BY <1>4, <1>5, <1>6, <1>7, <1>8, <1>9

(* A request is a handler's record, and starts with what is wanted to do.   *)
LEMMA Requests ==
  ASSUME NEW kind \in Native \cup {"xray"}, NEW want \in Rows, NEW d \in Job
  PROVE  LET r == Request(kind, want, d) IN
         /\ r \in Syncing \cup Applying /\ r # Idle
         /\ r.kind = kind /\ r.want = want /\ r.caller = d
         /\ r.at \in {"next", "test"}
         /\ r.at = "next" => /\ kind \in Native /\ r.cur = None
                             /\ r.todo = {o \in OfKind(kind) : want[o] # None}
  <1>1. CASE kind = "xray"
    BY <1>1 DEF Request, Applying, Config, Idle, Native
  <1>2. CASE kind # "xray"
    <2>1. {o \in OfKind(kind) : want[o] # None} \in SUBSET Outbound
      BY <1>2, Kinds
    <2> QED BY <1>2, <2>1 DEF Request, Syncing, Idle
  <1> QED BY <1>1, <1>2

(* A request arrives with the rows as they were read.                       *)
LEMMA SendKeeps ==
  ASSUME Inv, NEW d \in Job, NEW h \in Handler, job[d].at \in {"send", "apply"},
         Send(d, h, Stages[job[d].stage]), UNCHANGED faults
  PROVE  Inv'
  <1> DEFINE kind == Stages[job[d].stage]
             want == job[d].read
             r == Request(kind, want, d)
             j == [job[d] EXCEPT !.at = "waiting", !.read = NoRows]
  <1>1. /\ job[d] # Idle /\ job[d] \in Deploying /\ want \in Rows
        /\ d \in lone => want = rows
    <2>1. job[d] # Idle /\ job[d] \in Deploying
      BY Parts DEF Idle
    <2> QED BY <2>1, Parts DEF Deploying, Alone
  <1>2. kind \in Native \cup {"xray"}
    <2>1. job[d].stage \in 1..4
      BY <1>1 DEF Deploying, LastStage
    <2>2. job[d].stage \in 1..3 \/ job[d].stage = 4
      BY <2>1
    <2> QED BY <2>2, StageKinds
  <1> HIDE DEF kind
  <1>3. /\ r \in Syncing \cup Applying /\ r # Idle
        /\ r.kind = kind /\ r.want = want /\ r.caller = d /\ r.at \in {"next", "test"}
        /\ r.at = "next" => /\ kind \in Native /\ r.cur = None
                            /\ r.todo = {o \in OfKind(kind) : want[o] # None}
    BY <1>1, <1>2, Requests
  <1> HIDE DEF r
  <1>4. /\ handler[h] = Idle /\ handler' = [handler EXCEPT ![h] = r]
        /\ handler'[h] = r /\ \A g \in Handler : g # h => handler'[g] = handler[g]
        /\ handler' \in [Handler -> Syncing \cup Applying \cup {Idle}]
        /\ unit' = unit /\ xray' = xray /\ lone' = lone /\ rows' = rows
        /\ reality' = reality /\ password' = password /\ status' = status
    BY <1>3, Parts DEF Send, stored, r, kind, want
  <1>5. /\ job' = [job EXCEPT ![d] = j] /\ j \in Deploying /\ j # Idle
        /\ j.at = "waiting" /\ j.stage = job[d].stage /\ j.o = job[d].o
        /\ job'[d] = j /\ \A e \in Job : e # d => job'[e] = job[e]
    <2>1. NoRows \in Rows
      BY DEF NoRows, Rows, Setting
    <2> QED BY <1>1, <2>1, Parts DEF Send, Deploying, Idle
  <1> HIDE DEF j, want
  <1>6. /\ blurred' \in BOOLEAN /\ (blurred => blurred')
        /\ ~blurred' => \A g \in Handler : handler[g] # Idle => handler[g].kind # kind
    BY Parts DEF Send, TypeOK, kind
  <1>7. TypeOK'
    BY Parts, <1>4, <1>5, <1>6 DEF TypeOK, NodeTypeOK
  <1>8. OwnKept'
    <2>1. Careful(h)'
      BY <1>3, <1>4 DEF Careful
    <2> QED BY <2>1, Parts, <1>4 DEF OwnKept, Careful
  <1>9. Called'
    BY Parts, AtWork, <1>1, <1>3, <1>4, <1>5 DEF Called
  <1>10. Alone'
    BY Parts, AtWork, <1>1, <1>3, <1>4, <1>5 DEF Alone, kind
  <1>11. ASSUME ~blurred' PROVE Orderly' /\ RunningIsManaged' /\ OnTheWay'
    <2>0. Orderly /\ RunningIsManaged /\ OnTheWay
      BY <1>6, <1>11, Parts
    <2>1. Orderly'
      <3>1. InTurn(h)'
        BY <1>3, <1>4 DEF InTurn
      <3> QED BY <2>0, <3>1, <1>3, <1>4, <1>6, <1>11 DEF Orderly, InTurn
    <2>2. RunningIsManaged'
      BY <2>0, <1>4, <1>6, <1>11 DEF RunningIsManaged, Managed
    <2>3. SUFFICES ASSUME d \in lone
                   PROVE  /\ \A g \in Handler : Progress(g)'
                          /\ j.o # None => \A o \in Behind(j.stage) : Whole(o)'
      BY <2>1, <2>2, AtWork, <1>1, <1>4, <1>5 DEF OnTheWay
    <2>4. ASSUME NEW g \in Handler, g # h PROVE Progress(g)'
      BY <2>3, <2>4, <1>1, <1>4, AtWork, IdleProgress
    <2>5. Progress(h)'
      BY <1>1, <1>3, <1>4, <2>3 DEF Progress
    <2>6. j.o # None => \A o \in Behind(j.stage) : Whole(o)'
      BY <2>0, <2>3, <1>1, <1>4, <1>5 DEF OnTheWay, Whole
    <2> QED BY <2>4, <2>5, <2>6
  <1> QED BY <1>7, <1>8, <1>9, <1>10, <1>11 DEF Inv

(* A job starts: alone if nothing else is at work.                          *)
LEMMA StartedKeeps ==
  ASSUME Inv, NEW d \in Job, NEW stage \in {1, LastStage}, NEW undo \in BOOLEAN,
         NEW o \in Outbound \cup {None}, Started(d, stage, undo, o),
         undo => o \in Outbound, stage = LastStage => o = None,
         rows' \in Rows, UNCHANGED faults
  PROVE  Inv'
  <1> DEFINE j == [at |-> IF stage = LastStage THEN "keys" ELSE "list", stage |-> stage,
                   undo |-> undo, o |-> o, before |-> IF undo THEN rows[o] ELSE None,
                   read |-> NoRows]
  <1>1. j \in Deploying /\ j # Idle
    <2>1. (IF undo THEN rows[o] ELSE None) \in Setting
      BY Parts DEF Rows, Setting
    <2>2. stage \in 1..LastStage
      BY DEF LastStage
    <2>3. NoRows \in Rows
      BY DEF NoRows, Rows, Setting
    <2> QED BY <2>1, <2>2, <2>3 DEF Deploying, Idle
  <1>2. /\ j.at \in {"keys", "list"} /\ (j.at = "keys" => j.stage = LastStage)
        /\ j.stage = stage /\ j.o = o
    BY DEF LastStage
  <1>3. /\ job[d] = Idle /\ job' = [job EXCEPT ![d] = j]
        /\ lone' = (IF Quiet THEN {d} ELSE {})
        /\ UNCHANGED <<unit, xray, handler, node, blurred, reality, password, status>>
    BY DEF Started, node
  <1> HIDE DEF j
  <1>4. job'[d] = j /\ \A e \in Job : e # d => job'[e] = job[e]
    BY <1>3, Parts
  <1>5. TypeOK'
    BY <1>1, <1>3, Parts DEF TypeOK, NodeTypeOK
  <1>6. Called'
    BY <1>2, <1>3, <1>4, Parts DEF Called
  <1>7. Alone'
    BY <1>2, <1>3, <1>4, Parts DEF Alone, Quiet
  <1>8. OnTheWay'
    <2>1. SUFFICES ASSUME Quiet
                   PROVE  /\ \A h \in Handler : Progress(h)'
                          /\ j.o # None => \A p \in Behind(j.stage) : Whole(p)'
      BY <1>2, <1>3, <1>4 DEF OnTheWay
    <2>2. \A h \in Handler : Progress(h)'
      BY <1>3, <2>1, IdleProgress DEF Quiet
    <2> QED BY <1>2, <2>2, BehindEnds
  <1> QED BY <1>3, <1>5, <1>6, <1>7, <1>8, HandlersKept DEF Inv, RunningIsManaged

(* A transaction, and a redeployment.                                       *)
LEMMA BeginKeeps ==
  ASSUME Inv, NEW d \in Job, UNCHANGED faults,
         Redeploy(d) \/ \E o \in Outbound, v \in Setting : Begin(d, o, v)
  PROVE  Inv'
  <1>1. CASE Redeploy(d)
    BY <1>1, StartedKeeps, Parts DEF Redeploy
  <1>2. ASSUME NEW o \in Outbound, NEW v \in Setting, Begin(d, o, v) PROVE Inv'
    <2>1. Started(d, 1, TRUE, o) /\ rows' = [rows EXCEPT ![o] = v]
      BY <1>2 DEF Begin
    <2>2. rows' \in Rows /\ 1 # LastStage
      BY <2>1, Parts DEF Rows, LastStage
    <2> QED BY <2>1, <2>2, StartedKeeps
  <1> QED BY <1>1, <1>2

(* The recovery starts over.                                                *)
LEMMA RollBackKeeps ==
  ASSUME Inv, NEW d \in Job, RollBack(d), UNCHANGED faults
  PROVE  Inv'
  <1> DEFINE j == [job[d] EXCEPT !.at = "list", !.stage = 1, !.undo = FALSE]
  <1>1. job[d].at = "failed" /\ job[d] # Idle /\ job[d] \in Deploying
    BY Parts DEF RollBack, Idle
  <1>2. /\ job' = [job EXCEPT ![d] = j] /\ rows' \in Rows
        /\ UNCHANGED <<unit, xray, handler, node, reality, password, status, lone, blurred>>
    BY <1>1, Parts DEF RollBack, node, Rows, Deploying
  <1>3. j \in Deploying /\ j # Idle /\ j.at = "list" /\ j.stage = 1
    <2> DEFINE S == 1..LastStage
               P == {"list", "send", "waiting", "keys", "reality", "passwords", "password", "build",
                     "apply", "failed", "ok", "bad"}
    <2>1. /\ 1 \in S /\ "list" \in P
          /\ job[d] \in [at : P, stage : S, undo : BOOLEAN,
                      o : Outbound \cup {None}, before : Setting, read : Rows]
      BY <1>1 DEF Deploying, LastStage
    <2> HIDE DEF S, P
    <2>2. /\ j.at = "list" /\ j.stage = 1
          /\ j \in [at : P, stage : S, undo : BOOLEAN,
                      o : Outbound \cup {None}, before : Setting, read : Rows]
      BY <2>1
    <2> QED BY <2>1, <2>2 DEF Deploying, Idle, S, P
  <1> HIDE DEF j
  <1>4. job'[d] = j /\ \A e \in Job : e # d => job'[e] = job[e]
    BY <1>2, Parts
  <1>5. TypeOK'
    BY <1>2, <1>3, Parts DEF TypeOK, NodeTypeOK
  <1>6. Called'
    BY <1>1, <1>2, <1>3, <1>4, Parts, AtWork DEF Called
  <1>7. Alone'
    BY <1>1, <1>2, <1>3, <1>4, Parts, AtWork DEF Alone
  <1>8. OnTheWay'
    <2>1. SUFFICES ASSUME d \in lone
                   PROVE  /\ \A h \in Handler : Progress(h)'
                          /\ \A p \in Behind(j.stage) : Whole(p)'
      BY <1>1, <1>2, <1>3, <1>4, AtWork DEF OnTheWay
    <2>2. \A h \in Handler : Progress(h)'
      BY <1>1, <1>2, <2>1, AtWork, IdleProgress
    <2> QED BY <1>3, <2>2, BehindEnds
  <1> QED BY <1>2, <1>5, <1>6, <1>7, <1>8, HandlersKept DEF Inv, RunningIsManaged

(* The answer of a handler moves its job on, or fails it.                   *)
LEMMA AnswerKeeps ==
  ASSUME Inv, NEW h \in Handler, Answer(h), UNCHANGED faults
  PROVE  Inv'
  <1> DEFINE d == handler[h].caller
  <1>1. /\ handler[h].at \in {"done", "failed"} /\ handler[h] # Idle
        /\ handler' = [handler EXCEPT ![h] = Idle]
        /\ UNCHANGED <<rows, reality, password, unit, xray, lone, blurred>>
    BY DEF Answer, Idle
  <1>2. handler'[h] = Idle /\ \A g \in Handler : g # h => handler'[g] = handler[g]
    BY <1>1, Parts
  <1>3. OwnKept' /\ (~blurred' => Orderly' /\ RunningIsManaged')
    <2>1. Careful(h)' /\ InTurn(h)'
      BY <1>2 DEF Careful, InTurn, Idle
    <2> QED BY <2>1, <1>1, <1>2, Parts
        DEF OwnKept, Careful, Orderly, InTurn, RunningIsManaged, Managed
  <1>4. CASE d = None
    <2>1. job' = job /\ status' = status
      BY <1>4 DEF Answer
    <2>2. lone = {}
      BY <1>1, <1>4, Parts DEF Alone
    <2>3. TypeOK'
      BY <1>1, <2>1, Parts DEF TypeOK, NodeTypeOK
    <2>4. Called' /\ Alone' /\ OnTheWay'
      BY <1>1, <1>2, <2>1, <2>2, Parts DEF Called, Alone, OnTheWay
    <2> QED BY <1>3, <2>3, <2>4 DEF Inv
  <1>5. CASE d # None
    <2>1. PICK e \in Job : e = d
      <3>1. handler[h] \in Syncing \cup Applying
        BY <1>1, Parts
      <3> QED BY <1>5, <3>1 DEF Syncing, Applying
    <2>2. /\ job[e] # Idle /\ job[e].at = "waiting" /\ job[e] \in Deploying
          /\ \A g \in Handler : g # h => handler[g] = Idle \/ handler[g].caller # e
          /\ job[e].stage \in 1..4
      BY <1>1, <1>5, <2>1, AtWork, Parts DEF Called, Deploying, LastStage
    <2>3. PICK j \in Deploying :
            /\ job' = [job EXCEPT ![e] = j] /\ j # Idle
            /\ j.o = job[e].o
            /\ \/ j.at = "failed"
               \/ j.at = "ok" /\ job[e].stage = LastStage /\ j.stage = LastStage
                    /\ handler[h].at = "done" /\ status' = "online"
               \/ j.at = "list" /\ job[e].stage \in 1..3 /\ j.stage = job[e].stage + 1
                    /\ handler[h].at = "done"
               \/ j.at = "keys" /\ job[e].stage \in 1..3 /\ j.stage = job[e].stage + 1
                    /\ handler[h].at = "done" /\ j.stage = LastStage
      <3>1. CASE handler[h].at = "failed"
        <4> DEFINE j == [job[e] EXCEPT !.at = "failed"]
        <4>1. job' = [job EXCEPT ![e] = j]
          BY <1>5, <2>1, <3>1 DEF Answer, At
        <4>2. j \in Deploying /\ j # Idle /\ j.at = "failed" /\ j.o = job[e].o
          BY <2>2 DEF Deploying, Idle
        <4> QED BY <4>1, <4>2
      <3>2. CASE handler[h].at = "done" /\ job[e].stage = LastStage
        <4> DEFINE j == [job[e] EXCEPT !.at = "ok"]
        <4>1. job' = [job EXCEPT ![e] = j] /\ status' = "online"
          BY <1>5, <2>1, <2>2, <3>2, Parts DEF Answer, At, setNodeInboundStatus
        <4>2. j \in Deploying /\ j # Idle /\ j.at = "ok" /\ j.o = job[e].o /\ j.stage = job[e].stage
          BY <2>2 DEF Deploying, Idle
        <4> QED BY <3>2, <4>1, <4>2
      <3>3. CASE handler[h].at = "done" /\ job[e].stage # LastStage
        <4>1. PICK a \in {"list", "keys"} :
                a = (IF Stages[job[e].stage + 1] = "xray" THEN "keys" ELSE "list")
          OBVIOUS
        <4> DEFINE n == job[e].stage + 1
                   j == [job[e] EXCEPT !.stage = n, !.at = a]
        <4>2. job' = [job EXCEPT ![e] = j]
          <5>1. handler[h].at # "failed"
            BY <3>3
          <5> QED BY <1>5, <2>1, <3>3, <4>1, <5>1 DEF Answer
        <4>3. job[e].stage \in 1..3
          BY <2>2, <3>3 DEF LastStage
        <4>4. /\ j \in Deploying /\ j # Idle /\ j.at = a /\ j.o = job[e].o
              /\ j.stage = n
          <5> DEFINE S == 1..LastStage
                     P == {"list", "send", "waiting", "keys", "reality", "passwords", "password", "build",
                           "apply", "failed", "ok", "bad"}
          <5>1. /\ n \in S /\ a \in P
                /\ job[e] \in [at : P, stage : S, undo : BOOLEAN,
                      o : Outbound \cup {None}, before : Setting, read : Rows]
            BY <2>2, <4>3 DEF Deploying, LastStage
          <5> HIDE DEF n, S, P
          <5>2. /\ j.at = a /\ j.o = job[e].o /\ j.stage = n
                /\ j \in [at : P, stage : S, undo : BOOLEAN,
                      o : Outbound \cup {None}, before : Setting, read : Rows]
            BY <5>1
          <5> QED BY <5>1, <5>2 DEF Deploying, Idle, S, P
        <4>5. a = "keys" => job[e].stage + 1 = LastStage
          <5>1. job[e].stage = 1 \/ job[e].stage = 2 \/ job[e].stage = 3
            BY <4>3
          <5> QED BY <4>1, <5>1, StageKinds DEF LastStage
        <4> QED BY <3>3, <4>2, <4>3, <4>4, <4>5
      <3> QED BY <1>1, <3>1, <3>2, <3>3
    <2>4. job'[e] = j /\ \A f \in Job : f # e => job'[f] = job[f]
      BY <2>3, Parts
    <2>5. status' \in {"pending", "online", "degraded"}
      BY Parts DEF Answer, setNodeInboundStatus, TypeOK
    <2>6. TypeOK'
      BY <1>1, <2>3, <2>5, Parts DEF TypeOK, NodeTypeOK
    <2>7. Called'
      BY <1>1, <1>2, <2>2, <2>3, <2>4, Parts DEF Called
    <2>8. Alone'
      BY <1>1, <1>2, <2>1, <2>2, <2>3, <2>4, Parts, AtWork DEF Alone
    <2>9. ASSUME ~blurred PROVE OnTheWay'
      <3>1. SUFFICES ASSUME e \in lone, j.at # "failed"
                     PROVE  /\ \A g \in Handler : Progress(g)'
                            /\ j.o # None => \A o \in Behind(j.stage) : Whole(o)'
                            /\ j.at = "ok" => /\ j.stage = LastStage
                                              /\ xray.file = rows /\ xray.running = rows
                                              /\ status' = "online"
        <4>1. e \in lone => \A g \in Handler : Progress(g)'
          BY <1>2, <2>2, Parts, IdleProgress DEF Alone
        <4> QED BY <1>1, <2>2, <2>4, <3>1, <4>1, AtWork DEF OnTheWay
      <3>2. \A g \in Handler : Progress(g)'
        BY <1>2, <2>2, <3>1, Parts, IdleProgress DEF Alone
      <3>3. /\ handler[h].at = "done" /\ handler[h].kind = Stages[job[e].stage]
            /\ handler[h].want = rows /\ Progress(h)
            /\ job[e].o # None => \A o \in Behind(job[e].stage) : Whole(o)
        BY <1>1, <2>2, <2>3, <2>9, <3>1, Parts DEF Alone, OnTheWay
      <3>4. CASE j.at = "ok"
        <4>1. handler[h].kind = "xray"
          BY <2>3, <3>3, <3>4, StageKinds DEF LastStage
        <4>2. xray.file = rows /\ xray.running = rows
          BY <3>3, <4>1 DEF Progress
        <4>3. \A o \in Outbound : Whole(o)' = Whole(o)
          BY <1>1 DEF Whole
        <4> QED BY <1>1, <2>3, <3>2, <3>3, <3>4, <4>2, <4>3 DEF Behind
      <3>5. CASE j.at # "ok"
        <4>1. job[e].stage \in 1..3 /\ j.stage = job[e].stage + 1
          BY <2>3, <3>1, <3>5
        <4>2. handler[h].kind \in Native /\ "xray" \notin Native
          BY <3>3, <4>1, StageKinds DEF Native
        <4>3. \A o \in OfKind(Stages[job[e].stage]) : Whole(o)
          BY <3>3, <4>2 DEF Progress
        <4>4. Behind(j.stage) = Behind(job[e].stage) \cup OfKind(Stages[job[e].stage])
          BY <4>1, BehindNext
        <4> QED BY <1>1, <2>3, <3>2, <3>3, <3>5, <4>3, <4>4 DEF Whole
      <3> QED BY <3>4, <3>5
    <2> QED BY <1>1, <1>3, <2>6, <2>7, <2>8, <2>9 DEF Inv
  <1> QED BY <1>4, <1>5

(* A job that is failed from outside.                                       *)
LEMMA FailedJob ==
  ASSUME NEW k \in Deploying
  PROVE  LET j == [k EXCEPT !.at = "failed"] IN
         j \in Deploying /\ j # Idle /\ j.at = "failed" /\ j.o = k.o /\ j.stage = k.stage
  BY DEF Deploying, Idle

(* Handlers that are forgotten go on as they are, beside no lone job.       *)
LEMMA ForgottenKeeps ==
  ASSUME Inv, NEW D,
         handler' = [h \in Handler |->
           IF handler[h] # Idle /\ handler[h].caller \in D THEN [handler[h] EXCEPT !.caller = None]
           ELSE handler[h]],
         job' \in [Job -> Deploying \cup {Idle}],
         \A e \in Job : e \notin D => job'[e] = job[e],
         \A e \in Job : e \in D => job'[e] = Idle \/ job'[e].at = "failed",
         status' \in {"pending", "online", "degraded"}, lone' = {},
         UNCHANGED <<rows, reality, password, unit, xray, blurred>>, faults' \in 0..MaxFaults
  PROVE  Inv'
  <1>1. ASSUME NEW h \in Handler
        PROVE  /\ handler'[h] \in Syncing \cup Applying \cup {Idle}
               /\ handler'[h] = Idle <=> handler[h] = Idle
               /\ handler'[h].at = handler[h].at
               /\ handler[h] # Idle => handler'[h].kind = handler[h].kind
               /\ handler[h].at \in {"next", "mark", "enable", "restart", "sweep", "unfile", "unmark"} =>
                    /\ handler'[h].todo = handler[h].todo /\ handler'[h].cur = handler[h].cur
                    /\ handler'[h].kind = handler[h].kind
               /\ handler'[h] # Idle /\ handler'[h].caller # None =>
                    handler'[h] = handler[h] /\ handler[h].caller \notin D
    <2>1. CASE handler'[h] = handler[h]
      BY <2>1, Parts
    <2>2. CASE handler[h] # Idle /\ handler'[h] = [handler[h] EXCEPT !.caller = None]
      <3>1. CASE handler[h] \in Syncing
        BY <2>2, <3>1 DEF Syncing, Idle
      <3>2. CASE handler[h] \in Applying
        <4>1. handler[h].at \notin {"next", "mark", "enable", "restart", "sweep", "unfile", "unmark"}
          BY <3>2 DEF Applying
        <4> QED BY <2>2, <3>2, <4>1 DEF Applying, Idle
      <3> QED BY <2>2, <3>1, <3>2, Parts
    <2> QED BY <2>1, <2>2
  <1>2. handler' \in [Handler -> Syncing \cup Applying \cup {Idle}]
    BY <1>1
  <1>3. TypeOK'
    BY <1>2, Parts DEF TypeOK, NodeTypeOK
  <1>4. OwnKept'
    BY <1>1, Parts DEF OwnKept, Careful
  <1>5. Called'
    <2>1. ASSUME NEW h \in Handler, handler'[h] # Idle, handler'[h].caller # None
          PROVE  /\ handler[h] # Idle /\ handler[h].caller = handler'[h].caller
                 /\ handler[h].caller \in Job
                 /\ job'[handler[h].caller] = job[handler[h].caller]
                 /\ \A g \in Handler : g # h =>
                      handler'[g] = Idle \/ handler'[g].caller # handler[h].caller
      <3>1. handler'[h] = handler[h] /\ handler[h].caller \notin D
        BY <1>1, <2>1
      <3>2. handler[h].caller \in Job
        <4>1. handler[h] \in Syncing \/ handler[h] \in Applying
          BY <2>1, <3>1, Parts
        <4> QED BY <2>1, <3>1, <4>1 DEF Syncing, Applying
      <3>3. ASSUME NEW g \in Handler, g # h, handler'[g] # Idle,
                   handler'[g].caller = handler[h].caller
            PROVE  FALSE
        BY <1>1, <2>1, <3>1, <3>3, Parts DEF Called
      <3> QED BY <2>1, <3>1, <3>2, <3>3
    <2>2. ASSUME NEW e \in Job, job'[e] # Idle,
                 job'[e].at \in {"keys", "reality", "passwords", "password", "build", "apply"}
          PROVE  job'[e].stage = LastStage
      BY <2>2, Parts DEF Called
    <2> QED BY <2>1, <2>2, Parts DEF Called
  <1>6. Alone' /\ OnTheWay'
    BY DEF Alone, OnTheWay
  <1>7. ~blurred' => Orderly' /\ RunningIsManaged'
    BY <1>1, Parts DEF Orderly, InTurn, RunningIsManaged, Managed
  <1> QED BY <1>3, <1>4, <1>5, <1>6, <1>7 DEF Inv

(* The panel gives up waiting, or is killed.                                *)
LEMMA PanelFaultKeeps ==
  ASSUME Inv, PanelStops \/ \E d \in Job : TimeOut(d), faults' \in 0..MaxFaults
  PROVE  Inv'
  <1>0. status \in {"pending", "online", "degraded"}
    BY Parts DEF TypeOK
  <1>1. ASSUME NEW d \in Job, TimeOut(d) PROVE Inv'
    <2>1. job[d].at = "waiting" /\ job[d] # Idle /\ job[d] \in Deploying
      BY <1>1, Parts DEF TimeOut, Idle
    <2> DEFINE j == [job[d] EXCEPT !.at = "failed"]
    <2>2. j \in Deploying /\ j # Idle /\ j.at = "failed"
      BY <2>1, FailedJob
    <2>3. job' = [job EXCEPT ![d] = j]
      BY <1>1 DEF TimeOut, At
    <2> HIDE DEF j
    <2> DEFINE D == {d}
    <2>4. /\ job' \in [Job -> Deploying \cup {Idle}]
          /\ \A e \in Job : e \notin D => job'[e] = job[e]
          /\ \A e \in Job : e \in D => job'[e] = Idle \/ job'[e].at = "failed"
      BY <2>2, <2>3, Parts
    <2>5. /\ status' \in {"pending", "online", "degraded"} /\ lone' = {}
          /\ UNCHANGED <<rows, reality, password, unit, xray, blurred>>
      BY <1>0, <1>1 DEF TimeOut, setNodeInboundStatus
    <2>6. handler' = [h \in Handler |->
            IF handler[h] # Idle /\ handler[h].caller \in D
            THEN [handler[h] EXCEPT !.caller = None] ELSE handler[h]]
      BY <1>1 DEF TimeOut
    <2> HIDE DEF D
    <2> QED BY <2>4, <2>5, <2>6, ForgottenKeeps
  <1>2. CASE PanelStops
    <2> DEFINE D == Job \cup {None}
    <2>1. /\ job' \in [Job -> Deploying \cup {Idle}]
          /\ \A e \in Job : job'[e] = Idle
          /\ UNCHANGED <<rows, reality, password, status, unit, xray, blurred>> /\ lone' = {}
      BY <1>2 DEF PanelStops, stored
    <2>2. handler' = [h \in Handler |->
            IF handler[h] # Idle /\ handler[h].caller \in D
            THEN [handler[h] EXCEPT !.caller = None] ELSE handler[h]]
      <3>1. ASSUME NEW h \in Handler, handler[h] # Idle PROVE handler[h].caller \in D
        <4>1. handler[h] \in Syncing \/ handler[h] \in Applying
          BY <3>1, Parts
        <4> QED BY <4>1 DEF Syncing, Applying
      <3> QED BY <1>2, <3>1 DEF PanelStops
    <2>3. \A e \in Job : e \in D
      OBVIOUS
    <2> HIDE DEF D
    <2> QED BY <1>0, <2>1, <2>2, <2>3, ForgottenKeeps
  <1> QED BY <1>1, <1>2

(* What a stopped agent, or a rebooted node, leaves behind.                 *)
LEMMA StopsKeeps ==
  ASSUME Inv, AgentStops \/ NodeStops, faults' \in 0..MaxFaults
  PROVE  Inv'
  <1>1. /\ handler' = [h \in Handler |-> Idle] /\ Abandoned
        /\ UNCHANGED <<rows, reality, password, lone, blurred>>
    BY DEF AgentStops, NodeStops, AgentDies, NodeReboots, Abandoned
  <1>2. \A h \in Handler : handler'[h] = Idle
    BY <1>1
  <1>3. ASSUME NEW o \in Outbound
        PROVE  /\ unit'[o] \in Unit
               /\ unit'[o].file = unit[o].file /\ unit'[o].marker = unit[o].marker
               /\ unit'[o].enabled = unit[o].enabled
               /\ \/ unit'[o].running = unit[o].running
                  \/ unit'[o].running = IF unit[o].enabled THEN unit[o].file ELSE None
    <2>1. unit[o] \in Unit
      BY Parts
    <2>2. CASE NodeStops
      <3>1. unit'[o] = [unit[o] EXCEPT !.running = IF unit[o].enabled THEN unit[o].file ELSE None]
        BY <2>2 DEF NodeStops, NodeReboots
      <3> QED BY <2>1, <3>1 DEF Unit, Setting
    <2>3. CASE AgentStops
      BY <2>1, <2>3 DEF AgentStops, AgentDies
    <2> QED BY <2>2, <2>3
  <1>4. unit' \in [Outbound -> Unit]
    <2>1. CASE AgentStops
      BY <2>1, Parts DEF AgentStops, AgentDies
    <2>2. CASE NodeStops
      BY <1>3, <2>2 DEF NodeStops, NodeReboots
    <2> QED BY <2>1, <2>2
  <1>5. /\ xray' \in Xray
        /\ xray.file = rows /\ xray.running = rows => xray'.file = rows /\ xray'.running = rows
    BY Parts DEF AgentStops, AgentDies, NodeStops, NodeReboots, Xray, Config
  <1>6. ASSUME NEW e \in Job
        PROVE  /\ job'[e] \in Deploying \cup {Idle}
               /\ job'[e] = job[e] \/
                    /\ job[e] # Idle /\ job[e].at = "waiting"
                    /\ job'[e].at = "failed" /\ job'[e].stage = job[e].stage
    <2>1. CASE job[e] # Idle /\ job[e].at = "waiting"
      <3>1. job[e] \in Deploying
        BY <2>1, Parts
      <3>2. job'[e] = [job[e] EXCEPT !.at = "failed"]
        BY <1>1, <2>1 DEF Abandoned
      <3> QED BY <2>1, <3>1, <3>2 DEF Deploying
    <2>2. CASE ~(job[e] # Idle /\ job[e].at = "waiting")
      BY <1>1, <2>2, Parts DEF Abandoned
    <2> QED BY <2>1, <2>2
  <1>7. job' \in [Job -> Deploying \cup {Idle}]
    BY <1>1, <1>6 DEF Abandoned
  <1>8. status' \in {"pending", "online", "degraded"}
    BY <1>1, Parts DEF Abandoned, TypeOK
  <1>9. TypeOK'
    BY <1>1, <1>2, <1>4, <1>5, <1>7, <1>8, Parts DEF TypeOK, NodeTypeOK
  <1>10. OwnKept'
    <2>1. ASSUME NEW o \in Outbound, unit[o] = OwnUnit PROVE unit'[o] = OwnUnit
      BY <1>3, <2>1 DEF OwnUnit, Unit
    <2>2. \A h \in Handler : Careful(h)'
      BY <1>2 DEF Careful, Idle
    <2> QED BY <1>3, <2>1, <2>2, Parts DEF OwnKept
  <1>11. Called'
    BY <1>1, <1>2, <1>6, Parts DEF Called
  <1>12. Alone'
    BY <1>1, <1>2, <1>6, Parts DEF Alone
  <1>13. ASSUME ~blurred PROVE Orderly' /\ RunningIsManaged' /\ OnTheWay'
    <2>1. Orderly'
      BY <1>2 DEF Orderly, InTurn, Idle
    <2>2. RunningIsManaged'
      <3>1. ASSUME NEW o \in Outbound, unit[o] = OwnUnit PROVE unit'[o] = OwnUnit
        BY <1>3, <3>1 DEF OwnUnit, Unit
      <3> QED BY <1>3, <1>13, <3>1, Parts DEF RunningIsManaged, Managed
    <2>3. ASSUME NEW o \in Outbound, Whole(o) PROVE Whole(o)'
      <3>1. unit[o] \in Unit
        BY Parts
      <3> QED BY <1>1, <1>3, <2>3, <3>1 DEF Whole, OwnUnit, Unit
    <2>4. ASSUME NEW d \in lone, job'[d] # Idle
          PROVE  /\ \A h \in Handler : Progress(h)'
                 /\ job'[d].o # None /\ job'[d].at \notin {"failed", "bad"} =>
                      \A o \in Behind(job'[d].stage) : Whole(o)'
                 /\ job'[d].at = "ok" => /\ job'[d].stage = LastStage
                                         /\ xray'.file = rows /\ xray'.running = rows
                                         /\ status' = "online"
      <3>1. \A h \in Handler : Progress(h)'
        BY <1>2, IdleProgress
      <3>2. SUFFICES ASSUME job'[d].at # "failed"
                     PROVE  /\ job'[d].o # None /\ job'[d].at \notin {"failed", "bad"} =>
                                 \A o \in Behind(job'[d].stage) : Whole(o)'
                            /\ job'[d].at = "ok" => /\ job'[d].stage = LastStage
                                                    /\ xray'.file = rows /\ xray'.running = rows
                                                    /\ status' = "online"
        BY <3>1
      <3>3. d \in Job /\ job'[d] = job[d] /\ job[d] # Idle
        BY <1>6, <2>4, <3>2, Parts
      <3>4. \A o \in Behind(job[d].stage) : o \in Outbound
        BY DEF Behind
      <3>5. job[d].o # None /\ job[d].at \notin {"failed", "bad"} =>
              \A o \in Behind(job[d].stage) : Whole(o)'
        BY <1>13, <2>3, <2>4, <3>3, <3>4, Parts DEF OnTheWay
      <3>6. job[d].at = "ok" => /\ job[d].stage = LastStage
                                /\ xray'.file = rows /\ xray'.running = rows
                                /\ status' = "online"
        <4>1. job[d].at = "ok" => status' = status
          BY <1>1, <2>4, <3>3, Parts DEF Abandoned, Alone
        <4> QED BY <1>5, <1>13, <2>4, <3>3, <4>1, Parts DEF OnTheWay
      <3> QED BY <3>3, <3>5, <3>6
    <2> QED BY <1>1, <2>1, <2>2, <2>4 DEF OnTheWay
  <1> QED BY <1>1, <1>9, <1>10, <1>11, <1>12, <1>13 DEF Inv

-----------------------------------------------------------------------------
(* The theorems *)

(* Nothing is at work on a node the panel has not used yet.                 *)
LEMMA InitInv == Init => Inv
  <1> SUFFICES ASSUME Init PROVE Inv
    OBVIOUS
  <1>1. TypeOK
    <2>1. unit \in [Outbound -> Unit]
      <3>1. NoUnit \in Unit /\ OwnUnit \in Unit
        BY DEF NoUnit, OwnUnit, Unit, Setting
      <3> QED BY <3>1 DEF Init, NodeInit
    <2>2. xray \in Xray /\ handler \in [Handler -> Syncing \cup Applying \cup {Idle}]
      BY DEF Init, NodeInit, Xray
    <2>3. rows \in Rows /\ job \in [Job -> Deploying \cup {Idle}] /\ faults \in 0..MaxFaults
      BY DeploymentAssumption DEF Init, NoRows, Rows, Setting
    <2> QED BY <2>1, <2>2, <2>3 DEF TypeOK, NodeTypeOK, Init
  <1>2. \A h \in Handler : handler[h] = Idle
    BY DEF Init, NodeInit
  <1>3. OwnKept
    <2>1. \A h \in Handler : Careful(h)
      BY <1>2 DEF Careful, Idle
    <2>2. ASSUME NEW o \in Outbound, unit[o].file = Own PROVE o \in WireGuard /\ unit[o] = OwnUnit
      <3>1. NoUnit.file # Own /\ (unit[o] = NoUnit \/ unit[o] = OwnUnit)
        BY NodeAssumption DEF NoUnit, Init, NodeInit
      <3> QED BY <2>2, <3>1 DEF Init, NodeInit
    <2> QED BY <2>1, <2>2 DEF OwnKept
  <1>4. Called /\ Alone /\ OnTheWay
    BY <1>2 DEF Init, Called, Alone, OnTheWay
  <1>5. Orderly
    BY <1>2 DEF Orderly, InTurn, Idle
  <1>6. RunningIsManaged
    BY DEF RunningIsManaged, Managed, NoUnit, Init, NodeInit
  <1> QED BY <1>1, <1>3, <1>4, <1>5, <1>6 DEF Inv

(* Every step keeps the invariant.                                          *)
LEMMA NextInv == Inv /\ [Next]_vars => Inv'
  <1> SUFFICES ASSUME Inv, [Next]_vars PROVE Inv'
    OBVIOUS
  <1>1. faults \in 0..MaxFaults /\ MaxFaults \in Nat /\ blurred \in BOOLEAN
    BY Parts, DeploymentAssumption DEF TypeOK
  <1>2. ASSUME NEW d \in Job, JobStep(d), UNCHANGED faults PROVE Inv'
    <2>1. faults' \in 0..MaxFaults
      BY <1>1, <1>2
    <2>2. CASE SyncNative(d)
      BY <1>2, <2>2, SendKeeps DEF SyncNative
    <2>3. CASE ApplyXray(d)
      <3>1. job[d].at = "apply" /\ job[d] # Idle
        BY <2>3 DEF ApplyXray, Idle
      <3>2. Stages[job[d].stage] = "xray"
        BY <3>1, Parts, StageKinds DEF Called, LastStage
      <3> QED BY <1>2, <2>3, <3>1, <3>2, SendKeeps DEF ApplyXray
    <2> QED BY <1>2, <2>1, <2>2, <2>3, BeginKeeps, ReadsKeeps, PanelStepKeeps, RollBackKeeps DEF JobStep
  <1>3. ASSUME NEW h \in Handler, HandlerStep(h) \/ HandlerFails(h),
               UNCHANGED <<stored, job, lone, blurred>>, faults' \in 0..MaxFaults
        PROVE  Inv'
    <2>1. Tidy(h)
      BY <1>3, HandlerTidy
    <2> QED BY <1>1, <1>3, <2>1, TidyKeeps
  <1>4. ASSUME Fault, faults' \in 0..MaxFaults PROVE Inv'
    <2>1. ASSUME NEW h \in Handler, SweepFails(h), blurred' = TRUE, UNCHANGED <<stored, job, lone>>
          PROVE  Inv'
      <3>1. Tidy(h)
        BY <2>1, SweepFailsTidy
      <3> QED BY <1>1, <1>4, <2>1, <3>1, TidyKeeps
    <2> QED BY <1>3, <1>4, <2>1, PanelStepKeeps, PanelFaultKeeps, StopsKeeps DEF Fault
  <1>5. CASE Step /\ UNCHANGED faults
    <2>1. faults' \in 0..MaxFaults
      BY <1>1, <1>5
    <2> QED BY <1>2, <1>3, <1>5, <2>1, AnswerKeeps DEF Step
  <1>6. CASE faults < MaxFaults /\ Fault /\ faults' = faults + 1
    <2>1. faults' \in 0..MaxFaults
      BY <1>1, <1>6
    <2> QED BY <1>4, <1>6, <2>1
  <1>7. CASE UNCHANGED vars
    <2>1. /\ UNCHANGED <<job, faults>> /\ UNCHANGED node
          /\ UNCHANGED <<rows, reality, password, status, unit, xray, handler, lone, blurred>>
      BY <1>7 DEF vars, stored, node
    <2>2. TypeOK'
      BY <2>1, Parts DEF TypeOK, NodeTypeOK
    <2>3. OwnKept' /\ Called' /\ Alone'
      BY <2>1, Parts, HandlersKept DEF Called, Alone
    <2>4. ~blurred' => Orderly' /\ RunningIsManaged'
      BY <2>1, HandlersKept DEF RunningIsManaged
    <2>5. OnTheWay' = OnTheWay
      BY <2>1 DEF OnTheWay, Progress, Whole
    <2> QED BY <2>1, <2>2, <2>3, <2>4, <2>5, Parts DEF Inv
  <1> QED BY <1>5, <1>6, <1>7 DEF Next

(* The invariant that the others follow from: handlers, rows and services    *)
(* of outbound_control.go and the agent agree as far as each one has come.  *)
THEOREM InvCorrect == Spec => []Inv
  BY InitInv, NextInv, PTL DEF Spec

(* Every variable keeps its type: the records of jobs and handlers too, of   *)
(* which an answer changes one that belongs to another goroutine.           *)
THEOREM TypeCorrect == Spec => []TypeOK
  <1>1. Inv => TypeOK
    BY DEF Inv
  <1> QED BY <1>1, InvCorrect, PTL

(* deployOutboundNode beside nothing else reports success only for a node    *)
(* that runs what the rows say, whatever has failed before.                 *)
THEOREM SuccessReal == Spec => []SuccessIsReal
  <1>1. Inv => SuccessIsReal
    <2> SUFFICES ASSUME Inv, NEW d \in lone, job[d] # Idle, job[d].at = "ok", ~blurred
                 PROVE  NodeMatches(d)
      BY DEF SuccessIsReal
    <2>1. /\ job[d].stage = LastStage /\ xray.running = rows /\ status = "online"
          /\ job[d].o # None => \A o \in Behind(LastStage) : Whole(o)
      BY Parts DEF OnTheWay
    <2>2. ASSUME NEW o \in Outbound, Whole(o)
          PROVE  /\ unit[o].running = rows[o] \/ unit[o] = OwnUnit
                 /\ unit[o].marker = (rows[o] # None)
      <3>1. unit[o].marker \in BOOLEAN
        BY Parts DEF Unit
      <3>2. CASE rows[o] # None
        BY <2>2, <3>1, <3>2 DEF Whole
      <3>3. CASE rows[o] = None
        BY <2>2, <3>1, <3>3 DEF Whole, OwnUnit
      <3> QED BY <3>2, <3>3
    <2> QED BY <2>1, <2>2, BehindEnds DEF NodeMatches
  <1> QED BY <1>1, InvCorrect, PTL

(* The agent starts nothing that lacks the marker by which a later           *)
(* synchronisation would find it, and unmarks nothing that still runs.      *)
THEOREM ManagedCorrect == Spec => []RunningIsManaged
  <1>1. Inv => RunningIsManaged
    BY DEF Inv, RunningIsManaged
  <1> QED BY <1>1, InvCorrect, PTL

(* No synchronisation, failure or reboot changes an interface that the       *)
(* administrator has set up himself (wireguard_outbound.go, line 134).      *)
THEOREM OwnSafe == Spec => OwnUntouched
  <1>1. Inv /\ [Next]_vars => [\A o \in Outbound : unit[o] = OwnUnit => unit'[o] = OwnUnit]_vars
    <2> SUFFICES ASSUME Inv, Next, NEW o \in Outbound, unit[o] = OwnUnit
                 PROVE  unit'[o] = OwnUnit
      OBVIOUS
    <2>1. ASSUME NEW h \in Handler, Tidy(h) PROVE unit'[o] = OwnUnit
      BY <2>1 DEF Tidy, Touches, OwnUnit
    <2>2. ASSUME UNCHANGED unit PROVE unit'[o] = OwnUnit
      BY <2>2
    <2>3. ASSUME NEW d \in Job, JobStep(d) \/ Fails(d) \/ TimeOut(d) PROVE UNCHANGED unit
      BY <2>3 DEF JobStep, Begin, Redeploy, Started, desiredOutbounds, buildXrayConfig, Reads,
                  SyncNative, ApplyXray, Send, LookForKey,
                  ensureRealityKeys, LookForPassword, ensureShadowsocksServerPasswords,
                  PanelStep, RollBack, GivesUp, Return, Fails, TimeOut, node
    <2>4. ASSUME NEW h \in Handler, HandlerStep(h) \/ HandlerFails(h), UNCHANGED <<stored, blurred>>
          PROVE  unit'[o] = OwnUnit
      BY <2>1, <2>4, HandlerTidy
    <2>5. ASSUME NEW h \in Handler, Answer(h) PROVE UNCHANGED unit
      BY <2>5 DEF Answer
    <2>6. ASSUME NEW h \in Handler, SweepFails(h) PROVE UNCHANGED unit
      BY <2>6 DEF SweepFails
    <2>7. CASE NodeStops
      <3>1. unit'[o] = [unit[o] EXCEPT !.running = IF unit[o].enabled THEN unit[o].file ELSE None]
        BY <2>7 DEF NodeStops, NodeReboots
      <3>2. unit[o].enabled /\ unit[o].file = unit[o].running
        BY DEF OwnUnit
      <3>3. unit[o] \in Unit /\ unit'[o] \in Unit /\ unit'[o].running = unit[o].running
        BY <3>1, <3>2, Parts DEF Unit
      <3> QED BY <3>1, <3>3, SameUnit DEF Unit
    <2>8. CASE AgentStops \/ PanelStops
      BY <2>8, <2>2 DEF AgentStops, AgentDies, PanelStops
    <2>9. CASE Step
      BY <2>2, <2>3, <2>4, <2>5, <2>9 DEF Step
    <2>10. CASE Fault
      BY <2>2, <2>3, <2>4, <2>6, <2>7, <2>8, <2>10 DEF Fault
    <2> QED BY <2>9, <2>10 DEF Next
  <1> QED BY <1>1, InvCorrect, PTL DEF Spec, OwnUntouched

(* ensureShadowsocksServerPasswords looks again inside its Update, so that   *)
(* of two deployments that found the password missing only one writes it.   *)
THEOREM PasswordSafe == Spec => PasswordKept
  <1>1. [Next]_vars => [password # None => password' = password]_vars
    <2> SUFFICES ASSUME Next, password # None PROVE password' = password
      OBVIOUS
    <2>1. ASSUME NEW d \in Job, JobStep(d) \/ Fails(d) \/ TimeOut(d) PROVE password' = password
      BY <2>1 DEF JobStep, Begin, Redeploy, Started, desiredOutbounds, buildXrayConfig, Reads,
                  SyncNative, ApplyXray, Send, LookForKey,
                  ensureRealityKeys, LookForPassword, ensureShadowsocksServerPasswords,
                  PanelStep, RollBack, GivesUp, Return, Fails, TimeOut, stored
    <2>2. CASE Step
      BY <2>1, <2>2 DEF Step, Answer, stored
    <2>3. CASE Fault
      BY <2>1, <2>3 DEF Fault, AgentStops, NodeStops, PanelStops, Abandoned, stored
    <2> QED BY <2>2, <2>3 DEF Next
  <1> QED BY <1>1, PTL DEF Spec, PasswordKept
=============================================================================
