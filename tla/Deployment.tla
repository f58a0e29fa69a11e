----------------------------- MODULE Deployment -----------------------------
(***************************************************************************)
(* Deployments of the panel (internal/panel) to the agent of one node:     *)
(* the transactions of outbounds as their runtime sees them.  A job writes *)
(* a row, reads the rows again for each kind of service, sends the list to *)
(* the agent, where it may come after a newer one, and waits at most ten   *)
(* seconds for the answer; if anything fails, it writes the old row back   *)
(* and deploys again.                                                      *)
(*                                                                         *)
(* ControlPlane takes a deployment as its outcome; here it is done, on the *)
(* services of NodeServices.  lone and blurred are history: no guard reads *)
(* them.                                                                   *)
(***************************************************************************)
EXTENDS NodeServices, Sequences

CONSTANTS Key,         \* REALITY private keys and Shadowsocks passwords
          MaxFaults    \* bounds the failures of one behaviour

ASSUME DeploymentAssumption == None \notin Key /\ MaxFaults \in Nat

VARIABLES
  rows,      \* State.Outbounds: what is enabled on the node
  reality,   \* State.Inbounds: the private key of the node's REALITY inbound
  password,  \*   and the password of its Shadowsocks inbound
  status,    \*   and the status of both
  job,       \* the request each slot is serving
  lone,      \* jobs beside which nothing else has run
  blurred,   \* two handlers have synchronised one kind at the same time, or
             \* a service was not removed and nobody was told
  faults     \* failures so far

stored == <<rows, reality, password, status>>
node == <<unit, xray, handler>>
vars == <<stored, node, job, lone, blurred, faults>>

Stages == <<"wireguard", "tor", "openvpn", "xray">>
LastStage == 4

Deploying ==
  [at : {"list", "send", "waiting", "keys", "reality", "passwords", "password", "build", "apply",
         "failed", "ok", "bad"},
   stage : 1..LastStage, undo : BOOLEAN, o : Outbound \cup {None}, before : Setting, read : Rows]

NoRows == [o \in Outbound |-> None]

TypeOK ==
  /\ NodeTypeOK
  /\ rows \in Rows
  /\ reality \in Key \cup {None} /\ password \in Key \cup {None}
  /\ status \in {"pending", "online", "degraded"}
  /\ job \in [Job -> Deploying \cup {Idle}]
  /\ lone \in SUBSET Job
  /\ blurred \in BOOLEAN
  /\ faults \in 0..MaxFaults

Init ==
  /\ NodeInit
  /\ rows = NoRows
  /\ reality = None /\ password = None /\ status = "pending"
  /\ job = [d \in Job |-> Idle]
  /\ lone = {} /\ blurred = FALSE /\ faults = 0

-----------------------------------------------------------------------------
Quiet == (\A d \in Job : job[d] = Idle) /\ (\A h \in Handler : handler[h] = Idle)

Started(d, stage, undo, o) ==
  /\ job[d] = Idle
  /\ job' = [job EXCEPT ![d] =
       [at |-> IF stage = LastStage THEN "keys" ELSE "list", stage |-> stage, undo |-> undo,
        o |-> o, before |-> IF undo THEN rows[o] ELSE None, read |-> NoRows]]
  /\ lone' = IF Quiet THEN {d} ELSE {}
  /\ UNCHANGED <<node, blurred, reality, password, status>>

(* A transaction creates, updates, switches or deletes an outbound.         *)
Begin(d, o, v) ==
  /\ rows[o] # v
  /\ rows' = [rows EXCEPT ![o] = v]
  /\ Started(d, 1, TRUE, o)

(* deployXrayNode by itself: attachments, users, subscriptions.             *)
Redeploy(d) == Started(d, LastStage, FALSE, None) /\ UNCHANGED rows

At(d, at) == job' = [job EXCEPT ![d].at = at]

(* The rows are read,                                                       *)
Reads(d, from, to) ==
  /\ job[d].at = from
  /\ job' = [job EXCEPT ![d].at = to, ![d].read = rows]
  /\ UNCHANGED <<stored, node, lone, blurred>>

(* and the request reaches a handler with what was read.                    *)
Send(d, h, kind) ==
  /\ handler[h] = Idle
  /\ handler' = [handler EXCEPT ![h] = Request(kind, job[d].read, d)]
  /\ blurred' = (blurred \/ \E g \in Handler : handler[g] # Idle /\ handler[g].kind = kind)
  /\ job' = [job EXCEPT ![d].at = "waiting", ![d].read = NoRows]
  /\ UNCHANGED <<stored, unit, xray, lone>>

desiredOutbounds(d) == Reads(d, "list", "send")

SyncNative(d) ==
  /\ job[d].at = "send"
  /\ \E h \in Handler : Send(d, h, Stages[job[d].stage])

(* deployXrayNode generates what keys are missing, with a lookup, a         *)
(* generation and a write for each.                                         *)
PanelStep(d, from, to) ==
  /\ job[d].at = from
  /\ At(d, to)
  /\ UNCHANGED <<node, lone, blurred>>

LookForKey(d) ==
  /\ PanelStep(d, "keys", IF reality = None THEN "reality" ELSE "passwords")
  /\ UNCHANGED stored

(* The agent generates the key; the Update does not look again whether one  *)
(* is still missing.                                                        *)
ensureRealityKeys(d) ==
  /\ PanelStep(d, "reality", "passwords")
  /\ reality' \in Key
  /\ UNCHANGED <<rows, password, status>>

LookForPassword(d) ==
  /\ PanelStep(d, "passwords", IF password = None THEN "password" ELSE "build")
  /\ UNCHANGED stored

(* Slip: no second look inside the Update, as for the keys.                 *)
ensurePasswordsAnyway(d) ==
  /\ PanelStep(d, "password", "build")
  /\ password' \in Key
  /\ UNCHANGED <<rows, reality, status>>

ensureShadowsocksServerPasswords(d) ==
  /\ PanelStep(d, "password", "build")
  /\ IF password = None THEN password' \in Key ELSE UNCHANGED password
  /\ UNCHANGED <<rows, reality, status>>

buildXrayConfig(d) == Reads(d, "build", "apply")

ApplyXray(d) ==
  /\ job[d].at = "apply"
  /\ \E h \in Handler : Send(d, h, "xray")

(* deployXrayNode ends by writing the status of the node's inbounds; a      *)
(* failure before Xray's turn leaves it alone.                              *)
setNodeInboundStatus(d, result) ==
  status' = IF job[d].stage = LastStage THEN result ELSE status

(* The agent cannot be reached, or the panel has an error of its own.       *)
Fails(d) ==
  /\ job[d].at \in {"list", "send", "keys", "reality", "passwords", "password", "build", "apply"}
  /\ job' = [job EXCEPT ![d].at = "failed", ![d].read = NoRows]
  /\ setNodeInboundStatus(d, "degraded")
  /\ UNCHANGED <<rows, reality, password, node, lone, blurred>>

(* The answer arrives, at a panel that still waits for it or has given up.  *)
Answer(h) ==
  LET d == handler[h].caller IN
  /\ handler[h].at \in {"done", "failed"}
  /\ handler' = [handler EXCEPT ![h] = Idle]
  /\ IF d = None THEN UNCHANGED <<job, status>>
     ELSE IF handler[h].at = "failed" THEN At(d, "failed") /\ setNodeInboundStatus(d, "degraded")
     ELSE /\ IF job[d].stage = LastStage THEN At(d, "ok")
             ELSE LET next == job[d].stage + 1 IN
                  job' = [job EXCEPT ![d].stage = next,
                                     ![d].at = IF Stages[next] = "xray" THEN "keys" ELSE "list"]
          /\ setNodeInboundStatus(d, "online")
  /\ UNCHANGED <<rows, reality, password, unit, xray, lone, blurred>>

(* http.Client gives up; the handler does not notice.                       *)
TimeOut(d) ==
  /\ job[d].at = "waiting"
  /\ At(d, "failed")
  /\ setNodeInboundStatus(d, "degraded")
  /\ handler' = [h \in Handler |->
       IF handler[h] # Idle /\ handler[h].caller = d THEN [handler[h] EXCEPT !.caller = None]
       ELSE handler[h]]
  /\ lone' = {}
  /\ UNCHANGED <<rows, reality, password, unit, xray, blurred>>

(* Slip: the recovery deploys Xray only.                                    *)
RollBackXray(d) ==
  /\ job[d].at = "failed" /\ job[d].undo
  /\ rows' = [rows EXCEPT ![job[d].o] = job[d].before]
  /\ job' = [job EXCEPT ![d].at = "keys", ![d].stage = LastStage, ![d].undo = FALSE]
  /\ UNCHANGED <<reality, password, status, node, lone, blurred>>

(* The first failure of a transaction: write the old row, deploy again.     *)
RollBack(d) ==
  /\ job[d].at = "failed" /\ job[d].undo
  /\ rows' = [rows EXCEPT ![job[d].o] = job[d].before]
  /\ job' = [job EXCEPT ![d].at = "list", ![d].stage = 1, ![d].undo = FALSE]
  /\ UNCHANGED <<reality, password, status, node, lone, blurred>>

GivesUp(d) ==
  /\ job[d].at = "failed" /\ ~job[d].undo
  /\ At(d, "bad")
  /\ UNCHANGED <<stored, node, lone, blurred>>

(* The request is answered.                                                 *)
Return(d) ==
  /\ job[d].at \in {"ok", "bad"}
  /\ job' = [job EXCEPT ![d] = Idle]
  /\ UNCHANGED <<stored, node, lone, blurred>>

-----------------------------------------------------------------------------
(* Whoever waits for an agent that stops gets an error.                     *)
Abandoned ==
  /\ job' = [d \in Job |-> IF job[d] # Idle /\ job[d].at = "waiting"
                           THEN [job[d] EXCEPT !.at = "failed"] ELSE job[d]]
  /\ status' = IF \E d \in Job : job[d] # Idle /\ job[d].at = "waiting" /\ job[d].stage = LastStage
               THEN "degraded" ELSE status
  /\ UNCHANGED <<rows, reality, password, lone, blurred>>

AgentStops == AgentDies /\ Abandoned
NodeStops == NodeReboots /\ Abandoned

(* The panel is killed: transactions are cut short, handlers go on.         *)
PanelStops ==
  /\ job' = [d \in Job |-> Idle]
  /\ handler' = [h \in Handler |->
       IF handler[h] = Idle THEN Idle ELSE [handler[h] EXCEPT !.caller = None]]
  /\ lone' = {}
  /\ UNCHANGED <<stored, unit, xray, blurred>>

JobStep(d) ==
  \/ \E o \in Outbound, v \in Setting : Begin(d, o, v)
  \/ Redeploy(d) \/ desiredOutbounds(d) \/ SyncNative(d) \/ LookForKey(d) \/ ensureRealityKeys(d)
  \/ LookForPassword(d) \/ ensureShadowsocksServerPasswords(d) \/ buildXrayConfig(d) \/ ApplyXray(d)
  \/ RollBack(d) \/ GivesUp(d) \/ Return(d)

Step ==
  \/ \E d \in Job : JobStep(d)
  \/ \E h \in Handler : \/ HandlerStep(h) /\ UNCHANGED <<stored, job, lone, blurred>>
                        \/ Answer(h)

Fault ==
  \/ \E d \in Job : Fails(d) \/ TimeOut(d)
  \/ \E h \in Handler :
       \/ HandlerFails(h) /\ UNCHANGED <<stored, job, lone, blurred>>
       \/ SweepFails(h) /\ blurred' = TRUE /\ UNCHANGED <<stored, job, lone>>
  \/ AgentStops \/ NodeStops \/ PanelStops

Next ==
  \/ Step /\ UNCHANGED faults
  \/ faults < MaxFaults /\ Fault /\ faults' = faults + 1

Spec == Init /\ [][Next]_vars

-----------------------------------------------------------------------------
(* What a job has deployed: a transaction all services, a redeployment Xray. *)
NodeMatches(d) ==
  /\ xray.running = rows
  /\ status = "online"
  /\ job[d].o # None =>
       \A o \in Outbound : /\ unit[o].running = rows[o] \/ unit[o] = OwnUnit
                           /\ unit[o].marker = (rows[o] # None)

(* A deployment beside which nothing else has run and that reports success  *)
(* has brought the node to the rows, and so has the recovery of one that    *)
(* failed: whatever has failed, stopped half way or been left behind before, *)
(* but for what blurs a node.  Deployments side by side are the concern of  *)
(* OnlineIsDeployed and RolledBackIsReal.                                   *)
SuccessIsReal ==
  \A d \in lone : job[d] # Idle /\ job[d].at = "ok" /\ ~blurred => NodeMatches(d)

(* The outbound's error says "state and runtime rolled back" when the       *)
(* recovery deployment has succeeded (internal/panel/outbound_control.go,   *)
(* line 115).  A request that was given up is still at work on the node.    *)
RolledBackIsReal ==
  \A d \in Job :
    job[d] # Idle /\ job[d].at = "ok" /\ job[d].o # None /\ ~job[d].undo => NodeMatches(d)

(* Whatever stops half way, a service of GameBridge's that is enabled or    *)
(* runs has its marker, without which no later synchronisation would ever   *)
(* remove it: until two handlers of one kind have met, or the agent has     *)
(* dropped an error of a removal.                                           *)
Managed(o) ==
  unit[o] # OwnUnit /\ (unit[o].enabled \/ unit[o].running # None) => unit[o].marker

RunningIsManaged == ~blurred => \A o \in Outbound : Managed(o)

(* The agent refuses a WireGuard interface that "already has an unmanaged   *)
(* config" (internal/agent/wireguard_outbound.go, line 134): it should be   *)
(* one that GameBridge has not written.                                     *)
RefusedIsForeign ==
  (\A h \in Handler : handler[h] = Idle) =>
    \A o \in Outbound : Foreign(o) => unit[o] = OwnUnit

(* docs/PANEL_PHASE3_ROUTING_ACCOUNTING.md:9-15 has every change of an      *)
(* outbound deployed to Xray.  When nothing is at work and the panel shows  *)
(* the node's inbounds as online, Xray runs what the rows say: no older     *)
(* configuration has overtaken a newer one on its way.                      *)
OnlineIsDeployed == Quiet /\ status = "online" => xray.running = rows

(* docs/PANEL_PHASE2_XRAY.md:10 "Atomic Xray config apply": the file is a    *)
(* whole configuration whatever has stopped a handler.                      *)
ApplyIsAtomic == (\A h \in Handler : handler[h] = Idle) => xray.file # Broken

(* An interface of the administrator's own is never written or stopped.     *)
OwnUntouched == [][\A o \in Outbound : unit[o] = OwnUnit => unit'[o] = OwnUnit]_vars

(* The password of an inbound, once generated, has been handed to clients,  *)
(* and no deployment changes it, however many have found it missing.  (The  *)
(* rollback of an inbound's update, inbound_hardening.go:113-121, writes    *)
(* the old row back, its encrypted password too; it is not modelled here.)  *)
PasswordKept == [][password # None => password' = password]_vars

-----------------------------------------------------------------------------
(* Why the safety properties hold: an invariant that every step keeps.      *)

(* A handler is never about to touch an own interface, which stays whole.   *)
Careful(h) ==
  LET r == handler[h] IN
  /\ r.at \in {"next", "mark", "enable", "restart", "sweep", "unfile", "unmark"} =>
       r.todo \subseteq OfKind(r.kind)
  /\ r.at \in {"sweep", "unfile", "unmark"} => \A o \in r.todo : unit[o].file # Own
  /\ r.at \in {"mark", "enable", "restart", "unfile", "unmark"} =>
       r.cur \in OfKind(r.kind) /\ unit[r.cur].file # Own

OwnKept ==
  /\ \A o \in Outbound : unit[o].file = Own => o \in WireGuard /\ unit[o] = OwnUnit
  /\ \A h \in Handler : Careful(h)

(* One handler of a kind: it starts what is marked, and unmarks what is     *)
(* stopped.                                                                 *)
InTurn(h) ==
  LET r == handler[h] IN
  /\ r.at \in {"enable", "restart"} => unit[r.cur].marker
  /\ r.at \in {"unfile", "unmark"} => ~unit[r.cur].enabled /\ unit[r.cur].running = None

Orderly ==
  /\ \A g, h \in Handler :
       g # h /\ handler[g] # Idle /\ handler[h] # Idle => handler[g].kind # handler[h].kind
  /\ \A h \in Handler : InTurn(h)

(* A handler answers a job that waits for it, and no other does; Xray's      *)
(* keys are looked for last.                                                *)
Called ==
  /\ \A h \in Handler : handler[h] # Idle /\ handler[h].caller # None =>
       LET d == handler[h].caller IN
       /\ job[d] # Idle /\ job[d].at = "waiting"
       /\ \A g \in Handler : g # h => handler[g] = Idle \/ handler[g].caller # d
  /\ \A d \in Job :
       job[d] # Idle /\ job[d].at \in {"keys", "reality", "passwords", "password", "build", "apply"} =>
         job[d].stage = LastStage

(* Beside a lone job there is nothing but the handler it waits for, and     *)
(* what it has read is still so.                                            *)
Alone ==
  \A d \in lone :
    /\ \A e \in Job : e # d => job[e] = Idle
    /\ job[d] # Idle /\ job[d].at \in {"send", "apply"} => job[d].read = rows
    /\ \A h \in Handler : handler[h] # Idle =>
         /\ job[d] # Idle /\ job[d].at = "waiting"
         /\ handler[h].kind = Stages[job[d].stage]
         /\ handler[h].want = rows /\ handler[h].caller = d

(* What a synchronisation leaves of a service: also after a reboot.         *)
Whole(o) ==
  IF rows[o] # None
  THEN unit[o] = [file |-> rows[o], marker |-> TRUE, enabled |-> TRUE, running |-> rows[o]]
  ELSE unit[o] = OwnUnit \/ (~unit[o].marker /\ ~unit[o].enabled /\ unit[o].running = None)

(* What a handler has done of its list already.                             *)
Progress(h) ==
  LET r == handler[h] IN
  /\ r.at \in {"next", "mark", "enable", "restart"} =>
       \A o \in OfKind(r.kind) : IF o \in r.todo THEN rows[o] # None
                                 ELSE rows[o] # None => Whole(o)
  /\ r.at \in {"mark", "enable", "restart"} => rows[r.cur] # None /\ unit[r.cur].file = rows[r.cur]
  /\ r.at = "restart" => unit[r.cur].enabled
  /\ r.at \in {"sweep", "unfile", "unmark"} =>
       \A o \in OfKind(r.kind) :
         IF rows[o] # None THEN Whole(o) /\ o \notin r.todo
         ELSE unit[o].marker => o \in r.todo \/ o = r.cur
  /\ r.at \in {"next", "sweep"} => r.cur = None
  /\ r.at \in {"unfile", "unmark"} => rows[r.cur] = None
  /\ r.at = "done" /\ r.kind # "xray" => \A o \in OfKind(r.kind) : Whole(o)
  /\ r.at = "start" => xray.file = rows
  /\ r.at = "done" /\ r.kind = "xray" => xray.file = rows /\ xray.running = rows

(* The services whose turn comes before a stage.                            *)
Behind(stage) == {o \in Outbound : \E i \in 1..(stage - 1) : o \in OfKind(Stages[i])}

OnTheWay ==
  \A d \in lone : job[d] # Idle =>
    /\ \A h \in Handler : Progress(h)
    /\ job[d].o # None /\ job[d].at \notin {"failed", "bad"} =>
         \A o \in Behind(job[d].stage) : Whole(o)
    /\ job[d].at = "ok" =>
         /\ job[d].stage = LastStage
         /\ xray.file = rows /\ xray.running = rows /\ status = "online"

Inv ==
  /\ TypeOK /\ OwnKept /\ Called /\ Alone
  /\ ~blurred => Orderly /\ RunningIsManaged /\ OnTheWay
=============================================================================
