---------------------------- MODULE Provisioning ----------------------------
(***************************************************************************)
(* What the panel sets up on nodes at an operator's request and records in *)
(* its state: tunnels between two nodes, port forwards, and the WireGuard  *)
(* peers of users (internal/panel), with the agent's side of each          *)
(* (internal/agent).                                                       *)
(*                                                                         *)
(* A request reads the state, calls the agents with no lock held, and      *)
(* writes its row last; most errors on the way are dropped.  Nothing       *)
(* compares the rows with the nodes afterwards.  A request of an agent     *)
(* takes effect at once here, all of it, a part, or none; Deployment has   *)
(* handlers that go on.  The nodes are enabled and online (NodeHealth).    *)
(* The forwards and the WireGuard interface are at the destination.        *)
(***************************************************************************)
EXTENDS FiniteSetsExt, TLC

CONSTANTS Tunnel, Name,          \* tunnels, by their key; names operators give them
          Forward, Dest,         \* port forwards, and the addresses they lead to
          User, Peer, Address,   \* users, their devices, addresses in the WireGuard subnet
          DeviceLimit,           \* effectiveDeviceLimit of every user
          Request,               \* requests served at one time
          None,
          MaxRequests, MaxFaults \* bounds

VARIABLES
  tunnels,   \* State.Tunnels
  forwards,  \* State.Forwards
  users,     \* State.Users
  peers,     \* State.VPNPeers
  unit,      \* each end's tunnels: configuration file and systemd unit, by name
  nat,       \* the forwarding node: iptables rules, and the files behind them
  kernel,    \* the WireGuard node's peers
  conf,      \* the peers in the file of its interface
  job,       \* what each request is at
  unsure,    \* history: resources the panel has no reason to know about
  refreshed, \* history: tunnels a refresh has turned into online
  restarted, \* history: ends whose node has started a stopped tunnel
  halfMade,  \* history: ends at which a creation has failed half way
  used,      \* history: identifiers given out
  begun, faults

rows == <<tunnels, forwards, users, peers>>
wg == <<kernel, conf>>
nodes == <<unit, nat, wg>>
excuses == <<refreshed, restarted, halfMade>>
bounds == <<begun, faults>>
vars == <<rows, nodes, job, unsure, excuses, used, bounds>>

Resource == Tunnel \cup Forward \cup Peer

End == {"src", "dst"}
Action == {"start", "stop", "restart", "refresh"}

Unit == [file : Tunnel \cup {None}, enabled : BOOLEAN, running : Tunnel \cup {None}]
NoUnit == [file |-> None, enabled |-> FALSE, running |-> None]

TunnelRow == [name : Name, status : {"online", "stopped", "degraded"}]
PeerRow == [user : User, address : Address, enabled : BOOLEAN]
KernelPeer == [address : Address \cup {None}, secret : BOOLEAN]

ASSUME ProvisioningAssumption ==
  /\ IsFiniteSet(Peer) /\ User \cap Peer = {}
  /\ DeviceLimit \in Nat /\ MaxRequests \in Nat /\ MaxFaults \in Nat
  /\ None \notin Tunnel \cup TunnelRow \cup Dest \cup PeerRow \cup KernelPeer

(* The rules of a forward: what comes in is sent to its destination, and    *)
(* what goes there is let through.                                          *)
Rules(f, d) == {<<"dnat", f>>, <<"accept", d>>}
Rule == UNION {Rules(f, d) : f \in Forward, d \in Dest}

Touch == SUBSET (Resource \cup User \cup Address \cup {"addresses"})
Idle == [at |-> "idle"]
Job == {Idle}
  \cup [at : {"createDst", "createSrc", "undoDst", "addTunnel", "delSrc", "delDst", "dropTunnel"},
        touch : Touch, t : Tunnel, n : Name]
  \cup [at : {"actSrc", "actDst", "setStatus"}, touch : Touch, t : Tunnel, n : Name,
        act : Action, failed : BOOLEAN]
  \cup [at : {"install", "addForward"}, touch : Touch, f : Forward, d : Dest]
  \cup [at : {"uninstall", "dropForward"}, touch : Touch, f : Forward]
  \cup [at : {"addPeer", "recordPeer"}, touch : Touch, p : Peer, u : User, a : Address]
  \cup [at : {"setPeer", "revertPeer"}, touch : Touch, p : Peer, a : Address, on : BOOLEAN]
  \cup [at : {"removePeers", "dropUser"}, touch : Touch, u : User, todo : SUBSET Peer]

TypeOK ==
  /\ tunnels \in [Tunnel -> TunnelRow \cup {None}]
  /\ forwards \in [Forward -> Dest \cup {None}]
  /\ users \in SUBSET User
  /\ peers \in [Peer -> PeerRow \cup {None}]
  /\ unit \in [End -> [Name -> Unit]]
  /\ nat \in [rules : SUBSET Rule, file : [Forward -> Dest \cup {None}], script : SUBSET Forward]
  /\ kernel \in [Peer -> KernelPeer \cup {None}] /\ conf \in [Peer -> KernelPeer \cup {None}]
  /\ job \in [Request -> Job]
  /\ unsure \in SUBSET Resource /\ used \in SUBSET Resource
  /\ refreshed \in SUBSET Tunnel
  /\ restarted \in SUBSET (Tunnel \X End) /\ halfMade \in SUBSET (Tunnel \X End)
  /\ begun \in 0..MaxRequests /\ faults \in 0..MaxFaults

Init ==
  /\ tunnels = [t \in Tunnel |-> None]
  /\ forwards = [f \in Forward |-> None]
  /\ users = User
  /\ peers = [p \in Peer |-> None]
  /\ unit = [e \in End |-> [n \in Name |-> NoUnit]]
  /\ nat = [rules |-> {}, file |-> [f \in Forward |-> None], script |-> {}]
  /\ kernel = [p \in Peer |-> None] /\ conf = [p \in Peer |-> None]
  /\ job = [r \in Request |-> Idle]
  /\ unsure = {} /\ used = {}
  /\ refreshed = {} /\ restarted = {} /\ halfMade = {}
  /\ begun = 0 /\ faults = 0

-----------------------------------------------------------------------------
(* Requests that clash are about the same resource, user or address, or     *)
(* both choose an address.                                                  *)
Clashing(touch) ==
  LET others == {r \in Request : job[r] # Idle /\ job[r].touch \cap touch # {}} IN
  IF others = {} THEN {}
  ELSE (touch \cup UNION {job[r].touch : r \in others}) \cap Resource

Begin(r, j) ==
  /\ job[r] = Idle
  /\ begun < MaxRequests
  /\ begun' = begun + 1
  /\ job' = [job EXCEPT ![r] = j]
  /\ UNCHANGED <<rows, nodes, faults>>

New(id) == id \notin used /\ used' = used \cup {id}

Goto(r, at) == job' = [job EXCEPT ![r].at = at]
Return(r) == job' = [job EXCEPT ![r] = Idle]

(* A step goes well, or costs one of the faults, and an Update that fails   *)
(* is not heard of.  What is about a resource becomes unsure if something   *)
(* was done and the answer is an error, or nothing and the error is dropped.*)
Well == UNCHANGED <<faults, unsure>>
Fault(blurred) ==
  /\ faults < MaxFaults
  /\ faults' = faults + 1
  /\ unsure' = unsure \cup blurred

-----------------------------------------------------------------------------
(* Tunnels *)

(* Somebody has the name already: the panel does not look.                  *)
Namesakes(n) == {t \in Tunnel : tunnels[t] # None /\ tunnels[t].name = n}
NameTaken(n) ==
  \/ \E e \in End : unit[e][n] # NoUnit
  \/ \E r \in Request : job[r] # Idle /\ "n" \in DOMAIN job[r] /\ job[r].n = n
NamesakesAtWork(n) ==
  {job[r].t : r \in {q \in Request : job[q] # Idle /\ "n" \in DOMAIN job[q] /\ job[q].n = n}}

createTunnel(r, t, n) ==
  /\ New(t)
  /\ Begin(r, [at |-> "createDst", touch |-> {t}, t |-> t, n |-> n])
  /\ unsure' = IF NameTaken(n) \/ Namesakes(n) # {}
               THEN unsure \cup {t} \cup Namesakes(n) \cup NamesakesAtWork(n) ELSE unsure
  /\ UNCHANGED excuses

(* createUserspaceTunnel, createKernelTunnel: the file, then systemctl      *)
(* enable --now, which leaves a running unit as it is.  An error of either  *)
(* is answered, and what is there already stays.                            *)
Filed(u, t) == [u EXCEPT !.file = t]
Up(u, t) == [file |-> t, enabled |-> TRUE, running |-> IF u.running = None THEN t ELSE u.running]

CreateEnd(r, e, from, next, failed) ==
  LET t == job[r].t
      n == job[r].n
      u == unit[e][n]
  IN
  /\ job[r].at = from
  /\ \/ unit' = [unit EXCEPT ![e][n] = Up(u, t)] /\ Goto(r, next) /\ Well /\ UNCHANGED halfMade
     \/ UNCHANGED <<unit, halfMade>> /\ failed /\ Fault({})
     \/ \E v \in {Filed(u, t), [Filed(u, t) EXCEPT !.enabled = TRUE]} :
          /\ unit' = [unit EXCEPT ![e][n] = v] /\ failed /\ Fault({})
          /\ halfMade' = halfMade \cup {<<t, e>>}
     \/ unit' = [unit EXCEPT ![e][n] = Up(u, t)] /\ failed /\ Fault({t}) /\ UNCHANGED halfMade
  /\ UNCHANGED <<rows, nat, wg, refreshed, restarted, used, begun>>

CreateAtDestination(r) == CreateEnd(r, "dst", "createDst", "createSrc", Return(r))
CreateAtSource(r) == CreateEnd(r, "src", "createSrc", "addTunnel", Goto(r, "undoDst"))

(* The agent's deleteTunnel: systemctl disable --now if there is a file,    *)
(* whose failure is dropped, then the files.                                *)
Deleted(u) == IF u.file = None THEN u ELSE NoUnit

DeleteEnd(r, e, next) ==
  LET n == job[r].n
      deleted == [unit EXCEPT ![e][n] = Deleted(unit[e][n])]
  IN
  /\ \/ unit' = deleted /\ Well
     \/ unit' = [unit EXCEPT ![e][n].file = None] /\ Fault({job[r].t})
     \/ unit' \in {unit, deleted} /\ Fault({job[r].t})
  /\ next
  /\ UNCHANGED <<rows, nat, wg, excuses, used, begun>>

(* Slip: the end that failed is deleted, not the one that did not.          *)
UndoSource(r) == job[r].at = "undoDst" /\ DeleteEnd(r, "src", Return(r))

UndoDestination(r) == job[r].at = "undoDst" /\ DeleteEnd(r, "dst", Return(r))

AddTunnel(r) ==
  /\ job[r].at = "addTunnel"
  /\ \/ tunnels' = [tunnels EXCEPT ![job[r].t] = [name |-> job[r].n, status |-> "online"]] /\ Well
     \/ UNCHANGED tunnels /\ Fault({job[r].t})
  /\ Return(r)
  /\ UNCHANGED <<forwards, users, peers, nodes, excuses, used, begun>>

(* A refresh asks for the units' status and does not look at the answer: a  *)
(* tunnel that was not shown as online comes to be, whatever its units do.  *)
tunnelAction(r, t, act) ==
  /\ tunnels[t] # None
  /\ Begin(r, [at |-> "actSrc", touch |-> {t}, t |-> t, n |-> tunnels[t].name,
               act |-> act, failed |-> FALSE])
  /\ unsure' = unsure \cup Clashing({t})
  /\ refreshed' = IF act # "refresh" THEN refreshed \ {t}
                  ELSE IF tunnels[t].status = "online" THEN refreshed ELSE refreshed \cup {t}
  /\ restarted' = IF act = "stop" THEN restarted \ ({t} \X End) ELSE restarted
  /\ UNCHANGED <<halfMade, used>>

(* handleTunnelItem of the agent.                                           *)
Acted(u, act) ==
  CASE act = "start"   -> IF u.running = None THEN [u EXCEPT !.running = u.file] ELSE u
    [] act = "restart" -> [u EXCEPT !.running = u.file]
    [] act = "stop"    -> [u EXCEPT !.running = None]
    [] act = "refresh" -> u

ActAt(r, e, from, next) ==
  LET n == job[r].n
      u == unit[e][n]
      Done(failed) ==
        job' = [job EXCEPT ![r] = [@ EXCEPT !.at = next, !.failed = failed]]
  IN
  /\ job[r].at = from
  /\ \/ /\ u.file # None \/ job[r].act = "refresh"
        /\ unit' = [unit EXCEPT ![e][n] = Acted(u, job[r].act)]
        /\ Done(job[r].failed) /\ Well
     \/ /\ u.file = None /\ job[r].act # "refresh"
        /\ Done(TRUE) /\ Well /\ UNCHANGED unit
     \/ /\ \/ UNCHANGED unit
           \/ u.file # None /\ unit' = [unit EXCEPT ![e][n] = Acted(u, job[r].act)]
        /\ Done(TRUE) /\ Fault({})
  /\ UNCHANGED <<rows, nat, wg, excuses, used, begun>>

ActAtSource(r) == ActAt(r, "src", "actSrc", "actDst")
ActAtDestination(r) == ActAt(r, "dst", "actDst", "setStatus")

(* Slip: the word systemctl has for it.                                     *)
StatusOfUnit(act, failed) ==
  IF failed THEN "failed" ELSE IF act = "stop" THEN "inactive" ELSE "active"

StatusAfter(act, failed) ==
  IF failed THEN "degraded" ELSE IF act = "stop" THEN "stopped" ELSE "online"

SetStatus(r) ==
  LET t == job[r].t IN
  /\ job[r].at = "setStatus"
  /\ \/ /\ tunnels' = IF tunnels[t] = None THEN tunnels
                      ELSE [tunnels EXCEPT ![t].status = StatusAfter(job[r].act, job[r].failed)]
        /\ Well
     \/ UNCHANGED tunnels /\ Fault({t})
  /\ Return(r)
  /\ UNCHANGED <<forwards, users, peers, nodes, excuses, used, begun>>

deleteTunnel(r, t) ==
  /\ tunnels[t] # None
  /\ Begin(r, [at |-> "delSrc", touch |-> {t}, t |-> t, n |-> tunnels[t].name])
  /\ unsure' = unsure \cup Clashing({t})
  /\ UNCHANGED <<excuses, used>>

DeleteAtSource(r) == job[r].at = "delSrc" /\ DeleteEnd(r, "src", Goto(r, "delDst"))
DeleteAtDestination(r) == job[r].at = "delDst" /\ DeleteEnd(r, "dst", Goto(r, "dropTunnel"))

DropTunnel(r) ==
  /\ job[r].at = "dropTunnel"
  /\ \/ tunnels' = [tunnels EXCEPT ![job[r].t] = None] /\ Well
     \/ UNCHANGED tunnels /\ Fault({job[r].t})
  /\ Return(r)
  /\ UNCHANGED <<forwards, users, peers, nodes, excuses, used, begun>>

-----------------------------------------------------------------------------
(* Port forwards *)

handleForwards(r, f, d) ==
  /\ New(f)
  /\ Begin(r, [at |-> "install", touch |-> {f}, f |-> f, d |-> d])
  /\ LET sharers == {g \in Forward : d \in {forwards[g], nat.file[g]}}
              \cup {job[q].f : q \in {s \in Request : job[s].at \in {"install", "addForward"}
                                                      /\ job[s].d = d}}
     IN unsure' = IF sharers = {} THEN unsure ELSE unsure \cup {f} \cup sharers
  /\ UNCHANGED excuses

(* installForward: the description, each rule unless iptables has it, then  *)
(* the script that brings them back after a restart.                        *)
InstallForward(r) ==
  LET f == job[r].f
      d == job[r].d
      file == [nat.file EXCEPT ![f] = d]
      installed == [rules |-> nat.rules \cup Rules(f, d), file |-> file,
                    script |-> nat.script \cup {f}]
  IN
  /\ job[r].at = "install"
  /\ \/ nat' = installed /\ Goto(r, "addForward") /\ Well
     \/ UNCHANGED nat /\ Return(r) /\ Fault({})
     \/ /\ \/ \E some \in SUBSET Rules(f, d) :
                nat' = [rules |-> nat.rules \cup some, file |-> file, script |-> nat.script]
           \/ nat' = installed
        /\ Return(r) /\ Fault({f})
  /\ UNCHANGED <<rows, unit, wg, excuses, used, begun>>

AddForward(r) ==
  /\ job[r].at = "addForward"
  /\ \/ forwards' = [forwards EXCEPT ![job[r].f] = job[r].d] /\ Well
     \/ UNCHANGED forwards /\ Fault({job[r].f})
  /\ Return(r)
  /\ UNCHANGED <<tunnels, users, peers, nodes, excuses, used, begun>>

handleForwardItem(r, f) ==
  /\ forwards[f] # None
  /\ Begin(r, [at |-> "uninstall", touch |-> {f}, f |-> f])
  /\ unsure' = unsure \cup Clashing({f})
  /\ UNCHANGED <<excuses, used>>

(* Slip: the script is left, and brings the rules back.                     *)
UninstalledButScript(f) ==
  IF nat.file[f] = None THEN nat
  ELSE [nat EXCEPT !.rules = @ \ Rules(f, nat.file[f]), !.file[f] = None]

(* deleteForward takes the rules from the description.                      *)
Uninstalled(f) ==
  [rules |-> IF nat.file[f] = None THEN nat.rules ELSE nat.rules \ Rules(f, nat.file[f]),
   file |-> [nat.file EXCEPT ![f] = None], script |-> nat.script \ {f}]

UninstallForward(r) ==
  LET f == job[r].f IN
  /\ job[r].at = "uninstall"
  /\ \/ nat' = Uninstalled(f) /\ Well
     \/ nat' \in {nat, Uninstalled(f)} /\ Fault({f})
  /\ Goto(r, "dropForward")
  /\ UNCHANGED <<rows, unit, wg, excuses, used, begun>>

DropForward(r) ==
  /\ job[r].at = "dropForward"
  /\ \/ forwards' = [forwards EXCEPT ![job[r].f] = None] /\ Well
     \/ UNCHANGED forwards /\ Fault({job[r].f})
  /\ Return(r)
  /\ UNCHANGED <<tunnels, users, peers, nodes, excuses, used, begun>>

-----------------------------------------------------------------------------
(* WireGuard peers *)

PeersOf(u) == {p \in Peer : peers[p] # None /\ peers[p].user = u}

(* Slip: the addresses of the user's own devices only.                      *)
AddressesOfUser(u) == {peers[p].address : p \in PeersOf(u)}

UsedAddresses(u) == {peers[p].address : p \in {q \in Peer : peers[q] # None}}

(* nextWGAddress takes the first address that is free; one that is asked    *)
(* for has to be.                                                           *)
createWGPeer(r, p, u, a) ==
  /\ New(p)
  /\ u \in users
  /\ Cardinality(PeersOf(u)) < DeviceLimit
  /\ a \notin UsedAddresses(u)
  /\ LET touch == {p, u, a, "addresses"} IN
     /\ Begin(r, [at |-> "addPeer", touch |-> touch, p |-> p, u |-> u, a |-> a])
     /\ unsure' = unsure \cup Clashing(touch)
  /\ UNCHANGED excuses

(* wg set: an address has one peer, the last it was given to.               *)
Installed(p, a, secret) ==
  [q \in Peer |->
     IF q = p THEN [address |-> a,
                    secret |-> secret \/ (kernel[p] # None /\ kernel[p].secret)]
     ELSE IF kernel[q] # None /\ kernel[q].address = a THEN [kernel[q] EXCEPT !.address = None]
     ELSE kernel[q]]

(* wg-quick save writes all the peers there are; its error is dropped.      *)
Saved == (conf' = kernel' /\ Well) \/ (UNCHANGED conf /\ Fault({}))

(* ensureWG, then addWGPeer with a preshared key made there; an error may   *)
(* come after the kernel has the peer.                                      *)
AddPeer(r) ==
  LET added == Installed(job[r].p, job[r].a, TRUE) IN
  /\ job[r].at = "addPeer"
  /\ \/ kernel' = added /\ Goto(r, "recordPeer") /\ Saved
     \/ UNCHANGED wg /\ Return(r) /\ Fault({})
     \/ kernel' = added /\ conf' \in {conf, added} /\ Return(r) /\ Fault({job[r].p})
  /\ UNCHANGED <<rows, unit, nat, excuses, used, begun>>

RecordPeer(r) ==
  /\ job[r].at = "recordPeer"
  /\ \/ /\ peers' = [peers EXCEPT ![job[r].p] =
                       [user |-> job[r].u, address |-> job[r].a, enabled |-> TRUE]]
        /\ Well
     \/ UNCHANGED peers /\ Fault({job[r].p})
  /\ Return(r)
  /\ UNCHANGED <<tunnels, forwards, users, nodes, excuses, used, begun>>

(* enforceUserPolicies for one device, as the user's status changes         *)
(* (Accounting has the reasons): its Update,                                *)
enforceUserPolicies(r, p) ==
  /\ peers[p] # None /\ peers[p].user \in users
  /\ job[r] = Idle /\ begun < MaxRequests
  /\ begun' = begun + 1
  /\ LET on == ~peers[p].enabled
         a == peers[p].address
         touch == {p, a}
     IN
     /\ peers' = [peers EXCEPT ![p].enabled = on]
     /\ job' = [job EXCEPT ![r] = [at |-> "setPeer", touch |-> touch, p |-> p, a |-> a, on |-> on]]
     /\ unsure' = unsure \cup Clashing(touch)
  /\ UNCHANGED <<tunnels, forwards, users, nodes, excuses, used, faults>>

(* ... handleWGPeerState of the agent, which sets no preshared key,         *)
SetState(p, a, on) ==
  IF on THEN Installed(p, a, FALSE) ELSE [kernel EXCEPT ![p] = None]

setRemotePeerEnabled(r) ==
  LET p == job[r].p
      set == SetState(p, job[r].a, job[r].on)
  IN
  /\ job[r].at = "setPeer"
  /\ \/ kernel' = set /\ Return(r) /\ Saved
     \/ UNCHANGED wg /\ Goto(r, "revertPeer") /\ Fault({})
     \/ kernel' = set /\ conf' \in {conf, set} /\ Goto(r, "revertPeer") /\ Fault({p})
  /\ UNCHANGED <<rows, unit, nat, excuses, used, begun>>

(* Slip: the row keeps what was wanted.                                     *)
KeepPeer(r) ==
  /\ job[r].at = "revertPeer"
  /\ Return(r)
  /\ Well \/ Fault({job[r].p})
  /\ UNCHANGED <<rows, nodes, excuses, used, begun>>

(* ... and the row is put back if that failed.                              *)
RevertPeer(r) ==
  LET p == job[r].p IN
  /\ job[r].at = "revertPeer"
  /\ \/ /\ peers' = IF peers[p] = None THEN peers
                    ELSE [peers EXCEPT ![p].enabled = ~job[r].on]
        /\ Well
     \/ UNCHANGED peers /\ Fault({p})
  /\ Return(r)
  /\ UNCHANGED <<tunnels, forwards, users, nodes, excuses, used, begun>>

(* DELETE on a user: the devices he has now are removed from the node one   *)
(* by one, then he and the devices he has then from the state.              *)
deleteUser(r, u) ==
  /\ u \in users
  /\ LET touch == {u} \cup PeersOf(u) IN
     /\ Begin(r, [at |-> "removePeers", touch |-> touch, u |-> u, todo |-> PeersOf(u)])
     /\ unsure' = unsure \cup Clashing(touch)
  /\ UNCHANGED <<excuses, used>>

deleteRemotePeer(r) ==
  /\ job[r].at = "removePeers"
  /\ \E p \in job[r].todo :
       /\ \/ kernel' = [kernel EXCEPT ![p] = None] /\ Saved
          \/ UNCHANGED wg /\ Fault({p})
          \/ kernel' = [kernel EXCEPT ![p] = None] /\ conf' \in {conf, kernel'} /\ Fault({p})
       /\ job' = [job EXCEPT ![r].todo = @ \ {p}]
  /\ UNCHANGED <<rows, unit, nat, excuses, used, begun>>

DropUser(r) ==
  /\ job[r].at = "removePeers" /\ job[r].todo = {}
  /\ \/ /\ job[r].u \in users
        /\ users' = users \ {job[r].u}
        /\ peers' = [p \in Peer |-> IF p \in PeersOf(job[r].u) THEN None ELSE peers[p]]
        /\ Well
     \/ job[r].u \notin users /\ UNCHANGED <<users, peers>> /\ Well
     \/ UNCHANGED <<users, peers>> /\ Fault(PeersOf(job[r].u))
  /\ Return(r)
  /\ UNCHANGED <<tunnels, forwards, nodes, excuses, used, begun>>

-----------------------------------------------------------------------------
(* A node restarts: what is enabled comes up, a tunnel that was stopped     *)
(* too, since stopping does not disable it; the scripts bring their rules   *)
(* back.  The interface saves its peers as it goes down (SaveConfig), if it *)
(* goes down in order.                                                      *)
NodeRestarts(e) ==
  LET stopped == {n \in Name : unit[e][n].running = None /\ unit[e][n].enabled /\ unit[e][n].file # None}
  IN
  /\ unit' = [unit EXCEPT ![e] = [n \in Name |->
       [unit[e][n] EXCEPT !.running = IF unit[e][n].enabled THEN unit[e][n].file ELSE None]]]
  /\ nat' = IF e = "src" THEN nat
            ELSE [nat EXCEPT !.rules = UNION {Rules(f, nat.file[f]) : f \in nat.script}]
  /\ IF e = "src" THEN UNCHANGED wg ELSE kernel' \in {kernel, conf} /\ conf' = kernel'
  /\ restarted' = restarted \cup {<<unit[e][n].file, e>> : n \in stopped}
  /\ Fault({p \in Peer : kernel'[p] # kernel[p]})
  /\ UNCHANGED <<rows, job, refreshed, halfMade, used, begun>>

(* The panel stops: what its requests were about is left as it is.          *)
PanelStops ==
  /\ job' = [r \in Request |-> Idle]
  /\ Fault((UNION {job[r].touch : r \in {q \in Request : job[q] # Idle}}) \cap Resource)
  /\ UNCHANGED <<rows, nodes, excuses, used, begun>>

RequestStep(r) ==
  \/ CreateAtDestination(r) \/ CreateAtSource(r) \/ UndoDestination(r) \/ AddTunnel(r)
  \/ ActAtSource(r) \/ ActAtDestination(r) \/ SetStatus(r)
  \/ DeleteAtSource(r) \/ DeleteAtDestination(r) \/ DropTunnel(r)
  \/ InstallForward(r) \/ AddForward(r) \/ UninstallForward(r) \/ DropForward(r)
  \/ AddPeer(r) \/ RecordPeer(r) \/ setRemotePeerEnabled(r) \/ RevertPeer(r)
  \/ deleteRemotePeer(r) \/ DropUser(r)

NewRequest(r) ==
  \/ \E t \in Tunnel, n \in Name : createTunnel(r, t, n)
  \/ \E t \in Tunnel, act \in Action : tunnelAction(r, t, act)
  \/ \E t \in Tunnel : deleteTunnel(r, t)
  \/ \E f \in Forward, d \in Dest : handleForwards(r, f, d)
  \/ \E f \in Forward : handleForwardItem(r, f)
  \/ \E p \in Peer, u \in User, a \in Address : createWGPeer(r, p, u, a)
  \/ \E p \in Peer : enforceUserPolicies(r, p)
  \/ \E u \in User : deleteUser(r, u)

Next ==
  \/ \E r \in Request : NewRequest(r) \/ RequestStep(r)
  \/ \E e \in End : NodeRestarts(e)
  \/ PanelStops

Spec == Init /\ [][Next]_vars

-----------------------------------------------------------------------------
(* The panel can know of a resource unless an answer about it was lost, an  *)
(* error dropped or an Update not saved, the panel stopped at work on it,   *)
(* its name, destination or address is shared, two requests were about it   *)
(* at once, the installation of a forward failed half way, or its node came *)
(* up with other peers than it had; and it is told when no request is at    *)
(* work on it.                                                              *)
AtRest(id) == \A r \in Request : job[r] # Idle => id \notin job[r].touch
Known(id) == id \notin unsure /\ AtRest(id)

(* What the panel says of a tunnel is so at both of its ends, through       *)
(* requests that fail at one end, creations that are undone and restarts of *)
(* the nodes, as long as it is Known: online, both run its key; stopped,    *)
(* neither runs; no row, nothing is left of it.  What the code does not     *)
(* give is excepted by name: a refresh shows a stopped tunnel as online     *)
(* (RefreshedRuns below), a node that restarts starts a tunnel that was     *)
(* stopped, and an end at which the creation failed half way keeps what it  *)
(* had by then.                                                             *)
TunnelAsTold ==
  \A t \in Tunnel : Known(t) =>
    IF tunnels[t] = None
    THEN \A e \in End, n \in Name : <<t, e>> \notin halfMade => t \notin {unit[e][n].file, unit[e][n].running}
    ELSE LET n == tunnels[t].name IN
         /\ tunnels[t].status = "online" /\ t \notin refreshed => \A e \in End : unit[e][n].running = t
         /\ tunnels[t].status = "stopped" =>
              \A e \in End : <<t, e>> \notin restarted => unit[e][n].running = None

(* A forward that is Known and has a row is in force, across restarts of    *)
(* its node; one without leaves no rule.  An installation that fails half   *)
(* way leaves rules without a row, and is excepted.                         *)
ForwardAsTold ==
  \A f \in Forward : Known(f) =>
    IF forwards[f] = None THEN <<"dnat", f>> \notin nat.rules /\ f \notin nat.script
    ELSE Rules(f, forwards[f]) \subseteq nat.rules

Serves(p) == kernel[p] # None /\ kernel[p].address = peers[p].address

(* A device that is Known is served at its own address exactly when its row *)
(* is enabled, and not at all without a row: no other device takes its      *)
(* address, and a change that failed is taken back in the row.  Excepted is *)
(* a device that a restart of its node changed, because wg-quick save had   *)
(* failed unheard, and two requests about one user, device or address that  *)
(* overlapped.                                                              *)
PeerAsTold ==
  \A p \in Peer : Known(p) =>
    IF peers[p] = None \/ ~peers[p].enabled THEN kernel[p] = None ELSE Serves(p)

(* Devices of one interface have addresses of their own and a user has no   *)
(* more of them than he may: what a creation finds at its beginning is so   *)
(* when it records its device, unless another one overlapped with it.       *)
AllocationHolds ==
  /\ \A p, q \in Peer \ unsure :
       p # q /\ peers[p] # None /\ peers[q] # None => peers[p].address # peers[q].address
  /\ \A u \in User : Cardinality(PeersOf(u) \ unsure) <= DeviceLimit

(* docs/PANEL_PHASE3_ROUTING_ACCOUNTING.md:107 "Xray clients/WireGuard      *)
(* peers are restored": a device that is enabled again can connect with the *)
(* configuration it was given, which has a preshared key.                   *)
RestoredPeersConnect ==
  \A p \in Peer : Known(p) /\ peers[p] # None /\ peers[p].enabled =>
    Serves(p) /\ kernel[p].secret

(* internal/panel/web/app.js:819 counts the tunnels that are shown as       *)
(* online as "Active": such a tunnel runs at both of its ends, after a      *)
(* refresh as well.                                                         *)
RefreshedRuns ==
  \A t \in Tunnel : Known(t) /\ tunnels[t] # None /\ tunnels[t].status = "online" =>
    \A e \in End : unit[e][tunnels[t].name].running = t

(* createWGPeer refuses one device too many with "device limit reached"     *)
(* (internal/panel/accounting.go:403) and an address in use with            *)
(* "client_address is already in use" (line 365): with nobody excepted, a   *)
(* user has no more devices than he may, on addresses of their own.  Two    *)
(* creations that overlap check the same rows.                              *)
NoDoubleAllocation ==
  /\ \A u \in User : Cardinality(PeersOf(u)) <= DeviceLimit
  /\ \A p, q \in Peer :
       p # q /\ peers[p] # None /\ peers[q] # None => peers[p].address # peers[q].address
=============================================================================
