# GameBridge: TLA+ models of the panel, its agents and a transport

GameBridge runs game tunnels and VPN access over a set of nodes. This directory
holds TLA+ models of the panel (`src/internal/panel`), of what the agent of a node
does for it (`src/internal/agent`) and of the multi-path transport PulseUDP
(`src/internal/transports/pulseudp`), the TLC runs that check them on small
instances, and proofs, checked by TLAPS, of the properties that matter most for
instances of every size.

Modules are translated from the Go code; each definition's place in the source is
in `PROJECT.json` ("map"). To run: `tlc -config <run>.cfg <Module>`, `tlapm <Module>`.

## 1. The system

```
 browser, CLI --HTTP--> panel ----HTTP, 10 s timeout----> agent (one per node)
                        Store + state.json                xray, wireguard, tor, openvpn,
                        handlers, background loop         systemd, tunnels, forwards
                                                          gamebridge-core: TUN <-> transports
```

| Component | State | Operations | What is hard | What makes it correct |
|---|---|---|---|---|
| **Store** (`store.go`) | `State` in memory, `state.json`, the temporary file | `OpenStore`, `Read`, `Update` (clone, callback, save, rename, install) | a failing callback or save, a crash at any point, copies that share nested slices | an Update happens in one step or not at all; memory is what a restart would find; a reader's copy is its own |
| **Control plane** (`inbound*.go`, `outbound_control.go`, `outbound_groups.go`, `routing*.go`, `reference_safety.go`) | the rows of inbounds, outbounds, groups, rules | create, update, enable, disable, delete: write, deploy to the nodes without a lock, undo by a second write if a deployment fails | other requests between the two writes; a rollback that validates nothing | references resolve, unique fields are unique, a rollback restores exactly |
| **Attachments** (`xray.go`) | clients: a user on an inbound | attach (check in one Read, append in a later Update), detach, deletion of users | the gap between check and append | a client has a user and an inbound; a user is attached once |
| **Nodes** (`server.go`, `operations.go`) | switches, status, failure count | create, enable, disable, maintenance, delete, probe | overlapping probes whose outcomes are late | the status fits the switches and the failures and settles |
| **Accounting** (`accounting.go`, `subscriptions.go`) | users' counters, status, resets; peers' counters and baselines | synchronisation, periodic reset, enforcement, reconciliation, administrators' requests | two deciders of a status; destructive reads; deployments that fail; counters that restart | no byte in Xray billed twice, no bill above what was carried; who is over his quota or expired ends up cut off; who was disabled by hand stays so |
| **WireGuard peers** (`createWGPeer`, agent `phase3.go`) | peers, addresses, the kernel's peers | create, switch with revert, delete with the user | check, agent call, write | device limit kept, addresses unique, a device is served as its row says |
| **Tunnels, forwards** (`operations.go`, agent `server.go`) | tunnels, forwards; units, rules and scripts of nodes | create on two nodes with compensation, four actions, delete | one node of two fails; nodes restart | a row says what its nodes have |
| **Outbound health** (`outbound_health.go`) | status and failures per outbound; ports that are computed, never stored | probes by request and by batch, start-up deployment | results out of order; rows newer than the configuration | a probe measures what it names; the status settles |
| **Native outbounds** (`outbound_native.go`, agent `*_outbound.go`) | files, markers and services of a node | synchronise WireGuard, Tor, OpenVPN in order, then Xray | one of them fails; a handler outlives its request; the agent stops half way | a reported success is real; nothing of GameBridge runs unmarked; the administrator's own is left alone |
| **Agent** (`internal/agent`) | files and services of a node | apply with backup, test, restart, restore | no lock; a crash while writing | the old configuration survives a bad one |
| **Transports** (`internal/transports`) | sequence numbers, received numbers, paths | send, receive, ping | restart of one end, late copies, broken paths | no packet twice; the paths used are those that work |
| **Core, authentication, settings, CLI, web** | configuration, sessions | | single steps | |

The parts interact in two ways: handlers and the background loop share the Store (`Read` and
`Update`, each atomic); the panel calls agents (`agentJSON`) outside the lock. Every request
has a goroutine of its own; the background loop is one goroutine with three tickers (probe 15
s, lifecycle 30 s, synchronisation 60 s), the last of which also starts a batch of outbound
probes in goroutines of its own. Nearly every hazard comes from the second kind of step
standing between two of the first. An agent has no lock either: two requests are served side by
side, and one the panel has given up goes on. The transports do not talk to the panel; each end
is a process that systemd keeps running. `PROJECT.json` lists the hazards line by line.

## 2. Modules and how they correspond to the code

**`AtomicStore`, `StateFile`.** `AtomicStore` is what handlers rely on: one
stored state, one proposal at a time that takes effect in one step or none, readers
with copies of their own. `StateFile` is `store.go` step by step. A state has a
plain field, a secret field (hidden from JSON, so carried by fields of its own in
`diskState`), and nested data in a heap cell, so that a shallow copy is a different
thing from a deep one. `pc` is the point `Update` has reached. The refinement
mapping takes the stored state from the file (`Saved`); the commit point is the
rename. The other modules treat `Update` as one step, which this refinement justifies.

**`PanelState`, `ControlPlane`, `MCControlPlane`.** `PanelState` has the tables and
one operator per validator, with the name of the Go function. `ControlPlane` has one
action per transaction: a first Update (`Begin`), then `DeploySucceeds`, `RollBack`
or `RollBackNotSaved`. `job[r]` is the goroutine's local variables; the variables
`fresh` (requests
since whose first step nothing else has written), `prev` and `stale` are history and no
guard reads them. `stale` is set by a rollback or an attachment that something has come
between: `IntegrityUnlessStale` says nothing after that, and `RollBackRestores` is about
`fresh` rollbacks only; only `RollBackIsLocal` speaks of every rollback. A deployment is its
outcome, which may always be failure; it fails for certain when a node is gone. A
panel that stops in the middle of a transaction leaves what `RollBackNotSaved` leaves. Abstracted:
protocol fields, secrets, positions in slices (a rollback's re-insertion index), and
the status texts and Reality keys that a deployment writes into inbounds. A
listen address with its port is one `Slot`; an outbound's tag and name are one
`Tag`. A created row is enabled, as the constructors make it.

**`NodeHealth`.** The switches, status and failure count of the nodes, and `probeNode`
cut where it gives up the lock: the Read, the agent's answer, the Update. The count
saturates at the threshold because nothing tells larger counts apart. A probe slot
is a goroutine; the ticker, the HTTP endpoints and the requests that start a probe
are all `StartProbe`, only the ticker's is fair.

**`Ledger`, `Accounting`.** `Ledger` is what a user may expect of his bill: a byte waits to be
charged, is charged at most once, and leaves the bill only when a reset forgives all of it.
`Accounting` has one user, his Xray binding, his WireGuard peers. Each worker (the
background loop, and requests) is at one point of `syncWireGuard` (read counters,
write, read Xray, write, resets, enforce, one call per peer), of
`reconcileSubscriptionsAndDeploy`, or of a deployment. Agents' calls are done and answered,
not done, or done with the answer lost. `kernel` and `xray` are the nodes, the
environment carries bytes and reboots nodes. `history` has the bytes really carried
and those forgiven. The two spellings `quota-exceeded` (`accounting.go`) and
`quota_exceeded` (`subscriptions.go`) are kept apart, as in the code: the status
alternates between them, and that is what makes a failed deployment be tried again.
One direction of a peer's traffic stands for both. A single user is enough because no
handler relates two users' counters. Of the two halves only that of Xray implements `Ledger`
(`IsLedger`; waiting is what its counter shows and what workers have read and not yet written):
WireGuard totals are recomputed from counters and baselines, and may charge forgiven bytes
again (`v_reset`), so that of them there is only an upper bound: `WireGuardBounded`, one bill is
never above all that was carried.

**`NodeServices`, `Deployment`, `MCDeployment`.** What `ControlPlane` takes as an
outcome, done. `NodeServices` is the agent of one node: per native outbound a unit (its
file, the marker that says GameBridge wrote it, whether it is enabled, what it runs),
Xray (file, backup, what it runs), and handlers, each at one point of a synchronisation
(`next`, `mark`, `enable`, `restart` for what is wanted; `sweep`, `unfile`, `unmark` for what is
not) or of an apply (`test`, `truncate`, `fill`, `start`, and `restore`, `refill`, `startold`
after a failed start: each write truncates the file first). `Deployment` EXTENDS it with the
panel's jobs: write a row, then for WireGuard, Tor, OpenVPN and Xray in turn read the rows
(`desiredOutbounds`, `buildXrayConfig`), send what was read, which may reach the agent
after something newer (`SyncNative`, `ApplyXray`), wait; with Xray generate a
missing REALITY key and Shadowsocks password; on failure write the old row back and
deploy again. Faults: a command fails, a request times out while its handler goes on, the
agent is killed, the node reboots. History: `lone` has the jobs beside which
nothing else has run; `blurred` says that two handlers have synchronised one kind at once
or that a removal failed unreported (the agent drops that error). `SuccessIsReal` is about
`lone` jobs on a node that is not `blurred`; deployments side by side are what
`v_rolled_back` and `v_overtaken` are about.

**`OutboundHealth`.** The rows, the configuration Xray runs (`runtime`: the outbound
behind each local port), the lock of the batch, and a goroutine per probe cut at its Read,
its answer and its Update. Probe and configuration compute a port with one operator
(`PortOf`), each on the rows of its own moment. Changes of rows are
transactions in sequence, with failing deployments and rollbacks. History: `insync` (the
last deployment succeeded with the rows as they are), `settled` (probes undisturbed since
their Read), and `via` of a probe (the outbound really asked).

**`Provisioning`, `MCProvisioning`.** Tunnels, forwards and WireGuard peers: a request is
a row of steps, an agent call or an Update each. An agent call takes effect whole, in part or
not at all, and its answer may be lost. `conf` has the peers in the interface's file: `wg-quick
save`, whose error the agent drops (`phase3.go:186`, `server.go:615`, `649`), brings it up to date,
and a node that restarts has either the peers it had or those. `unsure` is history: the resources
the panel has no reason to know about, because an answer was lost or an error dropped, an Update
was not saved, the panel stopped, the installation of a forward did a part, the node came up with
other peers, two requests about one resource, user or address overlapped, or a name or
destination is shared. A resource is `Known` when it is not `unsure` and no request is at work on
it. Where the code itself leaves a tunnel other than its row says, with nothing lost, the tunnel
stays `Known` and `TunnelAsTold` names the exception, with a variable of its own:

- `refreshed`: a refresh writes `online` without looking at the units (`operations.go:277-293`),
  until the next start, stop or restart. A finding: `v_refreshed`.
- `restarted`: a stopped tunnel's unit stays enabled (`systemctl stop`, agent `server.go:252`), and
  its node starts it when it restarts. No document says that it should stay stopped; `src/README.md`
  (1065-1080) tells "Stop" from "Enable boot".
- `halfMade`: a creation that fails at an end after the file was written (agent
  `server.go:267-271`, `306-311`) leaves the file there; only the other end is deleted
  (`operations.go:189-199`).

Two creations of devices that overlap are a finding (`v_limit`). `used` has the identifiers given
out. Key pairs are one flag of a kernel peer (`secret`: it has its preshared key).

**`PulseUDP`.** A client and a server. `path[e][p]` is the Go struct with whether the
goroutine reading it still runs (`reading`); `table[e]` is the `dedupe` map, with ages
reduced to older than fifteen seconds or not; `net` has the packets under way. A ping and its
pong are one step (`Keepalive`): both carry nothing that lasts but that the path was heard
of. `Refuse` is any other datagram at the server: its sender's address becomes `remote` before
`secure.Box` refuses it (`pulseudp.go:211-216`), and stays until the client's next ping. Round-trip
times are left out: any good path may be the best one. A packet without
copies under way may grow old at any time, so fifteen seconds is taken to be longer than
a packet lives in the network. `written` is history: how often a process has written a
packet to its TUN.

`*_proofs` hold theorems and lemmas. An operator whose comment begins with "Slip"
is a variant with a plausible mistake, used to show that a property would notice it;
no behaviour uses it.

## 3. Runs

| Run | Instance | Shows |
|---|---|---|
| `cp_inbound` | 2 requests, 1 node, 2 inbounds, 2 names, 2 ports, 1 user, 2 clients | `TypeOK`, `IntegrityUnlessStale`, `RollBackRestores`, `RollBackIsLocal` for inbounds and attachments |
| `cp_rules` | 2 nodes, 1 inbound, 1 rule, 1 user, 1 client | the inductive invariant `Inv`; rules against inbounds that move or go |
| `cp_groups` | 2 requests, 1 outbound, 2 tags, 1 group, 1 rule | members and fallbacks stay usable, a group that a rule needs stays, toggles are undone to the right value |
| `node_health` | 1 node, 3 probes | status against switches and failures; it settles |
| `state_file` | 2 values, 4 cells, 2 readers | `StateFile` implements `AtomicStore`; failures change nothing |
| `billing` | the loop and 1 request, 1 peer, 1 byte, 1 tick, no restart | `BilledOnce`: no byte in Xray billed twice; `WireGuardBounded`: no bill above what was carried |
| `quota` | the loop and 1 request, no peer, limit 1, 2 ticks, 1 restart | `QuotaStopsXray`, `DisabledByHandStays`; `Accounting` implements `Ledger` for Xray |
| `deployment` | 2 jobs, 1 handler, 1 WireGuard outbound and Xray, 2 keys, 2 faults, the last beside one job | `SuccessIsReal`, `RunningIsManaged`, `OwnUntouched`, `PasswordKept`, and the inductive invariant `Inv` |
| `outbound_health` | 1 outbound, 2 ports (one an inbound may take), 1 request, batches of 1 | `StatusFitsFailures`, `MeasuredAsConfigured`; the status settles both ways |
| `provisioning` | 2 tunnels, 2 names; or 2 forwards to 1 destination, 2 users, 2 devices, 2 addresses; 2 requests at once and 5 in all, 2 faults | `TunnelAsTold`, with the exceptions above, `ForwardAsTold`, `PeerAsTold`, `AllocationHolds` |
| `pulseudp` | 2 paths, 1 data packet per process, a table that is always full, 3 processes in all | `DeliveredOnce` across duplicates, paths and a restart of either end |
| `pulseudp_paths` | 1 path, 5 processes in all | `PathsFollow`: broken paths are left, working ones come back, through three restarts of the ends in any order |

The findings of `PROJECT.json`, each with the line it quotes, have a configuration too; TLC
reports the property it names, which the repository states and the code does not keep, as
violated:

| Configuration | Module | Violated | Because |
|---|---|---|---|
| `v_listen_port` | `MCControlPlane` | `ListenPortsDistinct` | a rollback puts an inbound back without validation |
| `v_disabled` | `NodeHealth` | `DisabledSettles` | a late probe shows a disabled node as online, for good |
| `v_expiry` | `Accounting` | `ExpiryStopsXray` | one failed deployment after an expiry is not tried again |
| `v_reset` | `Accounting` | `ForgivenIsForgotten` | forgiven WireGuard bytes are billed again |
| `v_health_port` | `OutboundHealth` | `MeasuresItself` | between a write and its deployment a probe asks another outbound |
| `v_unmanaged` | `Deployment` | `RefusedIsForeign` | an agent stopped between file and marker refuses its own interface |
| `v_rolled_back` | `Deployment` | `RolledBackIsReal` | a request the panel has given up undoes a recovery that is reported as done |
| `v_overtaken` | `Deployment` | `OnlineIsDeployed` | an older configuration reaches the agent after a newer one |
| `v_atomic` | `Deployment` | `ApplyIsAtomic` | an agent stopped while it writes the configuration leaves a broken file |
| `v_restored` | `Provisioning` | `RestoredPeersConnect` | an enabled peer lacks its preshared key |
| `v_refreshed` | `Provisioning` | `RefreshedRuns` | a refresh shows a stopped tunnel as online |
| `v_limit` | `Provisioning` | `NoDoubleAllocation` | two creations that overlap pass the same checks |
| `v_path` | `PulseUDP` | `WorkingPathIsGood` | the client's reader of a path ends for good with a read error |
| `v_removed` | `PulseUDP` | `RemovedIsDuplicate` | a restarted sender's numbers are taken for duplicates |

**Bounds.** Two requests are enough for what can go wrong between a write and its
rollback: the one that rolls back and the one that comes between (the proofs cover
any number). Identifiers are never reused, as with `randomHex(12)`, so
control-plane runs end when they are used up and do not check for deadlock; so do
`provisioning`, whose requests are counted, and the runs of `PulseUDP`, whose processes are. In the
runs that use symmetry requests, rows' identifiers, names, ports and tags are only
compared, so it is sound; they have no liveness property. The saved state that
control-plane runs start from has the nodes and users (`cp_inbound` starts from
nothing); everything else is created by requests. Three probes let two old outcomes
surround a new one. In `StateFile` four cells hold the state, a proposal and two readers'
copies. In `Accounting` time, bytes and restarts are bounded (`MaxTime`, `MaxBytes`,
`MaxCrashes`); one byte is enough to be billed twice, two ticks to pass an expiry or
an overdue reset.

`deployment` has the smallest instance in which a job follows another and both fail
(`MaxFaults` = 2: one failure to start a recovery, one in it), and in which two jobs' reads,
generations of keys and requests interleave. `OneAtLast` (in `MCDeployment`) keeps the last
fault to a job that runs by itself; without it, and with one job and two handlers, the run was made
once. One WireGuard outbound is enough for the order of steps at a unit, Xray for the order of
stages, two keys for two that differ. The proofs have any number of each. `OutboundHealth` was also run without requests on two outbounds with two and three
ports, where ports shift when an outbound goes. In `provisioning` five requests suffice for a
creation, a second one under its name or another, an action or switch on each and a deletion. Two
faults let an unsaved peer meet a restart of its node, or a compensation fail. Tunnels share
nothing with forwards and devices, so a behaviour has the ones or the others (`Separately`, in
`MCProvisioning`). In `pulseudp` a table with capacity 0 is pruned at every packet, the
hardest case for `DeliveredOnce`; one packet per process lets two processes use one number.
Three processes are one restart of one end; `pulseudp_paths` has five, three restarts, on one path,
since paths meet only in the choice of the best one. `Talker` = {client} because the ends differ only
in the direction of a packet; both talked, with two numbers and capacity 1 on one path, when
the proof's invariant was checked.

**Fairness.** `NodeHealth`: the ticker of a node, and the answering and recording of
its probes, under strong fairness. The ticker never stops and `agentJSON` has a
timeout; strong, because goroutines are not limited to the slots of the model, and
neither restarts nor failing saves meet every single probe. `Accounting`: weak
fairness of the loop's step and of each request's, because every agent call ends by
its timeout; strong fairness of the loop's synchronisation, because `select`
chooses among ready tickers at random; strong fairness of a successful
deployment, because a node that is tried again and again answers some time. The last one
is an assumption about nodes; `v_expiry` fails although it is assumed.
`OutboundHealth`: the end of a batch weakly; its start, and each of its goroutines' steps,
strongly, because a restart or a change of rows can get in between once, not in every batch, and
the slots of `Concurrency` are given to waiting goroutines. `PulseUDP`: weak fairness of the clock
(`Tick`), of both tickers (`Keepalive`, `PingUnanswered`) and of systemd starting an end again
(`Restart=always` in `systemd/gamebridge@.service`); none of the delivery of packets. The other
modules have safety properties only.

## 4. Proofs

Assumptions: the empty identifier is not an identifier, the built-in outbounds are
not outbounds, outbounds and groups have different identifiers (`IdAssumption`); a
state file satisfies `Integrity` (`SavedStatesAssumption`); the default value is a value
(`InitialAssumption`); the kinds of native outbounds are disjoint and `None`, `Own` and
`Broken` are no data (`NodeAssumption`, `DeploymentAssumption`); there are finitely many
outbounds and ports, and identifiers of probes are apart (`HealthAssumption`); bounds are
natural numbers (`TransportAssumption`); there are finitely many requests and peers, limits,
intervals and bounds are natural numbers (`AccountingAssumption`); there are finitely many devices, their limit and
the bounds are natural numbers, no device is a user, and `None` is no tunnel, destination, row or peer
(`ProvisioningAssumption`).

**Control plane** (`ControlPlane_proofs`). `TypeCorrect`; `InvCorrect`; from it
`IntegrityKept` (`[]IntegrityUnlessStale`) and `RollBackExact` (`RollBackRestores`);
from type correctness alone `RollBackLocal` (`RollBackIsLocal`): an undo names its row,
however stale it is (`OneRow`, `UndoLocal`).
`IntegrityUnlessStale` is not inductive: a rollback writes without
validating, so one has to know what it writes. `Inv` adds that identifiers in
the state or in a pending undo have been issued (so a new row never meets an old one),
that undoing the last, undisturbed Update gives back the state before it
(`UndoRestores`), and that this state had integrity and an undisturbed
attachment's check still holds (`ChecksHold`). One lemma per table says that a
validated write or delete keeps `Integrity`; one per kind of request that it
establishes `UndoRestores`.

**Nodes** (`NodeHealth_proofs`). `TypeCorrect`, `StatusCorrect` (`[]StatusFitsFlags`) and
`FailuresCorrect` (`[]StatusFitsFailures`). The invariant is about one row at a time, and
every action writes a row that satisfies it, whatever a probe remembers.

**Store** (`StateFile_proofs`). `InvCorrect`, `FailuresHarmless`, and `StoreIsAtomic`:
`Spec => IsAtomic`, step by step, from `Inv`, of which `NoSharing` and
`LiveIsSaved` are the parts that the refinement needs.

**Deployments** (`Deployment_proofs`). `TypeCorrect`, `InvCorrect`, `SuccessReal`,
`ManagedCorrect` (`[]RunningIsManaged`), `OwnSafe` and `PasswordSafe`. That a success is
real says nothing of the way to it, so `Inv` says at each point of a handler what it has
done of its list (`Progress`), of a lone job which kinds are behind it (`OnTheWay`), and
that a lone job has no handler beside it but the one it waits for and that the rows are still what
it read (`Called`, `Alone`). What is
enabled or running has a marker unless two handlers of a kind are at work: hence `Orderly`, and
`RunningIsManaged` only while not `blurred`. `OwnKept` carries `OwnUntouched`: a handler
touches no file without a marker that is not its own.

**Outbound health** (`OutboundHealth_proofs`). `InvCorrect`, `TypeCorrect`,
`StatusCorrect` (`[]StatusFitsFailures`) and `MeasuredCorrect`
(`[]MeasuredAsConfigured`). The heart is arithmetic: numbering candidates by rank is a
bijection onto an initial segment of the free ports (`RankOnto`, `Numbering`), so that probe and
configuration agree whenever they number the same rows (`Configuration`). `Inv` adds that a
pending rollback restores rows that fit (`Pending`) and that in sync Xray runs the
configuration of the rows (`InSync`).

**Accounting** (`Accounting_proofs`). `BilledCorrect` (`[]BilledOnce`, about Xray),
`WireGuardCorrect` (`[]WireGuardBounded`), `TypeCorrect`, `LedgerKept` (`Spec => IsLedger`),
`DisabledByHandKept` and `ResetIsNext`. `WireGuardBounded` bounds
the total of a user's WireGuard bytes, of which the step that writes it knows only the rows it
sums. So `Books` adds that some assignment of carried bytes to peers, adding up to no more than
what was carried, bounds each peer's counter in the kernel, the one in his row, his baseline, and
any counter a worker has read and not yet written (`Carried`); `CarryWG` adds one to its peer's
share, every other step keeps the shares. The types come last (`BooksType`): counters are natural numbers
in the invariant, and their bounds follow from what was carried. The same step lemmas show that what
leaves the waiting bytes of Xray is charged or lost (`Entry`), which is a step of `Ledger`.
The sums are one recursive function on the subsets of a finite set (`Total`); what they satisfy
(`SumStep`, `SumOut`, `SumMonotone`, `TotalUpdate`) needs no induction theorem: strict inclusion
of finite sets is well founded, so a set on which a sum goes wrong has a smallest subset on which it
does (`SubsetInduction`). `DisabledByHandKept`: no synchronisation, reset, renewal or plan enables a
user disabled by hand, who may only come back by `Enable` or by way of an expiry or a quota.
`ResetIsNext`: the closed form of `advanceResetAt` is where the loop of the code ends, the
first reset ahead of now.

**PulseUDP** (`PulseUDP_proofs`). `TypeCorrect` and `DeliveredCorrect`
(`[]DeliveredOnce`). A table may forget, and numbers repeat across processes, so one has to
know why neither writes a packet twice: what is under way or written has been numbered
by its sender (`NetSent`, `WrittenSent`), hence a new packet has not been written; and what
has been written and still has a copy under way is in the table and young (`Remembered`), hence
pruning keeps it.

**Provisioning** (`Provisioning_proofs`). `AllocationCorrect` (`[]AllocationHolds`): among the
devices that no overlap or lost Update has blurred, no address is given twice and no user has more
than the limit. A creation checks when it begins and records after a call to the node, so `Inv`
says that what it checked holds until then (`CheckHolds`): no other creation can be in between
unnoticed, as all of them choose an address (`ClashKnown`), and no other step adds a row
(`Quiet`, `RowsKept`). `ForwardCorrect` (`[]ForwardAsTold`): of a forward that is sure, at most
one request is under way (`Alone`), where that is says what it has done (`Where`), and no other
forward leads to its destination (`Apart`), so that an uninstall takes the rule of nobody.
`PeerCorrect` (`[]PeerAsTold`): likewise for devices (`Stands`, `HandledAlone`); no two claim one
address, so `wg set` takes it from nobody (`OwnAddress`), and the removal of a user knows all of
his devices until it drops them (`RemovalKnows`). `TunnelCorrect` (`[]TunnelAsTold`): a request
about a tunnel has done at each end what its place says (`Stage`), and whoever has a row, a
request, a file or a running unit under a name has it alone (`OwnName`), so that two tunnels
never meet at a unit but when `unsure` says so, and what a half-made end has is its own. `refreshed`,
`restarted` and `halfMade` are set by the steps that make the exceptions, and by no others. A step then disturbs no other tunnel
(`OwnPlace`). `TypeCorrect` follows: what a job has is in these invariants by its place (`Fields`).

Every invariant and action property of the runs is proved. Only model-checked: the liveness
properties (`OnlineSettles`, `OfflineSettles`, `QuotaStopsXray`, `HealthySettles`,
`UnhealthySettles`, `PathsFollow`), which TLAPS does not reach; and that the properties of the
`v_` configurations are violated.

## 5. Not modelled

- A power failure that loses an unflushed file; integrity after a stale rollback (the
  repository does not say what should happen; the hazards list the cases).
- The generated Xray configuration but for what deployments and health need of it, share links,
  subscription links, plans as rows.
- SwiftKCP and GameQUIC, each of which bridges a TUN device to one session of a library, and
  EchoGame, which polls over ICMP.
- The core (TUN device, cipher, counters, configuration), authentication, settings, the command
  line and the web interface: single steps, system calls or parsing.
- Installation of Xray, metrics, logs and error texts of the agent.

## 6. Plan

The order is by how much of the system's behaviour rests on a part.

1. Done: `PanelState` and `ControlPlane`, `AtomicStore` and `StateFile`,
   `NodeHealth`, `Ledger` and `Accounting`; `NodeServices` and `Deployment`, `OutboundHealth`,
   `Provisioning`, `PulseUDP`; proofs about all of them.
2. An at-most-once datagram service, implemented by `PulseUDP`.
3. `Deployment` as an implementation of `ControlPlane`'s transactions, for the outbounds of one node.
4. `EchoGame`: polling and the request that carries an answer.
5. SwiftKCP as a server that accepts one session in its life.

Runs are kept few; a finding that has been fixed gives up its configuration, and its
property joins a run.
