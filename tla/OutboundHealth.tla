--------------------------- MODULE OutboundHealth ---------------------------
(***************************************************************************)
(* The health of the outbounds of one node (internal/panel                 *)
(* outbound_health.go, internal/agent xray_health.go).  Xray's             *)
(* configuration has a local SOCKS inbound for each outbound, and a probe  *)
(* has the agent fetch a page through it.  The ports of these inbounds are *)
(* stored nowhere: whoever builds a configuration or starts a probe        *)
(* computes them from the rows of that moment.                             *)
(*                                                                         *)
(* Rows change in transactions, one after the other here (ControlPlane and *)
(* Deployment have them side by side).  insync, settled and the field via  *)
(* of a probe are history: no guard reads them.                            *)
(***************************************************************************)
EXTENDS Naturals, FiniteSets

CONSTANTS Outbound,      \* identifiers, numbers because probes sort by them
          Port,          \* outboundHealthPortMin..outboundHealthPortMax
          InboundPort,   \* ports among them that inbounds may be given
          Request,       \* concurrent requests for a single probe
          Concurrency    \* probes of one batch under way at a time

ASSUME HealthAssumption ==
  /\ Outbound \subseteq Nat \ {0} /\ IsFiniteSet(Outbound)
  /\ Port \subseteq Nat /\ IsFiniteSet(Port) /\ InboundPort \subseteq Port
  /\ Request \cap Outbound = {}
  /\ Concurrency \in Nat \ {0}

VARIABLES
  outbounds,   \* State.Outbounds: a function on the outbounds that exist
  inbounds,    \* State.Inbounds: the ports in Port that enabled inbounds have
  usable,      \* the node is enabled and not in maintenance
  issued,      \* identifiers handed out so far
  runtime,     \* the outbound behind each health inbound that Xray runs, or 0
  works,       \* the outbound's other end answers, and so does the agent
  change,      \* the transaction or start-up deployment under way
  probe,       \* a goroutine per request, and per outbound of the batch
  batch,       \* outboundHealthBatchMu is held
  insync,      \* the last deployment has succeeded with the rows as they are
  settled      \* probes since whose Read the rows have not changed, in sync

stored == <<outbounds, inbounds, usable, issued>>
vars == <<stored, runtime, works, change, probe, batch, insync, settled>>

Slot == Request \cup Outbound

ManyFailures == 1      \* the failure count saturates: no code tells more apart

Row == [enabled : BOOLEAN, status : {"unknown", "healthy", "unhealthy"},
        failures : 0..ManyFailures]
(* Slip: an outbound is created without a status.                           *)
NewWithoutStatus == [enabled |-> TRUE, status |-> "", failures |-> 0]

New == [enabled |-> TRUE, status |-> "unknown", failures |-> 0]

Idle == [at |-> "idle"]
Queued == [at |-> "queued"]
None == [how |-> "none"]

Probing == [at : {"asking", "answered"}, o : Outbound, port : Port,
            healthy : BOOLEAN, via : Outbound \cup {0}]

Changing == [how : {"create", "update", "switch", "delete", "inbound", "boot", "recovery"},
             o : Outbound \cup {0}, before : Row, inbounds : SUBSET InboundPort]

TypeOK ==
  /\ outbounds \in UNION {[D -> Row] : D \in SUBSET issued}
  /\ inbounds \in SUBSET InboundPort
  /\ usable \in BOOLEAN /\ batch \in BOOLEAN /\ insync \in BOOLEAN
  /\ issued \in SUBSET Outbound
  /\ runtime \in [Port -> Outbound \cup {0}]
  /\ works \in [Outbound -> BOOLEAN]
  /\ change \in Changing \cup {None}
  /\ probe \in [Slot -> Probing \cup {Idle, Queued}]
  /\ settled \in SUBSET Slot

-----------------------------------------------------------------------------
(* buildOutboundHealthProbes: candidates in the order of their identifiers  *)
(* get the free ports in order.                                             *)
Candidates == {o \in DOMAIN outbounds : outbounds[o].enabled}
Free == Port \ inbounds
Rank(x, S) == Cardinality({y \in S : y < x})

EnoughPorts == Cardinality(Candidates) <= Cardinality(Free)

PortOf(o) == CHOOSE p \in Free : Rank(p, Free) = Rank(o, Candidates)

(* buildOutboundHealthXray: the health inbounds and the rules for them.     *)
HealthInbounds ==
  [p \in Port |-> IF \E o \in Candidates : PortOf(o) = p
                  THEN CHOOSE o \in Candidates : PortOf(o) = p ELSE 0]

Nothing == [p \in Port |-> 0]

Init ==
  /\ outbounds = [o \in {} |-> New] /\ inbounds = {} /\ usable = TRUE /\ issued = {}
  /\ runtime = Nothing
  /\ works \in [Outbound -> BOOLEAN]
  /\ change = None /\ insync = TRUE
  /\ probe = [s \in Slot |-> Idle] /\ batch = FALSE /\ settled = {}

-----------------------------------------------------------------------------
(* Transactions: write, deploy, and if that fails undo and deploy again.    *)

Begin(how, o, before) ==
  /\ change = None
  /\ change' = [how |-> how, o |-> o, before |-> before, inbounds |-> inbounds]
  /\ insync' = FALSE /\ settled' = {}
  /\ UNCHANGED <<usable, runtime, works, probe, batch>>

With(o, row) == [x \in DOMAIN outbounds \cup {o} |-> IF x = o THEN row ELSE outbounds[x]]
Without(o) == [x \in DOMAIN outbounds \ {o} |-> outbounds[x]]

CreateOutbound(o) ==
  /\ o \notin issued
  /\ issued' = issued \cup {o}
  /\ outbounds' = With(o, New)
  /\ Begin("create", o, New)
  /\ UNCHANGED inbounds

(* An update forgets what was measured of the old settings.                 *)
UpdateOutbound(o) ==
  /\ o \in DOMAIN outbounds
  /\ \E on \in BOOLEAN : outbounds' = With(o, [New EXCEPT !.enabled = on])
  /\ Begin("update", o, outbounds[o])
  /\ UNCHANGED <<inbounds, issued>>

SwitchOutbound(o) ==
  /\ o \in DOMAIN outbounds
  /\ outbounds' = [outbounds EXCEPT ![o].enabled = ~@]
  /\ Begin("switch", o, outbounds[o])
  /\ UNCHANGED <<inbounds, issued>>

DeleteOutbound(o) ==
  /\ o \in DOMAIN outbounds
  /\ outbounds' = Without(o)
  /\ Begin("delete", o, outbounds[o])
  /\ UNCHANGED <<inbounds, issued>>

(* An inbound takes or gives back one of the ports.                         *)
ChangeInbound(p) ==
  /\ inbounds' = IF p \in inbounds THEN inbounds \ {p} ELSE inbounds \cup {p}
  /\ Begin("inbound", 0, New)
  /\ UNCHANGED <<outbounds, issued>>

(* The configuration is built, sent and applied.                            *)
Applied ==
  /\ change # None /\ EnoughPorts
  /\ runtime' = HealthInbounds
  /\ change' = None /\ insync' = TRUE
  /\ UNCHANGED <<stored, works, probe, batch, settled>>

(* A failed deployment at start-up is blamed on the outbounds.              *)
Failed(row) == [row EXCEPT !.status = "unhealthy",
                           !.failures = IF @ < ManyFailures THEN @ + 1 ELSE @]

Undo ==
  LET o == change.o IN
  CASE change.how = "create" -> Without(o)
    [] change.how = "update" \/ change.how = "delete" -> With(o, change.before)
    [] change.how = "switch" -> With(o, [outbounds[o] EXCEPT !.enabled = change.before.enabled])
    [] change.how = "boot" -> [x \in DOMAIN outbounds |->
                                 IF outbounds[x].enabled THEN Failed(outbounds[x]) ELSE outbounds[x]]
    [] OTHER -> outbounds

(* No free port, a native outbound, or Xray refuses.                        *)
DeployFails ==
  /\ change # None
  /\ outbounds' = Undo
  /\ inbounds' = change.inbounds
  /\ change' = IF change.how \in {"boot", "recovery"} THEN None
               ELSE [change EXCEPT !.how = "recovery"]
  /\ settled' = {}
  /\ UNCHANGED <<usable, issued, runtime, works, probe, batch, insync>>

(* The administrator enables the node, disables it, or starts maintenance.  *)
SwitchNode ==
  /\ usable' = ~usable
  /\ UNCHANGED <<outbounds, inbounds, issued, runtime, works, change, probe, batch, insync, settled>>

(* The panel starts again; ensureOutboundHealthRuntime deploys the node.    *)
Restart ==
  /\ probe' = [s \in Slot |-> Idle] /\ batch' = FALSE /\ settled' = {}
  /\ change' = IF usable /\ Candidates # {}
               THEN [how |-> "boot", o |-> 0, before |-> New, inbounds |-> inbounds]
               ELSE None
  /\ insync' = (insync /\ ~(usable /\ Candidates # {}))
  /\ UNCHANGED <<stored, runtime, works>>

-----------------------------------------------------------------------------
(* probeOutboundHealth *)

CanProbe(o) == o \in Candidates /\ usable /\ EnoughPorts

(* Slip: the configuration skips the ports of inbounds, the probe does not. *)
ProbePortBlind(o) == CHOOSE p \in Port : Rank(p, Port) = Rank(o, Candidates)

outboundHealthProbeFor(o) == PortOf(o)

Asking(o) == [at |-> "asking", o |-> o, port |-> outboundHealthProbeFor(o),
              healthy |-> FALSE, via |-> 0]

(* Its Read: what cannot be probed ends here.                               *)
ReadRows(s, o) ==
  /\ IF CanProbe(o)
     THEN /\ probe' = [probe EXCEPT ![s] = Asking(o)]
          /\ settled' = IF insync THEN settled \cup {s} ELSE settled
     ELSE /\ probe' = [probe EXCEPT ![s] = Idle]
          /\ UNCHANGED settled
  /\ UNCHANGED <<stored, runtime, works, change, batch, insync>>

RequestProbe(s, o) == probe[s] = Idle /\ ReadRows(s, o)

(* The agent fetches a page through whatever is behind the port by now.     *)
Measure(s) ==
  LET via == runtime[probe[s].port] IN
  /\ probe[s].at = "asking"
  /\ probe' = [probe EXCEPT ![s].at = "answered", ![s].via = via,
                            ![s].healthy = (via # 0 /\ works[via])]
  /\ UNCHANGED <<stored, runtime, works, change, batch, insync, settled>>

(* Slip: a success does not forget the failures before it.                  *)
applyHealthResultOnly(row, healthy) ==
  IF healthy THEN [row EXCEPT !.status = "healthy"] ELSE Failed(row)

applyOutboundHealthResult(row, healthy) ==
  IF healthy THEN [row EXCEPT !.status = "healthy", !.failures = 0] ELSE Failed(row)

Finish(s) ==
  /\ probe' = [probe EXCEPT ![s] = Idle]
  /\ settled' = settled \ {s}

(* Slip: a failed probe leaves the row as it is.                            *)
StoreGoodNews(s) ==
  LET o == probe[s].o IN
  /\ probe[s].at = "answered"
  /\ outbounds' = IF o \in DOMAIN outbounds /\ probe[s].healthy
                  THEN With(o, applyOutboundHealthResult(outbounds[o], TRUE)) ELSE outbounds
  /\ Finish(s)
  /\ UNCHANGED <<inbounds, usable, issued, runtime, works, change, batch, insync>>

(* Its Update, on the row as it is by then.                                 *)
StoreResult(s) ==
  LET o == probe[s].o IN
  /\ probe[s].at = "answered"
  /\ outbounds' = IF o \in DOMAIN outbounds
                  THEN With(o, applyOutboundHealthResult(outbounds[o], probe[s].healthy))
                  ELSE outbounds
  /\ Finish(s)
  /\ UNCHANGED <<inbounds, usable, issued, runtime, works, change, batch, insync>>

(* The Update cannot be saved.                                              *)
ResultNotSaved(s) ==
  /\ probe[s].at = "answered"
  /\ Finish(s)
  /\ UNCHANGED <<stored, runtime, works, change, batch, insync>>

-----------------------------------------------------------------------------
(* probeAllOutboundHealth, at start-up and every sixty seconds.             *)

(* TryLock, the Read, and a goroutine for each outbound.                    *)
StartBatch ==
  /\ ~batch
  /\ batch' = TRUE
  /\ probe' = [s \in Slot |->
       IF usable /\ s \in Candidates
       THEN Queued ELSE probe[s]]
  /\ UNCHANGED <<stored, runtime, works, change, insync, settled>>

BatchProbe(o) ==
  /\ probe[o].at = "queued"
  /\ Cardinality({x \in Outbound : probe[x].at \notin {"idle", "queued"}}) < Concurrency
  /\ ReadRows(o, o)

(* Slip: the lock is not given back.                                        *)
EndBatchLocked ==
  /\ batch /\ \A o \in Outbound : probe[o] = Idle
  /\ UNCHANGED vars

(* Every goroutine has ended: wg.Wait returns, the lock is given back.      *)
EndBatch ==
  /\ batch /\ \A o \in Outbound : probe[o] = Idle
  /\ batch' = FALSE
  /\ UNCHANGED <<stored, runtime, works, change, probe, insync, settled>>

-----------------------------------------------------------------------------
(* An outbound's other end goes away or comes back.                         *)
WorldChanges(o) ==
  /\ works' = [works EXCEPT ![o] = ~@]
  /\ UNCHANGED <<stored, runtime, change, probe, batch, insync, settled>>

AdminRequest ==
  \/ \E o \in Outbound : CreateOutbound(o) \/ UpdateOutbound(o) \/ SwitchOutbound(o)
                           \/ DeleteOutbound(o)
  \/ \E p \in InboundPort : ChangeInbound(p)
  \/ SwitchNode

Next ==
  \/ AdminRequest
  \/ Applied \/ DeployFails
  \/ \E s \in Request, o \in Outbound : RequestProbe(s, o)
  \/ \E s \in Slot : Measure(s) \/ StoreResult(s) \/ ResultNotSaved(s)
  \/ StartBatch \/ EndBatch
  \/ \E o \in Outbound : BatchProbe(o) \/ WorldChanges(o)
  \/ Restart

(* The ticker goes on, and a goroutine of the batch gets its turn and has   *)
(* an answer in time.  Strongly: not every save fails, and neither changes  *)
(* nor restarts meet every single batch.                                    *)
Fairness ==
  /\ SF_vars(StartBatch) /\ WF_vars(EndBatch)
  /\ \A o \in Outbound :
       SF_vars(BatchProbe(o)) /\ SF_vars(Measure(o)) /\ SF_vars(StoreResult(o))

Spec == Init /\ [][Next]_vars /\ Fairness

-----------------------------------------------------------------------------
(* Whatever results come late, from the batch, from requests or from a      *)
(* failed start-up, and whatever is rolled back: an outbound shown as       *)
(* healthy has no failure counted, one shown as unhealthy has.              *)
StatusFitsFailures ==
  \A o \in DOMAIN outbounds :
    LET row == outbounds[o] IN row.failures > 0 <=> row.status = "unhealthy"

(* A probe that has read the rows Xray runs, and during which no row has    *)
(* changed, measures the outbound it is recorded for: probe and             *)
(* configuration number the ports alike.                                    *)
MeasuredAsConfigured ==
  \A s \in settled : probe[s].at = "answered" => probe[s].via = probe[s].o

(* "health rule points to wrong outbound" is an error in                    *)
(* TestBuildOutboundHealthXrayUsesLocalSocksAndDirectOutboundRule.  Between *)
(* a write and its deployment the port is another outbound's.               *)
MeasuresItself ==
  \A s \in Slot : probe[s].at = "answered" => probe[s].via \in {probe[s].o, 0}

Shows(o, status) == o \in DOMAIN outbounds /\ outbounds[o].status = status

InUse(o) == o \in Candidates /\ usable /\ EnoughPorts /\ insync

(* An outbound left alone in a deployed configuration ends up shown as      *)
(* healthy for good once it works for good, and as unhealthy once it does   *)
(* not: batches go on, late results die out.                                *)
HealthySettles ==
  \A o \in Outbound : <>[](InUse(o) /\ works[o]) => <>[]Shows(o, "healthy")

UnhealthySettles ==
  \A o \in Outbound : <>[](InUse(o) /\ ~works[o]) => <>[]Shows(o, "unhealthy")
=============================================================================
