----------------------------- MODULE Accounting -----------------------------
(***************************************************************************)
(* Traffic accounting and the life of a subscription (internal/panel):     *)
(* one user, his binding to an Xray inbound and his WireGuard peers.       *)
(*                                                                         *)
(* Two pieces of code decide a user's status, and neither knows of the     *)
(* other: syncWireGuard (counters, periodic reset, expiry and quota) and   *)
(* reconcileSubscriptions (periodic reset, status).  The panel's           *)
(* background loop runs both; POST /api/sync-traffic runs the first in a   *)
(* goroutine of its own, and administrators' requests change the user.     *)
(* Between their Updates all of them talk to agents with no lock held.     *)
(*                                                                         *)
(* A user's limit and reset interval are the effective ones (his own or    *)
(* his plan's).  Time and bytes are counted in small units.  Updates are   *)
(* always saved here; StateFile has the ones that are not.                 *)
(***************************************************************************)
EXTENDS Integers, FiniteSets

CONSTANTS Req,          \* slots for requests' goroutines
          Peer,         \* the user's WireGuard peers
          Limit,        \* data limits a user may be given; 0 is none
          Days,         \* reset intervals he may be given; 0 is none
          MaxTime, MaxBytes, MaxCrashes    \* bounds

ASSUME AccountingAssumption ==
  /\ IsFiniteSet(Req) /\ IsFiniteSet(Peer)
  /\ Limit \subseteq Nat /\ Days \subseteq Nat
  /\ {MaxTime, MaxBytes, MaxCrashes} \subseteq Nat

Loop == "loop"          \* the goroutine of background()
Worker == {Loop} \cup Req

VARIABLES
  now,
  user,      \* the row in State.Users
  client,    \* InboundClient.Enabled
  peers,     \* the rows in State.VPNPeers
  kernel,    \* the nodes' WireGuard peers: installed or not, byte counter
  xray,      \* the node's Xray: the user is served or not, byte counter
  job,       \* what each worker is at, with its local variables
  history    \* bytes carried, bytes forgiven by resets, panel restarts

panel == <<user, client, peers>>
nodes == <<kernel, xray>>
vars == <<now, panel, nodes, job, history>>

Never == 0              \* the zero time.Time

LifecycleStatus == {"active", "disabled", "expired", "quota_exceeded"}
Status == LifecycleStatus \cup {"quota-exceeded"}

Bytes == 0..MaxBytes
Expiry == 0..(2 * MaxTime)
ResetTime == UNION {0..(MaxTime + days) : days \in Days}

(* A status reason is written as the status it explains.                    *)
UserRow == [status : Status, reason : LifecycleStatus, xray : Bytes, wg : Bytes,
            used : 0..(2 * MaxBytes),
            limit : Limit, days : Days, expires : Expiry, nextReset : ResetTime]
PeerRow == [enabled : BOOLEAN, rx : Bytes, base : Bytes]

Todo == UNION {[S -> BOOLEAN] : S \in SUBSET Peer}

Job == [at : {"idle", "wgRead", "xrayRead", "resets", "enforce", "reconcile"}]
  \cup [at : {"wgWrite"}, seen : UNION {[S -> Bytes] : S \in SUBSET Peer}]
  \cup [at : {"xrayWrite"}, delta : Bytes]
  \cup [at : {"build"}, cycle : BOOLEAN, todo : Todo]
  \cup [at : {"apply"}, cycle : BOOLEAN, todo : Todo, serve : BOOLEAN]
  \cup [at : {"peers"}, todo : Todo]
  \cup [at : {"peerDone"}, todo : Todo, peer : Peer, ok : BOOLEAN]

TypeOK ==
  /\ now \in 0..MaxTime
  /\ user \in UserRow
  /\ client \in BOOLEAN
  /\ peers \in [Peer -> PeerRow]
  /\ kernel \in [Peer -> [installed : BOOLEAN, bytes : Bytes]]
  /\ xray \in [serving : BOOLEAN, bytes : Bytes]
  /\ job \in [Worker -> Job]
  /\ history \in [xray : Bytes, wg : Bytes, xrayForgiven : Bytes,
                  wgForgiven : 0..MaxBytes + 1, crashes : 0..MaxCrashes]

At(phase) == [at |-> phase]
Nobody == [p \in {} |-> TRUE]

(* An active user with his peers and his binding, all in place.             *)
Init ==
  /\ now = 0
  /\ \E limit \in Limit, days \in Days :
       user = [status |-> "active", reason |-> "active", xray |-> 0, wg |-> 0, used |-> 0,
               limit |-> limit, days |-> days, expires |-> Never, nextReset |-> days]
  /\ client = TRUE
  /\ peers = [p \in Peer |-> [enabled |-> TRUE, rx |-> 0, base |-> 0]]
  /\ kernel = [p \in Peer |-> [installed |-> TRUE, bytes |-> 0]]
  /\ xray = [serving |-> TRUE, bytes |-> 0]
  /\ job = [w \in Worker |-> At(IF w = Loop THEN "reconcile" ELSE "idle")]
  /\ history = [xray |-> 0, wg |-> 0, xrayForgiven |-> 0, wgForgiven |-> 0, crashes |-> 0]

-----------------------------------------------------------------------------
(* Shared by both deciders. *)

(* The sum of the values of a function with a finite domain.                *)
Total(f) ==
  LET sum[S \in SUBSET DOMAIN f] ==
        IF S = {} THEN 0
        ELSE LET x == CHOOSE x \in S : TRUE IN f[x] + sum[S \ {x}]
  IN sum[DOMAIN f]

nonNegative(v) == IF v < 0 THEN 0 ELSE v

OverLimit(u) == u.limit > 0 /\ u.used >= u.limit

(* Slip: a manual disable does not come first.                              *)
userLifecycleStatusByClock(u) ==
  IF u.expires # Never /\ now >= u.expires THEN "expired"
  ELSE IF OverLimit(u) THEN "quota_exceeded"
  ELSE "active"

userLifecycleStatus(u) ==
  IF u.status = "disabled" THEN "disabled"
  ELSE IF u.expires # Never /\ now >= u.expires THEN "expired"
  ELSE IF OverLimit(u) THEN "quota_exceeded"
  ELSE "active"

Reconciled(u) ==
  LET status == userLifecycleStatus(u) IN [u EXCEPT !.status = status, !.reason = status]

(* The reset after t that is the first one ahead of now.                    *)
advanceResetAt(t, days) == IF t > now THEN t ELSE t + ((now - t) \div days + 1) * days

Forgiven(u) == [u EXCEPT !.xray = 0, !.wg = 0, !.used = 0]

(* History: what a reset that turns u into its forgiven self lets go.       *)
Forgive(u, reset) ==
  IF reset THEN [history EXCEPT !.xrayForgiven = @ + u.xray,
                                !.wgForgiven = IF @ + u.wg > MaxBytes THEN MaxBytes + 1 ELSE @ + u.wg]
           ELSE history

Goto(w, next) == job' = [job EXCEPT ![w] = next]

-----------------------------------------------------------------------------
(* syncWireGuard *)

StartSync(w) ==
  /\ job[w].at = "idle"
  /\ Goto(w, At("wgRead"))
  /\ UNCHANGED <<now, panel, nodes, history>>

(* GET /v1/wireguard/runtime of every node: those that answer tell the      *)
(* counters of the peers they have.                                         *)
WGRead(w) ==
  /\ job[w].at = "wgRead"
  /\ \E heard \in SUBSET Peer :
       Goto(w, [at |-> "wgWrite",
                seen |-> [p \in {q \in heard : kernel[q].installed} |-> kernel[p].bytes]])
  /\ UNCHANGED <<now, panel, nodes, history>>

(* Slip: a counter that has gone back counts as negative.                   *)
WGTotalSigned(rows) == Total([p \in Peer |-> rows[p].rx - rows[p].base])

WGTotal(rows) == Total([p \in Peer |-> nonNegative(rows[p].rx - rows[p].base)])

(* Slip: the total is added, as it is for Xray.                             *)
WGWriteAdds(w) ==
  /\ job[w].at = "wgWrite"
  /\ LET seen == job[w].seen IN
     peers' = [p \in Peer |-> IF p \in DOMAIN seen THEN [peers[p] EXCEPT !.rx = seen[p]]
                                                   ELSE peers[p]]
  /\ LET total == user.wg + WGTotal(peers') IN
     user' = [user EXCEPT !.wg = total, !.used = total + user.xray]
  /\ Goto(w, At("xrayRead"))
  /\ UNCHANGED <<now, client, nodes, history>>

WGWrite(w) ==
  /\ job[w].at = "wgWrite"
  /\ LET seen == job[w].seen IN
     peers' = [p \in Peer |-> IF p \in DOMAIN seen THEN [peers[p] EXCEPT !.rx = seen[p]]
                                                   ELSE peers[p]]
  /\ LET total == WGTotal(peers') IN
     user' = [user EXCEPT !.wg = total, !.used = total + user.xray]
  /\ Goto(w, At("xrayRead"))
  /\ UNCHANGED <<now, client, nodes, history>>

(* Slip: the counters are read without being reset.                         *)
XrayReadOnly(w) ==
  /\ job[w].at = "xrayRead"
  /\ \E delta \in {0, xray.bytes} : Goto(w, [at |-> "xrayWrite", delta |-> delta])
  /\ UNCHANGED <<now, panel, nodes, history>>

(* GET /v1/xray/stats?reset=1: answered, failed, or answered too late.      *)
XrayRead(w) ==
  /\ job[w].at = "xrayRead"
  /\ \/ Goto(w, [at |-> "xrayWrite", delta |-> xray.bytes]) /\ xray' = [xray EXCEPT !.bytes = 0]
     \/ Goto(w, [at |-> "xrayWrite", delta |-> 0]) /\ UNCHANGED xray
     \/ Goto(w, [at |-> "xrayWrite", delta |-> 0]) /\ xray' = [xray EXCEPT !.bytes = 0]
  /\ UNCHANGED <<now, panel, kernel, history>>

(* Slip: the total is what was read, as it is for WireGuard.                *)
XrayWriteSets(w) ==
  /\ job[w].at = "xrayWrite"
  /\ LET total == job[w].delta IN
     user' = [user EXCEPT !.xray = total, !.used = user.wg + total]
  /\ Goto(w, At("resets"))
  /\ UNCHANGED <<now, client, peers, nodes, history>>

XrayWrite(w) ==
  /\ job[w].at = "xrayWrite"
  /\ LET total == user.xray + job[w].delta IN
     user' = [user EXCEPT !.xray = total, !.used = user.wg + total]
  /\ Goto(w, At("resets"))
  /\ UNCHANGED <<now, client, peers, nodes, history>>

(* processTrafficResets: when a reset is due, the WireGuard counters get    *)
(* new baselines too.                                                       *)
Resets(w) ==
  LET due == user.days > 0 /\ user.nextReset # Never /\ now >= user.nextReset IN
  /\ job[w].at = "resets"
  /\ Goto(w, At("enforce"))
  /\ user' = IF due
             THEN [Forgiven(user) EXCEPT
                     !.status = IF @ = "quota-exceeded" THEN "active" ELSE @,
                     !.nextReset = advanceResetAt(@, user.days)]
             ELSE [user EXCEPT !.nextReset = IF user.days = 0 THEN Never
                                             ELSE IF @ = Never THEN now + user.days ELSE @]
  /\ peers' = IF due THEN [p \in Peer |-> [peers[p] EXCEPT !.base = peers[p].rx]] ELSE peers
  /\ history' = Forgive(user, due)
  /\ UNCHANGED <<now, client, nodes>>

(* Slip: the status is spelled as in subscriptions.go.                      *)
EnforcedStatusUnderscore(u) ==
  IF u.expires # Never /\ now > u.expires THEN "expired"
  ELSE IF OverLimit(u) THEN "quota_exceeded"
  ELSE IF u.status = "quota_exceeded" THEN "active"
  ELSE u.status

EnforcedStatus(u) ==
  IF u.expires # Never /\ now > u.expires THEN "expired"
  ELSE IF OverLimit(u) THEN "quota-exceeded"
  ELSE IF u.status = "quota-exceeded" THEN "active"
  ELSE u.status

(* enforceUserPolicies: its Update, and what it goes on to do.              *)
Enforce(w) ==
  LET summed == [user EXCEPT !.used = user.wg + user.xray]
      status == EnforcedStatus(summed)
      desired == status = "active"
      todo == [p \in {q \in Peer : peers[q].enabled # desired} |-> desired]
  IN
  /\ job[w].at = "enforce"
  /\ user' = [summed EXCEPT !.status = status]
  /\ client' = desired
  /\ peers' = [p \in Peer |-> [peers[p] EXCEPT !.enabled = desired]]
  /\ Goto(w, IF client # desired \/ user.status # status
             THEN [at |-> "build", cycle |-> TRUE, todo |-> todo]
             ELSE [at |-> "peers", todo |-> todo])
  /\ UNCHANGED <<now, nodes, history>>

(* setRemotePeerEnabled of one of the peers: done, failed, or done and not  *)
(* heard of.  wg keeps the counter of a peer it already has.                *)
PeerCall(w) ==
  /\ job[w].at = "peers"
  /\ \E p \in DOMAIN job[w].todo, done, ok \in BOOLEAN :
       LET todo == job[w].todo IN
       /\ ok => done
       /\ kernel' = IF ~done \/ kernel[p].installed = todo[p] THEN kernel
                    ELSE [kernel EXCEPT ![p] = [installed |-> todo[p], bytes |-> 0]]
       /\ Goto(w, [at |-> "peerDone", todo |-> todo, peer |-> p, ok |-> ok])
  /\ UNCHANGED <<now, panel, xray, history>>

(* The Update after the call: the row is switched back, or starts counting  *)
(* from zero like the kernel.                                               *)
PeerDone(w) ==
  /\ job[w].at = "peerDone"
  /\ LET p == job[w].peer
         todo == job[w].todo
     IN
     /\ peers' = IF ~job[w].ok THEN [peers EXCEPT ![p].enabled = ~todo[p]]
                 ELSE IF todo[p] THEN [peers EXCEPT ![p].rx = 0, ![p].base = 0]
                 ELSE peers
     /\ Goto(w, [at |-> "peers", todo |-> [q \in DOMAIN todo \ {p} |-> todo[q]]])
  /\ UNCHANGED <<now, user, client, nodes, history>>

(* The background loop goes on with reconcileSubscriptions.                 *)
EndSync(w) ==
  /\ job[w].at = "peers"
  /\ job[w].todo = Nobody
  /\ Goto(w, At(IF w = Loop THEN "reconcile" ELSE "idle"))
  /\ UNCHANGED <<now, panel, nodes, history>>

-----------------------------------------------------------------------------
(* reconcileSubscriptionsAndDeploy *)

StartReconcile ==
  /\ job[Loop].at = "idle"
  /\ Goto(Loop, At("reconcile"))
  /\ UNCHANGED <<now, panel, nodes, history>>

(* It resets the usage when a reset is due, not the peers' baselines.       *)
Reconcile ==
  LET due == user.days > 0 /\ user.nextReset # Never /\ now >= user.nextReset
      next == Reconciled(IF due THEN [Forgiven(user) EXCEPT !.nextReset = advanceResetAt(@, user.days)]
                                ELSE user)
  IN
  /\ job[Loop].at = "reconcile"
  /\ user' = next
  /\ history' = Forgive(user, due)
  /\ Goto(Loop, IF due \/ next # user THEN [at |-> "build", cycle |-> FALSE, todo |-> Nobody]
                                      ELSE At("idle"))
  /\ UNCHANGED <<now, client, peers, nodes>>

(* deployXrayNode: the configuration is built from one Read and applied     *)
(* later; applying it restarts Xray, and its counters with it.              *)
Build(w) ==
  /\ job[w].at = "build"
  /\ Goto(w, [at |-> "apply", cycle |-> job[w].cycle, todo |-> job[w].todo,
              serve |-> client /\ user.status = "active"])
  /\ UNCHANGED <<now, panel, nodes, history>>

AfterDeploy(w) ==
  Goto(w, IF job[w].cycle THEN [at |-> "peers", todo |-> job[w].todo] ELSE At("idle"))

ApplySucceeds(w) ==
  /\ job[w].at = "apply"
  /\ xray' = [serving |-> job[w].serve, bytes |-> 0]
  /\ AfterDeploy(w)
  /\ UNCHANGED <<now, panel, kernel, history>>

(* Nobody asks whether it worked.                                           *)
ApplyFails(w) ==
  /\ job[w].at = "apply"
  /\ AfterDeploy(w)
  /\ UNCHANGED <<now, panel, nodes, history>>

-----------------------------------------------------------------------------
(* Administrators: one Update, then the nodes of the user's inbounds are    *)
(* deployed.                                                                *)
Change(r, next) ==
  /\ job[r].at = "idle"
  /\ user' = next
  /\ Goto(r, [at |-> "build", cycle |-> FALSE, todo |-> Nobody])
  /\ UNCHANGED <<now, client, peers, nodes>>

WithStatus(u, status) == [u EXCEPT !.status = status, !.reason = status]
UnlessDisabled(u, next) == IF u.status = "disabled" THEN u ELSE next

Enable(r)  == Change(r, WithStatus(user, "active")) /\ UNCHANGED history
Disable(r) == Change(r, WithStatus(user, "disabled")) /\ UNCHANGED history

NextReset(days) == IF days > 0 THEN now + days ELSE Never

ResetTraffic(r) ==
  /\ Change(r, Reconciled([Forgiven(user) EXCEPT !.nextReset = NextReset(user.days)]))
  /\ history' = Forgive(user, TRUE)

(* For a number of days, from now or from the end of what there is.         *)
Renew(r) ==
  /\ \E days \in 1..MaxTime :
       LET renewed == [user EXCEPT !.expires = (IF @ > now THEN @ ELSE now) + days] IN
       /\ renewed.expires <= 2 * MaxTime
       /\ Change(r, UnlessDisabled(renewed, WithStatus(renewed, "active")))
  /\ UNCHANGED history

(* apply-plan; a plan without a duration leaves the expiry alone.           *)
ApplyPlan(r) ==
  \E limit \in Limit, days \in Days, duration \in 0..MaxTime, reset \in BOOLEAN :
    LET bare == IF reset THEN Forgiven(user) ELSE user
        planned == [bare EXCEPT !.limit = limit, !.days = days,
                                !.expires = IF duration > 0 THEN now + duration ELSE @,
                                !.nextReset = NextReset(days)]
    IN
    /\ Change(r, UnlessDisabled(planned, WithStatus(planned, "active")))
    /\ history' = Forgive(user, reset)

(* PUT on the user.                                                         *)
Edit(r) ==
  /\ \E limit \in Limit, days \in Days, expires \in 0..MaxTime :
       LET edited == [user EXCEPT !.limit = limit, !.days = days, !.expires = expires,
                                  !.nextReset = IF @ = Never THEN NextReset(days) ELSE @]
       IN Change(r, UnlessDisabled(edited, Reconciled(edited)))
  /\ UNCHANGED history

(* PUT on his plan: nothing else is written and nothing is deployed.        *)
EditPlan ==
  /\ \E limit \in Limit, days \in Days : user' = [user EXCEPT !.limit = limit, !.days = days]
  /\ UNCHANGED <<now, client, peers, nodes, job, history>>

-----------------------------------------------------------------------------
(* The world around the panel. *)

Tick ==
  /\ now < MaxTime
  /\ now' = now + 1
  /\ UNCHANGED <<panel, nodes, job, history>>

CarryXray ==
  /\ xray.serving
  /\ history.xray < MaxBytes
  /\ xray' = [xray EXCEPT !.bytes = @ + 1]
  /\ history' = [history EXCEPT !.xray = @ + 1]
  /\ UNCHANGED <<now, panel, kernel, job>>

CarryWG(p) ==
  /\ kernel[p].installed
  /\ history.wg < MaxBytes
  /\ kernel' = [kernel EXCEPT ![p].bytes = @ + 1]
  /\ history' = [history EXCEPT !.wg = @ + 1]
  /\ UNCHANGED <<now, panel, xray, job>>

(* A node is rebooted: what it serves is on its disk, its counters are not. *)
RebootNode ==
  /\ kernel' = [p \in Peer |-> [kernel[p] EXCEPT !.bytes = 0]]
  /\ xray' = [xray EXCEPT !.bytes = 0]
  /\ UNCHANGED <<now, panel, job, history>>

(* The panel restarts; background() begins with reconcileSubscriptions.     *)
Restart ==
  /\ history.crashes < MaxCrashes
  /\ history' = [history EXCEPT !.crashes = @ + 1]
  /\ job' = [w \in Worker |-> At(IF w = Loop THEN "reconcile" ELSE "idle")]
  /\ UNCHANGED <<now, panel, nodes>>

-----------------------------------------------------------------------------
Sync(w) ==
  \/ WGRead(w) \/ WGWrite(w) \/ XrayRead(w) \/ XrayWrite(w) \/ Resets(w) \/ Enforce(w)
  \/ PeerCall(w) \/ PeerDone(w) \/ EndSync(w)

Deploy(w) == Build(w) \/ ApplySucceeds(w) \/ ApplyFails(w)

LoopStep == StartSync(Loop) \/ StartReconcile \/ Reconcile \/ Sync(Loop) \/ Deploy(Loop)

AdminRequest(r) ==
  \/ Enable(r) \/ Disable(r) \/ ResetTraffic(r) \/ Renew(r) \/ ApplyPlan(r) \/ Edit(r)

Next ==
  \/ LoopStep
  \/ \E r \in Req : StartSync(r) \/ Sync(r) \/ Deploy(r) \/ AdminRequest(r)
  \/ EditPlan
  \/ Tick \/ CarryXray \/ RebootNode \/ Restart
  \/ \E p \in Peer : CarryWG(p)

(* Every call to an agent ends by its timeout, so the loop and each request *)
(* go on; both tickers of the loop go on, and select starves neither.  A    *)
(* node that is deployed over and over is up for some of it.                *)
Fairness ==
  /\ WF_vars(LoopStep)
  /\ SF_vars(StartSync(Loop))
  /\ SF_vars(ApplySucceeds(Loop))
  /\ \A r \in Req : WF_vars(Sync(r) \/ Deploy(r))

Spec == Init /\ [][Next]_vars /\ Fairness

-----------------------------------------------------------------------------
InFlight(w) == IF job[w].at = "xrayWrite" THEN job[w].delta ELSE 0
Flight == [w \in Worker |-> InFlight(w)]
Pending == xray.bytes + Total(Flight)

(* No byte in Xray is billed twice, whoever syncs, whatever gets lost and   *)
(* whoever resets: what the user is charged, with all that was forgiven and *)
(* all that is still on its way, has been carried.  His total is the sum of *)
(* both counts.                                                             *)
BilledOnce ==
  /\ user.xray + history.xrayForgiven + Pending <= history.xray
  /\ user.used = user.xray + user.wg

(* An upper bound only: one bill never has a WireGuard byte twice, though   *)
(* counters fall, peers are removed and added again and are read late.  A   *)
(* byte that was forgiven may be charged again: after a reset that leaves   *)
(* the baselines alone (ForgivenIsForgotten below), when an older reading   *)
(* is written after a newer baseline, and when a peer whose first enabling  *)
(* was not heard of is enabled again.                                       *)
WireGuardBounded == user.wg <= history.wg

Bill == INSTANCE Ledger WITH carried <- history.xray, pending <- Pending,
                             charged <- user.xray, forgiven <- history.xrayForgiven

(* The traffic in Xray is billed as a ledger is kept: whoever synchronises, *)
(* deploys, resets or stops in between, a step charges what waits to be     *)
(* charged, or forgives the bill as a whole, and takes nothing else off it. *)
IsLedger == Bill!Spec

(* A user who was disabled by hand comes back by hand, unless his           *)
(* subscription ends or his quota is used up while he is disabled.          *)
DisabledByHandStays ==
  [][user.status = "disabled" /\ user'.status # "disabled" =>
       \/ \E r \in Req : Enable(r)
       \/ user.expires # Never /\ now > user.expires
       \/ OverLimit(user)]_vars

LeftAlone == <>[][~EditPlan /\ \A r \in Req : ~AdminRequest(r)]_vars
NotExpired == user.expires = Never \/ now < user.expires

(* A user who stays over his limit ends up outside Xray for good, however   *)
(* many deployments fail and wherever the panel is restarted.               *)
QuotaStopsXray ==
  LeftAlone /\ <>[](OverLimit(user) /\ NotExpired) => <>[]~xray.serving

(* So does a user whose subscription has ended                              *)
(* (docs/PANEL_PHASE3_ROUTING_ACCOUNTING.md: the panel periodically         *)
(* enforces expiry and disables Xray users).  A deployment that fails is    *)
(* not tried again: the status does not change any more.                    *)
ExpiryStopsXray ==
  LeftAlone /\ <>[](user.expires # Never /\ now > user.expires) => <>[]~xray.serving

(* Bytes forgiven by a reset are not billed again ("WireGuard accounting    *)
(* baselines reset", same document); reconcileSubscriptions and the         *)
(* reset-traffic request leave the baselines alone.                         *)
ForgivenIsForgotten == user.wg + history.wgForgiven <= history.wg
=============================================================================
