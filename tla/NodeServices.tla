---------------------------- MODULE NodeServices ----------------------------
(***************************************************************************)
(* What the agent of one node (internal/agent) runs for the panel's        *)
(* outbounds: a service for each WireGuard, Tor and OpenVPN outbound, and  *)
(* Xray.  A request of the panel brings the whole desired list of a kind,  *)
(* or Xray's whole configuration; its handler changes files and services   *)
(* one after the other, holds no lock, and goes on when the panel has      *)
(* stopped waiting for it.                                                 *)
(***************************************************************************)
EXTENDS Naturals

CONSTANTS WireGuard, Tor, OpenVPN,   \* native outbounds, by the name of their unit
          Version,                   \* what an outbound's row may say of its service
          Handler,                   \* requests served by the agent at one time
          Job,                       \* requests served by the panel at one time
          None,                      \* no file, no service, no caller
          Own,                       \* an interface the administrator has set up himself
          Broken                     \* a configuration file cut short

Outbound == WireGuard \cup Tor \cup OpenVPN

ASSUME NodeAssumption ==
  /\ WireGuard \cap Tor = {} /\ WireGuard \cap OpenVPN = {} /\ Tor \cap OpenVPN = {}
  /\ {None, Own} \cap (Version \cup Job \cup Outbound) = {}
  /\ None # Broken /\ None # Own

VARIABLES
  unit,      \* the files and the state of each native service
  xray,      \* the configuration file, its backup, what Xray runs
  handler    \* the request each slot is serving

Native == {"wireguard", "tor", "openvpn"}

OfKind(kind) == CASE kind = "wireguard" -> WireGuard
                  [] kind = "tor"       -> Tor
                  [] kind = "openvpn"   -> OpenVPN

Setting == Version \cup {None}
Rows == [Outbound -> Setting]

(* Xray's configuration, as far as the outbounds decide it.                 *)
Config == Rows

Unit == [file : Setting \cup {Own}, marker : BOOLEAN, enabled : BOOLEAN,
         running : Setting \cup {Own}]
Xray == [file : Config \cup {None, Broken}, backup : Config \cup {None, Broken},
         running : Config \cup {None}]

Idle == [at |-> "idle"]

Syncing ==
  [at : {"next", "mark", "enable", "restart", "sweep", "unfile", "unmark", "done", "failed"},
   kind : Native, want : Rows, todo : SUBSET Outbound, cur : Outbound \cup {None},
   caller : Job \cup {None}]
Applying ==
  [at : {"test", "truncate", "fill", "start", "restore", "refill", "startold", "done", "failed"},
   kind : {"xray"}, want : Config, old : Config \cup {None, Broken}, caller : Job \cup {None}]

NodeTypeOK ==
  /\ unit \in [Outbound -> Unit]
  /\ xray \in Xray
  /\ handler \in [Handler -> Syncing \cup Applying \cup {Idle}]

NoUnit == [file |-> None, marker |-> FALSE, enabled |-> FALSE, running |-> None]

OwnUnit == [file |-> Own, marker |-> FALSE, enabled |-> TRUE, running |-> Own]

(* A node the panel has not used yet.                                       *)
NodeInit ==
  /\ unit \in [Outbound -> {NoUnit, OwnUnit}]
  /\ \A o \in Outbound \ WireGuard : unit[o] = NoUnit
  /\ xray = [file |-> None, backup |-> None, running |-> None]
  /\ handler = [h \in Handler |-> Idle]

Go(h, at) == handler' = [handler EXCEPT ![h].at = at]

(* The request arrives.  A sync validates its list before it starts.        *)
Request(kind, want, caller) ==
  IF kind = "xray"
  THEN [at |-> "test", kind |-> kind, want |-> want, old |-> None, caller |-> caller]
  ELSE [at |-> "next", kind |-> kind, want |-> want, cur |-> None, caller |-> caller,
        todo |-> {o \in OfKind(kind) : want[o] # None}]

-----------------------------------------------------------------------------
(* Native services: apply each one wanted *)

(* Slip: the marker is not looked for.                                      *)
ForeignNever(o) == FALSE

(* A WireGuard configuration without a marker is not GameBridge's.          *)
Foreign(o) == o \in WireGuard /\ unit[o].file # None /\ ~unit[o].marker

WriteFiles(h) ==
  /\ handler[h].at = "next"
  /\ \E o \in handler[h].todo :
       IF Foreign(o) THEN Go(h, "failed") /\ UNCHANGED unit
       ELSE /\ unit' = [unit EXCEPT ![o].file = handler[h].want[o]]
            /\ handler' = [handler EXCEPT ![h].at = "mark", ![h].cur = o]
  /\ UNCHANGED xray

Mark(h) ==
  /\ handler[h].at = "mark"
  /\ unit' = [unit EXCEPT ![handler[h].cur].marker = TRUE]
  /\ Go(h, "enable")
  /\ UNCHANGED xray

(* Slip: restarted only, and the service is gone after a reboot.            *)
EnableNot(h) ==
  /\ handler[h].at = "enable"
  /\ Go(h, "restart")
  /\ UNCHANGED <<unit, xray>>

(* systemctl enable,                                                        *)
Enable(h) ==
  /\ handler[h].at = "enable"
  /\ unit' = [unit EXCEPT ![handler[h].cur].enabled = TRUE]
  /\ Go(h, "restart")
  /\ UNCHANGED xray

(* and restart: the service reads its files as they are.                    *)
Restart(h) ==
  LET o == handler[h].cur IN
  /\ handler[h].at = "restart"
  /\ unit[o].file # None
  /\ unit' = [unit EXCEPT ![o].running = unit[o].file]
  /\ handler' = [handler EXCEPT ![h].at = "next", ![h].cur = None, ![h].todo = @ \ {o}]
  /\ UNCHANGED xray

(* The service does not start, or is not ready in time.                     *)
RestartFails(h) ==
  /\ handler[h].at = "restart"
  /\ LET o == handler[h].cur IN
     \E r \in {None, unit[o].file} : unit' = [unit EXCEPT ![o].running = r]
  /\ Go(h, "failed")
  /\ UNCHANGED xray

(* A file cannot be written, or systemctl cannot be run.                    *)
StepFails(h) ==
  /\ \/ handler[h].at \in {"mark", "enable", "restart", "test", "truncate", "fill", "restore"}
     \/ handler[h].at = "next" /\ handler[h].todo # {}
  /\ Go(h, "failed")
  /\ UNCHANGED <<unit, xray>>

(* ... then remove what is marked as managed and not wanted any more.       *)
Stale(h) == {o \in OfKind(handler[h].kind) : unit[o].marker /\ handler[h].want[o] = None}

StartSweep(h) ==
  /\ handler[h].at = "next" /\ handler[h].todo = {}
  /\ handler' = [handler EXCEPT ![h].at = "sweep", ![h].todo = Stale(h)]
  /\ UNCHANGED <<unit, xray>>

(* Slip: systemctl disable without --now.                                   *)
DisableOnly(h) ==
  /\ handler[h].at = "sweep"
  /\ \E o \in handler[h].todo :
       /\ unit' = [unit EXCEPT ![o].enabled = FALSE]
       /\ handler' = [handler EXCEPT ![h].at = "unfile", ![h].cur = o, ![h].todo = @ \ {o}]
  /\ UNCHANGED xray

Stop(h) ==
  /\ handler[h].at = "sweep"
  /\ \E o \in handler[h].todo :
       /\ unit' = [unit EXCEPT ![o].enabled = FALSE, ![o].running = None]
       /\ handler' = [handler EXCEPT ![h].at = "unfile", ![h].cur = o, ![h].todo = @ \ {o}]
  /\ UNCHANGED xray

RemoveFiles(h) ==
  /\ handler[h].at = "unfile"
  /\ unit' = [unit EXCEPT ![handler[h].cur].file = None]
  /\ Go(h, "unmark")
  /\ UNCHANGED xray

RemoveMarker(h) ==
  /\ handler[h].at = "unmark"
  /\ unit' = [unit EXCEPT ![handler[h].cur].marker = FALSE]
  /\ handler' = [handler EXCEPT ![h].at = "sweep", ![h].cur = None]
  /\ UNCHANGED xray

(* An error on the way is dropped, and the removal goes on.                 *)
SweepFails(h) ==
  /\ \/ /\ handler[h].at = "sweep"
        /\ \E o \in handler[h].todo :
             handler' = [handler EXCEPT ![h].at = "unfile", ![h].cur = o, ![h].todo = @ \ {o}]
     \/ handler[h].at = "unfile" /\ Go(h, "unmark")
     \/ /\ handler[h].at = "unmark"
        /\ handler' = [handler EXCEPT ![h].at = "sweep", ![h].cur = None]
  /\ UNCHANGED <<unit, xray>>

EndSweep(h) ==
  /\ handler[h].at = "sweep" /\ handler[h].todo = {}
  /\ Go(h, "done")
  /\ UNCHANGED <<unit, xray>>

-----------------------------------------------------------------------------
(* Xray: handleXrayApply *)

(* The new configuration passes the test; the old one is backed up.         *)
Backup(h) ==
  /\ handler[h].at = "test"
  /\ handler' = [handler EXCEPT ![h].at = "truncate", ![h].old = xray.file]
  /\ xray' = [xray EXCEPT !.backup = IF xray.file # None THEN xray.file ELSE @]
  /\ UNCHANGED unit

(* os.WriteFile empties the file first.                                     *)
Truncate(h) ==
  /\ handler[h].at = "truncate"
  /\ xray' = [xray EXCEPT !.file = Broken]
  /\ Go(h, "fill")
  /\ UNCHANGED unit

Fill(h) ==
  /\ handler[h].at = "fill"
  /\ xray' = [xray EXCEPT !.file = handler[h].want]
  /\ Go(h, "start")
  /\ UNCHANGED unit

(* A restart works only with a whole file, and not always then.             *)
Start(h) ==
  /\ handler[h].at = "start"
  /\ xray.file \in Config
  /\ xray' = [xray EXCEPT !.running = xray.file]
  /\ Go(h, "done")
  /\ UNCHANGED unit

StartFails(h) ==
  /\ handler[h].at = "start"
  /\ xray' = [xray EXCEPT !.running = None]
  /\ Go(h, IF handler[h].old = None THEN "failed" ELSE "restore")
  /\ UNCHANGED unit

(* The backup is read, the file emptied                                     *)
Restore(h) ==
  /\ handler[h].at = "restore"
  /\ xray' = [xray EXCEPT !.file = Broken]
  /\ Go(h, "refill")
  /\ UNCHANGED unit

(* and written.                                                             *)
Refill(h) ==
  /\ handler[h].at = "refill"
  /\ xray' = [xray EXCEPT !.file = xray.backup]
  /\ Go(h, "startold")
  /\ UNCHANGED unit

(* An error of writing it is dropped, and Xray restarted all the same.      *)
RestoreFails(h) ==
  /\ handler[h].at \in {"restore", "refill"}
  /\ Go(h, "startold")
  /\ UNCHANGED <<unit, xray>>

(* Slip: the old configuration is trusted to start.                         *)
StartOldBlindly(h) ==
  /\ handler[h].at = "startold"
  /\ xray' = [xray EXCEPT !.running = xray.file]
  /\ Go(h, "failed")
  /\ UNCHANGED unit

StartOld(h) ==
  /\ handler[h].at = "startold"
  /\ \E c \in {xray.file, None} \ {Broken} : xray' = [xray EXCEPT !.running = c]
  /\ Go(h, "failed")
  /\ UNCHANGED unit

-----------------------------------------------------------------------------
(* Without a whole configuration nothing starts.                            *)
CannotStart(h) ==
  \/ RestartFails(h) /\ unit[handler[h].cur].file = None
  \/ StartFails(h) /\ xray.file \notin Config

HandlerStep(h) ==
  \/ WriteFiles(h) \/ Mark(h) \/ Enable(h) \/ Restart(h)
  \/ StartSweep(h) \/ Stop(h) \/ RemoveFiles(h) \/ RemoveMarker(h) \/ EndSweep(h)
  \/ Backup(h) \/ Truncate(h) \/ Fill(h) \/ Start(h)
  \/ Restore(h) \/ Refill(h) \/ StartOld(h) \/ CannotStart(h)

HandlerFails(h) == StepFails(h) \/ RestartFails(h) \/ StartFails(h) \/ RestoreFails(h)

(* The agent is killed: what it was doing stops where it is.                *)
AgentDies == handler' = [h \in Handler |-> Idle] /\ UNCHANGED <<unit, xray>>

(* The whole node restarts: services that are enabled start from their      *)
(* files.                                                                   *)
NodeReboots ==
  /\ handler' = [h \in Handler |-> Idle]
  /\ unit' = [o \in Outbound |->
       [unit[o] EXCEPT !.running = IF unit[o].enabled THEN unit[o].file ELSE None]]
  /\ xray' = [xray EXCEPT !.running = IF xray.file \in Config THEN xray.file ELSE None]
=============================================================================
