------------------------------ MODULE PulseUDP ------------------------------
(***************************************************************************)
(* The multi-path UDP transport of gamebridge-core                         *)
(* (internal/transports/pulseudp): a client and a server with a UDP flow   *)
(* per path.  Both ping every path each keepalive period, send packets on  *)
(* the best path that has been heard of in time (small ones on a second    *)
(* path too), and drop by its number what they have had already.           *)
(*                                                                         *)
(* Each end is a process that systemd starts again (Restart=always).  A    *)
(* path works or does not; on one that works, ping and pong are through    *)
(* within the period, in one step here.  Packets are lost, delayed and     *)
(* reordered; secure.Box lets in only what the other end has sealed, but a *)
(* datagram it refuses has moved the address the server sends to.          *)
(***************************************************************************)
EXTENDS Naturals, FiniteSets

CONSTANTS Path,          \* config Ports
          PathTimeout,   \* PathTimeoutMS, in keepalive periods
          Capacity,      \* entries from which a table of numbers is pruned
          Talker,        \* ends whose TUN device has packets to send
          MaxSeq, MaxRuns    \* bounds: sequence numbers, processes

ASSUME TransportAssumption ==
  /\ PathTimeout \in Nat \ {0} /\ Capacity \in Nat
  /\ MaxSeq \in Nat /\ MaxRuns \in Nat \ {0}

End == {"client", "server"}
Other(e) == IF e = "client" THEN "server" ELSE "client"

VARIABLES
  up,        \* the end's process runs
  run,       \* which of its processes that is; a client has a port per process
  seq,       \* the last sequence number it has used
  table,     \* dedupe.m: numbers received, and whether they are 15 seconds old
  path,      \* the struct path of each path, and whether its goroutine reads
  net,       \* packets under way
  works,     \* paths that work
  due,       \* ends whose ticker has yet to fire in this keepalive period
  written    \* history: how often the process has written a packet to its TUN

process == <<up, run, seq, table, path, written>>
vars == <<process, net, works, due>>

Run == 0..MaxRuns       \* 0: none
Num == 1..MaxSeq
Age == 0..(PathTimeout + 1)

PathRow == [healthy : BOOLEAN, age : Age, remote : Run, reading : BOOLEAN]
Packet == [from : End, run : Run, path : Path, n : Num]

TypeOK ==
  /\ up \in [End -> BOOLEAN]
  /\ run \in [End -> Run]
  /\ seq \in [End -> 0..MaxSeq]
  /\ table \in [End -> UNION {[S -> BOOLEAN] : S \in SUBSET Num}]
  /\ path \in [End -> [Path -> PathRow]]
  /\ \A p \in Path : path["client"][p].healthy /\ path["server"][p].reading
  /\ net \subseteq Packet
  /\ works \in SUBSET Path /\ due \in SUBSET End
  /\ written \in [End -> [Run \X Num -> 0..2]]

(* Slip: the client's paths start like the server's.                        *)
NewPathListening(e) == [healthy |-> FALSE, age |-> 0, remote |-> 0, reading |-> TRUE]

(* runClient dials and believes in a path, runServer waits to hear of it.   *)
NewPath(e) == [healthy |-> (e = "client"), age |-> 0, remote |-> 0, reading |-> TRUE]

Nothing == [n \in {} |-> FALSE]
Unwritten == [id \in Run \X Num |-> 0]

Init ==
  /\ up = [e \in End |-> TRUE] /\ run = [e \in End |-> 1]
  /\ seq = [e \in End |-> 0]
  /\ table = [e \in End |-> Nothing]
  /\ path = [e \in End |-> [p \in Path |-> NewPath(e)]]
  /\ net = {}
  /\ works = Path /\ due = {}
  /\ written = [e \in End |-> Unwritten]

-----------------------------------------------------------------------------
(* The server sends wherever the path was last heard of from; a client that *)
(* was started since does not get that.                                     *)
Carries(rows, e, p) ==
  p \in works /\ (e = "server" => rows["server"][p].remote = run["client"])

Reads(e, p) == up[e] /\ path[e][p].reading

(* Slip: only the first address that a path is heard of from is kept.       *)
HeardFirst(row, e, r) ==
  [row EXCEPT !.healthy = TRUE, !.age = 0,
              !.remote = IF e = "server" /\ @ = 0 THEN r ELSE @]

(* markSeen, updateRTT; the server takes down where it was heard of from.   *)
Heard(row, e, r) ==
  [healthy |-> TRUE, age |-> 0, remote |-> IF e = "server" THEN r ELSE row.remote,
   reading |-> row.reading]

(* Nobody listens at the server: the client's host is told, the next Write  *)
(* or Read on that socket returns the error, and a reader that gets one     *)
(* returns for good.                                                        *)
Deaf(S) ==
  [p \in Path |-> IF p \in S THEN [path["client"][p] EXCEPT !.reading = FALSE]
                             ELSE path["client"][p]]

PingUnanswered ==
  /\ up["client"] /\ ~up["server"] /\ "client" \in due
  /\ due' = due \ {"client"}
  /\ \E S \in SUBSET works : path' = [path EXCEPT !["client"] = Deaf(S)]
  /\ UNCHANGED <<up, run, seq, table, written, net, works>>

Hears(rows, e, S) ==
  [rows EXCEPT ![e] = [p \in Path |-> IF p \in S THEN Heard(@[p], e, run["client"])
                                                ELSE @[p]]]

(* The ticker's pings, read at the other end and answered, path by path.    *)
Keepalive(e) ==
  LET o == Other(e)
      there == {p \in Path : Carries(path, e, p) /\ Reads(o, p)}
      asked == Hears(path, o, there)
      back == {p \in there : Carries(asked, o, p) /\ Reads(e, p)}
  IN
  /\ up[e] /\ e \in due
  /\ e = "client" => up["server"]
  /\ due' = due \ {e}
  /\ path' = Hears(asked, e, back)
  /\ UNCHANGED <<up, run, seq, table, written, net, works>>

-----------------------------------------------------------------------------
(* Packets *)

(* Whether the path is good; its round trips and jitter are left open.      *)
score(e, p) == path[e][p].healthy /\ path[e][p].age <= PathTimeout

Good(e) == {p \in Path : score(e, p)}

(* The good paths in some order, or all if there are none.                  *)
ranked(e) == IF Good(e) # {} THEN Good(e) ELSE Path

(* A packet from the TUN device.  Pings take numbers from the same counter, *)
(* so packets may skip some.                                                *)
SendPacket(e) ==
  /\ up[e] /\ e \in Talker
  /\ \E n \in Num, best \in ranked(e), small \in BOOLEAN :
     \E second \in IF small THEN ranked(e) ELSE {best} :
       /\ n > seq[e]
       /\ small /\ ranked(e) # {best} => second # best
       /\ seq' = [seq EXCEPT ![e] = n]
       /\ net' = net \cup {[from |-> e, run |-> run[e], path |-> p, n |-> n] :
                             p \in {q \in {best, second} : Carries(path, e, q)}}
  /\ UNCHANGED <<up, run, table, path, written, works, due>>

Numbered(t, n) == [x \in DOMAIN t \cup {n} |-> IF x = n THEN FALSE ELSE t[x]]

(* Slip: a full table is emptied.                                           *)
PrunedAll(t) == IF Cardinality(DOMAIN t) > Capacity THEN Nothing ELSE t

(* A full table loses what is older than fifteen seconds.                   *)
Pruned(t) ==
  IF Cardinality(DOMAIN t) > Capacity THEN [x \in {y \in DOMAIN t : ~t[y]} |-> FALSE] ELSE t

Seen(e, m) == m.n \in DOMAIN table[e]

(* dedupe.seen, and the write to the TUN device of what has not been.       *)
Receive(e, m) ==
  /\ m \in net /\ m.from = Other(e)
  /\ m.path \in works /\ Reads(e, m.path)
  /\ net' = net \ {m}
  /\ path' = [path EXCEPT ![e][m.path] = Heard(@, e, m.run)]
  /\ IF Seen(e, m) THEN UNCHANGED <<table, written>>
     ELSE /\ table' = [table EXCEPT ![e] = Pruned(Numbered(@, m.n))]
          /\ written' = [written EXCEPT ![e][<<m.run, m.n>>] = IF @ < 2 THEN @ + 1 ELSE @]
  /\ UNCHANGED <<up, run, seq, works, due>>

(* As PingUnanswered, for a packet.                                         *)
PortUnreachable(m) ==
  /\ m \in net /\ m.from = "client" /\ m.path \in works /\ ~up["server"]
  /\ net' = net \ {m}
  /\ path' \in {path, IF m.run = run["client"]
                      THEN [path EXCEPT !["client"] = Deaf({m.path})] ELSE path}
  /\ UNCHANGED <<up, run, seq, table, written, works, due>>

(* The server takes down where a datagram came from before secure.Box       *)
(* refuses it, and answers there until the client is heard of again.        *)
Refuse(p) ==
  /\ up["server"] /\ p \in works /\ path["server"][p].remote # 0
  /\ path' = [path EXCEPT !["server"][p] = [@ EXCEPT !.remote = 0]]
  /\ UNCHANGED <<up, run, seq, table, written, net, works, due>>

(* Fifteen seconds after a packet was received the network has no copy of   *)
(* it left.                                                                 *)
GrowOld(e, n) ==
  /\ n \in DOMAIN table[e] /\ ~table[e][n]
  /\ \A m \in net : m.from = Other(e) /\ m.n = n => written[e][<<m.run, n>>] = 0
  /\ table' = [table EXCEPT ![e][n] = TRUE]
  /\ UNCHANGED <<up, run, seq, path, written, net, works, due>>

-----------------------------------------------------------------------------
(* The world *)

Lose(m) == m \in net /\ net' = net \ {m} /\ UNCHANGED <<process, works, due>>

PathChanges(p) ==
  /\ works' = IF p \in works THEN works \ {p} ELSE works \cup {p}
  /\ UNCHANGED <<process, net, due>>

(* A keepalive period ends, in which every ticker has fired.                *)
Tick ==
  /\ \A e \in due : ~up[e]
  /\ due' = {e \in End : up[e]}
  /\ path' = [e \in End |-> [p \in Path |->
       [path[e][p] EXCEPT !.age = IF path[e][p].healthy /\ @ <= PathTimeout THEN @ + 1 ELSE @]]]
  /\ UNCHANGED <<up, run, seq, table, written, net, works>>

(* A process ends; a client's port is closed with it.                       *)
Stop(e) ==
  /\ up[e]
  /\ up' = [up EXCEPT ![e] = FALSE]
  /\ net' = IF e = "client" THEN {m \in net : m.from = "client"} ELSE net
  /\ UNCHANGED <<run, seq, table, path, written, works, due>>

(* It starts with an empty table and counts from one.                       *)
Start(e) ==
  /\ ~up[e] /\ run["client"] + run["server"] < MaxRuns
  /\ up' = [up EXCEPT ![e] = TRUE]
  /\ run' = [run EXCEPT ![e] = @ + 1]
  /\ seq' = [seq EXCEPT ![e] = 0]
  /\ table' = [table EXCEPT ![e] = Nothing]
  /\ path' = [path EXCEPT ![e] = [p \in Path |-> NewPath(e)]]
  /\ written' = [written EXCEPT ![e] = Unwritten]
  /\ due' = due \ {e}
  /\ UNCHANGED <<net, works>>

-----------------------------------------------------------------------------
Next ==
  \/ \E e \in End : Keepalive(e) \/ SendPacket(e) \/ Stop(e) \/ Start(e)
  \/ PingUnanswered
  \/ \E m \in net : PortUnreachable(m) \/ Lose(m) \/ \E e \in End : Receive(e, m)
  \/ \E e \in End, n \in Num : GrowOld(e, n)
  \/ \E p \in Path : Refuse(p) \/ PathChanges(p)
  \/ Tick

(* Tickers fire and time passes, and systemd starts what has ended.         *)
Fairness ==
  /\ WF_vars(Tick) /\ WF_vars(PingUnanswered)
  /\ \A e \in End : WF_vars(Keepalive(e)) /\ WF_vars(Start(e))

Spec == Init /\ [][Next]_vars /\ Fairness

-----------------------------------------------------------------------------
(* README.md:329: the receiver removes the duplicates.  A process writes a  *)
(* packet to its TUN once at most, whatever was sent twice, is late, or has *)
(* been pruned from the table meanwhile.                                    *)
DeliveredOnce ==
  \A e \in End, id \in Run \X Num : written[e][id] <= 1

Working(p) == p \in works /\ \A e \in End : up[e]

(* A path that is broken for good is left out for good, and one that works  *)
(* for good, and that the client reads, comes to be good at both ends,      *)
(* whichever end has been started again and in whatever order.              *)
PathsFollow ==
  \A e \in End, p \in Path :
    /\ <>[](p \notin works /\ up[e]) => <>[]~score(e, p)
    /\ <>[](Working(p) /\ Reads("client", p)) => <>[]score(e, p)

(* README.md:325: GameBridge watches the paths and prefers the better one.  *)
(* A path whose server was down when the client used it is never heard of   *)
(* again by this client.                                                    *)
WorkingPathIsGood ==
  \A e \in End, p \in Path : <>[]Working(p) => <>[]score(e, p)

(* README.md:329 again: nothing but duplicates is removed.  A sender that   *)
(* is started again uses its numbers again.                                 *)
RemovedIsDuplicate ==
  [][\A e \in End, m \in net :
       Receive(e, m) /\ Seen(e, m) => written[e][<<m.run, m.n>>] > 0]_vars
=============================================================================
