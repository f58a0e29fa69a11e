---------------------------- MODULE PulseUDP_proofs ----------------------------
(***************************************************************************)
(* Proofs about PulseUDP: no packet is written twice, for any paths, table *)
(* size, path timeout and number of packets and of processes.              *)
(***************************************************************************)
EXTENDS PulseUDP, TLAPS

Table == UNION {[S -> BOOLEAN] : S \in SUBSET Num}

(* What is under way, or written, has been numbered by its sender.          *)
Sent(o, r, n) == r <= run[o] /\ (r = run[o] => n <= seq[o])

NetSent == \A m \in net : Sent(m.from, m.run, m.n)

WrittenSent ==
  \A e \in End, r \in Run, n \in Num : written[e][<<r, n>>] > 0 => Sent(Other(e), r, n)

(* A copy under way of what has been written is still remembered, and young.*)
Remembered ==
  \A m \in net : LET e == Other(m.from) IN
    written[e][<<m.run, m.n>>] > 0 => m.n \in DOMAIN table[e] /\ ~table[e][m.n]

Inv == TypeOK /\ NetSent /\ WrittenSent /\ Remembered /\ DeliveredOnce

-----------------------------------------------------------------------------
(* There are two ends.                                                      *)
LEMMA Ends == \A e \in End : Other(e) \in End /\ Other(Other(e)) = e /\ Other(e) # e
BY DEF End, Other

(* Hearing of a path keeps its row a row, and never makes it unhealthy.     *)
LEMMA HeardRow ==
  ASSUME NEW e \in End, NEW r \in Run, NEW row \in PathRow
  PROVE  /\ Heard(row, e, r) \in PathRow
         /\ Heard(row, e, r).healthy
         /\ Heard(row, e, r).reading = row.reading
<1>1. 0 \in Age
  BY TransportAssumption DEF Age
<1>2. row.remote \in Run /\ row.reading \in BOOLEAN
  BY DEF PathRow
<1>. QED  BY <1>1, <1>2 DEF Heard, PathRow

PathsOK(rows) ==
  /\ rows \in [End -> [Path -> PathRow]]
  /\ \A p \in Path : rows["client"][p].healthy /\ rows["server"][p].reading

(* Hearing of several paths keeps the rows of paths.                        *)
LEMMA HearsPaths ==
  ASSUME NEW rows, PathsOK(rows), NEW e \in End, NEW S, run["client"] \in Run
  PROVE  PathsOK(Hears(rows, e, S))
<1> DEFINE H == Hears(rows, e, S)
<1>1. \A x \in End : H[x] = IF x = e THEN [p \in Path |-> IF p \in S THEN Heard(rows[e][p], e, run["client"]) ELSE rows[e][p]]
                            ELSE rows[x]
  BY DEF Hears, PathsOK
<1>2. DOMAIN H = End /\ H = [x \in End |-> H[x]]
  BY DEF Hears, PathsOK
<1>3. \A x \in End : \A p \in Path : rows[x][p] \in PathRow
  BY DEF PathsOK
<1> DEFINE G(p) == IF p \in S THEN Heard(rows[e][p], e, run["client"]) ELSE rows[e][p]
<1>8. \A p \in Path : G(p) \in PathRow
  BY <1>3, HeardRow
<1>9. H[e] = [p \in Path |-> G(p)]
  BY <1>1
<1>4. \A x \in End : H[x] \in [Path -> PathRow]
  <2>1. \A x \in End : x # e => H[x] = rows[x]
    BY <1>1
  <2>2. \A x \in End : rows[x] \in [Path -> PathRow]
    BY DEF PathsOK
  <2>. HIDE DEF H, G
  <2>3. [p \in Path |-> G(p)] \in [Path -> PathRow]
    BY <1>8
  <2>. QED  BY <2>1, <2>2, <2>3, <1>9
<1>5. \A p \in Path : H["client"][p].healthy /\ H["server"][p].reading
  BY <1>1, <1>3, HeardRow DEF PathsOK, End
<1>. HIDE DEF H
<1>6. H \in [End -> [Path -> PathRow]]
  BY <1>2, <1>4
<1>. QED  BY <1>5, <1>6 DEF PathsOK, H

(* A path that goes deaf stays healthy.                                     *)
LEMMA DeafPaths ==
  ASSUME PathsOK(path), NEW S
  PROVE  PathsOK([path EXCEPT !["client"] = Deaf(S)])
<1>1. \A p \in Path : path["client"][p] \in PathRow
  BY DEF PathsOK, End
<1>2. Deaf(S) \in [Path -> PathRow] /\ \A p \in Path : Deaf(S)[p].healthy
  BY <1>1 DEF Deaf, PathRow, PathsOK
<1>. QED  BY <1>2 DEF PathsOK, End

(* The paths of the next state are sound if what they become is.            *)
LEMMA PathsNext ==
  ASSUME NEW rows, PathsOK(rows), path' = rows
  PROVE  PathsOK(path)'
BY DEF PathsOK

(* A pruned table is a table; what was remembered and young, and the new    *)
(* number, are still so.                                                    *)
LEMMA PrunedTable ==
  ASSUME NEW t \in Table, NEW n \in Num
  PROVE  /\ Pruned(Numbered(t, n)) \in Table
         /\ \A x \in Num : x = n \/ (x \in DOMAIN t /\ ~t[x]) =>
              x \in DOMAIN Pruned(Numbered(t, n)) /\ ~Pruned(Numbered(t, n))[x]
<1>1. DOMAIN t \in SUBSET Num /\ t \in [DOMAIN t -> BOOLEAN]
  BY DEF Table
<1>2. Numbered(t, n) \in [DOMAIN t \cup {n} -> BOOLEAN] /\ DOMAIN t \cup {n} \in SUBSET Num
  BY <1>1 DEF Numbered
<1>3. \A x \in Num : x = n \/ (x \in DOMAIN t /\ ~t[x]) =>
        x \in DOMAIN Numbered(t, n) /\ ~Numbered(t, n)[x]
  BY DEF Numbered
<1>4. ASSUME NEW u \in [DOMAIN t \cup {n} -> BOOLEAN]
      PROVE  Pruned(u) \in Table
           /\ \A x \in DOMAIN u : ~u[x] => x \in DOMAIN Pruned(u) /\ ~Pruned(u)[x]
  <2>1. u \in Table
    BY <1>2 DEF Table
  <2> DEFINE Y == {y \in DOMAIN u : ~u[y]}
  <2>2. Y \in SUBSET Num
    BY <1>2
  <2>3. [x \in Y |-> FALSE] \in [Y -> BOOLEAN]
    OBVIOUS
  <2>4. [x \in Y |-> FALSE] \in Table
    BY <2>2, <2>3 DEF Table
  <2>. QED  BY <2>1, <2>4 DEF Pruned
<1>. QED  BY <1>2, <1>3, <1>4

-----------------------------------------------------------------------------
(* The model begins in the invariant.                                       *)
LEMMA InitInv == Init => Inv
<1> SUFFICES ASSUME Init PROVE Inv
  OBVIOUS
<1>1. Nothing \in Table
  BY DEF Nothing, Table
<1>2. 1 \in Run /\ 0 \in Run /\ 0 \in Age
  BY TransportAssumption DEF Run, Age
<1>3. \A e \in End : NewPath(e) \in PathRow
  BY <1>2 DEF NewPath, PathRow
<1>4. Unwritten \in [Run \X Num -> 0..2]
  BY DEF Unwritten
<1>5. TypeOK
  <2>1. up \in [End -> BOOLEAN] /\ run \in [End -> Run] /\ seq \in [End -> 0..MaxSeq]
    BY <1>2, TransportAssumption DEF Init
  <2>2. table \in [End -> UNION {[S -> BOOLEAN] : S \in SUBSET Num}]
    BY <1>1 DEF Init, Table
  <2>3. path \in [End -> [Path -> PathRow]]
    BY <1>3 DEF Init
  <2>4. \A p \in Path : path["client"][p].healthy /\ path["server"][p].reading
    BY DEF Init, NewPath, End
  <2>5. written \in [End -> [Run \X Num -> 0..2]]
    BY <1>4 DEF Init
  <2>6. net \subseteq Packet /\ works \in SUBSET Path /\ due \in SUBSET End
    BY DEF Init
  <2>. QED  BY <2>1, <2>2, <2>3, <2>4, <2>5, <2>6 DEF TypeOK
<1>6. \A e \in End, id \in Run \X Num : written[e][id] = 0
  BY DEF Init, Unwritten
<1>7. \A e \in End, r \in Run, n \in Num : written[e][<<r, n>>] = 0
  BY <1>6
<1>. QED  BY <1>5, <1>6, <1>7 DEF Inv, NetSent, WrittenSent, Remembered, DeliveredOnce, Init

(* Every step keeps the invariant.                                          *)
LEMMA NextInv == Inv /\ [Next]_vars => Inv'
<1> SUFFICES ASSUME Inv, [Next]_vars PROVE Inv'
  OBVIOUS
<1> USE DEF process
<1>a. TypeOK /\ NetSent /\ WrittenSent /\ Remembered /\ DeliveredOnce
  BY DEF Inv
<1>b. PathsOK(path)
  BY <1>a DEF TypeOK, PathsOK
<1>c. run["client"] \in Run /\ run["server"] \in Run
  BY <1>a DEF TypeOK, End
<1>d. \A e \in End : table[e] \in Table
  BY <1>a DEF TypeOK, Table
<1>e. TypeOK' <=> /\ (up \in [End -> BOOLEAN])' /\ (run \in [End -> Run])'
                  /\ (seq \in [End -> 0..MaxSeq])' /\ (table \in [End -> Table])'
                  /\ PathsOK(path)' /\ (net \subseteq Packet)'
                  /\ (works \in SUBSET Path)' /\ (due \in SUBSET End)'
                  /\ (written \in [End -> [Run \X Num -> 0..2]])'
  BY DEF TypeOK, PathsOK, Table
<1>f. table \in [End -> Table]
  BY <1>a DEF TypeOK, Table
<1>g. \A m \in net : m \in Packet /\ m.from \in End /\ m.run \in Run /\ m.n \in Num
  BY <1>a DEF TypeOK, Packet

\* Only the paths, the tickers or the state of the world change.
<1>1. ASSUME PathsOK(path)', (due \in SUBSET End)', (works \in SUBSET Path)',
             net' \subseteq net,
             UNCHANGED <<run, seq, table, written>>, (up \in [End -> BOOLEAN])'
      PROVE  Inv'
  <2>1. TypeOK'
    BY <1>1, <1>a, <1>e, <1>f DEF TypeOK
  <2>. QED
    BY <2>1, <1>1, <1>a DEF Inv, NetSent, WrittenSent, Remembered, DeliveredOnce, Sent
<1>2. CASE UNCHANGED vars
  BY <1>2, <1>1, <1>a, <1>b DEF vars, TypeOK, PathsOK
<1>3. CASE PingUnanswered
  <2>1. PICK S : path' = [path EXCEPT !["client"] = Deaf(S)]
    BY <1>3 DEF PingUnanswered
  <2>2. PathsOK(path)'
    BY <2>1, <1>b, DeafPaths, PathsNext
  <2>. QED  BY <1>3, <2>2, <1>1, <1>a DEF PingUnanswered, TypeOK
<1>4. ASSUME NEW e \in End, Keepalive(e) PROVE Inv'
  <2>1. PathsOK(path)'
    <3> DEFINE there == {p \in Path : Carries(path, e, p) /\ Reads(Other(e), p)}
               asked == Hears(path, Other(e), there)
               back == {p \in there : Carries(asked, Other(e), p) /\ Reads(e, p)}
    <3>1. PathsOK(asked)
      BY <1>b, <1>c, Ends, HearsPaths
    <3>. HIDE DEF asked
    <3>2. PathsOK(Hears(asked, e, back))
      BY <3>1, <1>c, HearsPaths
    <3>3. path' = Hears(asked, e, back)
      BY <1>4 DEF Keepalive, asked
    <3>. QED  BY <3>2, <3>3 DEF PathsOK
  <2>. QED  BY <1>4, <2>1, <1>1, <1>a DEF Keepalive, TypeOK
<1>5. ASSUME NEW m \in net, PortUnreachable(m) PROVE Inv'
  <2>1. path' = path \/ path' = [path EXCEPT !["client"] = Deaf({m.path})]
    BY <1>5 DEF PortUnreachable
  <2>2. PathsOK(path)'
    BY <2>1, <1>b, DeafPaths, PathsNext
  <2>. QED  BY <1>5, <2>2, <1>1, <1>a DEF PortUnreachable, TypeOK
<1>6. ASSUME NEW m \in net, Lose(m) PROVE Inv'
  BY <1>6, <1>1, <1>a, <1>b DEF Lose, TypeOK, PathsOK
<1>7. ASSUME NEW p \in Path, PathChanges(p) PROVE Inv'
  BY <1>7, <1>1, <1>a, <1>b DEF PathChanges, TypeOK, PathsOK
<1>7a. ASSUME NEW p \in Path, Refuse(p) PROVE Inv'
  <2> DEFINE row == [path["server"][p] EXCEPT !.remote = 0]
  <2>1. row \in PathRow /\ row.reading = path["server"][p].reading
    <3>1. path["server"][p] \in PathRow /\ 0 \in Run
      BY <1>b, TransportAssumption DEF PathsOK, Run, End
    <3>. QED  BY <3>1 DEF PathRow
  <2>2. path' = [path EXCEPT !["server"][p] = row]
    BY <1>7a DEF Refuse
  <2>. HIDE DEF row
  <2>3. (path \in [End -> [Path -> PathRow]])'
    BY <2>1, <2>2, <1>b DEF PathsOK, End
  <2>4. PathsOK(path)'
    BY <2>1, <2>2, <2>3, <1>b DEF PathsOK, End
  <2>. QED  BY <1>7a, <2>4, <1>1, <1>a DEF Refuse, TypeOK
<1>8. ASSUME NEW e \in End, Stop(e) PROVE Inv'
  BY <1>8, <1>1, <1>a, <1>b DEF Stop, TypeOK, PathsOK
<1>9. CASE Tick
  <2>1. PathsOK(path)'
    <3> DEFINE older(e, p) == IF path[e][p].healthy /\ path[e][p].age <= PathTimeout
                              THEN path[e][p].age + 1 ELSE path[e][p].age
    <3>1. \A e \in End, p \in Path : path[e][p] \in PathRow
      BY <1>b DEF PathsOK
    <3>2. \A e \in End, p \in Path : older(e, p) \in Age
      BY <3>1, TransportAssumption DEF PathRow, Age
    <3>3. \A e \in End, p \in Path : [path[e][p] EXCEPT !.age = older(e, p)] \in PathRow
      <4>. HIDE DEF older
      <4>. QED  BY <3>1, <3>2 DEF PathRow
    <3>4. path' = [e \in End |-> [p \in Path |-> [path[e][p] EXCEPT !.age = older(e, p)]]]
      BY <1>9 DEF Tick
    <3>. HIDE DEF older
    <3>5. (path \in [End -> [Path -> PathRow]])'
      BY <3>3, <3>4
    <3>6. \A e \in End, p \in Path : /\ path'[e][p].healthy = path[e][p].healthy
                                     /\ path'[e][p].reading = path[e][p].reading
      BY <3>1, <3>4 DEF PathRow
    <3>. QED  BY <3>5, <3>6, <1>b DEF PathsOK, End
  <2>. QED  BY <1>9, <2>1, <1>1, <1>a DEF Tick, TypeOK

\* A sender numbers a packet as no packet has been numbered.
<1>10. ASSUME NEW e \in End, SendPacket(e) PROVE Inv'
  <2>1. PICK n \in Num, C \in SUBSET Path :
          /\ n > seq[e]
          /\ seq' = [seq EXCEPT ![e] = n]
          /\ net' = net \cup {[from |-> e, run |-> run[e], path |-> p, n |-> n] : p \in C}
    <3>1. PICK n \in Num, best \in ranked(e), second \in ranked(e) :
            /\ n > seq[e]
            /\ seq' = [seq EXCEPT ![e] = n]
            /\ net' = net \cup {[from |-> e, run |-> run[e], path |-> p, n |-> n] :
                                  p \in {q \in {best, second} : Carries(path, e, q)}}
      BY <1>10 DEF SendPacket
    <3>2. {q \in {best, second} : Carries(path, e, q)} \in SUBSET Path
      BY DEF Carries, ranked, Good
    <3>. QED  BY <3>1, <3>2
  <2>2. UNCHANGED <<up, run, table, path, written, works, due>>
    BY <1>10 DEF SendPacket
  <2>3. seq[e] \in 0..MaxSeq /\ run[e] \in Run /\ seq \in [End -> 0..MaxSeq]
    BY <1>a DEF TypeOK
  <2>4. \A m \in net' : m \in net \/ (m.from = e /\ m.run = run[e] /\ m.n = n /\ m \in Packet)
    BY <2>1, <2>3 DEF Packet
  <2>5. TypeOK'
    <3>1. (net \subseteq Packet)'
      BY <2>4, <1>g
    <3>2. (seq \in [End -> 0..MaxSeq])'
      BY <2>1, <2>3, TransportAssumption DEF Num
    <3>. QED  BY <3>1, <3>2, <2>2, <1>a, <1>b, <1>e, <1>f DEF TypeOK, PathsOK
  <2>6. \A o \in End, r \in Run, k \in Num : Sent(o, r, k) => Sent(o, r, k)'
    BY <2>1, <2>2, <2>3, <1>a DEF Sent, TypeOK, Num
  <2>7. NetSent'
    <3>1. Sent(e, run[e], n)'
      BY <2>1, <2>2, <2>3, <1>c DEF Sent, Run, Num, End
    <3>2. \A m \in net' : Sent(m.from, m.run, m.n)'
      BY <3>1, <2>2, <2>4, <2>6, <1>a, <1>g DEF NetSent
    <3>. QED  BY <3>2 DEF NetSent
  <2>8. WrittenSent'
    BY <2>2, <2>6, <1>a, Ends DEF WrittenSent
  <2>9. written[Other(e)][<<run[e], n>>] = 0
    <3>1. ~Sent(e, run[e], n)
      BY <2>1, <2>3 DEF Sent, Num
    <3>2. written[Other(e)][<<run[e], n>>] \in 0..2
      BY <2>3, <1>a, Ends DEF TypeOK
    <3>. QED  BY <3>1, <3>2, <2>3, <1>a, Ends DEF WrittenSent
  <2>10. Remembered'
    BY <2>2, <2>4, <2>9, <1>a DEF Remembered
  <2>. QED  BY <2>2, <2>5, <2>7, <2>8, <2>10, <1>a DEF Inv, DeliveredOnce

\* A packet is written if its number is new, and then is remembered.
<1>11. ASSUME NEW e \in End, NEW m \in net, Receive(e, m) PROVE Inv'
  <2>1. /\ m \in Packet /\ m.n \in Num /\ m.run \in Run /\ m.from = Other(e)
        /\ <<m.run, m.n>> \in Run \X Num
    BY <1>11, <1>g DEF Receive
  <2>2. /\ net' = net \ {m} /\ UNCHANGED <<up, run, seq, works, due>>
        /\ path' = [path EXCEPT ![e][m.path] = Heard(@, e, m.run)]
    BY <1>11 DEF Receive
  <2>3. PathsOK(path)'
    <3>1. m.path \in Path /\ path[e][m.path] \in PathRow
      BY <2>1, <1>b DEF PathsOK, Packet
    <3> DEFINE row == Heard(path[e][m.path], e, m.run)
    <3>2. row \in PathRow /\ row.healthy /\ row.reading = path[e][m.path].reading
      BY <3>1, <2>1, HeardRow
    <3>3. path' = [path EXCEPT ![e][m.path] = row]
      BY <2>2
    <3>. HIDE DEF row
    <3>4. (path \in [End -> [Path -> PathRow]])'
      BY <3>1, <3>2, <3>3, <1>b DEF PathsOK
    <3>5. \A x \in End, p \in Path :
            \/ path'[x][p] = path[x][p]
            \/ x = e /\ p = m.path /\ path'[x][p] = row
      BY <3>1, <3>3, <1>b DEF PathsOK
    <3>. QED  BY <3>2, <3>4, <3>5, <1>b DEF PathsOK, End
  <2>4. \A k \in net' : k \in net
    BY <2>2
  <2>5. CASE Seen(e, m)
    <3>1. UNCHANGED <<table, written>>
      BY <1>11, <2>5 DEF Receive
    <3>. QED  BY <3>1, <2>2, <2>3, <2>4, <1>1, <1>a DEF TypeOK
  <2>6. CASE ~Seen(e, m)
    <3> DEFINE id == <<m.run, m.n>>
               t == Pruned(Numbered(table[e], m.n))
    <3>1. table' = [table EXCEPT ![e] = t]
      BY <1>11, <2>6 DEF Receive
    <3>2. written[e][id] = 0
      <4>1. written[e][id] \in 0..2
        BY <2>1, <1>a DEF TypeOK
      <4>. QED  BY <4>1, <2>1, <2>6, <1>a, Ends DEF Remembered, Seen
    <3>3. written' = [written EXCEPT ![e][id] = 1]
      BY <1>11, <2>6, <3>2 DEF Receive
    <3>4. /\ t \in Table
          /\ \A x \in Num : x = m.n \/ (x \in DOMAIN table[e] /\ ~table[e][x]) =>
               x \in DOMAIN t /\ ~t[x]
      BY <2>1, <1>d, PrunedTable
    <3>5. written \in [End -> [Run \X Num -> 0..2]]
      BY <1>a DEF TypeOK
    <3>. HIDE DEF t, id
    <3>6. (written \in [End -> [Run \X Num -> 0..2]])'
      <4>1. id \in Run \X Num
        BY <2>1 DEF id
      <4> DEFINE w == [written[e] EXCEPT ![id] = 1]
                 W == [Run \X Num -> 0..2]
                 Few == 0..2
      <4>2. 1 \in Few
        OBVIOUS
      <4>3. w \in W
        <5>. HIDE DEF Few
        <5>1. written[e] \in [Run \X Num -> Few] /\ W = [Run \X Num -> Few]
          BY <3>5 DEF Few
        <5>. QED  BY <4>1, <4>2, <5>1
      <4>4. written' = [written EXCEPT ![e] = w]
        BY <3>3
      <4>5. written \in [End -> W]
        BY <3>5
      <4>6. W = [Run \X Num -> 0..2]
        OBVIOUS
      <4>. HIDE DEF w, W
      <4>7. written' \in [End -> W]
        BY <4>3, <4>4, <4>5
      <4>. QED  BY <4>6, <4>7
    <3>7. TypeOK'
      <4>1. (table \in [End -> Table])'
        BY <3>1, <3>4, <1>f
      <4>2. (net \subseteq Packet)'
        BY <2>4, <1>g
      <4>. QED  BY <4>1, <4>2, <3>6, <2>2, <2>3, <1>a, <1>e DEF TypeOK
    <3>8. \A x \in End, i \in Run \X Num :
            written'[x][i] = IF x = e /\ i = id THEN 1 ELSE written[x][i]
      BY <3>3, <3>5
    <3>9. NetSent'
      BY <2>2, <2>4, <1>a DEF NetSent, Sent
    <3>10. WrittenSent'
      <4>1. Sent(Other(e), m.run, m.n)
        BY <2>1, <1>a DEF NetSent
      <4> SUFFICES ASSUME NEW x \in End, NEW r \in Run, NEW n \in Num,
                          written'[x][<<r, n>>] > 0
                   PROVE  Sent(Other(x), r, n)'
        BY DEF WrittenSent
      <4>2. <<r, n>> \in Run \X Num
        OBVIOUS
      <4>3. CASE x = e /\ <<r, n>> = id
        BY <4>1, <4>3, <2>2 DEF id, Sent
      <4>4. CASE ~(x = e /\ <<r, n>> = id)
        <5>1. written[x][<<r, n>>] > 0
          BY <4>2, <4>4, <3>8
        <5>. QED  BY <5>1, <2>2, <1>a DEF WrittenSent, Sent
      <4>. QED  BY <4>3, <4>4
    <3>11. Remembered'
      <4> SUFFICES ASSUME NEW k \in net', NEW x \in End, x = Other(k.from),
                          written'[x][<<k.run, k.n>>] > 0
                   PROVE  k.n \in DOMAIN table'[x] /\ ~table'[x][k.n]
        BY <2>4, <1>g, Ends DEF Remembered
      <4>1. k \in net /\ k.n \in Num /\ <<k.run, k.n>> \in Run \X Num
        BY <2>4, <1>g
      <4>2. CASE x # e
        <5>1. table'[x] = table[x]
          BY <4>2, <3>1, <1>f
        <5>2. written[x][<<k.run, k.n>>] > 0
          BY <4>1, <4>2, <3>8
        <5>. QED  BY <4>1, <5>1, <5>2, <1>a DEF Remembered
      <4>3. CASE x = e /\ <<k.run, k.n>> # id
        <5>1. written[e][<<k.run, k.n>>] > 0
          BY <4>1, <4>3, <3>8
        <5>2. k.n \in DOMAIN table[e] /\ ~table[e][k.n]
          BY <4>1, <4>3, <5>1, <1>a DEF Remembered
        <5>3. table'[x] = t
          BY <4>3, <3>1, <1>f
        <5>. QED  BY <4>1, <5>2, <5>3, <3>4
      <4>4. CASE x = e /\ <<k.run, k.n>> = id
        <5>1. k.n = m.n
          BY <4>4 DEF id
        <5>2. table'[x] = t
          BY <4>4, <3>1, <1>f
        <5>. QED  BY <4>1, <5>1, <5>2, <3>4
      <4>. QED  BY <4>2, <4>3, <4>4
    <3>12. DeliveredOnce'
      BY <3>8, <1>a DEF DeliveredOnce
    <3>. QED  BY <3>7, <3>9, <3>10, <3>11, <3>12 DEF Inv
  <2>. QED  BY <2>5, <2>6

\* What is old by the network is forgotten.
<1>12. ASSUME NEW e \in End, NEW n \in Num, GrowOld(e, n) PROVE Inv'
  <2>1. /\ n \in DOMAIN table[e] /\ table' = [table EXCEPT ![e][n] = TRUE]
        /\ \A m \in net : m.from = Other(e) /\ m.n = n => written[e][<<m.run, n>>] = 0
        /\ UNCHANGED <<up, run, seq, path, written, net, works, due>>
    BY <1>12 DEF GrowOld
  <2>2. (table \in [End -> Table])'
    <3>1. [table[e] EXCEPT ![n] = TRUE] \in [DOMAIN table[e] -> BOOLEAN]
      BY <2>1, <1>d DEF Table
    <3>2. [table[e] EXCEPT ![n] = TRUE] \in Table
      BY <3>1, <1>d DEF Table
    <3>3. table' = [table EXCEPT ![e] = [table[e] EXCEPT ![n] = TRUE]]
      BY <2>1
    <3>. QED  BY <3>2, <3>3, <1>f
  <2>3. TypeOK'
    BY <2>1, <2>2, <1>a, <1>b, <1>e DEF TypeOK, PathsOK
  <2>4. Remembered'
    <3> SUFFICES ASSUME NEW m \in net, NEW x \in End, x = Other(m.from),
                        written[x][<<m.run, m.n>>] > 0
                 PROVE  m.n \in DOMAIN table'[x] /\ ~table'[x][m.n]
      BY <2>1, <1>g, Ends DEF Remembered
    <3>1. m.n \in DOMAIN table[x] /\ ~table[x][m.n]
      BY <1>a DEF Remembered
    <3>2. CASE x = e /\ m.n = n
      <4>1. m.from = Other(e) /\ written[e][<<m.run, n>>] > 0
        BY <3>2, <1>g, Ends
      <4>2. written[e][<<m.run, n>>] = 0
        BY <4>1, <3>2, <2>1
      <4>3. FALSE
        BY <4>1, <4>2
      <4>. QED  BY <4>3
    <3>3. CASE x # e
      BY <3>1, <3>3, <2>1, <1>f
    <3>4. CASE x = e /\ m.n # n
      BY <3>1, <3>4, <2>1, <1>f, <1>d DEF Table
    <3>. QED  BY <3>2, <3>3, <3>4
  <2>. QED
    BY <2>1, <2>3, <2>4, <1>a DEF Inv, NetSent, WrittenSent, DeliveredOnce, Sent

\* A new process has another number of its own, and has written nothing.
<1>13. ASSUME NEW e \in End, Start(e) PROVE Inv'
  <2>1. /\ run["client"] + run["server"] < MaxRuns
        /\ up' = [up EXCEPT ![e] = TRUE] /\ run' = [run EXCEPT ![e] = @ + 1]
        /\ seq' = [seq EXCEPT ![e] = 0] /\ table' = [table EXCEPT ![e] = Nothing]
        /\ path' = [path EXCEPT ![e] = [p \in Path |-> NewPath(e)]]
        /\ written' = [written EXCEPT ![e] = Unwritten]
        /\ due' = due \ {e} /\ UNCHANGED <<net, works>>
    BY <1>13 DEF Start
  <2>2. run[e] \in Nat /\ run[e] + 1 \in Run
    BY <2>1, <1>c, TransportAssumption DEF Run, End
  <2>3. PathsOK(path)'
    <3>1. 0 \in Run /\ 0 \in Age
      BY TransportAssumption DEF Run, Age
    <3>2. NewPath(e) \in PathRow /\ (e = "client" => NewPath(e).healthy) /\ NewPath(e).reading
      BY <3>1 DEF NewPath, PathRow
    <3>. QED  BY <2>1, <3>2, <1>b DEF PathsOK, End
  <2>4. (table \in [End -> Table])'
    <3>1. Nothing \in Table
      BY DEF Nothing, Table
    <3>. QED  BY <2>1, <3>1, <1>f
  <2>5. Unwritten \in [Run \X Num -> 0..2] /\ \A i \in Run \X Num : Unwritten[i] = 0
    BY DEF Unwritten
  <2>6. /\ (written \in [End -> [Run \X Num -> 0..2]])'
        /\ \A x \in End : written'[x] = IF x = e THEN Unwritten ELSE written[x]
    BY <2>1, <2>5, <1>a DEF TypeOK
  <2>7. TypeOK'
    <3>1. (run \in [End -> Run])' /\ (seq \in [End -> 0..MaxSeq])' /\ (up \in [End -> BOOLEAN])'
      BY <2>1, <2>2, <1>a, TransportAssumption DEF TypeOK
    <3>. QED  BY <3>1, <2>1, <2>3, <2>4, <2>6, <1>a, <1>e DEF TypeOK
  <2>8. \A o \in End, r \in Run, k \in Num : Sent(o, r, k) => Sent(o, r, k)'
    BY <2>1, <2>2, <1>a DEF Sent, TypeOK, Run
  <2>9. NetSent'
    <3>1. \A m \in net' : Sent(m.from, m.run, m.n)'
      BY <2>1, <2>8, <1>a, <1>g DEF NetSent
    <3>. QED  BY <3>1 DEF NetSent
  <2>10. \A x \in End, r \in Run, k \in Num :
           written'[x][<<r, k>>] > 0 => x # e /\ written[x][<<r, k>>] > 0
    BY <2>5, <2>6
  <2>11. WrittenSent'
    BY <2>8, <2>10, <1>a, Ends DEF WrittenSent
  <2>12. Remembered'
    <3> SUFFICES ASSUME NEW m \in net, NEW x \in End, x = Other(m.from),
                        written'[x][<<m.run, m.n>>] > 0
                 PROVE  m.n \in DOMAIN table'[x] /\ ~table'[x][m.n]
      BY <2>1, <1>g, Ends DEF Remembered
    <3>1. x # e /\ written[x][<<m.run, m.n>>] > 0
      BY <2>10, <1>g
    <3>2. table'[x] = table[x]
      BY <3>1, <2>1, <1>f
    <3>. QED  BY <3>1, <3>2, <1>a DEF Remembered
  <2>13. DeliveredOnce'
    BY <2>5, <2>6, <1>a DEF DeliveredOnce
  <2>. QED  BY <2>7, <2>9, <2>11, <2>12, <2>13 DEF Inv
<1>. QED
  BY <1>2, <1>3, <1>4, <1>5, <1>6, <1>7, <1>7a, <1>8, <1>9, <1>10, <1>11, <1>12, <1>13 DEF Next

-----------------------------------------------------------------------------
(* The transport stays in its types: the client believes in its paths and   *)
(* the server never stops reading, in every process of either.              *)
THEOREM TypeCorrect == Spec => []TypeOK
<1>1. Inv => TypeOK
  BY DEF Inv
<1>. QED  BY InitInv, NextInv, <1>1, PTL DEF Spec

(* dedupe.seen with its pruning and the numbering of both ends keep a       *)
(* process from writing a packet to its TUN twice.                          *)
THEOREM DeliveredCorrect == Spec => []DeliveredOnce
<1>1. Inv => DeliveredOnce
  BY DEF Inv
<1>. QED  BY InitInv, NextInv, <1>1, PTL DEF Spec
=============================================================================
