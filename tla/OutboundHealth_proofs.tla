------------------------ MODULE OutboundHealth_proofs ------------------------
(***************************************************************************)
(* The safety properties of OutboundHealth, for any outbounds, ports,      *)
(* requests and size of a batch.  Two facts about the numbering carry the  *)
(* property of measurements: with enough ports every candidate has one,    *)
(* and no two have the same.                                               *)
(***************************************************************************)
EXTENDS OutboundHealth, FiniteSetTheorems, TLAPS

-----------------------------------------------------------------------------
(* The numbering *)

(* Ranks are below the size of the set.                                     *)
LEMMA RankBelow ==
  ASSUME NEW S, S \subseteq Nat, IsFiniteSet(S), NEW x \in S
  PROVE  Rank(x, S) \in 0..(Cardinality(S) - 1)
  <1> DEFINE B == {y \in S : y < x}
  <1>1. B \in SUBSET S /\ B # S
    <2>1. x \notin B
      OBVIOUS
    <2> QED BY <2>1
  <1> HIDE DEF B
  <1>2. IsFiniteSet(B) /\ Cardinality(B) <= Cardinality(S) /\ Cardinality(B) # Cardinality(S)
    BY <1>1, FS_Subset
  <1>3. Cardinality(B) \in Nat /\ Cardinality(S) \in Nat
    BY <1>2, FS_CardinalityType
  <1> QED BY <1>2, <1>3 DEF Rank, B

(* A greater number has a greater rank.                                     *)
LEMMA RankGrows ==
  ASSUME NEW S, S \subseteq Nat, IsFiniteSet(S), NEW x \in S, NEW z \in S, x < z
  PROVE  Rank(x, S) < Rank(z, S)
  <1> DEFINE B == {y \in S : y < x}
             C == {y \in S : y < z}
  <1>1. C \in SUBSET S /\ B \in SUBSET C /\ B # C
    <2>1. x \in C /\ x \notin B
      OBVIOUS
    <2>2. ASSUME NEW y \in S, y < x PROVE y < z
      <3>1. x \in Nat /\ y \in Nat /\ z \in Nat
        OBVIOUS
      <3> QED BY <2>2, <3>1
    <2> QED BY <2>1, <2>2
  <1> HIDE DEF B, C
  <1>2. IsFiniteSet(C)
    BY <1>1, FS_Subset
  <1>3. IsFiniteSet(B) /\ Cardinality(B) <= Cardinality(C) /\ Cardinality(B) # Cardinality(C)
    BY <1>1, <1>2, FS_Subset
  <1>4. Cardinality(B) \in Nat /\ Cardinality(C) \in Nat
    BY <1>2, <1>3, FS_CardinalityType
  <1> QED BY <1>3, <1>4 DEF Rank, B, C

(* Every rank is somebody's, and nobody else's.                             *)
LEMMA RankOnto ==
  ASSUME NEW S, S \subseteq Nat, IsFiniteSet(S)
  PROVE  /\ \A x, z \in S : Rank(x, S) = Rank(z, S) => x = z
         /\ \A n \in 0..(Cardinality(S) - 1) : \E x \in S : Rank(x, S) = n
  <1> DEFINE T == 0..(Cardinality(S) - 1)
             f == [x \in S |-> Rank(x, S)]
  <1>1. Cardinality(S) \in Nat
    BY FS_CardinalityType
  <1>2. \A x \in S : Rank(x, S) \in T
    BY RankBelow
  <1>3. ASSUME NEW x \in S, NEW z \in S, Rank(x, S) = Rank(z, S) PROVE x = z
    <2>1. Rank(x, S) \in Int /\ Rank(z, S) \in Int /\ x \in Nat /\ z \in Nat
      BY <1>2
    <2>2. ~(x < z)
      <3> SUFFICES ASSUME x < z PROVE FALSE
        OBVIOUS
      <3>1. Rank(x, S) < Rank(z, S)
        BY RankGrows
      <3> QED BY <1>3, <2>1, <3>1
    <2>3. ~(z < x)
      <3> SUFFICES ASSUME z < x PROVE FALSE
        OBVIOUS
      <3>1. Rank(z, S) < Rank(x, S)
        BY RankGrows
      <3> QED BY <1>3, <2>1, <3>1
    <2> QED BY <2>1, <2>2, <2>3
  <1>4. IsFiniteSet(T) /\ Cardinality(T) = Cardinality(S)
    <2> DEFINE n == Cardinality(S) - 1
    <2>1. n \in Int /\ 0 \in Int /\ n - 0 + 1 = Cardinality(S) /\ (0 > n => Cardinality(S) = 0)
      BY <1>1
    <2> HIDE DEF n
    <2>2. IsFiniteSet(0..n) /\ Cardinality(0..n) = IF 0 > n THEN 0 ELSE n - 0 + 1
      BY <2>1, FS_Interval
    <2> QED BY <2>1, <2>2 DEF n
  <1> HIDE DEF T
  <1>5. f \in Injection(S, T)
    BY <1>2, <1>3 DEF Injection, IsInjective
  <1>6. f \in Surjection(S, T)
    <2> HIDE DEF f
    <2> QED BY <1>4, <1>5, FS_Injection
  <1>7. \A n \in T : \E x \in S : f[x] = n
    BY <1>6 DEF Surjection
  <1> QED BY <1>3, <1>7 DEF T

(* With enough ports each candidate has a free port of its own.             *)
LEMMA Numbering ==
  ASSUME DOMAIN outbounds \subseteq Outbound, EnoughPorts
  PROVE  /\ \A o \in Candidates : PortOf(o) \in Free
         /\ \A o, x \in Candidates : PortOf(o) = PortOf(x) => o = x
  <1> DEFINE C == Candidates
             F == Free
  <1>1. /\ C \subseteq Nat /\ IsFiniteSet(C) /\ F \subseteq Nat /\ IsFiniteSet(F)
        /\ Cardinality(C) <= Cardinality(F)
    <2>1. C \in SUBSET Outbound /\ F \in SUBSET Port
      BY DEF Candidates, Free
    <2>2. C \subseteq Nat /\ F \subseteq Nat
      BY <2>1, HealthAssumption
    <2>3. IsFiniteSet(C) /\ IsFiniteSet(F)
      BY <2>1, HealthAssumption, FS_Subset
    <2> QED BY <2>2, <2>3 DEF EnoughPorts
  <1>2. Cardinality(C) \in Nat /\ Cardinality(F) \in Nat
    BY <1>1, FS_CardinalityType
  <1>3. ASSUME NEW o \in C
        PROVE  PortOf(o) \in F /\ Rank(PortOf(o), F) = Rank(o, C)
    <2>1. Rank(o, C) \in 0..(Cardinality(C) - 1)
      BY <1>1, RankBelow
    <2>2. Rank(o, C) \in 0..(Cardinality(F) - 1)
      BY <1>1, <1>2, <2>1
    <2>3. \E p \in F : Rank(p, F) = Rank(o, C)
      BY <1>1, <2>2, RankOnto
    <2> QED BY <2>3 DEF PortOf
  <1>4. ASSUME NEW o \in C, NEW x \in C, PortOf(o) = PortOf(x) PROVE o = x
    <2>1. Rank(o, C) = Rank(x, C)
      BY <1>3, <1>4
    <2> QED BY <1>1, <2>1, RankOnto
  <1> QED BY <1>3, <1>4

(* The configuration has each candidate behind its own port.                *)
LEMMA Configuration ==
  ASSUME DOMAIN outbounds \subseteq Outbound, EnoughPorts
  PROVE  /\ HealthInbounds \in [Port -> Outbound \cup {0}]
         /\ \A o \in Candidates : HealthInbounds[PortOf(o)] = o
  <1>1. Candidates \subseteq Outbound /\ Free \subseteq Port
    BY DEF Candidates, Free
  <1>2. ASSUME NEW p \in Port
        PROVE  HealthInbounds[p] \in Outbound \cup {0}
    <2>1. CASE \E o \in Candidates : PortOf(o) = p
      BY <1>1, <2>1 DEF HealthInbounds
    <2>2. CASE ~\E o \in Candidates : PortOf(o) = p
      BY <2>2 DEF HealthInbounds
    <2> QED BY <2>1, <2>2
  <1>3. ASSUME NEW o \in Candidates PROVE HealthInbounds[PortOf(o)] = o
    <2>1. PortOf(o) \in Port
      BY <1>1, Numbering
    <2>2. \A x \in Candidates : PortOf(x) = PortOf(o) => x = o
      BY Numbering
    <2>3. (CHOOSE x \in Candidates : PortOf(x) = PortOf(o)) = o
      BY <2>2
    <2> QED BY <2>1, <2>3 DEF HealthInbounds
  <1>4. HealthInbounds = [p \in Port |-> HealthInbounds[p]]
    BY DEF HealthInbounds
  <1> QED BY <1>2, <1>3, <1>4

-----------------------------------------------------------------------------
(* The invariant *)

(* Rows whose status fits their failures, and tables of them.               *)
GoodRow == {row \in Row : row.failures > 0 <=> row.status = "unhealthy"}
Rows(S) == UNION {[D -> GoodRow] : D \in SUBSET S}

KnownRows == outbounds \in Rows(issued)

(* What a transaction has to undo is there, and nothing is in sync meanwhile. *)
Pending ==
  change # None =>
    /\ ~insync
    /\ change.before \in GoodRow
    /\ change.how \in {"update", "delete", "switch"} => change.o \in issued
    /\ change.how = "switch" => change.o \in DOMAIN outbounds

(* In sync means that each candidate is behind its port; a settled probe is *)
(* for a candidate, and at its port.                                        *)
InSync ==
  /\ settled # {} => insync
  /\ insync => EnoughPorts /\ \A o \in Candidates : runtime[PortOf(o)] = o
  /\ \A s \in settled :
       probe[s].at \in {"asking", "answered"} =>
         /\ probe[s].o \in Candidates
         /\ probe[s].port = PortOf(probe[s].o)
         /\ probe[s].at = "answered" => probe[s].via = probe[s].o

Inv == TypeOK /\ KnownRows /\ Pending /\ InSync

-----------------------------------------------------------------------------
(* Tables *)

LEMMA RowsWritten ==
  ASSUME NEW S, NEW o \in S, NEW row \in GoodRow, outbounds \in Rows(S)
  PROVE  With(o, row) \in Rows(S) /\ Without(o) \in Rows(S)
  <1>1. PICK D \in SUBSET S : outbounds \in [D -> GoodRow]
    BY DEF Rows
  <1>2. With(o, row) \in [D \cup {o} -> GoodRow] /\ D \cup {o} \in SUBSET S
    <2>1. DOMAIN outbounds = D /\ \A x \in D : outbounds[x] \in GoodRow
      BY <1>1
    <2>2. \A x \in D \cup {o} : (IF x = o THEN row ELSE outbounds[x]) \in GoodRow
      BY <2>1
    <2> QED BY <2>1, <2>2 DEF With
  <1>3. Without(o) \in [D \ {o} -> GoodRow] /\ D \ {o} \in SUBSET S
    BY <1>1 DEF Without
  <1> QED BY <1>2, <1>3 DEF Rows

LEMMA RowsRead ==
  ASSUME NEW S, outbounds \in Rows(S)
  PROVE  /\ DOMAIN outbounds \subseteq S
         /\ \A o \in DOMAIN outbounds : outbounds[o] \in GoodRow
  <1>1. PICK D \in SUBSET S : outbounds \in [D -> GoodRow]
    BY DEF Rows
  <1> QED BY <1>1

LEMMA RowsGrow ==
  ASSUME NEW S, NEW T, S \subseteq T
  PROVE  Rows(S) \subseteq Rows(T)
  BY DEF Rows

(* Tables of good rows are tables.                                          *)
LEMMA RowsAreRows ==
  ASSUME NEW S, NEW f \in Rows(S)
  PROVE  f \in UNION {[D -> Row] : D \in SUBSET S}
  <1>1. PICK D \in SUBSET S : f \in [D -> GoodRow]
    BY DEF Rows
  <1>2. f \in [D -> Row]
    BY <1>1 DEF GoodRow
  <1> QED BY <1>2

(* A new row, a failure and a success are good; switching keeps a row good. *)
LEMMA RowsGood ==
  /\ \A on \in BOOLEAN : [New EXCEPT !.enabled = on] \in GoodRow
  /\ New \in GoodRow
  /\ \A row \in GoodRow :
       /\ Failed(row) \in GoodRow
       /\ \A healthy \in BOOLEAN : applyOutboundHealthResult(row, healthy) \in GoodRow
       /\ \A on \in BOOLEAN : [row EXCEPT !.enabled = on] \in GoodRow
  <1>1. New \in GoodRow /\ \A on \in BOOLEAN : [New EXCEPT !.enabled = on] \in GoodRow
    BY DEF New, GoodRow, Row, ManyFailures
  <1>2. ASSUME NEW row \in GoodRow
        PROVE  /\ Failed(row) \in GoodRow
               /\ \A on \in BOOLEAN : [row EXCEPT !.enabled = on] \in GoodRow
               /\ [row EXCEPT !.status = "healthy", !.failures = 0] \in GoodRow
    <2> DEFINE R == 0..ManyFailures
               Table == [enabled : BOOLEAN, status : {"unknown", "healthy", "unhealthy"},
                         failures : R]
    <2>1. R = {0, 1} /\ Row = Table
      BY DEF Row, ManyFailures
    <2> HIDE DEF R
    <2>2. row \in Table /\ row.failures \in {0, 1} /\ 0 \in R /\ 1 \in R
          /\ (row.failures > 0 <=> row.status = "unhealthy")
      BY <2>1 DEF GoodRow
    <2>3. ASSUME NEW on \in BOOLEAN PROVE [row EXCEPT !.enabled = on] \in GoodRow
      BY <2>1, <2>2 DEF GoodRow
    <2>4. [row EXCEPT !.status = "healthy", !.failures = 0] \in GoodRow
      <3> DEFINE r == [row EXCEPT !.status = "healthy", !.failures = 0]
      <3>1. r \in Table
        BY <2>2
      <3>2. r.status = "healthy" /\ r.failures = 0
        BY <2>2
      <3> HIDE DEF r
      <3>3. r.failures > 0 <=> r.status = "unhealthy"
        BY <3>2
      <3>4. r \in GoodRow
        BY <2>1, <3>1, <3>3 DEF GoodRow
      <3> QED BY <3>4 DEF r
    <2>5. [row EXCEPT !.status = "unhealthy", !.failures = 1] \in GoodRow
      <3> DEFINE r == [row EXCEPT !.status = "unhealthy", !.failures = 1]
      <3>1. r \in Table
        BY <2>2
      <3>2. r.status = "unhealthy" /\ r.failures = 1
        BY <2>2
      <3> HIDE DEF r
      <3>3. r.failures > 0 <=> r.status = "unhealthy"
        BY <3>2
      <3>4. r \in GoodRow
        BY <2>1, <3>1, <3>3 DEF GoodRow
      <3> QED BY <3>4 DEF r
    <2>6. Failed(row) = [row EXCEPT !.status = "unhealthy", !.failures = 1]
      <3>1. (IF row.failures < ManyFailures THEN row.failures + 1 ELSE row.failures) = 1
        BY <2>2 DEF ManyFailures
      <3> QED BY <3>1 DEF Failed
    <2> QED BY <2>3, <2>4, <2>5, <2>6
  <1>3. ASSUME NEW row \in GoodRow, NEW healthy \in BOOLEAN
        PROVE  applyOutboundHealthResult(row, healthy) \in GoodRow
    BY <1>2, <1>3 DEF applyOutboundHealthResult
  <1> QED BY <1>1, <1>2, <1>3

(* Results change no switch.                                                *)
LEMMA ResultKeepsSwitch ==
  ASSUME NEW row \in GoodRow, NEW healthy
  PROVE  applyOutboundHealthResult(row, healthy).enabled = row.enabled
  BY DEF applyOutboundHealthResult, Failed, GoodRow, Row

-----------------------------------------------------------------------------
(* The numbering depends on the candidates and on the inbounds only.        *)
LEMMA SameNumbers ==
  ASSUME Candidates' = Candidates, inbounds' = inbounds
  PROVE  (EnoughPorts' <=> EnoughPorts) /\ \A o : PortOf(o)' = PortOf(o)
  <1> DEFINE P(F, C, o) == CHOOSE p \in F : Rank(p, F) = Rank(o, C)
  <1>1. Free' = Free
    BY DEF Free
  <1>2. \A o : PortOf(o) = P(Free, Candidates, o)
    BY DEF PortOf
  <1>3. \A o : PortOf(o)' = P(Free', Candidates', o)
    BY DEF PortOf
  <1> HIDE DEF P
  <1>4. \A o : PortOf(o)' = PortOf(o)
    BY <1>1, <1>2, <1>3
  <1> QED BY <1>1, <1>4 DEF EnoughPorts

(* Nothing that the configuration or a settled probe depends on moves.      *)
LEMMA InSyncKept ==
  ASSUME InSync, Candidates' = Candidates, inbounds' = inbounds, runtime' = runtime,
         insync' = insync, settled' \subseteq settled,
         \A s \in settled' : probe'[s] = probe[s]
  PROVE  InSync'
  <1>1. (EnoughPorts' <=> EnoughPorts) /\ \A o : PortOf(o)' = PortOf(o)
    BY SameNumbers
  <1>2. (settled # {} => insync)'
    BY DEF InSync
  <1>3. (insync => EnoughPorts /\ \A o \in Candidates : runtime[PortOf(o)] = o)'
    BY <1>1 DEF InSync
  <1>4. ASSUME NEW s \in settled', probe'[s].at \in {"asking", "answered"}
        PROVE  /\ probe'[s].o \in Candidates'
               /\ probe'[s].port = PortOf(probe[s].o)'
               /\ probe'[s].at = "answered" => probe'[s].via = probe'[s].o
    <2>1. s \in settled /\ probe'[s] = probe[s]
      OBVIOUS
    <2>2. /\ probe[s].o \in Candidates
          /\ probe[s].port = PortOf(probe[s].o)
          /\ probe[s].at = "answered" => probe[s].via = probe[s].o
      BY <1>4, <2>1 DEF InSync
    <2> QED BY <1>1, <2>1, <2>2
  <1> QED BY <1>2, <1>3, <1>4 DEF InSync

(* Out of sync nothing is claimed.                                          *)
LEMMA OutOfSync ==
  ASSUME ~insync', settled' = {}
  PROVE  InSync'
  BY DEF InSync

-----------------------------------------------------------------------------
(* The first state                                                          *)

LEMMA InitInv == Init => Inv
  <1> SUFFICES ASSUME Init PROVE Inv
    OBVIOUS
  <1> USE DEF Init
  <1>1. KnownRows
    <2>1. outbounds \in [{} -> GoodRow]
      OBVIOUS
    <2> QED BY <2>1 DEF KnownRows, Rows
  <1>2. TypeOK
    <2>1. outbounds \in UNION {[D -> Row] : D \in SUBSET issued}
      BY <1>1, RowsAreRows DEF KnownRows
    <2> QED BY <2>1 DEF TypeOK, Nothing
  <1>3. Pending
    BY DEF Pending
  <1>4. InSync
    <2>1. Candidates = {}
      BY DEF Candidates
    <2>2. EnoughPorts
      <3>1. Free \in SUBSET Port
        BY DEF Free
      <3>2. Cardinality(Free) \in Nat
        BY <3>1, HealthAssumption, FS_Subset, FS_CardinalityType
      <3>3. Cardinality(Candidates) = 0
        BY <2>1, FS_EmptySet
      <3> QED BY <3>2, <3>3 DEF EnoughPorts
    <2> QED BY <2>1, <2>2 DEF InSync
  <1> QED BY <1>1, <1>2, <1>3, <1>4 DEF Inv

-----------------------------------------------------------------------------
(* Transactions                                                             *)

(* A transaction that writes good rows, and can give back what it wrote.    *)
LEMMA BeginKeeps ==
  ASSUME Inv, NEW how \in {"create", "update", "switch", "delete", "inbound"},
         NEW o \in Outbound \cup {0}, NEW before \in GoodRow, Begin(how, o, before),
         issued \subseteq issued', issued' \in SUBSET Outbound,
         outbounds' \in Rows(issued'), inbounds' \in SUBSET InboundPort,
         how \in {"update", "delete", "switch"} => o \in issued,
         how = "switch" => o \in DOMAIN outbounds'
  PROVE  Inv'
  <1> USE DEF Begin
  <1>1. change' \in Changing /\ change'.how = how /\ change'.o = o /\ change'.before = before
    BY DEF Inv, TypeOK, Changing, GoodRow
  <1>2. TypeOK'
    <2>1. outbounds' \in UNION {[D -> Row] : D \in SUBSET issued'}
      BY RowsAreRows
    <2> QED BY <1>1, <2>1 DEF Inv, TypeOK
  <1>3. Pending'
    BY <1>1 DEF Pending
  <1>4. InSync'
    BY OutOfSync
  <1> QED BY <1>2, <1>3, <1>4 DEF Inv, KnownRows

LEMMA AdminKeeps == ASSUME Inv, AdminRequest PROVE Inv'
  <1>1. /\ outbounds \in Rows(issued) /\ issued \in SUBSET Outbound
        /\ inbounds \in SUBSET InboundPort
    BY DEF Inv, KnownRows, TypeOK
  <1>2. /\ DOMAIN outbounds \subseteq issued
        /\ \A o \in DOMAIN outbounds : outbounds[o] \in GoodRow
    BY <1>1, RowsRead
  <1>3. ASSUME NEW o \in Outbound, CreateOutbound(o) PROVE Inv'
    <2>1. issued' = issued \cup {o} /\ outbounds' = With(o, New) /\ inbounds' = inbounds
      BY <1>3 DEF CreateOutbound
    <2>2. outbounds \in Rows(issued')
      BY <1>1, <2>1, RowsGrow
    <2>3. outbounds' \in Rows(issued')
      BY <2>1, <2>2, RowsWritten, RowsGood
    <2> QED BY <1>1, <1>3, <2>1, <2>3, RowsGood, BeginKeeps DEF CreateOutbound
  <1>4. ASSUME NEW o \in Outbound, UpdateOutbound(o) PROVE Inv'
    <2>1. o \in DOMAIN outbounds /\ issued' = issued /\ inbounds' = inbounds
      BY <1>4 DEF UpdateOutbound
    <2>2. outbounds' \in Rows(issued)
      <3>1. PICK on \in BOOLEAN : outbounds' = With(o, [New EXCEPT !.enabled = on])
        BY <1>4 DEF UpdateOutbound
      <3>2. [New EXCEPT !.enabled = on] \in GoodRow /\ o \in issued
        BY <1>2, <2>1, RowsGood
      <3> QED BY <1>1, <3>1, <3>2, RowsWritten
    <2> QED BY <1>1, <1>2, <1>4, <2>1, <2>2, BeginKeeps DEF UpdateOutbound
  <1>5. ASSUME NEW o \in Outbound, SwitchOutbound(o) PROVE Inv'
    <2>1. o \in DOMAIN outbounds /\ issued' = issued /\ inbounds' = inbounds
      BY <1>5 DEF SwitchOutbound
    <2>2. PICK D \in SUBSET issued : outbounds \in [D -> GoodRow]
      BY <1>1 DEF Rows
    <2>3. [outbounds[o] EXCEPT !.enabled = ~outbounds[o].enabled] \in GoodRow
      <3>1. outbounds[o] \in GoodRow
        BY <1>2, <2>1
      <3>2. PICK on \in BOOLEAN : on = ~outbounds[o].enabled
        OBVIOUS
      <3> QED BY <3>1, <3>2, RowsGood
    <2>4. outbounds' = [outbounds EXCEPT ![o] = [outbounds[o] EXCEPT !.enabled = ~outbounds[o].enabled]]
      BY <1>5 DEF SwitchOutbound
    <2>5. outbounds' \in [D -> GoodRow] /\ o \in D
      BY <2>1, <2>2, <2>3, <2>4
    <2>6. outbounds' \in Rows(issued) /\ o \in DOMAIN outbounds'
      BY <2>5 DEF Rows
    <2> QED BY <1>1, <1>2, <1>5, <2>1, <2>6, BeginKeeps DEF SwitchOutbound
  <1>6. ASSUME NEW o \in Outbound, DeleteOutbound(o) PROVE Inv'
    <2>1. /\ o \in DOMAIN outbounds /\ issued' = issued /\ inbounds' = inbounds
          /\ outbounds' = Without(o)
      BY <1>6 DEF DeleteOutbound
    <2>2. outbounds' \in Rows(issued)
      BY <1>1, <1>2, <2>1, RowsWritten
    <2> QED BY <1>1, <1>2, <1>6, <2>1, <2>2, BeginKeeps DEF DeleteOutbound
  <1>7. ASSUME NEW p \in InboundPort, ChangeInbound(p) PROVE Inv'
    <2>1. /\ inbounds' \in SUBSET InboundPort /\ outbounds' = outbounds /\ issued' = issued
          /\ Begin("inbound", 0, New)
      BY <1>1, <1>7 DEF ChangeInbound
    <2> QED BY <1>1, <2>1, RowsGood, BeginKeeps
  <1>8. ASSUME SwitchNode PROVE Inv'
    <2> USE <1>8 DEF SwitchNode
    <2>1. TypeOK'
      BY DEF Inv, TypeOK
    <2>2. KnownRows' /\ Pending'
      BY DEF Inv, KnownRows, Pending
    <2>3. InSync'
      <3>1. Candidates' = Candidates
        BY DEF Candidates
      <3> QED BY <3>1, InSyncKept DEF Inv
    <2> QED BY <2>1, <2>2, <2>3 DEF Inv
  <1> QED BY <1>3, <1>4, <1>5, <1>6, <1>7, <1>8 DEF AdminRequest

(* The deployment succeeds: the configuration is the rows as they are.      *)
LEMMA AppliedKeeps == ASSUME Inv, Applied PROVE Inv'
  <1> USE DEF Applied
  <1>1. DOMAIN outbounds \subseteq Outbound
    BY RowsRead DEF Inv, KnownRows, TypeOK
  <1>2. /\ runtime' \in [Port -> Outbound \cup {0}]
        /\ \A o \in Candidates : runtime'[PortOf(o)] = o
    BY <1>1, Configuration
  <1>3. TypeOK'
    BY <1>2 DEF Inv, TypeOK, stored
  <1>4. KnownRows' /\ Pending'
    BY DEF Inv, KnownRows, Pending, stored
  <1>5. InSync'
    <2>1. Candidates' = Candidates /\ inbounds' = inbounds
      BY DEF Candidates, stored
    <2>2. EnoughPorts' /\ \A o : PortOf(o)' = PortOf(o)
      BY <2>1, SameNumbers
    <2>3. settled' = {} /\ insync'
      BY DEF Inv, Pending, InSync
    <2>4. \A o \in Candidates' : runtime'[PortOf(o)'] = o
      BY <1>2, <2>1, <2>2
    <2> QED BY <2>2, <2>3, <2>4 DEF InSync
  <1> QED BY <1>3, <1>4, <1>5 DEF Inv

(* Undoing leaves good rows, whatever was done.                             *)
LEMMA UndoGood == ASSUME Inv, change # None PROVE Undo \in Rows(issued)
  <1> DEFINE o == change.o
  <1>1. /\ outbounds \in Rows(issued) /\ change.before \in GoodRow /\ change.before \in Row
        /\ change.how \in {"update", "delete", "switch"} => o \in issued
        /\ change.how = "switch" => o \in DOMAIN outbounds
    BY DEF Inv, KnownRows, Pending, GoodRow
  <1>2. \A x \in DOMAIN outbounds : outbounds[x] \in GoodRow
    BY <1>1, RowsRead
  <1>3. PICK D \in SUBSET issued : outbounds \in [D -> GoodRow]
    BY <1>1 DEF Rows
  <1>4. Without(o) \in Rows(issued)
    <2>1. Without(o) \in [D \ {o} -> GoodRow] /\ D \ {o} \in SUBSET issued
      BY <1>3 DEF Without
    <2> QED BY <2>1 DEF Rows
  <1>5. change.how \in {"update", "delete"} => With(o, change.before) \in Rows(issued)
    BY <1>1, RowsWritten
  <1>6. change.how = "switch"
          => With(o, [outbounds[o] EXCEPT !.enabled = change.before.enabled]) \in Rows(issued)
    <2> SUFFICES ASSUME change.how = "switch"
                 PROVE  With(o, [outbounds[o] EXCEPT !.enabled = change.before.enabled]) \in Rows(issued)
      OBVIOUS
    <2>1. outbounds[o] \in GoodRow /\ o \in issued
      BY <1>1, <1>2
    <2>2. change.before.enabled \in BOOLEAN
      BY <1>1 DEF Row
    <2>3. [outbounds[o] EXCEPT !.enabled = change.before.enabled] \in GoodRow
      BY <2>1, <2>2, RowsGood
    <2> QED BY <1>1, <2>1, <2>3, RowsWritten
  <1>7. [x \in DOMAIN outbounds |->
           IF outbounds[x].enabled THEN Failed(outbounds[x]) ELSE outbounds[x]] \in Rows(issued)
    <2>1. \A x \in D : (IF outbounds[x].enabled THEN Failed(outbounds[x]) ELSE outbounds[x]) \in GoodRow
      BY <1>2, <1>3, RowsGood
    <2>2. [x \in DOMAIN outbounds |->
             IF outbounds[x].enabled THEN Failed(outbounds[x]) ELSE outbounds[x]] \in [D -> GoodRow]
      BY <1>3, <2>1
    <2> QED BY <2>2 DEF Rows
  <1> HIDE DEF o
  <1>8. Undo = CASE change.how = "create" -> Without(o)
                 [] change.how = "update" \/ change.how = "delete" -> With(o, change.before)
                 [] change.how = "switch" -> With(o, [outbounds[o] EXCEPT !.enabled = change.before.enabled])
                 [] change.how = "boot" -> [x \in DOMAIN outbounds |->
                                              IF outbounds[x].enabled THEN Failed(outbounds[x])
                                              ELSE outbounds[x]]
                 [] OTHER -> outbounds
    BY DEF Undo, o
  <1>9. CASE change.how = "create"
    BY <1>4, <1>8, <1>9
  <1>10. CASE change.how \in {"update", "delete"}
    BY <1>5, <1>8, <1>10
  <1>11. CASE change.how = "switch"
    BY <1>6, <1>8, <1>11
  <1>12. CASE change.how = "boot"
    BY <1>7, <1>8, <1>12
  <1>13. CASE change.how \notin {"create", "update", "delete", "switch", "boot"}
    BY <1>1, <1>8, <1>13
  <1> QED BY <1>9, <1>10, <1>11, <1>12, <1>13

LEMMA DeployFailsKeeps == ASSUME Inv, DeployFails PROVE Inv'
  <1> USE DEF DeployFails
  <1>1. outbounds' \in Rows(issued) /\ issued' = issued
    BY UndoGood
  <1>2. change \in Changing /\ ~insync /\ change.before \in GoodRow
    BY DEF Inv, TypeOK, Pending
  <1>3. change' \in Changing \cup {None} /\ inbounds' \in SUBSET InboundPort
        /\ (change' # None => change'.how = "recovery" /\ change'.before \in GoodRow)
    BY <1>2 DEF Changing
  <1>4. TypeOK'
    <2>1. outbounds' \in UNION {[D -> Row] : D \in SUBSET issued'}
      BY <1>1, RowsAreRows
    <2> QED BY <1>3, <2>1 DEF Inv, TypeOK
  <1>5. KnownRows' /\ Pending'
    BY <1>1, <1>2, <1>3 DEF KnownRows, Pending
  <1>6. InSync'
    BY <1>2, OutOfSync
  <1> QED BY <1>4, <1>5, <1>6 DEF Inv

LEMMA RestartKeeps == ASSUME Inv, Restart PROVE Inv'
  <1> USE DEF Restart, stored
  <1>1. change' \in Changing \cup {None}
        /\ (change' # None => change'.how = "boot" /\ change'.before \in GoodRow /\ ~insync')
    <2>1. New \in Row
      BY DEF New, Row, ManyFailures
    <2>2. inbounds \in SUBSET InboundPort
      BY DEF Inv, TypeOK
    <2> QED BY <2>1, <2>2, RowsGood DEF Changing
  <1>2. TypeOK'
    BY <1>1 DEF Inv, TypeOK, Slot
  <1>3. KnownRows' /\ Pending'
    BY <1>1 DEF Inv, KnownRows, Pending
  <1>4. InSync'
    <2>1. CASE insync'
      <3>1. Candidates' = Candidates /\ insync' = insync /\ settled' = {}
        BY <2>1 DEF Candidates, Inv, TypeOK
      <3> QED BY <3>1, InSyncKept DEF Inv
    <2>2. CASE ~insync'
      BY <2>2, OutOfSync
    <2> QED BY <2>1, <2>2
  <1> QED BY <1>2, <1>3, <1>4 DEF Inv

-----------------------------------------------------------------------------
(* Probes                                                                   *)

(* What neither the rows nor the transaction notices.                       *)
LEMMA RowsKept ==
  ASSUME KnownRows, Pending, UNCHANGED <<outbounds, issued, change, insync>>
  PROVE  KnownRows' /\ Pending'
  BY DEF KnownRows, Pending

LEMMA ReadRowsKeeps ==
  ASSUME Inv, NEW s \in Slot, NEW o \in Outbound, ReadRows(s, o)
  PROVE  Inv'
  <1> USE DEF ReadRows, stored
  <1>1. DOMAIN outbounds \subseteq Outbound /\ probe \in [Slot -> Probing \cup {Idle, Queued}]
        /\ settled \in SUBSET Slot
    BY RowsRead DEF Inv, KnownRows, TypeOK
  <1>2. Candidates' = Candidates /\ inbounds' = inbounds
    BY DEF Candidates
  <1>3. \A x : PortOf(x)' = PortOf(x)
    BY <1>2, SameNumbers
  <1>4. KnownRows' /\ Pending'
    BY RowsKept DEF Inv
  <1>5. CASE CanProbe(o)
    <2>1. PortOf(o) \in Port /\ o \in Candidates
      <3>1. PortOf(o) \in Free
        BY <1>1, <1>5, Numbering DEF CanProbe
      <3> QED BY <1>5, <3>1 DEF Free, CanProbe
    <2>2. Asking(o) \in Probing
      BY <2>1 DEF Asking, outboundHealthProbeFor, Probing
    <2>3. TypeOK'
      <3>1. probe' \in [Slot -> Probing \cup {Idle, Queued}] /\ settled' \in SUBSET Slot
        BY <1>1, <1>5, <2>2
      <3> QED BY <3>1 DEF Inv, TypeOK
    <2>4. InSync'
      <3>1. CASE insync
        <4>1. probe' = [probe EXCEPT ![s] = Asking(o)] /\ settled' = settled \cup {s}
          BY <1>5, <3>1
        <4>2. ASSUME NEW x \in settled', probe'[x].at \in {"asking", "answered"}
              PROVE  /\ probe'[x].o \in Candidates'
                     /\ probe'[x].port = PortOf(probe[x].o)'
                     /\ probe'[x].at = "answered" => probe'[x].via = probe'[x].o
          <5>1. x \in Slot /\ (x # s => x \in settled)
            BY <1>1, <4>1
          <5>2. CASE x = s
            <6>1. probe'[x] = Asking(o)
              BY <1>1, <4>1, <5>1, <5>2
            <6>2. /\ probe'[x].o = o /\ probe'[x].port = PortOf(o)
                  /\ probe'[x].at = "asking"
              BY <6>1 DEF Asking, outboundHealthProbeFor
            <6>3. PortOf(probe[x].o)' = PortOf(o)
              BY <1>3, <6>2
            <6> QED BY <1>2, <2>1, <6>2, <6>3
          <5>3. CASE x # s
            <6>1. probe'[x] = probe[x] /\ x \in settled
              BY <1>1, <4>1, <5>1, <5>3
            <6>2. /\ probe[x].o \in Candidates
                  /\ probe[x].port = PortOf(probe[x].o)
                  /\ probe[x].at = "answered" => probe[x].via = probe[x].o
              BY <4>2, <6>1 DEF Inv, InSync
            <6>3. PortOf(probe[x].o)' = PortOf(probe[x].o)
              BY <1>3, <6>1
            <6> QED BY <1>2, <6>1, <6>2, <6>3
          <5> QED BY <5>2, <5>3
        <4>3. (insync => EnoughPorts /\ \A x \in Candidates : runtime[PortOf(x)] = x)'
          <5>1. EnoughPorts'
            BY <1>2, <1>5, SameNumbers DEF CanProbe
          <5> QED BY <1>2, <1>3, <3>1, <5>1 DEF Inv, InSync
        <4>4. (settled # {} => insync)'
          BY <3>1
        <4> QED BY <4>2, <4>3, <4>4 DEF InSync
      <3>2. CASE ~insync
        <4>1. settled' = {} /\ ~insync'
          BY <1>5, <3>2 DEF Inv, InSync
        <4> QED BY <4>1, OutOfSync
      <3> QED BY <3>1, <3>2
    <2> QED BY <1>4, <2>3, <2>4 DEF Inv
  <1>6. CASE ~CanProbe(o)
    <2>1. probe' = [probe EXCEPT ![s] = Idle] /\ settled' = settled
      BY <1>6
    <2>2. TypeOK'
      <3>1. probe' \in [Slot -> Probing \cup {Idle, Queued}]
        BY <1>1, <2>1
      <3> QED BY <2>1, <3>1 DEF Inv, TypeOK
    <2>3. InSync'
      <3>1. (EnoughPorts' <=> EnoughPorts) /\ \A x : PortOf(x)' = PortOf(x)
        BY <1>2, SameNumbers
      <3>2. ASSUME NEW x \in settled', probe'[x].at \in {"asking", "answered"}
            PROVE  /\ probe'[x].o \in Candidates'
                   /\ probe'[x].port = PortOf(probe[x].o)'
                   /\ probe'[x].at = "answered" => probe'[x].via = probe'[x].o
        <4>1. x \in Slot /\ x \in settled
          BY <1>1, <2>1
        <4>2. x # s
          BY <1>1, <2>1, <3>2, <4>1 DEF Idle
        <4>3. probe'[x] = probe[x]
          BY <1>1, <2>1, <4>1, <4>2
        <4>4. /\ probe[x].o \in Candidates
              /\ probe[x].port = PortOf(probe[x].o)
              /\ probe[x].at = "answered" => probe[x].via = probe[x].o
          BY <3>2, <4>1, <4>3 DEF Inv, InSync
        <4>5. PortOf(probe[x].o)' = PortOf(probe[x].o)
          BY <1>3, <4>3
        <4> QED BY <1>2, <4>3, <4>4, <4>5
      <3>3. (insync => EnoughPorts /\ \A x \in Candidates : runtime[PortOf(x)] = x)'
        BY <1>2, <3>1 DEF Inv, InSync
      <3>4. (settled # {} => insync)'
        BY <2>1 DEF Inv, InSync
      <3> QED BY <3>2, <3>3, <3>4 DEF InSync
    <2> QED BY <1>4, <2>2, <2>3 DEF Inv
  <1> QED BY <1>5, <1>6

(* A settled probe goes through the port of its outbound, and finds it      *)
(* there.                                                                   *)
LEMMA MeasureKeeps == ASSUME Inv, NEW s \in Slot, Measure(s) PROVE Inv'
  <1> DEFINE via == runtime[probe[s].port]
             good == via # 0 /\ works[via]
  <1>1. /\ probe \in [Slot -> Probing \cup {Idle, Queued}] /\ settled \in SUBSET Slot
        /\ runtime \in [Port -> Outbound \cup {0}] /\ works \in [Outbound -> BOOLEAN]
    BY DEF Inv, TypeOK
  <1>2. probe[s] \in Probing
    <2>1. probe[s].at = "asking" /\ probe[s] \in Probing \cup {Idle, Queued}
      BY <1>1 DEF Measure
    <2> QED BY <2>1 DEF Idle, Queued
  <1>3. via \in Outbound \cup {0}
    BY <1>1, <1>2 DEF Probing
  <1>4. good \in BOOLEAN
    BY <1>1, <1>3
  <1>5. /\ probe' = [probe EXCEPT ![s] = [probe[s] EXCEPT !.at = "answered", !.via = via,
                                                          !.healthy = good]]
        /\ UNCHANGED <<outbounds, inbounds, usable, issued>>
        /\ UNCHANGED <<runtime, works, change, batch, insync, settled>>
    BY DEF Measure, stored
  <1> HIDE DEF via, good
  <1>6. DEFINE answer == [probe[s] EXCEPT !.at = "answered", !.via = via, !.healthy = good]
  <1>7. /\ answer \in Probing /\ answer.via = via
        /\ answer.o = probe[s].o /\ answer.port = probe[s].port
    BY <1>2, <1>3, <1>4 DEF Probing
  <1> HIDE DEF answer
  <1>8. probe' = [probe EXCEPT ![s] = answer]
    BY <1>5 DEF answer
  <1>9. TypeOK'
    <2>1. probe' \in [Slot -> Probing \cup {Idle, Queued}]
      BY <1>1, <1>7, <1>8
    <2> QED BY <1>5, <2>1 DEF Inv, TypeOK
  <1>10. KnownRows' /\ Pending'
    BY <1>5, RowsKept DEF Inv
  <1>11. InSync'
    <2>1. Candidates' = Candidates /\ inbounds' = inbounds
      BY <1>5 DEF Candidates
    <2>2. (EnoughPorts' <=> EnoughPorts) /\ \A x : PortOf(x)' = PortOf(x)
      BY <2>1, SameNumbers
    <2>6. \A x : PortOf(x)' = PortOf(x)
      BY <2>2
    <2>3. ASSUME NEW x \in settled', probe'[x].at \in {"asking", "answered"}
          PROVE  /\ probe'[x].o \in Candidates'
                 /\ probe'[x].port = PortOf(probe[x].o)'
                 /\ probe'[x].at = "answered" => probe'[x].via = probe'[x].o
      <3>1. x \in settled /\ x \in Slot
        BY <1>1, <1>5
      <3>2. CASE x = s
        <4>1. probe'[x] = answer
          BY <1>1, <1>8, <3>1, <3>2
        <4>2. probe[s].o \in Candidates /\ probe[s].port = PortOf(probe[s].o)
          BY <3>1, <3>2 DEF Inv, InSync, Measure
        <4>3. via = probe[s].o
          BY <3>1, <4>2 DEF Inv, InSync, via
        <4>4. PortOf(probe[x].o)' = PortOf(probe[s].o)
          BY <1>7, <2>6, <4>1
        <4> QED BY <1>7, <2>1, <4>1, <4>2, <4>3, <4>4
      <3>3. CASE x # s
        <4>1. probe'[x] = probe[x]
          BY <1>1, <1>8, <3>1, <3>3
        <4>2. /\ probe[x].o \in Candidates
              /\ probe[x].port = PortOf(probe[x].o)
              /\ probe[x].at = "answered" => probe[x].via = probe[x].o
          BY <2>3, <3>1, <4>1 DEF Inv, InSync
        <4>3. PortOf(probe[x].o)' = PortOf(probe[x].o)
          BY <2>6, <4>1
        <4> QED BY <2>1, <4>1, <4>2, <4>3
      <3> QED BY <3>2, <3>3
    <2>4. (insync => EnoughPorts /\ \A x \in Candidates : runtime[PortOf(x)] = x)'
      BY <1>5, <2>1, <2>2 DEF Inv, InSync
    <2>5. (settled # {} => insync)'
      BY <1>5 DEF Inv, InSync
    <2> QED BY <2>3, <2>4, <2>5 DEF InSync
  <1> QED BY <1>9, <1>10, <1>11 DEF Inv

(* An answered probe is over.                                               *)
LEMMA FinishKeeps ==
  ASSUME Inv, NEW s \in Slot, Finish(s), Candidates' = Candidates,
         outbounds' \in Rows(issued),
         UNCHANGED <<inbounds, usable, issued, runtime, works, change, batch, insync>>,
         DOMAIN outbounds' = DOMAIN outbounds
  PROVE  Inv'
  <1>1. probe' = [probe EXCEPT ![s] = Idle] /\ settled' = settled \ {s}
    BY DEF Finish
  <1>2. probe \in [Slot -> Probing \cup {Idle, Queued}] /\ settled \in SUBSET Slot
    BY DEF Inv, TypeOK
  <1>3. TypeOK'
    <2>1. outbounds' \in UNION {[D -> Row] : D \in SUBSET issued'}
      BY RowsAreRows
    <2>2. probe' \in [Slot -> Probing \cup {Idle, Queued}] /\ settled' \in SUBSET Slot
      BY <1>1, <1>2
    <2> QED BY <2>1, <2>2 DEF Inv, TypeOK
  <1>4. KnownRows' /\ Pending'
    BY DEF Inv, KnownRows, Pending
  <1>5. InSync'
    <2>1. \A x \in settled' : probe'[x] = probe[x]
      BY <1>1, <1>2
    <2> QED BY <1>1, <2>1, InSyncKept DEF Inv
  <1> QED BY <1>3, <1>4, <1>5 DEF Inv

LEMMA StoreResultKeeps == ASSUME Inv, NEW s \in Slot, StoreResult(s) PROVE Inv'
  <1> DEFINE o == probe[s].o
             row == applyOutboundHealthResult(outbounds[o], probe[s].healthy)
  <1>1. /\ probe[s].at = "answered" /\ Finish(s)
        /\ outbounds' = IF o \in DOMAIN outbounds THEN With(o, row) ELSE outbounds
        /\ UNCHANGED <<inbounds, usable, issued, runtime, works, change, batch, insync>>
    BY DEF StoreResult
  <1>2. probe[s] \in Probing
    <2>1. probe[s] \in Probing \cup {Idle, Queued}
      BY DEF Inv, TypeOK
    <2> QED BY <1>1, <2>1 DEF Idle, Queued
  <1>3. /\ outbounds \in Rows(issued) /\ DOMAIN outbounds \subseteq issued
        /\ \A x \in DOMAIN outbounds : outbounds[x] \in GoodRow
    BY RowsRead DEF Inv, KnownRows
  <1>4. CASE o \in DOMAIN outbounds
    <2>1. probe[s].healthy \in BOOLEAN /\ outbounds[o] \in GoodRow
      BY <1>2, <1>3, <1>4 DEF Probing
    <2>2. row \in GoodRow /\ row.enabled = outbounds[o].enabled
      BY <2>1, RowsGood, ResultKeepsSwitch
    <2> HIDE DEF o, row
    <2>3. outbounds' = With(o, row) /\ With(o, row) \in Rows(issued)
      BY <1>1, <1>3, <1>4, <2>2, RowsWritten
    <2>4. /\ DOMAIN outbounds' = DOMAIN outbounds
          /\ \A x \in DOMAIN outbounds : outbounds'[x].enabled = outbounds[x].enabled
      BY <1>4, <2>2, <2>3 DEF With
    <2>5. Candidates' = Candidates
      BY <2>4 DEF Candidates
    <2> QED BY <1>1, <2>3, <2>4, <2>5, FinishKeeps
  <1>5. CASE o \notin DOMAIN outbounds
    <2>1. outbounds' = outbounds
      BY <1>1, <1>5
    <2>2. Candidates' = Candidates
      BY <2>1 DEF Candidates
    <2> QED BY <1>1, <1>3, <2>1, <2>2, FinishKeeps
  <1> QED BY <1>4, <1>5

LEMMA ResultNotSavedKeeps == ASSUME Inv, NEW s \in Slot, ResultNotSaved(s) PROVE Inv'
  <1>1. Finish(s) /\ UNCHANGED <<stored, runtime, works, change, batch, insync>>
    BY DEF ResultNotSaved
  <1>2. Candidates' = Candidates
    BY <1>1 DEF Candidates, stored
  <1> QED BY <1>1, <1>2, FinishKeeps DEF Inv, KnownRows, stored

LEMMA BatchKeeps == ASSUME Inv, StartBatch \/ EndBatch PROVE Inv'
  <1>1. /\ UNCHANGED <<stored, runtime, works, change, insync, settled>>
        /\ batch' \in BOOLEAN
        /\ probe' \in [Slot -> Probing \cup {Idle, Queued}]
        /\ \A s \in Slot : probe'[s] \in {probe[s], Queued}
    BY DEF Inv, TypeOK, StartBatch, EndBatch
  <1>2. TypeOK'
    BY <1>1 DEF Inv, TypeOK, stored
  <1>3. KnownRows' /\ Pending'
    BY <1>1, RowsKept DEF Inv, stored
  <1>4. InSync'
    <2>1. Candidates' = Candidates /\ inbounds' = inbounds
      BY <1>1 DEF Candidates, stored
    <2>2. EnoughPorts' <=> EnoughPorts
      BY <2>1, SameNumbers
    <2>3. \A x : PortOf(x)' = PortOf(x)
      BY <2>1, SameNumbers
    <2>4. ASSUME NEW x \in settled', probe'[x].at \in {"asking", "answered"}
          PROVE  /\ probe'[x].o \in Candidates'
                 /\ probe'[x].port = PortOf(probe[x].o)'
                 /\ probe'[x].at = "answered" => probe'[x].via = probe'[x].o
      <3>1. x \in settled /\ x \in Slot
        BY <1>1 DEF Inv, TypeOK
      <3>2. probe'[x] = probe[x]
        BY <1>1, <2>4, <3>1 DEF Queued
      <3>3. /\ probe[x].o \in Candidates
            /\ probe[x].port = PortOf(probe[x].o)
            /\ probe[x].at = "answered" => probe[x].via = probe[x].o
        BY <2>4, <3>1, <3>2 DEF Inv, InSync
      <3>4. PortOf(probe[x].o)' = PortOf(probe[x].o)
        BY <2>3, <3>2
      <3> QED BY <2>1, <3>2, <3>3, <3>4
    <2>5. (insync => EnoughPorts /\ \A x \in Candidates : runtime[PortOf(x)] = x)'
      BY <1>1, <2>1, <2>2, <2>3 DEF Inv, InSync
    <2>6. (settled # {} => insync)'
      BY <1>1 DEF Inv, InSync
    <2> QED BY <2>4, <2>5, <2>6 DEF InSync
  <1> QED BY <1>2, <1>3, <1>4 DEF Inv

LEMMA QuietKeeps ==
  ASSUME Inv, UNCHANGED vars \/ \E o \in Outbound : WorldChanges(o)
  PROVE  Inv'
  <1>1. /\ UNCHANGED <<outbounds, inbounds, usable, issued>>
        /\ UNCHANGED <<runtime, change, probe, batch, insync, settled>>
        /\ works' \in [Outbound -> BOOLEAN]
    BY DEF Inv, TypeOK, vars, stored, WorldChanges
  <1>2. TypeOK'
    BY <1>1 DEF Inv, TypeOK
  <1>3. KnownRows' /\ Pending'
    BY <1>1, RowsKept DEF Inv
  <1>4. Candidates' = Candidates
    BY <1>1 DEF Candidates
  <1>5. InSync'
    BY <1>1, <1>4, InSyncKept DEF Inv
  <1> QED BY <1>2, <1>3, <1>5 DEF Inv

LEMMA StepKeeps == ASSUME Inv, [Next]_vars PROVE Inv'
  <1>1. ASSUME NEW s \in Request, NEW o \in Outbound, RequestProbe(s, o) PROVE Inv'
    BY <1>1, ReadRowsKeeps DEF RequestProbe, Slot
  <1>2. ASSUME NEW o \in Outbound, BatchProbe(o) PROVE Inv'
    BY <1>2, ReadRowsKeeps DEF BatchProbe, Slot
  <1> QED
    BY <1>1, <1>2, AdminKeeps, AppliedKeeps, DeployFailsKeeps, MeasureKeeps, StoreResultKeeps,
       ResultNotSavedKeeps, BatchKeeps, QuietKeeps, RestartKeeps DEF Next

-----------------------------------------------------------------------------
(* The theorems                                                             *)

(* The invariant that the properties rest on: rows agree with their failure *)
(* counts, a transaction can be undone, and in sync every candidate is      *)
(* behind the port that a probe computes for it.                            *)
THEOREM InvCorrect == Spec => []Inv
  BY InitInv, StepKeeps, PTL DEF Spec

(* Rows, probes, ports and the transaction under way have the values that   *)
(* State and the goroutines' variables may have.                            *)
THEOREM TypeCorrect == Spec => []TypeOK
  <1>1. Inv => TypeOK
    BY DEF Inv
  <1> QED BY <1>1, InvCorrect, PTL

(* Whatever results come late or out of order, and whatever is rolled back, *)
(* a row's status and its failure count agree.                              *)
THEOREM StatusCorrect == Spec => []StatusFitsFailures
  <1>1. Inv => StatusFitsFailures
    BY RowsRead DEF Inv, KnownRows, StatusFitsFailures, GoodRow
  <1> QED BY <1>1, InvCorrect, PTL

(* A probe undisturbed since it read rows in sync has measured the outbound *)
(* that its result is recorded for.                                         *)
THEOREM MeasuredCorrect == Spec => []MeasuredAsConfigured
  <1>1. Inv => MeasuredAsConfigured
    BY DEF Inv, InSync, MeasuredAsConfigured
  <1> QED BY <1>1, InvCorrect, PTL
=============================================================================
