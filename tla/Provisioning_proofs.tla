------------------------- MODULE Provisioning_proofs -------------------------
(***************************************************************************)
(* Devices and their addresses: what the panel gives out without knowing   *)
(* of an overlap is never given twice, nor more of it than a user may      *)
(* have.  Forwards, devices and tunnels: what the panel says of one is so  *)
(* on the nodes, unless an answer was lost or requests overlap.  All this  *)
(* for any number of requests, users, devices, addresses and names.        *)
(***************************************************************************)
EXTENDS Provisioning, FiniteSetTheorems, TLAPS

Creations == {"addPeer", "recordPeer"}
Creating(r) == job[r].at \in Creations

Creation == [at : Creations, touch : SUBSET (Resource \cup User \cup Address \cup {"addresses"}),
             p : Peer, u : User, a : Address]

(* Rows and jobs have the fields that are asked of them.                    *)
RowShape ==
  /\ DOMAIN peers = Peer
  /\ \A p \in Peer : peers[p] # None => {"user", "address"} \subseteq DOMAIN peers[p]

JobShape ==
  /\ DOMAIN job = Request
  /\ \A r \in Request : "at" \in DOMAIN job[r]
  /\ \A r \in Request : Creating(r) =>
       job[r] \in Creation /\ {job[r].p, "addresses"} \subseteq job[r].touch

(* A device that has a row, or will have one, has an identifier of its own. *)
Identified ==
  /\ \A p \in Peer : peers[p] # None => p \in used
  /\ \A r \in Request : Creating(r) => job[r].p \in used /\ peers[job[r].p] = None
  /\ \A r, q \in Request : Creating(r) /\ Creating(q) /\ r # q => job[r].p # job[q].p

(* Two creations at a time are known to clash.                              *)
ClashKnown ==
  \A r, q \in Request : Creating(r) /\ Creating(q) /\ r # q =>
    job[r].p \in unsure /\ job[q].p \in unsure

(* What a creation has checked holds until it is recorded.                  *)
CheckHolds ==
  \A r \in Request : Creating(r) /\ job[r].p \notin unsure =>
    /\ \A q \in Peer \ unsure : peers[q] # None => peers[q].address # job[r].a
    /\ Cardinality(PeersOf(job[r].u) \ unsure) < DeviceLimit

Inv == RowShape /\ JobShape /\ Identified /\ ClashKnown /\ CheckHolds /\ AllocationHolds

-----------------------------------------------------------------------------
(* A step that begins no creation, and forgets nothing.                     *)
Quiet ==
  \A q \in Request : Creating(q)' =>
    Creating(q) /\ job'[q].p = job[q].p /\ job'[q].u = job[q].u /\ job'[q].a = job[q].a

Grows == unsure \subseteq unsure' /\ used \subseteq used'

(* Rows may go or be switched, not appear or change hands.                  *)
RowsKept ==
  /\ DOMAIN peers' = Peer
  /\ \A p \in Peer : peers'[p] # None =>
       /\ peers[p] # None /\ {"user", "address"} \subseteq DOMAIN peers'[p]
       /\ peers'[p].user = peers[p].user /\ peers'[p].address = peers[p].address

(* Sets of devices are finite.                                              *)
LEMMA Devices ==
  ASSUME NEW S \in SUBSET Peer, NEW T \in SUBSET S
  PROVE  /\ IsFiniteSet(S) /\ Cardinality(S) \in Nat /\ Cardinality(T) \in Nat
         /\ Cardinality(T) <= Cardinality(S)
<1>1. IsFiniteSet(S)
  BY ProvisioningAssumption, FS_Subset
<1>2. IsFiniteSet(T) /\ Cardinality(T) <= Cardinality(S)
  BY <1>1, FS_Subset
<1>. QED  BY <1>1, <1>2, FS_CardinalityType

(* The job of one request changes.                                          *)
LEMMA JobTo ==
  ASSUME JobShape, NEW r \in Request, NEW j, "at" \in DOMAIN j, j.at \notin Creations,
         job' = [job EXCEPT ![r] = j]
  PROVE  JobShape' /\ Quiet
<1>1. DOMAIN job' = Request /\ \A q \in Request : job'[q] = IF q = r THEN j ELSE job[q]
  BY DEF JobShape
<1>. QED  BY <1>1 DEF JobShape, Quiet, Creating

LEMMA GotoQuiet ==
  ASSUME JobShape, NEW r \in Request, NEW at, at \notin Creations, Goto(r, at)
  PROVE  JobShape' /\ Quiet
<1> DEFINE j == [job[r] EXCEPT !.at = at]
<1>1. "at" \in DOMAIN j /\ j.at = at
  BY DEF JobShape
<1>2. job' = [job EXCEPT ![r] = j]
  BY DEF Goto
<1>. HIDE DEF j
<1>. QED  BY <1>1, <1>2, JobTo

LEMMA ReturnQuiet ==
  ASSUME JobShape, NEW r \in Request, Return(r)
  PROVE  JobShape' /\ Quiet
<1>1. "at" \in DOMAIN Idle /\ Idle.at \notin Creations
  BY DEF Idle, Creations
<1>2. job' = [job EXCEPT ![r] = Idle]
  BY DEF Return
<1>. QED  BY <1>1, <1>2, JobTo

LEMMA BeginQuiet ==
  ASSUME JobShape, NEW r \in Request, NEW j, "at" \in DOMAIN j, j.at \notin Creations, Begin(r, j)
  PROVE  JobShape' /\ Quiet /\ peers' = peers
BY JobTo DEF Begin, rows

(* A quiet step keeps the invariant.                                        *)
LEMMA QuietKeeps ==
  ASSUME Inv, JobShape', Quiet, Grows, RowsKept
  PROVE  Inv'
<1>1. RowShape'
  BY DEF RowsKept, RowShape
<1>2. Identified'
  <2>1. \A p \in Peer : peers'[p] # None => p \in used'
    BY DEF Identified, Inv, RowsKept, Grows
  <2>2. \A r \in Request : Creating(r)' => job'[r].p \in used' /\ peers'[job'[r].p] = None
    <3>1. \A r \in Request : Creating(r) => job[r].p \in Peer
      BY DEF Inv, JobShape, Creation
    <3>. QED  BY <3>1 DEF Identified, Inv, RowsKept, Quiet, Grows
  <2>3. \A r, q \in Request : Creating(r)' /\ Creating(q)' /\ r # q => job'[r].p # job'[q].p
    BY DEF Identified, Inv, Quiet
  <2>. QED  BY <2>1, <2>2, <2>3 DEF Identified
<1>3. ClashKnown'
  BY DEF ClashKnown, Inv, Quiet, Grows
<1>4. \A u : (PeersOf(u) \ unsure)' \in SUBSET (PeersOf(u) \ unsure)
  BY DEF PeersOf, RowsKept, Grows
<1>5. \A u : /\ Cardinality(PeersOf(u) \ unsure) \in Nat
             /\ Cardinality((PeersOf(u) \ unsure)') \in Nat
             /\ Cardinality((PeersOf(u) \ unsure)') <= Cardinality(PeersOf(u) \ unsure)
  <2>1. \A u : PeersOf(u) \ unsure \in SUBSET Peer
    BY DEF PeersOf
  <2>. QED  BY <1>4, <2>1, Devices
<1>6. CheckHolds'
  <2> SUFFICES ASSUME NEW r \in Request, Creating(r)', job'[r].p \notin unsure'
               PROVE  /\ \A q \in Peer \ unsure' : peers'[q] # None => peers'[q].address # job'[r].a
                      /\ Cardinality((PeersOf(job[r].u) \ unsure)') < DeviceLimit
    BY DEF CheckHolds
  <2>1. /\ Creating(r) /\ job[r].p \notin unsure
        /\ job'[r].u = job[r].u /\ job'[r].a = job[r].a
    BY DEF Quiet, Grows
  <2>2. /\ \A q \in Peer \ unsure : peers[q] # None => peers[q].address # job[r].a
        /\ Cardinality(PeersOf(job[r].u) \ unsure) < DeviceLimit
    BY <2>1 DEF Inv, CheckHolds
  <2>3. \A q \in Peer \ unsure' : peers'[q] # None => peers'[q].address # job'[r].a
    BY <2>1, <2>2 DEF RowsKept, Grows
  <2>4. (PeersOf(job[r].u) \ unsure)' \in SUBSET (PeersOf(job[r].u) \ unsure)
    BY <2>1 DEF PeersOf, RowsKept, Grows
  <2>5. Cardinality((PeersOf(job[r].u) \ unsure)') <= Cardinality(PeersOf(job[r].u) \ unsure)
        /\ Cardinality((PeersOf(job[r].u) \ unsure)') \in Nat
        /\ Cardinality(PeersOf(job[r].u) \ unsure) \in Nat
    <3>1. PeersOf(job[r].u) \ unsure \in SUBSET Peer
      BY DEF PeersOf
    <3>. QED  BY <2>4, <3>1, Devices
  <2>. QED  BY <2>2, <2>3, <2>5, ProvisioningAssumption
<1>7. AllocationHolds'
  <2>1. \A p, q \in Peer \ unsure' :
          p # q /\ peers'[p] # None /\ peers'[q] # None => peers'[p].address # peers'[q].address
    BY DEF Inv, AllocationHolds, RowsKept, Grows
  <2>2. \A u \in User : Cardinality((PeersOf(u) \ unsure)') <= DeviceLimit
    <3> SUFFICES ASSUME NEW u \in User PROVE Cardinality((PeersOf(u) \ unsure)') <= DeviceLimit
      OBVIOUS
    <3>1. Cardinality(PeersOf(u) \ unsure) <= DeviceLimit
      BY DEF Inv, AllocationHolds
    <3>. QED  BY <1>5, <3>1, ProvisioningAssumption
  <2>. QED  BY <2>1, <2>2 DEF AllocationHolds
<1>. QED  BY <1>1, <1>2, <1>3, <1>6, <1>7 DEF Inv

-----------------------------------------------------------------------------
(* Tunnels and forwards, restarts: devices are left alone.                  *)
LEMMA OthersQuiet ==
  ASSUME Inv, NEW r \in Request,
         \/ \E t \in Tunnel, n \in Name : createTunnel(r, t, n)
         \/ \E t \in Tunnel, act \in Action : tunnelAction(r, t, act)
         \/ \E t \in Tunnel : deleteTunnel(r, t)
         \/ \E f \in Forward, d \in Dest : handleForwards(r, f, d)
         \/ \E f \in Forward : handleForwardItem(r, f)
         \/ \E u \in User : deleteUser(r, u)
  PROVE  Inv'
<1> USE DEF Creations
<1>0. JobShape /\ RowShape
  BY DEF Inv
<1>1. ASSUME NEW t \in Tunnel, NEW n \in Name, createTunnel(r, t, n)
      PROVE  JobShape' /\ Quiet /\ peers' = peers /\ Grows
  BY <1>0, <1>1, BeginQuiet DEF createTunnel, New, Grows
<1>2. ASSUME NEW t \in Tunnel, NEW act \in Action, tunnelAction(r, t, act)
      PROVE  JobShape' /\ Quiet /\ peers' = peers /\ Grows
  BY <1>0, <1>2, BeginQuiet DEF tunnelAction, Grows
<1>3. ASSUME NEW t \in Tunnel, deleteTunnel(r, t)
      PROVE  JobShape' /\ Quiet /\ peers' = peers /\ Grows
  BY <1>0, <1>3, BeginQuiet DEF deleteTunnel, Grows
<1>4. ASSUME NEW f \in Forward, NEW d \in Dest, handleForwards(r, f, d)
      PROVE  JobShape' /\ Quiet /\ peers' = peers /\ Grows
  BY <1>0, <1>4, BeginQuiet DEF handleForwards, New, Grows
<1>5. ASSUME NEW f \in Forward, handleForwardItem(r, f)
      PROVE  JobShape' /\ Quiet /\ peers' = peers /\ Grows
  BY <1>0, <1>5, BeginQuiet DEF handleForwardItem, Grows
<1>6. ASSUME NEW u \in User, deleteUser(r, u)
      PROVE  JobShape' /\ Quiet /\ peers' = peers /\ Grows
  BY <1>0, <1>6, BeginQuiet DEF deleteUser, Grows
<1>7. JobShape' /\ Quiet /\ peers' = peers /\ Grows
  BY <1>1, <1>2, <1>3, <1>4, <1>5, <1>6
<1>8. RowsKept
  BY <1>0, <1>7 DEF RowsKept, RowShape
<1>. QED  BY <1>7, <1>8, QuietKeeps

(* What an end answers is noted in the job, whichever it is.                *)
Noted(r, next) ==
  \E failed : job' = [job EXCEPT ![r] = [@ EXCEPT !.at = next, !.failed = failed]]

LEMMA ActNotes ==
  ASSUME NEW r, NEW e, NEW from, NEW next, ActAt(r, e, from, next)
  PROVE  Noted(r, next)
<1>1. \/ job' = [job EXCEPT ![r] = [@ EXCEPT !.at = next, !.failed = job[r].failed]]
      \/ job' = [job EXCEPT ![r] = [@ EXCEPT !.at = next, !.failed = TRUE]]
  BY DEF ActAt
<1>. QED  BY <1>1, Zenon DEF Noted

LEMMA StepsQuiet ==
  ASSUME Inv, NEW r \in Request,
         \/ CreateAtDestination(r) \/ CreateAtSource(r) \/ UndoDestination(r) \/ AddTunnel(r)
         \/ ActAtSource(r) \/ ActAtDestination(r) \/ SetStatus(r)
         \/ DeleteAtSource(r) \/ DeleteAtDestination(r) \/ DropTunnel(r)
         \/ InstallForward(r) \/ AddForward(r) \/ UninstallForward(r) \/ DropForward(r)
         \/ setRemotePeerEnabled(r) \/ deleteRemotePeer(r)
  PROVE  Inv'
<1> USE DEF Well, Fault, rows
<1>0. JobShape /\ RowShape
  BY DEF Inv
<1>a. \A at : at \notin Creations /\ Goto(r, at) => JobShape' /\ Quiet
  BY <1>0, GotoQuiet
<1>b. Return(r) => JobShape' /\ Quiet
  BY <1>0, ReturnQuiet
<1>c. \A at \in {"createSrc", "addTunnel", "undoDst", "delDst", "dropTunnel", "actDst",
                 "setStatus", "addForward", "dropForward", "revertPeer", "removePeers"} :
        at \notin Creations
  BY DEF Creations
<1> DEFINE Good == JobShape' /\ Quiet /\ peers' = peers /\ Grows
<1>1. CreateAtDestination(r) => Good
  BY <1>a, <1>b, <1>c DEF CreateAtDestination, CreateEnd, Grows
<1>2. CreateAtSource(r) => Good
  BY <1>a, <1>b, <1>c DEF CreateAtSource, CreateEnd, Grows
<1>3. UndoDestination(r) => Good
  BY <1>b DEF UndoDestination, DeleteEnd, Grows
<1>4. AddTunnel(r) => Good
  BY <1>b DEF AddTunnel, Grows
<1>5. ASSUME NEW e, NEW from, NEW next, next \notin Creations, ActAt(r, e, from, next)
      PROVE  Good
  <2>0. Noted(r, next)
    BY <1>5, ActNotes
  <2>1. PICK failed : job' = [job EXCEPT ![r] = [@ EXCEPT !.at = next, !.failed = failed]]
    BY <2>0, Zenon DEF Noted
  <2> DEFINE j == [job[r] EXCEPT !.at = next, !.failed = failed]
  <2>2. "at" \in DOMAIN j /\ j.at = next
    BY <1>0 DEF JobShape
  <2>3. job' = [job EXCEPT ![r] = j]
    BY <2>1
  <2>. HIDE DEF j
  <2>4. JobShape' /\ Quiet
    BY <1>0, <1>5, <2>2, <2>3, JobTo
  <2>5. peers' = peers /\ Grows
    BY <1>5 DEF ActAt, Grows
  <2>. QED  BY <2>4, <2>5
<1>6. ActAtSource(r) \/ ActAtDestination(r) => Good
  <2>. HIDE DEF Good
  <2>. QED  BY <1>c, <1>5 DEF ActAtSource, ActAtDestination
<1>7. SetStatus(r) => Good
  BY <1>b DEF SetStatus, Grows
<1>8. DeleteAtSource(r) => Good
  BY <1>a, <1>c DEF DeleteAtSource, DeleteEnd, Grows
<1>9. DeleteAtDestination(r) => Good
  BY <1>a, <1>c DEF DeleteAtDestination, DeleteEnd, Grows
<1>10. DropTunnel(r) => Good
  BY <1>b DEF DropTunnel, Grows
<1>11. InstallForward(r) => Good
  BY <1>a, <1>b, <1>c DEF InstallForward, Grows
<1>12. AddForward(r) => Good
  BY <1>b DEF AddForward, Grows
<1>13. UninstallForward(r) => Good
  BY <1>a, <1>c DEF UninstallForward, Grows
<1>14. DropForward(r) => Good
  BY <1>b DEF DropForward, Grows
<1>15. setRemotePeerEnabled(r) => Good
  BY <1>a, <1>b, <1>c DEF setRemotePeerEnabled, Saved, Grows
<1>16. deleteRemotePeer(r) => Good
  <2> SUFFICES ASSUME deleteRemotePeer(r) PROVE Good
    OBVIOUS
  <2>1. PICK p : job' = [job EXCEPT ![r].todo = @ \ {p}]
    BY DEF deleteRemotePeer
  <2> DEFINE j == [job[r] EXCEPT !.todo = @ \ {p}]
  <2>2. "at" \in DOMAIN j /\ j.at = "removePeers"
    BY <1>0 DEF JobShape, deleteRemotePeer
  <2>3. job' = [job EXCEPT ![r] = j]
    BY <2>1
  <2>. HIDE DEF j
  <2>4. JobShape' /\ Quiet
    BY <1>0, <1>c, <2>2, <2>3, JobTo
  <2>5. peers' = peers /\ Grows
    BY DEF deleteRemotePeer, Saved, Grows
  <2>. QED  BY <2>4, <2>5
<1>17. Good
  <2>. HIDE DEF Good
  <2>. QED  BY <1>1, <1>2, <1>3, <1>4, <1>6, <1>7, <1>8, <1>9, <1>10, <1>11, <1>12, <1>13,
               <1>14, <1>15, <1>16
<1>18. RowsKept
  BY <1>0, <1>17 DEF RowsKept, RowShape
<1>. QED  BY <1>17, <1>18, QuietKeeps

-----------------------------------------------------------------------------
(* Devices *)

(* Switching a device, and putting its row back, keep its owner and address.*)
LEMMA SwitchKeeps ==
  ASSUME RowShape, NEW p, NEW on, peers[p] # None, peers' = [peers EXCEPT ![p].enabled = on]
  PROVE  RowsKept
<1>1. DOMAIN peers' = Peer /\ \A q \in Peer : q # p => peers'[q] = peers[q]
  BY DEF RowShape
<1>2. ASSUME p \in Peer
      PROVE  /\ {"user", "address"} \subseteq DOMAIN peers'[p]
             /\ peers'[p].user = peers[p].user /\ peers'[p].address = peers[p].address
  <2> DEFINE row == [peers[p] EXCEPT !.enabled = on]
  <2>1. peers'[p] = row
    BY <1>2 DEF RowShape
  <2>2. {"user", "address"} \subseteq DOMAIN peers[p]
    BY <1>2 DEF RowShape
  <2>3. /\ {"user", "address"} \subseteq DOMAIN row
        /\ row.user = peers[p].user /\ row.address = peers[p].address
    BY <2>2
  <2>. HIDE DEF row
  <2>. QED  BY <2>1, <2>3
<1>3. \A q \in Peer : peers'[q] # None =>
        /\ peers[q] # None /\ {"user", "address"} \subseteq DOMAIN peers'[q]
        /\ peers'[q].user = peers[q].user /\ peers'[q].address = peers[q].address
  BY <1>1, <1>2 DEF RowShape
<1>. QED  BY <1>1, <1>3 DEF RowsKept

(* So does leaving the rows alone.                                          *)
LEMMA SameKeeps == ASSUME RowShape, peers' = peers PROVE RowsKept
BY DEF RowsKept, RowShape

LEMMA enforceKeeps == ASSUME Inv, NEW r \in Request, NEW p \in Peer, enforceUserPolicies(r, p)
                      PROVE Inv'
<1>0. JobShape /\ RowShape
  BY DEF Inv
<1>1. PICK on, touch, a :
        /\ peers' = [peers EXCEPT ![p].enabled = on]
        /\ job' = [job EXCEPT ![r] = [at |-> "setPeer", touch |-> touch, p |-> p, a |-> a,
                                      on |-> on]]
        /\ unsure' = unsure \cup Clashing(touch)
  BY DEF enforceUserPolicies
<1>2. peers[p] # None /\ used' = used
  BY DEF enforceUserPolicies
<1> DEFINE j == [at |-> "setPeer", touch |-> touch, p |-> p, a |-> a, on |-> on]
<1>3. "at" \in DOMAIN j /\ j.at \notin Creations
  BY DEF Creations
<1>. HIDE DEF j
<1>4. JobShape' /\ Quiet
  BY <1>0, <1>1, <1>3, JobTo DEF j
<1>5. Grows
  BY <1>1, <1>2 DEF Grows
<1>6. RowsKept
  BY <1>0, <1>1, <1>2, SwitchKeeps
<1>. QED  BY <1>4, <1>5, <1>6, QuietKeeps

LEMMA RevertKeeps == ASSUME Inv, NEW r \in Request, RevertPeer(r) PROVE Inv'
<1>0. JobShape /\ RowShape
  BY DEF Inv
<1>1. JobShape' /\ Quiet
  BY <1>0, ReturnQuiet DEF RevertPeer
<1>2. Grows
  BY DEF RevertPeer, Grows, Well, Fault
<1>3. \/ peers' = peers
      \/ peers[job[r].p] # None /\ peers' = [peers EXCEPT ![job[r].p].enabled = ~job[r].on]
  BY DEF RevertPeer
<1>4. RowsKept
  BY <1>0, <1>3, SwitchKeeps, SameKeeps
<1>. QED  BY <1>1, <1>2, <1>4, QuietKeeps

LEMMA DropUserKeeps == ASSUME Inv, NEW r \in Request, DropUser(r) PROVE Inv'
<1>0. JobShape /\ RowShape
  BY DEF Inv
<1>1. JobShape' /\ Quiet
  BY <1>0, ReturnQuiet DEF DropUser
<1>2. Grows
  BY DEF DropUser, Grows, Well, Fault
<1>3. RowsKept
  BY <1>0 DEF DropUser, RowsKept, RowShape
<1>. QED  BY <1>1, <1>2, <1>3, QuietKeeps

(* The node has the device: the creation goes on with what it was about.    *)
LEMMA AddPeerKeeps == ASSUME Inv, NEW r \in Request, AddPeer(r) PROVE Inv'
<1>0. JobShape /\ RowShape
  BY DEF Inv
<1>1. ASSUME Goto(r, "recordPeer")
      PROVE  JobShape' /\ Quiet
  <2>1. Creating(r) /\ job[r] \in Creation
    BY <1>0 DEF AddPeer, JobShape, Creating, Creations
  <2> DEFINE j == [job[r] EXCEPT !.at = "recordPeer"]
  <2>2. /\ j \in Creation /\ "at" \in DOMAIN j
        /\ j.touch = job[r].touch /\ j.p = job[r].p /\ j.u = job[r].u /\ j.a = job[r].a
    BY <2>1 DEF Creation, Creations
  <2>3. job' = [job EXCEPT ![r] = j]
    BY <1>1 DEF Goto
  <2>. HIDE DEF j
  <2>4. DOMAIN job' = Request /\ \A q \in Request : job'[q] = IF q = r THEN j ELSE job[q]
    BY <1>0, <2>3 DEF JobShape
  <2>. QED  BY <1>0, <2>1, <2>2, <2>4 DEF JobShape, Quiet, Creating
<1>2. JobShape' /\ Quiet
  BY <1>0, <1>1, ReturnQuiet DEF AddPeer
<1>3. Grows /\ peers' = peers
  BY DEF AddPeer, Saved, Grows, Well, Fault, rows
<1>. QED  BY <1>0, <1>2, <1>3, SameKeeps, QuietKeeps

(* A creation begins: it clashes with every other one.                      *)
LEMMA CreateKeeps ==
  ASSUME Inv, NEW r \in Request, NEW p \in Peer, NEW u \in User, NEW a \in Address,
         createWGPeer(r, p, u, a)
  PROVE  Inv'
<1> DEFINE touch == {p, u, a, "addresses"}
           j == [at |-> "addPeer", touch |-> touch, p |-> p, u |-> u, a |-> a]
<1>0. JobShape /\ RowShape /\ Identified /\ ClashKnown /\ CheckHolds /\ AllocationHolds
  BY DEF Inv
<1>1. /\ p \notin used /\ used' = used \cup {p}
      /\ unsure' = unsure \cup Clashing(touch) /\ peers' = peers
      /\ job' = [job EXCEPT ![r] = j]
      /\ Cardinality(PeersOf(u)) < DeviceLimit /\ a \notin UsedAddresses(u)
  BY DEF createWGPeer, New, Begin, rows
<1>2. /\ j \in Creation /\ "at" \in DOMAIN j /\ j.touch = touch
      /\ j.p = p /\ j.u = u /\ j.a = a /\ j.at \in Creations
  BY DEF Creation, Creations, Resource
<1>3. touch \subseteq Resource \cup touch /\ {p, "addresses"} \subseteq touch /\ p \in Resource
  BY DEF Resource
<1>4. ASSUME NEW q \in Request, Creating(q)
      PROVE  {p, job[q].p} \subseteq Clashing(touch)
  <2>1. job[q] # Idle /\ job[q].touch \cap touch # {}
    BY <1>0, <1>4 DEF JobShape, Creating, Creations, Idle
  <2>2. job[q].p \in job[q].touch /\ job[q].p \in Resource
    BY <1>0, <1>4 DEF JobShape, Creation, Resource
  <2>. QED  BY <1>3, <2>1, <2>2 DEF Clashing
<1>. HIDE DEF j, touch
<1>5. /\ DOMAIN job' = Request /\ job'[r] = j
      /\ \A q \in Request : q # r => job'[q] = job[q]
  BY <1>0, <1>1 DEF JobShape
<1>6. JobShape'
  BY <1>0, <1>2, <1>3, <1>5 DEF JobShape, Creating
<1>7. RowShape'
  BY <1>0, <1>1 DEF RowShape
<1>8. Identified'
  BY <1>0, <1>1, <1>2, <1>5 DEF Identified, Creating
<1>9. ClashKnown'
  BY <1>0, <1>1, <1>2, <1>4, <1>5 DEF ClashKnown, Creating
<1>10. \A x : /\ (PeersOf(x) \ unsure)' = PeersOf(x) \ unsure'
              /\ PeersOf(x) \ unsure' \in SUBSET (PeersOf(x) \ unsure)
              /\ PeersOf(x) \ unsure' \in SUBSET PeersOf(x)
              /\ PeersOf(x) \in SUBSET Peer /\ PeersOf(x) \ unsure \in SUBSET Peer
  BY <1>1 DEF PeersOf
<1>11. \A x : /\ Cardinality(PeersOf(x) \ unsure') \in Nat
              /\ Cardinality(PeersOf(x) \ unsure) \in Nat
              /\ Cardinality(PeersOf(x)) \in Nat
              /\ Cardinality(PeersOf(x) \ unsure') <= Cardinality(PeersOf(x) \ unsure)
              /\ Cardinality(PeersOf(x) \ unsure') <= Cardinality(PeersOf(x))
  BY <1>10, Devices
<1>12. CheckHolds'
  <2> SUFFICES ASSUME NEW q \in Request, Creating(q)', job'[q].p \notin unsure'
               PROVE  /\ \A x \in Peer \ unsure' : peers'[x] # None => peers'[x].address # job'[q].a
                      /\ Cardinality(PeersOf(job'[q].u) \ unsure') < DeviceLimit
    BY <1>1 DEF CheckHolds, PeersOf
  <2>1. CASE q = r
    <3>1. \A x \in Peer : peers[x] # None => peers[x].address # a
      BY <1>1 DEF UsedAddresses
    <3>2. Cardinality(PeersOf(u) \ unsure') < DeviceLimit
      <4>1. Cardinality(PeersOf(u)) < DeviceLimit
        BY <1>1
      <4>2. /\ Cardinality(PeersOf(u) \ unsure') \in Nat /\ Cardinality(PeersOf(u)) \in Nat
            /\ Cardinality(PeersOf(u) \ unsure') <= Cardinality(PeersOf(u))
        BY <1>11
      <4>. QED  BY <4>1, <4>2, ProvisioningAssumption
    <3>. QED  BY <1>1, <1>2, <1>5, <2>1, <3>1, <3>2
  <2>2. CASE q # r
    <3>1. Creating(q) /\ job'[q] = job[q] /\ job[q].p \notin unsure
      BY <1>1, <1>5, <2>2 DEF Creating
    <3>2. /\ \A x \in Peer \ unsure : peers[x] # None => peers[x].address # job[q].a
          /\ Cardinality(PeersOf(job[q].u) \ unsure) < DeviceLimit
      BY <1>0, <3>1 DEF CheckHolds
    <3>3. Cardinality(PeersOf(job[q].u) \ unsure') < DeviceLimit
      <4>1. LET x == job[q].u
            IN  /\ Cardinality(PeersOf(x) \ unsure') \in Nat
                /\ Cardinality(PeersOf(x) \ unsure) \in Nat
                /\ Cardinality(PeersOf(x) \ unsure') <= Cardinality(PeersOf(x) \ unsure)
        BY <1>11
      <4>. QED  BY <3>2, <4>1, ProvisioningAssumption
    <3>4. \A x \in Peer \ unsure' : peers[x] # None => peers[x].address # job[q].a
      BY <1>1, <3>2
    <3>. QED  BY <1>1, <3>1, <3>3, <3>4
  <2>. QED  BY <2>1, <2>2
<1>13. AllocationHolds'
  <2>1. \A x, y \in Peer \ unsure' :
          x # y /\ peers'[x] # None /\ peers'[y] # None => peers'[x].address # peers'[y].address
    BY <1>0, <1>1 DEF AllocationHolds
  <2>2. ASSUME NEW x \in User PROVE Cardinality((PeersOf(x) \ unsure)') <= DeviceLimit
    <3>1. Cardinality(PeersOf(x) \ unsure) <= DeviceLimit
      BY <1>0 DEF AllocationHolds
    <3>. QED  BY <1>10, <1>11, <3>1, ProvisioningAssumption
  <2>. QED  BY <2>1, <2>2 DEF AllocationHolds
<1>. QED  BY <1>6, <1>7, <1>8, <1>9, <1>12, <1>13 DEF Inv

(* A creation ends: what it has checked has held.                           *)
LEMMA RecordKeeps == ASSUME Inv, NEW r \in Request, RecordPeer(r) PROVE Inv'
<1> DEFINE p == job[r].p
           row == [user |-> job[r].u, address |-> job[r].a, enabled |-> TRUE]
<1>0. JobShape /\ RowShape /\ Identified /\ ClashKnown /\ CheckHolds /\ AllocationHolds
  BY DEF Inv
<1>1. Creating(r) /\ p \in Peer /\ p \in used /\ peers[p] = None
  BY <1>0 DEF RecordPeer, Creating, Creations, JobShape, Creation, Identified
<1>2. JobShape' /\ Quiet
  BY <1>0, ReturnQuiet DEF RecordPeer
<1>3. used' = used /\ unsure \subseteq unsure'
  BY DEF RecordPeer, Well, Fault
<1>4. CASE peers' = peers
  BY <1>0, <1>2, <1>3, <1>4, SameKeeps, QuietKeeps DEF Grows
<1>5. CASE peers' = [peers EXCEPT ![p] = row] /\ unsure' = unsure
  <2>0. ~Creating(r)'
    BY <1>0 DEF RecordPeer, Return, Creating, Idle, Creations, JobShape
  <2>1. /\ row.user = job[r].u /\ row.address = job[r].a
        /\ {"user", "address"} \subseteq DOMAIN row
    OBVIOUS
  <2>. HIDE DEF row, p
  <2>2. /\ DOMAIN peers' = Peer /\ peers'[p] = row
        /\ \A x \in Peer : x # p => peers'[x] = peers[x]
    BY <1>0, <1>1, <1>5 DEF RowShape
  <2>3. RowShape'
    BY <1>0, <2>1, <2>2 DEF RowShape
  <2>4. ASSUME NEW q \in Request, Creating(q)'
        PROVE  /\ q # r /\ Creating(q) /\ job'[q].p = job[q].p
               /\ job[q].p # p /\ job[q].p \in unsure /\ job[q].p \in Peer
    BY <1>0, <1>1, <1>2, <2>0, <2>4 DEF Quiet, Identified, ClashKnown, JobShape, Creation, p
  <2>5. Identified'
    <3>1. \A x \in Peer : peers'[x] # None => x \in used'
      BY <1>0, <1>1, <1>3, <2>2 DEF Identified
    <3>2. \A q \in Request : Creating(q)' => job'[q].p \in used' /\ peers'[job'[q].p] = None
      BY <1>0, <1>3, <2>2, <2>4 DEF Identified
    <3>3. \A q, x \in Request : Creating(q)' /\ Creating(x)' /\ q # x => job'[q].p # job'[x].p
      BY <1>0, <2>4 DEF Identified
    <3>. QED  BY <3>1, <3>2, <3>3 DEF Identified
  <2>6. ClashKnown' /\ CheckHolds'
    BY <1>5, <2>4 DEF ClashKnown, CheckHolds
  <2>7. AllocationHolds'
    <3>1. CASE p \in unsure
      <4>1. \A x \in Peer \ unsure : peers'[x] = peers[x]
        BY <2>2, <3>1
      <4>2. \A u : (PeersOf(u) \ unsure)' = PeersOf(u) \ unsure
        BY <1>5, <4>1 DEF PeersOf
      <4>3. \A u \in User : Cardinality((PeersOf(u) \ unsure)') <= DeviceLimit
        BY <1>0, <4>2 DEF AllocationHolds
      <4>. QED  BY <1>0, <1>5, <4>1, <4>3 DEF AllocationHolds
    <3>2. CASE p \notin unsure
      <4>1. /\ \A q \in Peer \ unsure : peers[q] # None => peers[q].address # job[r].a
            /\ Cardinality(PeersOf(job[r].u) \ unsure) < DeviceLimit
        BY <1>0, <1>1, <3>2 DEF CheckHolds, p
      <4>2. \A x, y \in Peer \ unsure' :
              x # y /\ peers'[x] # None /\ peers'[y] # None =>
                peers'[x].address # peers'[y].address
        BY <1>0, <1>5, <2>1, <2>2, <4>1 DEF AllocationHolds
      <4>3. ASSUME NEW u \in User PROVE Cardinality((PeersOf(u) \ unsure)') <= DeviceLimit
        <5> DEFINE S == PeersOf(u) \ unsure
                   T == PeersOf(u)' \ unsure
        <5>1. T \in SUBSET (S \cup {p}) /\ S \cup {p} \in SUBSET Peer /\ S \in SUBSET Peer
          BY <1>1, <2>2 DEF PeersOf
        <5>2. u # job[r].u => T \in SUBSET S
          BY <2>1, <2>2 DEF PeersOf
        <5>3. Cardinality(S) <= DeviceLimit
          BY <1>0 DEF AllocationHolds
        <5>4. u = job[r].u => Cardinality(S) < DeviceLimit
          BY <4>1
        <5>. HIDE DEF S, T
        <5>5. /\ IsFiniteSet(S) /\ Cardinality(S) \in Nat
              /\ Cardinality(S \cup {p}) \in Nat /\ Cardinality(T) \in Nat
              /\ Cardinality(T) <= Cardinality(S \cup {p})
              /\ T \in SUBSET S => Cardinality(T) <= Cardinality(S)
          BY <5>1, Devices
        <5>6. Cardinality(S \cup {p}) <= Cardinality(S) + 1
          <6>1. Cardinality(S \cup {p}) \in {Cardinality(S), Cardinality(S) + 1}
            BY <5>5, FS_AddElement, Zenon
          <6>. QED  BY <5>5, <6>1
        <5>7. Cardinality(T) <= DeviceLimit
          BY <5>2, <5>3, <5>4, <5>5, <5>6, ProvisioningAssumption
        <5>. QED  BY <1>5, <5>7 DEF T
      <4>. QED  BY <4>2, <4>3 DEF AllocationHolds
    <3>. QED  BY <3>1, <3>2
  <2>. QED  BY <1>2, <2>3, <2>5, <2>6, <2>7 DEF Inv
<1>. QED  BY <1>4, <1>5 DEF RecordPeer, Well

-----------------------------------------------------------------------------
(* The model begins in the invariant, with no device.                       *)
LEMMA InitInv == Init => Inv
<1> SUFFICES ASSUME Init PROVE Inv
  OBVIOUS
<1>1. RowShape /\ JobShape /\ Identified /\ ClashKnown /\ CheckHolds
  BY DEF Init, RowShape, JobShape, Identified, ClashKnown, CheckHolds, Creating, Creations, Idle
<1>2. \A u : PeersOf(u) \ unsure = {}
  BY DEF Init, PeersOf
<1>3. AllocationHolds
  <2>1. Cardinality({}) <= DeviceLimit
    BY FS_EmptySet, ProvisioningAssumption
  <2>. QED  BY <1>2, <2>1 DEF Init, AllocationHolds
<1>. QED  BY <1>1, <1>3 DEF Inv

(* Every step keeps it.                                                     *)
LEMMA NextInv == Inv /\ [Next]_vars => Inv'
<1> SUFFICES ASSUME Inv, [Next]_vars PROVE Inv'
  OBVIOUS
<1>0. JobShape /\ RowShape
  BY DEF Inv
<1>1. ASSUME NEW r \in Request, NewRequest(r) PROVE Inv'
  BY <1>1, OthersQuiet, CreateKeeps, enforceKeeps DEF NewRequest
<1>2. ASSUME NEW r \in Request, RequestStep(r) PROVE Inv'
  BY <1>2, StepsQuiet, AddPeerKeeps, RecordKeeps, RevertKeeps, DropUserKeeps DEF RequestStep
<1>3. ASSUME NEW e \in End, NodeRestarts(e) PROVE Inv'
  <2>1. peers' = peers /\ job' = job /\ Grows
    BY <1>3 DEF NodeRestarts, Fault, Grows, rows
  <2>2. JobShape' /\ Quiet
    BY <1>0, <2>1 DEF JobShape, Quiet, Creating
  <2>. QED  BY <1>0, <2>1, <2>2, SameKeeps, QuietKeeps
<1>4. CASE PanelStops
  <2>1. peers' = peers /\ Grows /\ job' = [r \in Request |-> Idle]
    BY <1>4 DEF PanelStops, Fault, Grows, rows
  <2>2. JobShape' /\ Quiet
    BY <2>1 DEF JobShape, Quiet, Creating, Creations, Idle
  <2>. QED  BY <1>0, <2>1, <2>2, SameKeeps, QuietKeeps
<1>5. CASE UNCHANGED vars
  <2>1. peers' = peers /\ job' = job /\ Grows
    BY <1>5 DEF vars, rows, Grows
  <2>2. JobShape' /\ Quiet
    BY <1>0, <2>1 DEF JobShape, Quiet, Creating
  <2>. QED  BY <1>0, <2>1, <2>2, SameKeeps, QuietKeeps
<1>. QED  BY <1>1, <1>2, <1>3, <1>4, <1>5 DEF Next

(* createWGPeer checks limit and address, calls the agent twice, and only   *)
(* then records: as long as the panel knows of no overlap, no address is    *)
(* given twice and no user has more devices than he may.                    *)
THEOREM AllocationCorrect == Spec => []AllocationHolds
<1>1. Inv => AllocationHolds
  BY DEF Inv
<1>. QED  BY InitInv, NextInv, <1>1, PTL DEF Spec

-----------------------------------------------------------------------------
(* Forwards.  A request about one has done what its place says; alone, it   *)
(* finds what it left.                                                      *)
ForwardJobs == {"install", "addForward", "uninstall", "dropForward"}

ForwardJob ==
  [at : {"install", "addForward"}, touch : SUBSET Resource, f : Forward, d : Dest]
    \cup [at : {"uninstall", "dropForward"}, touch : SUBSET Resource, f : Forward]

On(r, f) == job[r].at \in ForwardJobs /\ job[r].f = f

(* The node has nothing of the forward; it has all of it, and would bring   *)
(* it back.                                                                 *)
Absent(f) == nat.file[f] = None /\ f \notin nat.script /\ <<"dnat", f>> \notin nat.rules
InForce(f, d) == nat.file[f] = d /\ f \in nat.script /\ Rules(f, d) \subseteq nat.rules

NatShape ==
  /\ nat = [rules |-> nat.rules, file |-> nat.file, script |-> nat.script]
  /\ DOMAIN nat.file = Forward /\ DOMAIN forwards = Forward

ForwardJobShape ==
  \A r \in Request : job[r].at \in ForwardJobs => job[r] \in ForwardJob /\ job[r].f \in job[r].touch

(* Only its own request is about a forward, and it is where it is.          *)
Alone(f) == \A r, q \in Request : On(r, f) /\ On(q, f) => r = q

Where(f) ==
  /\ (\A r \in Request : ~On(r, f)) =>
       IF forwards[f] = None THEN Absent(f) ELSE InForce(f, forwards[f])
  /\ \A r \in Request : On(r, f) =>
       /\ job[r].at = "install" => forwards[f] = None /\ Absent(f)
       /\ job[r].at = "addForward" => forwards[f] = None /\ InForce(f, job[r].d)
       /\ job[r].at = "uninstall" => forwards[f] # None /\ InForce(f, forwards[f])
       /\ job[r].at = "dropForward" => forwards[f] # None /\ Absent(f)

(* What a forward leads to, or has led or will lead to.                     *)
LeadsTo(f, d) ==
  \/ forwards[f] = d \/ nat.file[f] = d
  \/ \E r \in Request : job[r].at \in {"install", "addForward"} /\ job[r].f = f /\ job[r].d = d

Apart(f) == \A g \in Forward : \A d : g # f /\ d # None => ~(LeadsTo(f, d) /\ LeadsTo(g, d))

Unused(f) == forwards[f] = None /\ Absent(f) /\ \A r \in Request : ~On(r, f)

ForwardInv ==
  /\ NatShape /\ ForwardJobShape
  /\ \A f \in Forward \ unsure : Alone(f) /\ Where(f) /\ Apart(f)
  /\ \A f \in Forward \ used : Unused(f)

(* A step that does not touch x: x stays where it is.                       *)
Kept(x) ==
  /\ forwards'[x] = forwards[x]
  /\ Absent(x) => Absent(x)'
  /\ x \notin unsure => \A d : d # None /\ LeadsTo(x, d) /\ InForce(x, d) => InForce(x, d)'
  /\ \A r \in Request : On(r, x) \/ On(r, x)' => job'[r] = job[r]

LEMMA KeptStays ==
  ASSUME ForwardInv, NEW x \in Forward, Kept(x)
  PROVE  /\ x \notin unsure => Alone(x)' /\ Where(x)'
         /\ Unused(x) => Unused(x)'
<1>1. \A r \in Request : On(r, x)' <=> On(r, x)
  BY DEF Kept, On
<1>2. Unused(x) => Unused(x)'
  BY <1>1 DEF Unused, Kept
<1>3. ASSUME x \notin unsure PROVE Alone(x)'
  BY <1>1, <1>3 DEF Alone, ForwardInv
<1>4. ASSUME x \notin unsure PROVE Where(x)'
  <2>1. Where(x)
    BY <1>4 DEF ForwardInv
  <2>2. \A d : d # None /\ LeadsTo(x, d) /\ InForce(x, d) => InForce(x, d)'
    BY <1>4 DEF Kept
  <2>3. forwards'[x] = forwards[x] /\ (Absent(x) => Absent(x)')
    BY DEF Kept
  <2>4. ASSUME \A r \in Request : ~On(r, x)'
        PROVE  IF forwards'[x] = None THEN Absent(x)' ELSE InForce(x, forwards[x])'
    BY <1>1, <2>1, <2>2, <2>3, <2>4 DEF Where, LeadsTo
  <2>5. ASSUME NEW r \in Request, On(r, x)'
        PROVE  /\ job'[r].at = "install" => forwards'[x] = None /\ Absent(x)'
               /\ job'[r].at = "addForward" => forwards'[x] = None /\ InForce(x, job[r].d)'
               /\ job'[r].at = "uninstall" => forwards'[x] # None /\ InForce(x, forwards[x])'
               /\ job'[r].at = "dropForward" => forwards'[x] # None /\ Absent(x)'
    <3>1. On(r, x) /\ job'[r] = job[r]
      BY <1>1, <2>5 DEF Kept
    <3>2. job[r].at = "addForward" => LeadsTo(x, job[r].d) /\ job[r].d # None
      BY <3>1, ProvisioningAssumption DEF LeadsTo, On, ForwardInv, ForwardJobShape, ForwardJob
    <3>. QED  BY <2>1, <2>2, <2>3, <3>1, <3>2 DEF Where, LeadsTo
  <2>. QED  BY <2>4, <2>5 DEF Where
<1>. QED  BY <1>2, <1>3, <1>4

LEMMA ApartStays ==
  ASSUME ForwardInv, unsure \subseteq unsure',
         \A x \in Forward : \A d : d # None /\ LeadsTo(x, d)' => LeadsTo(x, d)
  PROVE  \A x \in Forward \ unsure' : Apart(x)'
BY DEF ForwardInv, Apart

(* The step of a request about a forward: only its own job changes.         *)
LEMMA OwnStep ==
  ASSUME Inv, ForwardInv, NEW r \in Request, job[r].at \in ForwardJobs,
         \/ Return(r)
         \/ job[r].at = "install" /\ Goto(r, "addForward")
         \/ job[r].at = "uninstall" /\ Goto(r, "dropForward")
  PROVE  /\ ForwardJobShape' /\ job[r] \in ForwardJob /\ On(r, job[r].f) /\ job[r].f \in Forward
         /\ \A x \in Forward : x # job[r].f =>
              \A q \in Request : On(q, x) \/ On(q, x)' => job'[q] = job[q]
         /\ \A q \in Request : q # r => job'[q] = job[q]
         /\ \/ job'[r] = Idle
            \/ /\ job'[r].f = job[r].f
               /\ job[r].at = "install" => job'[r].at = "addForward" /\ job'[r].d = job[r].d
               /\ job[r].at = "uninstall" => job'[r].at = "dropForward"
<1>1. /\ job[r] \in ForwardJob /\ job[r].f \in job[r].touch /\ job[r].f \in Forward
      /\ On(r, job[r].f)
  BY DEF ForwardInv, ForwardJobShape, ForwardJob, On
<1>2. DOMAIN job = Request /\ Idle.at \notin ForwardJobs
  BY DEF Inv, JobShape, Idle, ForwardJobs
<1>3. CASE Return(r)
  <2>1. job' = [job EXCEPT ![r] = Idle]
    BY <1>3 DEF Return
  <2>2. \A q \in Request : job'[q] = IF q = r THEN Idle ELSE job[q]
    BY <1>2, <2>1
  <2>. QED  BY <1>1, <1>2, <2>2 DEF ForwardJobShape, ForwardInv, On
<1>4. ASSUME NEW at, Goto(r, at),
             \/ job[r].at = "install" /\ at = "addForward"
             \/ job[r].at = "uninstall" /\ at = "dropForward"
      PROVE  /\ ForwardJobShape'
             /\ \A x \in Forward : x # job[r].f =>
                  \A q \in Request : On(q, x) \/ On(q, x)' => job'[q] = job[q]
             /\ \A q \in Request : q # r => job'[q] = job[q]
             /\ job'[r].f = job[r].f /\ job'[r].at = at
             /\ job[r].at = "install" => job'[r].d = job[r].d
  <2> DEFINE j == [job[r] EXCEPT !.at = at]
  <2>1. /\ j \in ForwardJob /\ j.f = job[r].f /\ j.touch = job[r].touch /\ j.at = at
        /\ job[r].at = "install" => j.d = job[r].d
    BY <1>1, <1>4 DEF ForwardJob
  <2>2. job' = [job EXCEPT ![r] = j]
    BY <1>4 DEF Goto
  <2>. HIDE DEF j
  <2>3. \A q \in Request : job'[q] = IF q = r THEN j ELSE job[q]
    BY <1>2, <2>2
  <2>4. at \in ForwardJobs
    BY <1>4 DEF ForwardJobs
  <2>. QED  BY <1>1, <2>1, <2>3, <2>4 DEF ForwardJobShape, ForwardInv, On
<1>. QED  BY <1>1, <1>3, <1>4

(* The agent installs the forward's rules, some, or none.                   *)
LEMMA InstallKeeps ==
  ASSUME Inv, ForwardInv, NEW r \in Request, InstallForward(r)
  PROVE  ForwardInv'
<1>1. /\ job[r].at \in ForwardJobs /\ job[r].at = "install"
      /\ Return(r) \/ Goto(r, "addForward")
      /\ forwards' = forwards /\ used' = used /\ unsure \subseteq unsure'
  BY DEF InstallForward, ForwardJobs, rows, Well, Fault
<1>a. /\ ForwardJobShape' /\ On(r, job[r].f) /\ job[r].f \in Forward /\ job[r].d \in Dest
  BY <1>1, OwnStep DEF ForwardJob
<1>b. PICK f \in Forward, d \in Dest : f = job[r].f /\ d = job[r].d
  BY <1>a
<1>2. /\ ForwardJobShape' /\ On(r, f)
      /\ \A x \in Forward : x # f => \A q \in Request : On(q, x) \/ On(q, x)' => job'[q] = job[q]
      /\ \A q \in Request : q # r => job'[q] = job[q]
      /\ \/ job'[r] = Idle
         \/ job'[r].f = f /\ job'[r].at = "addForward" /\ job'[r].d = d
  BY <1>1, <1>a, <1>b, OwnStep
<1>3. d # None
  BY ProvisioningAssumption
<1>4. \/ nat' = nat /\ Return(r)
      \/ \E some \in SUBSET Rules(f, d), s \in {nat.script, nat.script \cup {f}} :
           nat' = [rules |-> nat.rules \cup some, file |-> [nat.file EXCEPT ![f] = d],
                   script |-> s]
  BY <1>b DEF InstallForward
<1>5. \/ f \in unsure'
      \/ nat' = nat /\ Return(r)
      \/ /\ nat' = [rules |-> nat.rules \cup Rules(f, d), file |-> [nat.file EXCEPT ![f] = d],
                    script |-> nat.script \cup {f}]
         /\ Goto(r, "addForward")
  BY <1>b DEF InstallForward, Fault
<1>6. NatShape /\ NatShape'
  BY <1>1, <1>2, <1>4 DEF ForwardInv, NatShape
<1>7. /\ \A x \in Forward : x # f => nat'.file[x] = nat.file[x] /\ (x \in nat'.script <=> x \in nat.script)
      /\ nat'.file[f] \in {nat.file[f], d}
      /\ nat.rules \subseteq nat'.rules /\ nat'.rules \subseteq nat.rules \cup Rules(f, d)
  BY <1>2, <1>4, <1>6 DEF NatShape
<1>8. \A x \in Forward : x # f => Kept(x)
  BY <1>1, <1>2, <1>7 DEF Kept, Absent, InForce, Rules
<1>9. \A x \in Forward : \A e : e # None /\ LeadsTo(x, e)' => LeadsTo(x, e)
  BY <1>1, <1>2, <1>7, <1>b DEF LeadsTo, Idle
<1>10. \A q \in Request : On(q, f)' => On(q, f)
  BY <1>2, <1>b DEF On
<1>11. ASSUME f \notin unsure' PROVE Alone(f)' /\ Where(f)'
  <2>1. Alone(f) /\ Where(f)
    BY <1>1, <1>2, <1>11 DEF ForwardInv
  <2>2. Alone(f)'
    BY <1>10, <2>1 DEF Alone
  <2>3. forwards[f] = None /\ Absent(f)
    BY <1>1, <1>2, <2>1 DEF Where
  <2>4. \A q \in Request : q # r => ~On(q, f)'
    BY <1>2, <1>10, <2>1 DEF Alone
  <2>5. CASE nat' = nat /\ Return(r)
    <3>1. ~On(r, f)'
      BY <2>5 DEF Return, On, Idle, ForwardJobs, Inv, JobShape
    <3>2. /\ forwards'[f] = None /\ Absent(f)'
          /\ \A q \in Request : ~On(q, f)'
      BY <1>1, <2>3, <2>4, <2>5, <3>1 DEF Absent
    <3>. QED  BY <2>2, <3>2 DEF Where
  <2>6. CASE /\ nat' = [rules |-> nat.rules \cup Rules(f, d), file |-> [nat.file EXCEPT ![f] = d],
                        script |-> nat.script \cup {f}]
             /\ Goto(r, "addForward")
    <3>1. InForce(f, d)'
      BY <1>2, <1>6, <2>6 DEF InForce, NatShape, Rules
    <3>2. job'[r].f = f /\ job'[r].at = "addForward" /\ job'[r].d = d
      BY <1>2, <2>6 DEF Goto, Inv, JobShape, Idle
    <3>3. On(r, f)' /\ InForce(f, job[r].d)'
      BY <3>1, <3>2 DEF On, ForwardJobs
    <3>4. /\ forwards'[f] = None
          /\ \A q \in Request : On(q, f)' => q = r
      BY <1>1, <2>3, <2>4
    <3>. QED  BY <2>2, <3>2, <3>3, <3>4 DEF Where
  <2>. QED  BY <1>5, <1>11, <2>2, <2>5, <2>6
<1>12. f \in used
  BY <1>2 DEF ForwardInv, Unused
<1>. QED  BY <1>1, <1>2, <1>6, <1>8, <1>9, <1>11, <1>12, KeptStays, ApartStays DEF ForwardInv

(* The forward is recorded, or nobody knows.                                *)
LEMMA AddKeeps ==
  ASSUME Inv, ForwardInv, NEW r \in Request, AddForward(r)
  PROVE  ForwardInv'
<1>1. /\ job[r].at \in ForwardJobs /\ job[r].at = "addForward" /\ Return(r)
      /\ nat' = nat /\ used' = used /\ unsure \subseteq unsure'
  BY DEF AddForward, ForwardJobs, nodes, Well, Fault
<1>a. /\ ForwardJobShape' /\ On(r, job[r].f) /\ job[r].f \in Forward /\ job[r].d \in Dest
  BY <1>1, OwnStep DEF ForwardJob
<1>b. PICK f \in Forward, d \in Dest : f = job[r].f /\ d = job[r].d
  BY <1>a
<1>2. /\ ForwardJobShape' /\ On(r, f)
      /\ \A x \in Forward : x # f => \A q \in Request : On(q, x) \/ On(q, x)' => job'[q] = job[q]
      /\ \A q \in Request : q # r => job'[q] = job[q]
      /\ job'[r] = Idle
  BY <1>1, <1>a, <1>b, OwnStep DEF Return, Inv, JobShape
<1>3. d # None /\ Idle.at \notin ForwardJobs
  BY ProvisioningAssumption DEF Idle, ForwardJobs
<1>4. \/ f \in unsure' /\ forwards' = forwards
      \/ forwards' = [forwards EXCEPT ![f] = d]
  BY <1>b DEF AddForward, Fault
<1>5. NatShape /\ NatShape'
  BY <1>1, <1>4 DEF ForwardInv, NatShape
<1>6. \A x \in Forward : x # f => forwards'[x] = forwards[x]
  BY <1>4, <1>5 DEF NatShape
<1>7. forwards'[f] \in {forwards[f], d}
  BY <1>4, <1>5 DEF NatShape
<1>8. \A x \in Forward : x # f => Kept(x)
  BY <1>1, <1>2, <1>6 DEF Kept, Absent, InForce
<1>9. \A x \in Forward : \A e : e # None /\ LeadsTo(x, e)' => LeadsTo(x, e)
  BY <1>1, <1>2, <1>6, <1>7, <1>b DEF LeadsTo, Idle
<1>10. \A q \in Request : On(q, f)' => On(q, f) /\ q # r
  BY <1>2, <1>3 DEF On
<1>11. ASSUME f \notin unsure' PROVE Alone(f)' /\ Where(f)'
  <2>1. Alone(f) /\ Where(f)
    BY <1>1, <1>2, <1>11 DEF ForwardInv
  <2>2. \A q \in Request : ~On(q, f)'
    BY <1>2, <1>10, <2>1 DEF Alone
  <2>3. Alone(f)'
    BY <2>2 DEF Alone
  <2>4. InForce(f, d)
    BY <1>1, <1>2, <1>b, <2>1 DEF Where
  <2>5. forwards'[f] = d /\ InForce(f, d)'
    BY <1>1, <1>4, <1>5, <1>11, <2>4 DEF NatShape, InForce
  <2>. QED  BY <1>3, <2>2, <2>3, <2>5 DEF Where
<1>12. f \in used
  BY <1>2 DEF ForwardInv, Unused
<1>. QED  BY <1>1, <1>2, <1>5, <1>8, <1>9, <1>11, <1>12, KeptStays, ApartStays DEF ForwardInv

(* The agent takes the rules away that its description names; nobody else   *)
(* leads there.                                                             *)
LEMMA UninstallKeeps ==
  ASSUME Inv, ForwardInv, NEW r \in Request, UninstallForward(r)
  PROVE  ForwardInv'
<1>1. /\ job[r].at \in ForwardJobs /\ job[r].at = "uninstall" /\ Goto(r, "dropForward")
      /\ forwards' = forwards /\ used' = used /\ unsure \subseteq unsure'
  BY DEF UninstallForward, ForwardJobs, rows, Well, Fault
<1>a. /\ ForwardJobShape' /\ On(r, job[r].f) /\ job[r].f \in Forward
  BY <1>1, OwnStep
<1>b. PICK f \in Forward : f = job[r].f
  BY <1>a
<1>2. /\ ForwardJobShape' /\ On(r, f)
      /\ \A x \in Forward : x # f => \A q \in Request : On(q, x) \/ On(q, x)' => job'[q] = job[q]
      /\ \A q \in Request : q # r => job'[q] = job[q]
      /\ job'[r].at = "dropForward"
  <2>1. job'[r] # Idle
    BY <1>1 DEF Goto, Inv, JobShape, Idle
  <2>. QED  BY <1>1, <1>a, <1>b, <2>1, OwnStep
<1>3. \/ f \in unsure' /\ nat' = nat
      \/ nat' = Uninstalled(f)
  BY <1>b DEF UninstallForward, Fault
<1>4. NatShape /\ NatShape'
  BY <1>1, <1>3 DEF ForwardInv, NatShape, Uninstalled
<1>5. /\ \A x \in Forward : x # f => nat'.file[x] = nat.file[x] /\ (x \in nat'.script <=> x \in nat.script)
      /\ nat'.file[f] \in {nat.file[f], None}
      /\ nat'.rules \subseteq nat.rules
      /\ nat.file[f] = None => nat'.rules = nat.rules
      /\ nat.rules \ Rules(f, nat.file[f]) \subseteq nat'.rules
  BY <1>3, <1>4 DEF NatShape, Uninstalled
<1>6. ASSUME NEW x \in Forward, x # f PROVE Kept(x)
  <2>1. forwards'[x] = forwards[x] /\ (Absent(x) => Absent(x)')
    BY <1>1, <1>5, <1>6 DEF Absent
  <2>2. ASSUME x \notin unsure, NEW d, d # None, LeadsTo(x, d), InForce(x, d)
        PROVE  InForce(x, d)'
    <3>1. nat.file[f] = None \/ nat.file[f] # d
      <4>1. ~LeadsTo(f, d)
        BY <1>6, <2>2 DEF ForwardInv, Apart
      <4>. QED  BY <4>1 DEF LeadsTo
    <3>2. Rules(x, d) \subseteq nat'.rules
      BY <1>5, <1>6, <2>2, <3>1 DEF InForce, Rules
    <3>. QED  BY <1>5, <1>6, <2>2, <3>2 DEF InForce
  <2>. QED  BY <1>2, <1>6, <2>1, <2>2 DEF Kept
<1>7. \A x \in Forward : \A e : e # None /\ LeadsTo(x, e)' => LeadsTo(x, e)
  BY <1>1, <1>2, <1>5 DEF LeadsTo
<1>8. \A q \in Request : On(q, f)' => On(q, f)
  BY <1>2, <1>b DEF On
<1>9. ASSUME f \notin unsure' PROVE Alone(f)' /\ Where(f)'
  <2>1. Alone(f) /\ Where(f)
    BY <1>1, <1>2, <1>9 DEF ForwardInv
  <2>2. \A q \in Request : On(q, f)' => q = r
    BY <1>2, <1>8, <2>1 DEF Alone
  <2>3. Alone(f)'
    BY <2>2 DEF Alone
  <2>4. On(r, f)'
    BY <1>1, <1>2, <1>b, OwnStep DEF On, ForwardJobs, Idle
  <2>5. forwards[f] # None /\ InForce(f, forwards[f])
    BY <1>1, <1>2, <2>1 DEF Where
  <2>6. Absent(f)'
    BY <1>3, <1>4, <1>9, <2>5 DEF NatShape, InForce, Absent, Uninstalled, Rules
  <2>. QED  BY <1>1, <1>2, <2>2, <2>3, <2>4, <2>5, <2>6 DEF Where
<1>10. f \in used
  BY <1>2 DEF ForwardInv, Unused
<1>. QED  BY <1>1, <1>2, <1>4, <1>6, <1>7, <1>9, <1>10, KeptStays, ApartStays DEF ForwardInv

(* The row goes, or nobody knows.                                           *)
LEMMA DropKeeps ==
  ASSUME Inv, ForwardInv, NEW r \in Request, DropForward(r)
  PROVE  ForwardInv'
<1>1. /\ job[r].at \in ForwardJobs /\ job[r].at = "dropForward" /\ Return(r)
      /\ nat' = nat /\ used' = used /\ unsure \subseteq unsure'
  BY DEF DropForward, ForwardJobs, nodes, Well, Fault
<1>a. /\ ForwardJobShape' /\ On(r, job[r].f) /\ job[r].f \in Forward
  BY <1>1, OwnStep
<1>b. PICK f \in Forward : f = job[r].f
  BY <1>a
<1>2. /\ ForwardJobShape' /\ On(r, f)
      /\ \A x \in Forward : x # f => \A q \in Request : On(q, x) \/ On(q, x)' => job'[q] = job[q]
      /\ \A q \in Request : q # r => job'[q] = job[q]
      /\ job'[r] = Idle
  BY <1>1, <1>a, <1>b, OwnStep DEF Return, Inv, JobShape
<1>3. Idle.at \notin ForwardJobs
  BY DEF Idle, ForwardJobs
<1>4. \/ f \in unsure' /\ forwards' = forwards
      \/ forwards' = [forwards EXCEPT ![f] = None]
  BY <1>b DEF DropForward, Fault
<1>5. NatShape /\ NatShape'
  BY <1>1, <1>4 DEF ForwardInv, NatShape
<1>6. \A x \in Forward : x # f => forwards'[x] = forwards[x]
  BY <1>4, <1>5 DEF NatShape
<1>7. forwards'[f] \in {forwards[f], None}
  BY <1>4, <1>5 DEF NatShape
<1>8. \A x \in Forward : x # f => Kept(x)
  BY <1>1, <1>2, <1>6 DEF Kept, Absent, InForce
<1>9. \A x \in Forward : \A e : e # None /\ LeadsTo(x, e)' => LeadsTo(x, e)
  BY <1>1, <1>2, <1>6, <1>7 DEF LeadsTo, Idle
<1>10. \A q \in Request : On(q, f)' => On(q, f) /\ q # r
  BY <1>2, <1>3 DEF On
<1>11. ASSUME f \notin unsure' PROVE Alone(f)' /\ Where(f)'
  <2>1. Alone(f) /\ Where(f)
    BY <1>1, <1>2, <1>11 DEF ForwardInv
  <2>2. \A q \in Request : ~On(q, f)'
    BY <1>2, <1>10, <2>1 DEF Alone
  <2>3. Alone(f)'
    BY <2>2 DEF Alone
  <2>4. Absent(f)
    BY <1>1, <1>2, <2>1 DEF Where
  <2>5. forwards'[f] = None /\ Absent(f)'
    BY <1>1, <1>4, <1>5, <1>11, <2>4 DEF NatShape, Absent
  <2>. QED  BY <2>2, <2>3, <2>5 DEF Where
<1>12. f \in used
  BY <1>2 DEF ForwardInv, Unused
<1>. QED  BY <1>1, <1>2, <1>5, <1>8, <1>9, <1>11, <1>12, KeptStays, ApartStays DEF ForwardInv

(* A new forward: who leads where it leads becomes unsure, and it too.      *)
LEMMA ForwardBegins ==
  ASSUME Inv, ForwardInv, NEW r \in Request, NEW f \in Forward, NEW d \in Dest,
         handleForwards(r, f, d)
  PROVE  ForwardInv'
<1> DEFINE j == [at |-> "install", touch |-> {f}, f |-> f, d |-> d]
<1>1. /\ job[r] = Idle /\ job' = [job EXCEPT ![r] = j]
      /\ forwards' = forwards /\ nat' = nat /\ f \notin used /\ used' = used \cup {f}
  BY DEF handleForwards, New, Begin, rows, nodes
<1>2. \A x \in Forward : LeadsTo(x, d) => x \in unsure' /\ f \in unsure'
  BY DEF handleForwards, LeadsTo
<1>3. unsure \subseteq unsure'
  BY DEF handleForwards
<1>4. j \in ForwardJob /\ j.at = "install" /\ j.f = f /\ j.d = d /\ j.touch = {f}
  BY DEF ForwardJob, Resource
<1>. HIDE DEF j
<1>5. \A q \in Request : job'[q] = IF q = r THEN j ELSE job[q]
  BY <1>1 DEF Inv, JobShape
<1>6. Idle.at \notin ForwardJobs /\ d # None
  BY ProvisioningAssumption DEF Idle, ForwardJobs
<1>7. ForwardJobShape'
  BY <1>4, <1>5 DEF ForwardJobShape, ForwardInv
<1>8. NatShape'
  BY <1>1 DEF NatShape, ForwardInv
<1>9. Unused(f)
  BY <1>1 DEF ForwardInv
<1>10. \A x \in Forward : x # f => Kept(x)
  BY <1>1, <1>4, <1>5, <1>6 DEF Kept, Absent, InForce, On
<1>11. /\ \A q \in Request : On(q, f)' => q = r
       /\ On(r, f)' /\ forwards'[f] = None /\ Absent(f)'
       /\ job'[r].at = "install"
  BY <1>1, <1>4, <1>5, <1>9 DEF Unused, On, Absent, ForwardJobs
<1>12. Alone(f)' /\ Where(f)'
  BY <1>11 DEF Alone, Where
<1>13. \A x \in Forward : \A e : e # None /\ LeadsTo(x, e)' => LeadsTo(x, e) \/ (x = f /\ e = d)
  BY <1>1, <1>4, <1>5 DEF LeadsTo
<1>14. \A e : e # None => ~LeadsTo(f, e)
  BY <1>9 DEF Unused, LeadsTo, Absent, On, ForwardJobs
<1>15. ASSUME NEW x \in Forward \ unsure', NEW g \in Forward, NEW e, g # x, e # None,
              LeadsTo(x, e)', LeadsTo(g, e)'
       PROVE  FALSE
  <2>1. Apart(x)
    BY <1>3, <1>15 DEF ForwardInv
  <2>2. CASE x = f
    <3>1. e = d /\ LeadsTo(g, d)
      BY <1>13, <1>14, <1>15, <2>2
    <3>. QED  BY <1>2, <1>15, <2>2, <3>1
  <2>3. CASE g = f /\ x # f
    <3>1. e = d /\ LeadsTo(x, d)
      BY <1>13, <1>14, <1>15, <2>3
    <3>. QED  BY <1>2, <1>15, <3>1
  <2>4. CASE g # f /\ x # f
    <3>1. LeadsTo(x, e) /\ LeadsTo(g, e)
      BY <1>13, <1>15, <2>4
    <3>. QED  BY <1>15, <2>1, <3>1 DEF Apart
  <2>. QED  BY <2>2, <2>3, <2>4
<1>16. \A x \in Forward \ unsure' : Apart(x)'
  BY <1>15 DEF Apart
<1>. QED  BY <1>1, <1>3, <1>7, <1>8, <1>10, <1>12, <1>16, KeptStays DEF ForwardInv

(* A removal begins: alone, it finds the forward in force.                  *)
LEMMA RemovalBegins ==
  ASSUME Inv, ForwardInv, NEW r \in Request, NEW f \in Forward, handleForwardItem(r, f)
  PROVE  ForwardInv'
<1> DEFINE j == [at |-> "uninstall", touch |-> {f}, f |-> f]
<1>1. /\ job[r] = Idle /\ job' = [job EXCEPT ![r] = j] /\ forwards[f] # None
      /\ forwards' = forwards /\ nat' = nat /\ used' = used
      /\ unsure' = unsure \cup Clashing({f})
  BY DEF handleForwardItem, Begin, rows, nodes
<1>2. j \in ForwardJob /\ j.at = "uninstall" /\ j.f = f /\ j.touch = {f}
  BY DEF ForwardJob, Resource
<1>. HIDE DEF j
<1>3. \A q \in Request : job'[q] = IF q = r THEN j ELSE job[q]
  BY <1>1 DEF Inv, JobShape
<1>4. Idle.at \notin ForwardJobs
  BY DEF Idle, ForwardJobs
<1>5. ForwardJobShape'
  BY <1>2, <1>3 DEF ForwardJobShape, ForwardInv
<1>6. NatShape'
  BY <1>1 DEF NatShape, ForwardInv
<1>7. \A x \in Forward : x # f => Kept(x)
  BY <1>1, <1>2, <1>3, <1>4 DEF Kept, Absent, InForce, On
<1>8. \A x \in Forward : \A e : e # None /\ LeadsTo(x, e)' => LeadsTo(x, e)
  BY <1>1, <1>2, <1>3 DEF LeadsTo
<1>9. ASSUME f \notin unsure' PROVE Alone(f)' /\ Where(f)'
  <2>1. \A q \in Request : ~On(q, f)
    <3>1. \A q \in Request : job[q] # Idle => f \notin job[q].touch
      BY <1>1, <1>9 DEF Clashing, Resource
    <3>. QED  BY <1>4, <3>1 DEF On, ForwardInv, ForwardJobShape
  <2>2. Where(f)
    BY <1>1, <1>9 DEF ForwardInv
  <2>3. /\ \A q \in Request : On(q, f)' => q = r
        /\ On(r, f)' /\ job'[r].at = "uninstall"
    BY <1>2, <1>3, <2>1 DEF On, ForwardJobs
  <2>4. forwards'[f] # None /\ InForce(f, forwards[f])'
    BY <1>1, <2>1, <2>2 DEF Where, InForce
  <2>. QED  BY <2>3, <2>4 DEF Alone, Where
<1>10. f \in used
  BY <1>1 DEF ForwardInv, Unused
<1>. QED  BY <1>1, <1>5, <1>6, <1>7, <1>8, <1>9, <1>10, KeptStays, ApartStays DEF ForwardInv

(* A step of another request leaves every forward where it is.              *)
LEMMA ElsewhereKeeps ==
  ASSUME Inv, ForwardInv, NEW r \in Request, NEW j, job[r].at \notin ForwardJobs,
         j.at \notin ForwardJobs, job' = [job EXCEPT ![r] = j],
         forwards' = forwards, nat' = nat, Grows
  PROVE  ForwardInv'
<1>1. \A q \in Request : job'[q] = IF q = r THEN j ELSE job[q]
  BY DEF Inv, JobShape
<1>2. ForwardJobShape' /\ NatShape'
  BY <1>1 DEF ForwardJobShape, NatShape, ForwardInv
<1>3. \A x \in Forward : Kept(x)
  BY <1>1 DEF Kept, Absent, InForce, On
<1>4. \A x \in Forward : \A e : e # None /\ LeadsTo(x, e)' => LeadsTo(x, e)
  BY <1>1 DEF LeadsTo, ForwardJobs
<1>. QED  BY <1>2, <1>3, <1>4, KeptStays, ApartStays DEF ForwardInv, Grows

(* The panel stops: its requests' forwards are unsure.  A node restarts:    *)
(* the scripts bring back what was in force.                                *)
LEMMA StopKeeps == ASSUME Inv, ForwardInv, PanelStops PROVE ForwardInv'
<1>1. /\ job' = [r \in Request |-> Idle] /\ forwards' = forwards /\ nat' = nat /\ used' = used
      /\ unsure' = unsure \cup
                     ((UNION {job[r].touch : r \in {q \in Request : job[q] # Idle}}) \cap Resource)
  BY DEF PanelStops, Fault, rows, nodes
<1>2. Idle.at \notin ForwardJobs
  BY DEF Idle, ForwardJobs
<1>3. ForwardJobShape' /\ NatShape' /\ \A x \in Forward, r \in Request : ~On(r, x)'
  BY <1>1, <1>2 DEF ForwardJobShape, NatShape, ForwardInv, On
<1>4. ASSUME NEW x \in Forward \ unsure', NEW r \in Request PROVE ~On(r, x)
  <2>1. ASSUME job[r] # Idle, x \in job[r].touch PROVE FALSE
    <3> DEFINE busy == {q \in Request : job[q] # Idle}
               S == {job[q].touch : q \in busy}
    <3>1. job[r].touch \in S
      BY <2>1
    <3>2. unsure' = unsure \cup ((UNION S) \cap Resource)
      BY <1>1
    <3>. HIDE DEF S
    <3>3. x \in UNION S
      BY <2>1, <3>1
    <3>4. x \in Resource /\ x \notin unsure'
      BY <1>4 DEF Resource
    <3>. QED  BY <3>2, <3>3, <3>4
  <2>. QED  BY <1>2, <2>1 DEF On, ForwardInv, ForwardJobShape
<1>5. ASSUME NEW x \in Forward \ unsure' PROVE Alone(x)' /\ Where(x)'
  <2>1. Where(x)
    BY <1>1, <1>5 DEF ForwardInv
  <2>2. IF forwards'[x] = None THEN Absent(x)' ELSE InForce(x, forwards[x])'
    BY <1>1, <1>4, <1>5, <2>1 DEF Where, Absent, InForce
  <2>. QED  BY <1>3, <1>5, <2>2 DEF Alone, Where
<1>6. \A x \in Forward : \A e : e # None /\ LeadsTo(x, e)' => LeadsTo(x, e)
  BY <1>1, <1>2 DEF LeadsTo, ForwardJobs
<1>7. \A x \in Forward : Unused(x) => Unused(x)'
  BY <1>1, <1>3 DEF Unused, Absent
<1>. QED  BY <1>1, <1>3, <1>5, <1>6, <1>7, ApartStays DEF ForwardInv

LEMMA RestartKeeps == ASSUME Inv, ForwardInv, NEW e \in End, NodeRestarts(e) PROVE ForwardInv'
<1>1. /\ job' = job /\ forwards' = forwards /\ used' = used /\ unsure \subseteq unsure'
      /\ \/ nat' = nat
         \/ nat' = [nat EXCEPT !.rules = UNION {Rules(f, nat.file[f]) : f \in nat.script}]
  BY DEF NodeRestarts, Fault, rows
<1>2. /\ NatShape' /\ nat'.file = nat.file /\ nat'.script = nat.script
      /\ \/ nat'.rules = nat.rules
         \/ nat'.rules = UNION {Rules(f, nat.file[f]) : f \in nat.script}
  <2>1. NatShape
    BY DEF ForwardInv
  <2> DEFINE back == UNION {Rules(f, nat.file[f]) : f \in nat.script}
  <2>2. nat' = nat \/ nat' = [nat EXCEPT !.rules = back]
    BY <1>1
  <2>. HIDE DEF back
  <2>3. /\ NatShape' /\ nat'.file = nat.file /\ nat'.script = nat.script
        /\ nat'.rules = nat.rules \/ nat'.rules = back
    BY <1>1, <2>1, <2>2 DEF NatShape
  <2>. QED  BY <2>3 DEF back
<1>3. ASSUME NEW x \in Forward PROVE Kept(x)
  <2>1. Absent(x) => Absent(x)'
    BY <1>2 DEF Absent, Rules
  <2>2. \A d : InForce(x, d) => InForce(x, d)'
    BY <1>2 DEF InForce
  <2>. QED  BY <1>1, <2>1, <2>2 DEF Kept
<1>4. ForwardJobShape'
  BY <1>1 DEF ForwardJobShape, ForwardInv
<1>5. \A x \in Forward : \A d : d # None /\ LeadsTo(x, d)' => LeadsTo(x, d)
  BY <1>1, <1>2 DEF LeadsTo
<1>. QED  BY <1>1, <1>2, <1>3, <1>4, <1>5, KeptStays, ApartStays DEF ForwardInv

(* The other requests, by the way they go on.                               *)
LEMMA ElsewhereGoes ==
  ASSUME Inv, ForwardInv, NEW r \in Request, NEW at, job[r].at \notin ForwardJobs,
         Return(r) \/ (Goto(r, at) /\ at \notin ForwardJobs),
         forwards' = forwards, nat' = nat, Grows
  PROVE  ForwardInv'
<1>1. Idle.at \notin ForwardJobs
  BY DEF Idle, ForwardJobs
<1>2. CASE Return(r)
  BY <1>1, <1>2, ElsewhereKeeps DEF Return
<1>3. CASE Goto(r, at) /\ at \notin ForwardJobs
  <2> DEFINE j == [job[r] EXCEPT !.at = at]
  <2>1. j.at = at
    BY DEF Inv, JobShape
  <2>2. job' = [job EXCEPT ![r] = j]
    BY <1>3 DEF Goto
  <2>. HIDE DEF j
  <2>. QED  BY <1>3, <2>1, <2>2, ElsewhereKeeps
<1>. QED  BY <1>2, <1>3

LEMMA ElsewhereBegins ==
  ASSUME Inv, ForwardInv, NEW r \in Request, NEW j, j.at \notin ForwardJobs, Begin(r, j), Grows
  PROVE  ForwardInv'
<1>1. job[r] = Idle /\ job' = [job EXCEPT ![r] = j] /\ forwards' = forwards /\ nat' = nat
  BY DEF Begin, rows, nodes
<1>2. job[r].at \notin ForwardJobs
  BY <1>1 DEF Idle, ForwardJobs
<1>. QED  BY <1>1, <1>2, ElsewhereKeeps

LEMMA OtherRequestKeeps ==
  ASSUME Inv, ForwardInv, NEW r \in Request,
         \/ \E t \in Tunnel, n \in Name : createTunnel(r, t, n)
         \/ \E t \in Tunnel, act \in Action : tunnelAction(r, t, act)
         \/ \E t \in Tunnel : deleteTunnel(r, t)
         \/ \E p \in Peer, u \in User, a \in Address : createWGPeer(r, p, u, a)
         \/ \E u \in User : deleteUser(r, u)
  PROVE  ForwardInv'
<1> USE DEF ForwardJobs
<1>1. ASSUME NEW t \in Tunnel, NEW n \in Name, createTunnel(r, t, n) PROVE ForwardInv'
  BY <1>1, ElsewhereBegins DEF createTunnel, New, Grows
<1>2. ASSUME NEW t \in Tunnel, NEW act \in Action, tunnelAction(r, t, act) PROVE ForwardInv'
  BY <1>2, ElsewhereBegins DEF tunnelAction, Grows
<1>3. ASSUME NEW t \in Tunnel, deleteTunnel(r, t) PROVE ForwardInv'
  BY <1>3, ElsewhereBegins DEF deleteTunnel, Grows
<1>4. ASSUME NEW p \in Peer, NEW u \in User, NEW a \in Address, createWGPeer(r, p, u, a)
      PROVE  ForwardInv'
  BY <1>4, ElsewhereBegins DEF createWGPeer, New, Grows
<1>5. ASSUME NEW u \in User, deleteUser(r, u) PROVE ForwardInv'
  BY <1>5, ElsewhereBegins DEF deleteUser, Grows
<1>. QED  BY <1>1, <1>2, <1>3, <1>4, <1>5

LEMMA OtherStepKeeps ==
  ASSUME Inv, ForwardInv, NEW r \in Request,
         \/ CreateAtDestination(r) \/ CreateAtSource(r) \/ UndoDestination(r) \/ AddTunnel(r)
         \/ ActAtSource(r) \/ ActAtDestination(r) \/ SetStatus(r)
         \/ DeleteAtSource(r) \/ DeleteAtDestination(r) \/ DropTunnel(r)
         \/ AddPeer(r) \/ RecordPeer(r) \/ setRemotePeerEnabled(r) \/ RevertPeer(r)
         \/ deleteRemotePeer(r) \/ DropUser(r) \/ \E p \in Peer : enforceUserPolicies(r, p)
  PROVE  ForwardInv'
<1> USE DEF rows, nodes, Well, Fault, Grows
<1>0. DOMAIN job = Request /\ "at" \in DOMAIN job[r]
  BY DEF Inv, JobShape
<1>1. \A at \in {"createDst", "createSrc", "undoDst", "addTunnel", "actSrc", "actDst", "setStatus",
                 "delSrc", "delDst", "dropTunnel", "addPeer", "recordPeer", "setPeer",
                 "revertPeer", "removePeers", "idle"} : at \notin ForwardJobs
  BY DEF ForwardJobs
<1> DEFINE Off == job[r].at \notin ForwardJobs /\ forwards' = forwards /\ nat' = nat /\ Grows
           Goes == Return(r) \/ \E at : Goto(r, at) /\ at \notin ForwardJobs
<1>2. CreateAtDestination(r) => Off /\ Goes
  BY <1>1 DEF CreateAtDestination, CreateEnd
<1>3. CreateAtSource(r) => Off /\ Goes
  BY <1>1 DEF CreateAtSource, CreateEnd
<1>4. UndoDestination(r) => Off /\ Goes
  BY <1>1 DEF UndoDestination, DeleteEnd
<1>5. AddTunnel(r) => Off /\ Goes
  BY <1>1 DEF AddTunnel
<1>6. SetStatus(r) => Off /\ Goes
  BY <1>1 DEF SetStatus
<1>7. DeleteAtSource(r) => Off /\ Goes
  BY <1>1 DEF DeleteAtSource, DeleteEnd
<1>8. DeleteAtDestination(r) => Off /\ Goes
  BY <1>1 DEF DeleteAtDestination, DeleteEnd
<1>9. DropTunnel(r) => Off /\ Goes
  BY <1>1 DEF DropTunnel
<1>10. AddPeer(r) => Off /\ Goes
  BY <1>1 DEF AddPeer, Saved
<1>11. RecordPeer(r) => Off /\ Goes
  BY <1>1 DEF RecordPeer
<1>12. setRemotePeerEnabled(r) => Off /\ Goes
  BY <1>1 DEF setRemotePeerEnabled, Saved
<1>13. RevertPeer(r) => Off /\ Goes
  BY <1>1 DEF RevertPeer
<1>14. DropUser(r) => Off /\ Goes
  BY <1>1 DEF DropUser
<1>15. ASSUME NEW e, NEW from, NEW next, from \notin ForwardJobs, next \notin ForwardJobs,
              ActAt(r, e, from, next)
       PROVE  ForwardInv'
  <2>0. Noted(r, next)
    BY <1>15, ActNotes
  <2>1. PICK failed : job' = [job EXCEPT ![r] = [@ EXCEPT !.at = next, !.failed = failed]]
    BY <2>0, Zenon DEF Noted
  <2> DEFINE j == [job[r] EXCEPT !.at = next, !.failed = failed]
  <2>2. j.at = next
    BY <1>0
  <2>3. job' = [job EXCEPT ![r] = j]
    BY <2>1
  <2>. HIDE DEF j
  <2>4. Off
    BY <1>15 DEF ActAt
  <2>. QED  BY <1>15, <2>2, <2>3, <2>4, ElsewhereKeeps
<1>16. ActAtSource(r) \/ ActAtDestination(r) => ForwardInv'
  BY <1>1, <1>15 DEF ActAtSource, ActAtDestination
<1>17. ASSUME deleteRemotePeer(r) PROVE ForwardInv'
  <2>1. PICK p : job' = [job EXCEPT ![r].todo = @ \ {p}]
    BY <1>17 DEF deleteRemotePeer
  <2> DEFINE j == [job[r] EXCEPT !.todo = @ \ {p}]
  <2>2. j.at = "removePeers"
    BY <1>0, <1>17 DEF deleteRemotePeer
  <2>3. job' = [job EXCEPT ![r] = j]
    BY <2>1
  <2>. HIDE DEF j
  <2>4. Off
    BY <1>1, <1>17 DEF deleteRemotePeer, Saved
  <2>. QED  BY <1>1, <2>2, <2>3, <2>4, ElsewhereKeeps
<1>18. ASSUME NEW p \in Peer, enforceUserPolicies(r, p) PROVE ForwardInv'
  <2> DEFINE a == peers[p].address
             j == [at |-> "setPeer", touch |-> {p, a}, p |-> p, a |-> a, on |-> ~peers[p].enabled]
  <2>1. job' = [job EXCEPT ![r] = j] /\ j.at = "setPeer"
    BY <1>18 DEF enforceUserPolicies
  <2>. HIDE DEF j
  <2>2. Off
    BY <1>1, <1>18 DEF enforceUserPolicies, Idle
  <2>. QED  BY <1>1, <2>1, <2>2, ElsewhereKeeps
<1>19. Off /\ Goes => ForwardInv'
  BY ElsewhereGoes
<1>. HIDE DEF Off, Goes
<1>. QED  BY <1>2, <1>3, <1>4, <1>5, <1>6, <1>7, <1>8, <1>9, <1>10, <1>11, <1>12, <1>13, <1>14,
             <1>16, <1>17, <1>18, <1>19

LEMMA InitForward == Init => ForwardInv
BY DEF Init, ForwardInv, NatShape, ForwardJobShape, Alone, Where, Apart, LeadsTo, Unused, Absent,
       On, Idle, ForwardJobs

LEMMA NextForward == Inv /\ ForwardInv /\ [Next]_vars => ForwardInv'
<1> SUFFICES ASSUME Inv, ForwardInv, [Next]_vars PROVE ForwardInv'
  OBVIOUS
<1>1. ASSUME NEW r \in Request, NewRequest(r) PROVE ForwardInv'
  BY <1>1, ForwardBegins, RemovalBegins, OtherRequestKeeps, OtherStepKeeps DEF NewRequest
<1>2. ASSUME NEW r \in Request, RequestStep(r) PROVE ForwardInv'
  BY <1>2, InstallKeeps, AddKeeps, UninstallKeeps, DropKeeps, OtherStepKeeps DEF RequestStep
<1>3. CASE UNCHANGED vars
  <2>1. ForwardJobShape' /\ NatShape' /\ \A x \in Forward : Kept(x)
    BY <1>3 DEF vars, rows, nodes, ForwardJobShape, NatShape, ForwardInv, Kept, Absent, InForce
  <2>2. \A x \in Forward : \A e : e # None /\ LeadsTo(x, e)' => LeadsTo(x, e)
    BY <1>3 DEF vars, rows, nodes, LeadsTo
  <2>. QED  BY <1>3, <2>1, <2>2, KeptStays, ApartStays DEF vars, ForwardInv
<1>. QED  BY <1>1, <1>2, <1>3, RestartKeeps, StopKeeps DEF Next

(* handleForwardItem of the panel and installForward, deleteForward of the  *)
(* agent: as long as no answer is lost and nobody else leads there, a       *)
(* forward with a row is in force across restarts, and one without leaves   *)
(* no rule.                                                                 *)
THEOREM ForwardCorrect == Spec => []ForwardAsTold
<1>1. Inv /\ ForwardInv => ForwardAsTold
  <2> SUFFICES ASSUME ForwardInv, NEW f \in Forward, Known(f)
               PROVE  IF forwards[f] = None THEN <<"dnat", f>> \notin nat.rules /\ f \notin nat.script
                      ELSE Rules(f, forwards[f]) \subseteq nat.rules
    BY DEF ForwardAsTold
  <2>1. \A r \in Request : ~On(r, f)
    BY DEF Known, AtRest, On, ForwardInv, ForwardJobShape, ForwardJobs, Idle
  <2>2. Where(f)
    BY DEF Known, ForwardInv
  <2>. QED  BY <2>1, <2>2 DEF Where, Absent, InForce
<1>. QED  BY InitInv, NextInv, InitForward, NextForward, <1>1, PTL DEF Spec

-----------------------------------------------------------------------------
(* Devices on the node.  A request about a device has done what its place   *)
(* says, and nobody who may yet take an address has that of another.        *)
Switches == {"setPeer", "revertPeer"}

PeerJob ==
  [at : Switches, touch : SUBSET (Peer \cup Address), p : Peer, a : Address, on : BOOLEAN]
    \cup [at : {"removePeers"}, touch : SUBSET (Peer \cup User), u : User, todo : SUBSET Peer]

(* A request that is about a device.                                        *)
Handles(r, p) ==
  \/ job[r].at \in Creations \cup Switches /\ job[r].p = p
  \/ job[r].at = "removePeers" /\ p \in job[r].touch

PeerJobShape ==
  \A r \in Request :
    /\ job[r].at \in Switches \cup {"removePeers"} => job[r] \in PeerJob
    /\ job[r].at \in Switches => {job[r].p, job[r].a} \subseteq job[r].touch
    /\ job[r].at \in Creations => {job[r].p, job[r].u, job[r].a} \subseteq job[r].touch
    /\ job[r].at = "removePeers" => job[r].u \in job[r].touch /\ job[r].todo \subseteq job[r].touch

(* The node serves the device at an address exactly if it is on.            *)
NodeHas(p, on, a) == IF on THEN kernel[p] # None /\ kernel[p].address = a ELSE kernel[p] = None
AsTold(p) == IF peers[p] = None THEN kernel[p] = None
             ELSE NodeHas(p, peers[p].enabled, peers[p].address)

HandledAlone(p) == \A r, q \in Request : Handles(r, p) /\ Handles(q, p) => r = q

Stands(p) ==
  /\ (\A r \in Request : ~Handles(r, p)) => AsTold(p)
  /\ \A r \in Request : Handles(r, p) =>
       /\ job[r].at = "addPeer" => peers[p] = None /\ kernel[p] = None
       /\ job[r].at = "recordPeer" => peers[p] = None /\ NodeHas(p, TRUE, job[r].a)
       /\ job[r].at \in Switches =>
            /\ peers[p] # None /\ peers[p].enabled = job[r].on /\ peers[p].address = job[r].a
            /\ NodeHas(p, ~job[r].on, job[r].a)
       /\ job[r].at = "removePeers" =>
            /\ peers[p] # None
            /\ IF p \in job[r].todo THEN AsTold(p) ELSE kernel[p] = None

(* Who may take an address, or has it.                                      *)
Claims(p, a) ==
  \/ peers[p] # None /\ peers[p].address = a
  \/ \E r \in Request : job[r].at \in Creations \cup Switches /\ job[r].p = p /\ job[r].a = a

OwnAddress(p) == \A q \in Peer, a \in Address : q # p => ~(Claims(p, a) /\ Claims(q, a))

(* A removal knows the devices of its user: others are unsure, and all are  *)
(* if it is not the only one.                                               *)
RemovalKnows ==
  \A r \in Request : job[r].at = "removePeers" =>
    /\ \A p \in Peer \ unsure : peers[p] # None /\ peers[p].user = job[r].u => p \in job[r].touch
    /\ \A q \in Request : Creating(q) /\ job[q].u = job[r].u => job[q].p \in unsure
    /\ \A p \in Peer : p \in job[r].touch \ unsure =>
         /\ job[r].u \in users /\ peers[p] # None /\ peers[p].user = job[r].u
         /\ \A q \in Request : job[q].at = "removePeers" /\ job[q].u = job[r].u => q = r

(* A device that no request has named yet.                                  *)
Unknown(p) ==
  peers[p] = None /\ kernel[p] = None /\ conf[p] = None /\ \A r \in Request : ~Handles(r, p)

DeviceShape == DOMAIN kernel = Peer /\ DOMAIN conf = Peer /\ peers \in [Peer -> PeerRow \cup {None}]

PeerInv ==
  /\ DeviceShape /\ PeerJobShape /\ RemovalKnows
  /\ \A p \in Peer \ unsure : HandledAlone(p) /\ Stands(p) /\ OwnAddress(p)
  /\ \A p \in Peer \ used : Unknown(p)

(* What is in the file is of now or of then.                                *)
Keeping == conf' \in {conf, kernel'}

(* A step that does not touch x: x stays where it is.                       *)
Spared(x) ==
  /\ peers'[x] = peers[x]
  /\ kernel[x] = None => kernel'[x] = None
  /\ x \notin unsure => kernel'[x] = kernel[x]
  /\ \A r \in Request : Handles(r, x) \/ Handles(r, x)' =>
       \/ job'[r] = job[r]
       \/ /\ job[r].at = "removePeers" /\ job'[r].at = "removePeers"
          /\ job'[r].touch = job[r].touch /\ (x \in job'[r].todo <=> x \in job[r].todo)

LEMMA SparedStands ==
  ASSUME PeerInv, NEW x \in Peer, Spared(x)
  PROVE  /\ x \notin unsure => HandledAlone(x)' /\ Stands(x)'
         /\ Unknown(x) /\ Keeping => Unknown(x)'
<1>1. \A r \in Request : Handles(r, x)' <=> Handles(r, x)
  BY DEF Spared, Handles, Creations, Switches
<1>2. Unknown(x) /\ Keeping => Unknown(x)'
  BY <1>1 DEF Unknown, Spared, Keeping
<1>3. ASSUME x \notin unsure PROVE HandledAlone(x)'
  BY <1>1, <1>3 DEF HandledAlone, PeerInv
<1>4. ASSUME x \notin unsure PROVE Stands(x)'
  <2>1. Stands(x) /\ peers'[x] = peers[x] /\ kernel'[x] = kernel[x]
    BY <1>4 DEF PeerInv, Spared
  <2>2. AsTold(x)' <=> AsTold(x)
    BY <2>1 DEF AsTold, NodeHas
  <2>3. (\A r \in Request : ~Handles(r, x)') => AsTold(x)'
    BY <1>1, <2>1, <2>2 DEF Stands
  <2>4. ASSUME NEW r \in Request, Handles(r, x)'
        PROVE  /\ job'[r].at = "addPeer" => peers'[x] = None /\ kernel'[x] = None
               /\ job'[r].at = "recordPeer" => peers'[x] = None /\ NodeHas(x, TRUE, job[r].a)'
               /\ job'[r].at \in Switches =>
                    /\ peers'[x] # None /\ peers'[x].enabled = job'[r].on
                    /\ peers'[x].address = job'[r].a /\ NodeHas(x, ~job[r].on, job[r].a)'
               /\ job'[r].at = "removePeers" =>
                    /\ peers'[x] # None
                    /\ IF x \in job'[r].todo THEN AsTold(x)' ELSE kernel'[x] = None
    <3>1. Handles(r, x)
      BY <1>1, <2>4
    <3>2. CASE job'[r] = job[r]
      BY <2>1, <2>2, <3>1, <3>2 DEF Stands, NodeHas
    <3>3. CASE /\ job[r].at = "removePeers" /\ job'[r].at = "removePeers"
               /\ (x \in job'[r].todo <=> x \in job[r].todo)
      BY <2>1, <2>2, <3>1, <3>3 DEF Stands, Switches
    <3>. QED  BY <3>1, <3>2, <3>3 DEF Spared
  <2>. QED  BY <2>3, <2>4 DEF Stands
<1>. QED  BY <1>2, <1>3, <1>4

(* No new claim to an address.                                              *)
LEMMA OwnStays ==
  ASSUME PeerInv, unsure \subseteq unsure', \A x \in Peer : \A a : Claims(x, a)' => Claims(x, a)
  PROVE  \A x \in Peer \ unsure' : OwnAddress(x)'
BY DEF PeerInv, OwnAddress

(* What the node has of a device, the device claims.                        *)
LEMMA ServedClaimed ==
  ASSUME Inv, PeerInv, NEW x \in Peer, x \notin unsure, kernel[x] # None
  PROVE  Claims(x, kernel[x].address) /\ kernel[x].address \in Address
<1>1. Stands(x)
  BY DEF PeerInv
<1>2. CASE \A r \in Request : ~Handles(r, x)
  <2>1. peers[x] # None /\ kernel[x].address = peers[x].address
    BY <1>1, <1>2 DEF Stands, AsTold, NodeHas
  <2>. QED  BY <2>1 DEF Claims, PeerInv, DeviceShape, PeerRow
<1>3. ASSUME NEW r \in Request, Handles(r, x)
      PROVE  Claims(x, kernel[x].address) /\ kernel[x].address \in Address
  <2>1. CASE job[r].at \in Switches \cup {"removePeers"}
    <3>1. peers[x] # None /\ kernel[x].address = peers[x].address
      BY <1>1, <1>3, <2>1 DEF Stands, AsTold, NodeHas, Switches
    <3>. QED  BY <3>1 DEF Claims, PeerInv, DeviceShape, PeerRow
  <2>2. CASE job[r].at \in Creations
    <3>1. job[r].at = "recordPeer" /\ kernel[x].address = job[r].a
      BY <1>1, <1>3, <2>2 DEF Stands, NodeHas, Creations
    <3>2. job[r].p = x
      BY <1>3, <2>2 DEF Handles, Creations
    <3>3. job[r].a \in Address
      BY <2>2 DEF Inv, JobShape, Creating, Creation
    <3>. QED  BY <2>2, <3>1, <3>2, <3>3 DEF Claims
  <2>. QED  BY <1>3, <2>1, <2>2 DEF Handles
<1>. QED  BY <1>2, <1>3

(* Removals go on, and know what they knew.                                 *)
LEMMA RemovalsKnow ==
  ASSUME RemovalKnows, Quiet, Grows, RowsKept, users' = users,
         \A p \in Peer \ unsure' : peers[p] # None => peers'[p] # None,
         \A r \in Request : job'[r].at = "removePeers" =>
           job[r].at = "removePeers" /\ job'[r].u = job[r].u /\ job'[r].touch = job[r].touch
  PROVE  RemovalKnows'
<1> SUFFICES ASSUME NEW r \in Request, job'[r].at = "removePeers"
             PROVE  /\ \A p \in Peer \ unsure' :
                         peers'[p] # None /\ peers'[p].user = job'[r].u => p \in job'[r].touch
                    /\ \A q \in Request : Creating(q)' /\ job'[q].u = job'[r].u => job'[q].p \in unsure'
                    /\ \A p \in Peer : p \in job'[r].touch \ unsure' =>
                         /\ job'[r].u \in users' /\ peers'[p] # None /\ peers'[p].user = job'[r].u
                         /\ \A q \in Request :
                              job'[q].at = "removePeers" /\ job'[q].u = job'[r].u => q = r
  BY DEF RemovalKnows
<1>1. job[r].at = "removePeers" /\ job'[r].u = job[r].u /\ job'[r].touch = job[r].touch
  OBVIOUS
<1>2. \A p \in Peer \ unsure' :
        peers'[p] # None /\ peers'[p].user = job'[r].u => p \in job'[r].touch
  BY <1>1 DEF RemovalKnows, Grows, RowsKept
<1>3. \A q \in Request : Creating(q)' /\ job'[q].u = job'[r].u => job'[q].p \in unsure'
  BY <1>1 DEF RemovalKnows, Grows, Quiet
<1>4. ASSUME NEW p \in Peer, p \in job'[r].touch \ unsure'
      PROVE  /\ job'[r].u \in users' /\ peers'[p] # None /\ peers'[p].user = job'[r].u
             /\ \A q \in Request : job'[q].at = "removePeers" /\ job'[q].u = job'[r].u => q = r
  BY <1>1, <1>4 DEF RemovalKnows, Grows, RowsKept
<1>. QED  BY <1>2, <1>3, <1>4

(* What a request about one device does to it.                              *)
LEMMA DeviceOf ==
  ASSUME Inv, PeerInv, NEW r \in Request, job[r].at \in Creations \cup Switches
  PROVE  job[r].p \in Peer /\ job[r].a \in Address /\ Handles(r, job[r].p)
BY DEF Inv, JobShape, Creating, Creation, PeerInv, PeerJobShape, PeerJob, Switches, Creations, Handles

(* Installing a device takes its address from nobody who is not unsure.     *)
LEMMA InstallSpares ==
  ASSUME Inv, PeerInv, NEW p \in Peer, NEW a \in Address, NEW secret, Claims(p, a),
         kernel' = Installed(p, a, secret)
  PROVE  /\ DOMAIN kernel' = Peer /\ NodeHas(p, TRUE, a)'
         /\ \A x \in Peer : x # p =>
              (kernel[x] = None => kernel'[x] = None) /\ (x \notin unsure => kernel'[x] = kernel[x])
<1>1. DOMAIN kernel' = Peer
  BY DEF Installed
<1>2. kernel'[p] = [address |-> a, secret |-> secret \/ (kernel[p] # None /\ kernel[p].secret)]
  BY DEF Installed
<1>3. kernel'[p].address = a /\ kernel'[p] # None
  <2>1. [address |-> a, secret |-> secret \/ (kernel[p] # None /\ kernel[p].secret)] \in KernelPeer
    BY DEF KernelPeer
  <2>. QED  BY <1>2, <2>1, ProvisioningAssumption
<1>4. ASSUME NEW x \in Peer, x # p
      PROVE  (kernel[x] = None => kernel'[x] = None) /\ (x \notin unsure => kernel'[x] = kernel[x])
  <2>1. kernel'[x] = IF kernel[x] # None /\ kernel[x].address = a
                     THEN [kernel[x] EXCEPT !.address = None] ELSE kernel[x]
    BY <1>4 DEF Installed
  <2>2. ASSUME x \notin unsure, kernel[x] # None PROVE kernel[x].address # a
    BY <1>4, <2>2, ServedClaimed DEF PeerInv, OwnAddress
  <2>. QED  BY <2>1, <2>2
<1>. QED  BY <1>1, <1>3, <1>4 DEF NodeHas

(* The step of a request about one device: only its own job changes.        *)
LEMMA DeviceStep ==
  ASSUME Inv, PeerInv, NEW r \in Request, NEW p, p = job[r].p,
         job[r].at \in Creations \cup Switches,
         \/ Return(r)
         \/ job[r].at = "addPeer" /\ Goto(r, "recordPeer")
         \/ job[r].at = "setPeer" /\ Goto(r, "revertPeer")
  PROVE  /\ PeerJobShape' /\ Quiet
         /\ \A x \in Peer : x # p => \A q \in Request : Handles(q, x) \/ Handles(q, x)' => job'[q] = job[q]
         /\ \A q \in Request : q # r => job'[q] = job[q]
         /\ \A q \in Request : job'[q].at \in Creations \cup Switches =>
              job[q].at \in Creations \cup Switches /\ job'[q].p = job[q].p /\ job'[q].a = job[q].a
         /\ \A q \in Request : job'[q].at = "removePeers" => job'[q] = job[q]
         /\ \/ job'[r] = Idle
            \/ /\ job'[r].p = p /\ job'[r].a = job[r].a
               /\ job[r].at = "addPeer" => job'[r].at = "recordPeer"
               /\ job[r].at = "setPeer" => job'[r].at = "revertPeer" /\ job'[r].on = job[r].on
<1>1. DOMAIN job = Request /\ Idle.at \notin Creations \cup Switches \cup {"removePeers"}
  BY DEF Inv, JobShape, Idle, Creations, Switches
<1>2. CASE Return(r)
  <2>1. \A q \in Request : job'[q] = IF q = r THEN Idle ELSE job[q]
    BY <1>1, <1>2 DEF Return
  <2>2. PeerJobShape'
    BY <1>1, <2>1 DEF PeerJobShape, PeerInv
  <2>. QED  BY <1>1, <2>1, <2>2 DEF Quiet, Creating, Handles, Creations, Switches
<1>3. ASSUME NEW at, Goto(r, at), job[r].at = "addPeer", at = "recordPeer"
      PROVE  PeerJobShape' /\ \E j : /\ \A q \in Request : job'[q] = IF q = r THEN j ELSE job[q]
                                     /\ j.at = at /\ j.p = p /\ j.u = job[r].u /\ j.a = job[r].a
  <2> DEFINE j == [job[r] EXCEPT !.at = at]
  <2>1. job[r] \in Creation
    BY <1>3 DEF Inv, JobShape, Creating, Creations
  <2>2. /\ j.at = at /\ j.p = p /\ j.u = job[r].u /\ j.a = job[r].a /\ j.touch = job[r].touch
    BY <2>1 DEF Creation
  <2>3. job' = [job EXCEPT ![r] = j]
    BY <1>3 DEF Goto
  <2>. HIDE DEF j
  <2>4. \A q \in Request : job'[q] = IF q = r THEN j ELSE job[q]
    BY <1>1, <2>3
  <2>5. PeerJobShape'
    BY <1>3, <2>2, <2>4 DEF PeerJobShape, PeerInv, Creations, Switches
  <2>. QED  BY <2>2, <2>4, <2>5
<1>4. CASE job[r].at = "addPeer" /\ Goto(r, "recordPeer")
  <2>1. PICK j : /\ \A q \in Request : job'[q] = IF q = r THEN j ELSE job[q]
                 /\ j.at = "recordPeer" /\ j.p = p /\ j.u = job[r].u /\ j.a = job[r].a
    BY <1>3, <1>4
  <2>2. PeerJobShape'
    BY <1>3, <1>4
  <2>. QED  BY <1>1, <1>4, <2>1, <2>2 DEF Quiet, Creating, Handles, Creations, Switches
<1>5. ASSUME NEW at, Goto(r, at), job[r].at = "setPeer", at = "revertPeer"
      PROVE  PeerJobShape' /\ \E j : /\ \A q \in Request : job'[q] = IF q = r THEN j ELSE job[q]
                                     /\ j.at = at /\ j.p = p /\ j.a = job[r].a /\ j.on = job[r].on
  <2> DEFINE j == [job[r] EXCEPT !.at = at]
  <2>1. job[r] \in PeerJob
    BY <1>5 DEF PeerInv, PeerJobShape, Switches
  <2>2. /\ j \in PeerJob /\ j.at = at /\ j.p = p /\ j.a = job[r].a /\ j.on = job[r].on
        /\ j.touch = job[r].touch
    BY <1>5, <2>1 DEF PeerJob, Switches
  <2>3. job' = [job EXCEPT ![r] = j]
    BY <1>5 DEF Goto
  <2>. HIDE DEF j
  <2>4. \A q \in Request : job'[q] = IF q = r THEN j ELSE job[q]
    BY <1>1, <2>3
  <2>5. PeerJobShape'
    BY <1>5, <2>2, <2>4 DEF PeerJobShape, PeerInv, Creations, Switches
  <2>. QED  BY <2>2, <2>4, <2>5
<1>6. CASE job[r].at = "setPeer" /\ Goto(r, "revertPeer")
  <2>1. PICK j : /\ \A q \in Request : job'[q] = IF q = r THEN j ELSE job[q]
                 /\ j.at = "revertPeer" /\ j.p = p /\ j.a = job[r].a /\ j.on = job[r].on
    BY <1>5, <1>6
  <2>2. PeerJobShape'
    BY <1>5, <1>6
  <2>. QED  BY <1>1, <1>6, <2>1, <2>2 DEF Quiet, Creating, Handles, Creations, Switches
<1>. QED  BY <1>2, <1>4, <1>6

(* The agent adds the device of a creation, or nobody knows.                *)
LEMMA AddPeerServes ==
  ASSUME Inv, PeerInv, NEW r \in Request, AddPeer(r)
  PROVE  PeerInv'
<1>1. /\ job[r].at = "addPeer" /\ job[r].at \in Creations \cup Switches
      /\ Return(r) \/ Goto(r, "recordPeer")
      /\ peers' = peers /\ users' = users /\ used' = used /\ unsure \subseteq unsure' /\ Keeping
  BY DEF AddPeer, Creations, rows, wg, Saved, Keeping, Well, Fault
<1>2. PICK p \in Peer, a \in Address : p = job[r].p /\ a = job[r].a
  BY <1>1, DeviceOf
<1>3. /\ PeerJobShape' /\ Quiet
      /\ \A x \in Peer : x # p => \A q \in Request : Handles(q, x) \/ Handles(q, x)' => job'[q] = job[q]
      /\ \A q \in Request : q # r => job'[q] = job[q]
      /\ \A q \in Request : job'[q].at \in Creations \cup Switches =>
           job[q].at \in Creations \cup Switches /\ job'[q].p = job[q].p /\ job'[q].a = job[q].a
      /\ \A q \in Request : job'[q].at = "removePeers" => job'[q] = job[q]
      /\ \/ job'[r] = Idle
         \/ job'[r].p = p /\ job'[r].a = a /\ job'[r].at = "recordPeer"
  BY <1>1, <1>2, DeviceStep
<1>4. \/ kernel' = kernel /\ Return(r)
      \/ kernel' = Installed(p, a, TRUE) /\ (Goto(r, "recordPeer") \/ p \in unsure')
  BY <1>2 DEF AddPeer, wg, Fault
<1>5. Claims(p, a) /\ Handles(r, p)
  BY <1>1, <1>2 DEF Claims, Handles
<1>6. DeviceShape' /\ \A x \in Peer : x # p => Spared(x)
  <2>1. DOMAIN kernel' = Peer /\ \A x \in Peer : x # p =>
          (kernel[x] = None => kernel'[x] = None) /\ (x \notin unsure => kernel'[x] = kernel[x])
    BY <1>4, <1>5, InstallSpares DEF PeerInv, DeviceShape
  <2>. QED  BY <1>1, <1>3, <2>1 DEF Spared, PeerInv, DeviceShape, Keeping
<1>7. \A x \in Peer : \A b : Claims(x, b)' => Claims(x, b)
  BY <1>1, <1>3 DEF Claims
<1>8. RemovalKnows'
  <2>1. RowsKept
    BY <1>1, SameKeeps DEF Inv
  <2>. QED  BY <1>1, <1>3, <2>1, RemovalsKnow DEF PeerInv, Grows
<1>9. ASSUME p \notin unsure' PROVE HandledAlone(p)' /\ Stands(p)'
  <2>1. HandledAlone(p) /\ Stands(p)
    BY <1>1, <1>9 DEF PeerInv
  <2>2. \A q \in Request : Handles(q, p)' => q = r
    BY <1>3, <1>5, <2>1 DEF HandledAlone, Handles
  <2>3. peers'[p] = None /\ kernel[p] = None
    BY <1>1, <1>5, <2>1 DEF Stands
  <2>4. CASE kernel' = kernel /\ Return(r)
    <3>1. ~Handles(r, p)'
      BY <2>4 DEF Return, Handles, Idle, Creations, Switches, Inv, JobShape
    <3>2. AsTold(p)' /\ \A q \in Request : ~Handles(q, p)'
      BY <2>2, <2>3, <2>4, <3>1 DEF AsTold
    <3>. QED  BY <3>2 DEF HandledAlone, Stands
  <2>5. CASE kernel' = Installed(p, a, TRUE) /\ Goto(r, "recordPeer")
    <3>1. NodeHas(p, TRUE, a)'
      BY <1>5, <2>5, InstallSpares
    <3>2. job'[r] # Idle
      BY <2>5 DEF Goto, Inv, JobShape, Idle
    <3>3. job'[r].at = "recordPeer" /\ NodeHas(p, TRUE, job[r].a)'
      BY <1>3, <3>1, <3>2
    <3>4. Handles(r, p)'
      BY <1>3, <3>2, <3>3 DEF Handles, Creations
    <3>5. HandledAlone(p)'
      BY <2>2 DEF HandledAlone
    <3>. QED  BY <2>2, <2>3, <3>3, <3>4, <3>5 DEF Stands, Switches
  <2>. QED  BY <1>4, <1>9, <2>4, <2>5
<1>10. p \in used
  BY <1>5 DEF PeerInv, Unknown
<1>. QED  BY <1>1, <1>3, <1>6, <1>7, <1>8, <1>9, <1>10, SparedStands, OwnStays DEF PeerInv, Keeping

(* The device is recorded, or nobody knows.                                 *)
LEMMA RecordServes ==
  ASSUME Inv, PeerInv, NEW r \in Request, RecordPeer(r)
  PROVE  PeerInv'
<1>1. /\ job[r].at = "recordPeer" /\ job[r].at \in Creations \cup Switches /\ Return(r)
      /\ kernel' = kernel /\ conf' = conf /\ users' = users /\ used' = used /\ unsure \subseteq unsure'
  BY DEF RecordPeer, Creations, nodes, wg, Well, Fault
<1>2. PICK p \in Peer, a \in Address : p = job[r].p /\ a = job[r].a
  BY <1>1, DeviceOf
<1>a. PICK u \in User : u = job[r].u
  BY <1>1 DEF Inv, JobShape, Creating, Creation, Creations
<1>3. /\ PeerJobShape' /\ Quiet
      /\ \A x \in Peer : x # p => \A q \in Request : Handles(q, x) \/ Handles(q, x)' => job'[q] = job[q]
      /\ \A q \in Request : q # r => job'[q] = job[q]
      /\ \A q \in Request : job'[q].at \in Creations \cup Switches =>
           job[q].at \in Creations \cup Switches /\ job'[q].p = job[q].p /\ job'[q].a = job[q].a
      /\ \A q \in Request : job'[q].at = "removePeers" => job'[q] = job[q]
      /\ job'[r] = Idle
  <2>1. job'[r] = Idle
    BY <1>1 DEF Return, Inv, JobShape
  <2>. QED  BY <1>1, <1>2, <2>1, DeviceStep
<1> DEFINE row == [user |-> u, address |-> a, enabled |-> TRUE]
<1>4. row \in PeerRow /\ row # None /\ row.user = u /\ row.address = a /\ row.enabled
  <2>1. row \in PeerRow
    BY DEF PeerRow
  <2>. QED  BY <2>1, ProvisioningAssumption
<1>5. \/ peers' = peers /\ p \in unsure'
      \/ peers' = [peers EXCEPT ![p] = row]
  BY <1>2, <1>a DEF RecordPeer, Fault
<1>. HIDE DEF row
<1>b. Claims(p, a) /\ Handles(r, p)
  BY <1>1, <1>2 DEF Claims, Handles
<1>6. DeviceShape' /\ \A x \in Peer : x # p => peers'[x] = peers[x] /\ Spared(x)
  BY <1>1, <1>3, <1>4, <1>5 DEF Spared, PeerInv, DeviceShape
<1>7. peers'[p] = peers[p] \/ peers'[p] = row
  BY <1>5 DEF PeerInv, DeviceShape
<1>8. \A x \in Peer : \A b : Claims(x, b)' => Claims(x, b)
  BY <1>3, <1>4, <1>6, <1>7, <1>b DEF Claims
<1>9. RemovalKnows'
  <2> SUFFICES ASSUME NEW q \in Request, job'[q].at = "removePeers"
               PROVE  /\ \A x \in Peer \ unsure' :
                           peers'[x] # None /\ peers'[x].user = job'[q].u => x \in job'[q].touch
                      /\ \A s \in Request : Creating(s)' /\ job'[s].u = job'[q].u => job'[s].p \in unsure'
                      /\ \A x \in Peer : x \in job'[q].touch \ unsure' =>
                           /\ job'[q].u \in users' /\ peers'[x] # None /\ peers'[x].user = job'[q].u
                           /\ \A s \in Request :
                                job'[s].at = "removePeers" /\ job'[s].u = job'[q].u => s = q
    BY DEF RemovalKnows
  <2>1. job'[q] = job[q] /\ \A s \in Request : job'[s].at = "removePeers" => job'[s] = job[s]
    BY <1>3
  <2>2. u = job[q].u => p \in unsure
    BY <1>1, <1>2, <1>a, <2>1 DEF PeerInv, RemovalKnows, Creating, Creations
  <2>3. \A x \in Peer \ unsure' :
          peers'[x] # None /\ peers'[x].user = job'[q].u => x \in job'[q].touch
    BY <1>1, <1>4, <1>6, <1>7, <2>1, <2>2 DEF PeerInv, RemovalKnows
  <2>4. \A s \in Request : Creating(s)' /\ job'[s].u = job'[q].u => job'[s].p \in unsure'
    BY <1>1, <1>3, <2>1 DEF PeerInv, RemovalKnows, Quiet
  <2>5. p \in unsure \/ peers[p] = None
    BY <1>1, <1>b DEF PeerInv, Stands
  <2>6. ASSUME NEW x \in Peer, x \in job'[q].touch \ unsure'
        PROVE  /\ job'[q].u \in users' /\ peers'[x] # None /\ peers'[x].user = job'[q].u
               /\ \A s \in Request : job'[s].at = "removePeers" /\ job'[s].u = job'[q].u => s = q
    <3>1. /\ job[q].u \in users /\ peers[x] # None /\ peers[x].user = job[q].u
          /\ \A s \in Request : job[s].at = "removePeers" /\ job[s].u = job[q].u => s = q
      BY <1>1, <2>1, <2>6 DEF PeerInv, RemovalKnows
    <3>2. x # p
      BY <1>1, <2>5, <2>6, <3>1
    <3>. QED  BY <1>1, <1>6, <2>1, <3>1, <3>2
  <2>. QED  BY <2>3, <2>4, <2>6
<1>10. ASSUME p \notin unsure' PROVE HandledAlone(p)' /\ Stands(p)'
  <2>1. HandledAlone(p) /\ Stands(p)
    BY <1>1, <1>10 DEF PeerInv
  <2>2. \A q \in Request : ~Handles(q, p)'
    BY <1>3, <1>b, <2>1 DEF HandledAlone, Handles, Idle, Creations, Switches
  <2>3. NodeHas(p, TRUE, a)
    BY <1>1, <1>2, <1>b, <2>1 DEF Stands
  <2>4. peers'[p] = row
    BY <1>5, <1>10 DEF PeerInv, DeviceShape
  <2>5. AsTold(p)'
    BY <1>1, <1>4, <2>3, <2>4 DEF AsTold, NodeHas
  <2>. QED  BY <2>2, <2>5 DEF HandledAlone, Stands
<1>11. p \in used
  BY <1>b DEF PeerInv, Unknown
<1>. QED  BY <1>1, <1>3, <1>6, <1>8, <1>9, <1>10, <1>11, SparedStands, OwnStays DEF PeerInv, Keeping

(* The agent switches the device, or nobody knows and the row is put back.  *)
LEMMA SwitchServes ==
  ASSUME Inv, PeerInv, NEW r \in Request, setRemotePeerEnabled(r)
  PROVE  PeerInv'
<1>1. /\ job[r].at = "setPeer" /\ job[r].at \in Creations \cup Switches
      /\ Return(r) \/ Goto(r, "revertPeer")
      /\ peers' = peers /\ users' = users /\ used' = used /\ unsure \subseteq unsure' /\ Keeping
  BY DEF setRemotePeerEnabled, Switches, rows, wg, Saved, Keeping, Well, Fault
<1>2. PICK p \in Peer, a \in Address : p = job[r].p /\ a = job[r].a
  BY <1>1, DeviceOf
<1>a. PICK on \in BOOLEAN : on = job[r].on
  BY <1>1 DEF PeerInv, PeerJobShape, PeerJob, Switches
<1>3. /\ PeerJobShape' /\ Quiet
      /\ \A x \in Peer : x # p => \A q \in Request : Handles(q, x) \/ Handles(q, x)' => job'[q] = job[q]
      /\ \A q \in Request : q # r => job'[q] = job[q]
      /\ \A q \in Request : job'[q].at \in Creations \cup Switches =>
           job[q].at \in Creations \cup Switches /\ job'[q].p = job[q].p /\ job'[q].a = job[q].a
      /\ \A q \in Request : job'[q].at = "removePeers" => job'[q] = job[q]
      /\ \/ job'[r] = Idle
         \/ job'[r].p = p /\ job'[r].a = a /\ job'[r].at = "revertPeer" /\ job'[r].on = on
  BY <1>1, <1>2, <1>a, DeviceStep
<1>4. \/ kernel' = SetState(p, a, on) /\ (Return(r) \/ p \in unsure')
      \/ kernel' = kernel /\ Goto(r, "revertPeer")
  BY <1>2, <1>a DEF setRemotePeerEnabled, wg, Fault
<1>5. Claims(p, a) /\ Handles(r, p)
  BY <1>1, <1>2 DEF Claims, Handles
<1>b. ASSUME kernel' = SetState(p, a, on)
      PROVE  /\ DOMAIN kernel' = Peer /\ NodeHas(p, on, a)'
             /\ \A x \in Peer : x # p =>
                  (kernel[x] = None => kernel'[x] = None) /\ (x \notin unsure => kernel'[x] = kernel[x])
  <2>1. CASE on
    <3>1. kernel' = Installed(p, a, FALSE)
      BY <1>b, <2>1 DEF SetState
    <3>. QED  BY <1>5, <2>1, <3>1, InstallSpares DEF NodeHas
  <2>2. CASE ~on
    <3>1. kernel' = [kernel EXCEPT ![p] = None]
      BY <1>b, <2>2 DEF SetState
    <3>. QED  BY <2>2, <3>1 DEF PeerInv, DeviceShape, NodeHas
  <2>. QED  BY <2>1, <2>2
<1>6. DeviceShape' /\ \A x \in Peer : x # p => Spared(x)
  <2>1. DOMAIN kernel' = Peer /\ \A x \in Peer : x # p =>
          (kernel[x] = None => kernel'[x] = None) /\ (x \notin unsure => kernel'[x] = kernel[x])
    BY <1>4, <1>b DEF PeerInv, DeviceShape
  <2>. QED  BY <1>1, <1>3, <2>1 DEF Spared, PeerInv, DeviceShape, Keeping
<1>7. \A x \in Peer : \A b : Claims(x, b)' => Claims(x, b)
  BY <1>1, <1>3 DEF Claims
<1>8. RemovalKnows'
  <2>1. RowsKept
    BY <1>1, SameKeeps DEF Inv
  <2>. QED  BY <1>1, <1>3, <2>1, RemovalsKnow DEF PeerInv, Grows
<1>9. ASSUME p \notin unsure' PROVE HandledAlone(p)' /\ Stands(p)'
  <2>1. HandledAlone(p) /\ Stands(p)
    BY <1>1, <1>9 DEF PeerInv
  <2>2. \A q \in Request : Handles(q, p)' => q = r
    BY <1>3, <1>5, <2>1 DEF HandledAlone, Handles
  <2>3. /\ peers'[p] # None /\ peers'[p].enabled = on /\ peers'[p].address = a
        /\ NodeHas(p, ~on, a)
    BY <1>1, <1>2, <1>a, <1>5, <2>1 DEF Stands, Switches
  <2>4. CASE kernel' = SetState(p, a, on) /\ Return(r)
    <3>1. ~Handles(r, p)'
      BY <2>4 DEF Return, Handles, Idle, Creations, Switches, Inv, JobShape
    <3>2. NodeHas(p, on, a)'
      BY <1>b, <2>4
    <3>3. AsTold(p)'
      BY <2>3, <3>2 DEF AsTold, NodeHas
    <3>. QED  BY <2>2, <3>1, <3>3 DEF HandledAlone, Stands
  <2>5. CASE kernel' = kernel /\ Goto(r, "revertPeer")
    <3>1. job'[r] # Idle
      BY <2>5 DEF Goto, Inv, JobShape, Idle
    <3>2. /\ job'[r].at = "revertPeer" /\ job'[r].on = on /\ job'[r].a = a
          /\ Handles(r, p)'
      BY <1>3, <3>1 DEF Handles, Switches
    <3>3. NodeHas(p, ~on, a)'
      BY <2>3, <2>5 DEF NodeHas
    <3>4. NodeHas(p, ~job[r].on, job[r].a)'
      BY <3>2, <3>3
    <3>5. HandledAlone(p)'
      BY <2>2 DEF HandledAlone
    <3>. QED  BY <2>2, <2>3, <3>2, <3>4, <3>5 DEF Stands
  <2>. QED  BY <1>4, <1>9, <2>4, <2>5
<1>10. p \in used
  BY <1>5 DEF PeerInv, Unknown
<1>. QED  BY <1>1, <1>3, <1>6, <1>7, <1>8, <1>9, <1>10, SparedStands, OwnStays DEF PeerInv, Keeping

(* The row is put back, or nobody knows.                                    *)
LEMMA RevertServes ==
  ASSUME Inv, PeerInv, NEW r \in Request, RevertPeer(r)
  PROVE  PeerInv'
<1>1. /\ job[r].at = "revertPeer" /\ job[r].at \in Creations \cup Switches /\ Return(r)
      /\ kernel' = kernel /\ conf' = conf /\ users' = users /\ used' = used /\ unsure \subseteq unsure'
  BY DEF RevertPeer, Switches, nodes, wg, Well, Fault
<1>2. PICK p \in Peer, a \in Address : p = job[r].p /\ a = job[r].a
  BY <1>1, DeviceOf
<1>a. PICK on \in BOOLEAN : on = job[r].on
  BY <1>1 DEF PeerInv, PeerJobShape, PeerJob, Switches
<1>3. /\ PeerJobShape' /\ Quiet
      /\ \A x \in Peer : x # p => \A q \in Request : Handles(q, x) \/ Handles(q, x)' => job'[q] = job[q]
      /\ \A q \in Request : q # r => job'[q] = job[q]
      /\ \A q \in Request : job'[q].at \in Creations \cup Switches =>
           job[q].at \in Creations \cup Switches /\ job'[q].p = job[q].p /\ job'[q].a = job[q].a
      /\ \A q \in Request : job'[q].at = "removePeers" => job'[q] = job[q]
      /\ job'[r] = Idle
  <2>1. job'[r] = Idle
    BY <1>1 DEF Return, Inv, JobShape
  <2>. QED  BY <1>1, <1>2, <2>1, DeviceStep
<1> DEFINE row == [peers[p] EXCEPT !.enabled = ~on]
<1>4. ASSUME peers[p] # None
      PROVE  /\ row \in PeerRow /\ row # None /\ row.user = peers[p].user
             /\ row.address = peers[p].address /\ row.enabled = ~on
  <2>1. peers[p] \in PeerRow
    BY <1>4 DEF PeerInv, DeviceShape
  <2>2. /\ row \in PeerRow /\ row.user = peers[p].user
        /\ row.address = peers[p].address /\ row.enabled = ~on
    BY <2>1 DEF PeerRow
  <2>. QED  BY <2>2, ProvisioningAssumption
<1>5. \/ peers' = peers /\ (peers[p] = None \/ p \in unsure')
      \/ peers[p] # None /\ peers' = [peers EXCEPT ![p] = row]
  BY <1>2, <1>a DEF RevertPeer, Fault
<1>. HIDE DEF row
<1>b. Handles(r, p)
  BY <1>1, <1>2 DEF Handles
<1>6. DeviceShape' /\ \A x \in Peer : x # p => peers'[x] = peers[x] /\ Spared(x)
  BY <1>1, <1>3, <1>4, <1>5 DEF Spared, PeerInv, DeviceShape
<1>7. peers'[p] = peers[p] \/ (peers[p] # None /\ peers'[p] = row)
  BY <1>5 DEF PeerInv, DeviceShape
<1>8. \A x \in Peer : \A b : Claims(x, b)' => Claims(x, b)
  BY <1>3, <1>4, <1>6, <1>7 DEF Claims
<1>9. RemovalKnows'
  <2>1. RowsKept
    <3>1. DOMAIN peers' = Peer
      BY <1>6 DEF DeviceShape
    <3>2. \A x \in Peer : peers'[x] # None =>
            /\ peers[x] # None /\ {"user", "address"} \subseteq DOMAIN peers'[x]
            /\ peers'[x].user = peers[x].user /\ peers'[x].address = peers[x].address
      BY <1>4, <1>6, <1>7 DEF Inv, RowShape, PeerRow
    <3>. QED  BY <3>1, <3>2 DEF RowsKept
  <2>2. \A x \in Peer : peers[x] # None => peers'[x] # None
    BY <1>4, <1>6, <1>7
  <2>. QED  BY <1>1, <1>3, <2>1, <2>2, RemovalsKnow DEF PeerInv, Grows
<1>10. ASSUME p \notin unsure' PROVE HandledAlone(p)' /\ Stands(p)'
  <2>1. HandledAlone(p) /\ Stands(p)
    BY <1>1, <1>10 DEF PeerInv
  <2>2. \A q \in Request : ~Handles(q, p)'
    BY <1>3, <1>b, <2>1 DEF HandledAlone, Handles, Idle, Creations, Switches
  <2>3. /\ peers[p] # None /\ peers[p].address = a /\ NodeHas(p, ~on, a)
    BY <1>1, <1>2, <1>a, <1>b, <2>1 DEF Stands, Switches
  <2>4. peers'[p] = row
    BY <1>5, <1>10, <2>3 DEF PeerInv, DeviceShape
  <2>5. AsTold(p)'
    BY <1>1, <1>4, <2>3, <2>4 DEF AsTold, NodeHas
  <2>. QED  BY <2>2, <2>5 DEF HandledAlone, Stands
<1>11. p \in used
  BY <1>b DEF PeerInv, Unknown
<1>. QED  BY <1>1, <1>3, <1>6, <1>8, <1>9, <1>10, <1>11, SparedStands, OwnStays DEF PeerInv, Keeping

(* Two requests that share anything: both are unsure.                       *)
LEMMA ClashUnsure ==
  ASSUME NEW touch, NEW q \in Request, job[q] # Idle, NEW c, c \in touch, c \in job[q].touch,
         NEW x \in Peer, x \in touch \/ x \in job[q].touch
  PROVE  x \in Clashing(touch)
<1> DEFINE others == {r \in Request : job[r] # Idle /\ job[r].touch \cap touch # {}}
           T == {job[r].touch : r \in others}
<1>1. q \in others /\ others # {} /\ job[q].touch \in T
  OBVIOUS
<1>2. Clashing(touch) = IF others = {} THEN {} ELSE (touch \cup UNION T) \cap Resource
  BY DEF Clashing
<1>. HIDE DEF others, T
<1>3. x \in touch \cup UNION T
  BY <1>1
<1>4. x \in Resource
  BY DEF Resource
<1>. QED  BY <1>1, <1>2, <1>3, <1>4

(* What a request is about, it touches.                                     *)
LEMMA HandlesTouches ==
  ASSUME PeerInv, NEW q \in Request, NEW x, Handles(q, x)
  PROVE  job[q] # Idle /\ x \in job[q].touch
BY DEF PeerInv, PeerJobShape, Handles, Idle, Creations, Switches

(* A creation begins: its device is new, and its address free.              *)
LEMMA CreateServes ==
  ASSUME Inv, PeerInv, NEW r \in Request, NEW p \in Peer, NEW u \in User, NEW a \in Address,
         createWGPeer(r, p, u, a)
  PROVE  PeerInv'
<1> DEFINE touch == {p, u, a, "addresses"}
           j == [at |-> "addPeer", touch |-> touch, p |-> p, u |-> u, a |-> a]
<1>1. /\ job[r] = Idle /\ job' = [job EXCEPT ![r] = j] /\ p \notin used /\ used' = used \cup {p}
      /\ peers' = peers /\ kernel' = kernel /\ conf' = conf /\ users' = users
      /\ unsure' = unsure \cup Clashing(touch) /\ a \notin UsedAddresses(u)
  BY DEF createWGPeer, New, Begin, rows, nodes, wg
<1>2. j.at = "addPeer" /\ j.touch = touch /\ j.p = p /\ j.u = u /\ j.a = a
  OBVIOUS
<1>3. {p, u, a} \subseteq touch
  OBVIOUS
<1>. HIDE DEF j, touch
<1>4. \A q \in Request : job'[q] = IF q = r THEN j ELSE job[q]
  BY <1>1 DEF Inv, JobShape
<1>5. Idle.at \notin Creations \cup Switches \cup {"removePeers"}
  BY DEF Idle, Creations, Switches
<1>6. PeerJobShape' /\ DeviceShape'
  BY <1>1, <1>2, <1>3, <1>4 DEF PeerJobShape, DeviceShape, PeerInv, Creations, Switches
<1>7. Unknown(p)
  BY <1>1 DEF PeerInv
<1>8. \A x \in Peer : x # p => Spared(x)
  BY <1>1, <1>2, <1>4, <1>5 DEF Spared, Handles, Creations, Switches
<1>9. /\ \A q \in Request : Handles(q, p)' => q = r
      /\ Handles(r, p)' /\ job'[r].at = "addPeer" /\ peers'[p] = None /\ kernel'[p] = None
  BY <1>1, <1>2, <1>4, <1>7 DEF Unknown, Handles, Creations
<1>10. HandledAlone(p)' /\ Stands(p)'
  BY <1>9 DEF HandledAlone, Stands, Switches
<1>11. \A x \in Peer : \A b : Claims(x, b)' => Claims(x, b) \/ (x = p /\ b = a)
  BY <1>1, <1>2, <1>4 DEF Claims
<1>12. \A b : ~Claims(p, b)
  BY <1>7 DEF Claims, Unknown, Handles
<1>13. ASSUME NEW x \in Peer, Claims(x, a) PROVE x \in unsure' /\ p \in unsure'
  <2>1. ~(peers[x] # None /\ peers[x].address = a)
    BY <1>1 DEF UsedAddresses
  <2>2. PICK q \in Request : job[q].at \in Creations \cup Switches /\ job[q].p = x /\ job[q].a = a
    BY <1>13, <2>1 DEF Claims
  <2>3. job[q] # Idle /\ a \in job[q].touch /\ x \in job[q].touch
    BY <1>5, <2>2 DEF PeerInv, PeerJobShape
  <2>. QED  BY <1>1, <1>3, <2>3, ClashUnsure
<1>14. ASSUME NEW x \in Peer \ unsure', NEW y \in Peer, NEW b \in Address, y # x,
              Claims(x, b)', Claims(y, b)'
       PROVE  FALSE
  <2>1. OwnAddress(x)
    BY <1>1, <1>14 DEF PeerInv
  <2>2. CASE x = p
    <3>1. b = a /\ Claims(y, a)
      BY <1>11, <1>12, <1>14, <2>2
    <3>. QED  BY <1>13, <1>14, <2>2, <3>1
  <2>3. CASE y = p /\ x # p
    <3>1. b = a /\ Claims(x, a)
      BY <1>11, <1>12, <1>14, <2>3
    <3>. QED  BY <1>13, <1>14, <3>1
  <2>4. CASE y # p /\ x # p
    <3>1. Claims(x, b) /\ Claims(y, b)
      BY <1>11, <1>14, <2>4
    <3>. QED  BY <1>14, <2>1, <3>1 DEF OwnAddress
  <2>. QED  BY <2>2, <2>3, <2>4
<1>15. \A x \in Peer \ unsure' : OwnAddress(x)'
  BY <1>14 DEF OwnAddress
<1>16. RemovalKnows'
  <2> SUFFICES ASSUME NEW q \in Request, job'[q].at = "removePeers"
               PROVE  /\ \A x \in Peer \ unsure' :
                           peers'[x] # None /\ peers'[x].user = job'[q].u => x \in job'[q].touch
                      /\ \A s \in Request : Creating(s)' /\ job'[s].u = job'[q].u => job'[s].p \in unsure'
                      /\ \A x \in Peer : x \in job'[q].touch \ unsure' =>
                           /\ job'[q].u \in users' /\ peers'[x] # None /\ peers'[x].user = job'[q].u
                           /\ \A s \in Request :
                                job'[s].at = "removePeers" /\ job'[s].u = job'[q].u => s = q
    BY DEF RemovalKnows
  <2>1. q # r /\ job'[q] = job[q] /\ job[q].at = "removePeers"
    BY <1>2, <1>4
  <2>2. job[q].u = u => p \in unsure'
    <3>1. job[q] # Idle /\ job[q].u \in job[q].touch
      BY <1>5, <2>1 DEF PeerInv, PeerJobShape
    <3>. QED  BY <1>1, <1>3, <3>1, ClashUnsure
  <2>3. \A s \in Request : Creating(s)' /\ job'[s].u = job'[q].u => job'[s].p \in unsure'
    BY <1>1, <1>2, <1>4, <2>1, <2>2 DEF PeerInv, RemovalKnows, Creating
  <2>4. \A s \in Request : job'[s].at = "removePeers" => job'[s] = job[s]
    BY <1>2, <1>4
  <2>. QED  BY <1>1, <2>1, <2>3, <2>4 DEF PeerInv, RemovalKnows
<1>. QED  BY <1>1, <1>6, <1>8, <1>10, <1>15, <1>16, SparedStands DEF PeerInv, Keeping

(* A device is switched in its row; the node follows.                       *)
LEMMA EnforceServes ==
  ASSUME Inv, PeerInv, NEW r \in Request, NEW p \in Peer, enforceUserPolicies(r, p)
  PROVE  PeerInv'
<1> DEFINE on == ~peers[p].enabled
           a == peers[p].address
           touch == {p, a}
           row == [peers[p] EXCEPT !.enabled = on]
           j == [at |-> "setPeer", touch |-> touch, p |-> p, a |-> a, on |-> on]
<1>1. /\ job[r] = Idle /\ job' = [job EXCEPT ![r] = j] /\ used' = used
      /\ peers[p] # None /\ peers' = [peers EXCEPT ![p] = row] /\ kernel' = kernel /\ conf' = conf
      /\ users' = users /\ unsure' = unsure \cup Clashing(touch)
  BY DEF enforceUserPolicies, nodes, wg
<1>a. peers[p] \in PeerRow
  BY <1>1 DEF PeerInv, DeviceShape
<1>2. /\ row \in PeerRow /\ row.user = peers[p].user /\ row.address = a /\ row.enabled = on
      /\ on \in BOOLEAN /\ a \in Address
  BY <1>a DEF PeerRow
<1>b. row # None
  BY <1>2, ProvisioningAssumption
<1>3. /\ j \in PeerJob /\ j.at = "setPeer" /\ j.touch = touch /\ j.p = p /\ j.a = a
      /\ j.on = on /\ {p, a} \subseteq j.touch
  BY <1>2 DEF PeerJob, Switches
<1>c. p \in touch /\ (on <=> ~peers[p].enabled) /\ a = peers[p].address
  OBVIOUS
<1>. HIDE DEF j, touch, row, on, a
<1>4. \A q \in Request : job'[q] = IF q = r THEN j ELSE job[q]
  BY <1>1 DEF Inv, JobShape
<1>5. Idle.at \notin Creations \cup Switches \cup {"removePeers"}
  BY DEF Idle, Creations, Switches
<1>6. PeerJobShape' /\ DeviceShape' /\ \A x \in Peer : peers'[x] = IF x = p THEN row ELSE peers[x]
  BY <1>1, <1>2, <1>3, <1>4 DEF PeerJobShape, DeviceShape, PeerInv, Creations, Switches
<1>7. \A x \in Peer : x # p => Spared(x)
  BY <1>1, <1>3, <1>4, <1>5, <1>6 DEF Spared, Handles, Creations, Switches
<1>8. \A x \in Peer : \A b : Claims(x, b)' => Claims(x, b)
  BY <1>1, <1>2, <1>3, <1>4, <1>6, <1>c DEF Claims
<1>9. RemovalKnows'
  <2>1. RowsKept
    <3>1. DOMAIN peers' = Peer
      BY <1>6 DEF DeviceShape
    <3>2. \A x \in Peer : peers'[x] # None =>
            /\ peers[x] # None /\ {"user", "address"} \subseteq DOMAIN peers'[x]
            /\ peers'[x].user = peers[x].user /\ peers'[x].address = peers[x].address
      BY <1>1, <1>2, <1>6, <1>c DEF Inv, RowShape, PeerRow
    <3>. QED  BY <3>1, <3>2 DEF RowsKept
  <2>2. Quiet
    BY <1>3, <1>4 DEF Quiet, Creating, Creations
  <2>3. \A q \in Request : job'[q].at = "removePeers" => job'[q] = job[q]
    BY <1>3, <1>4
  <2>4. \A x \in Peer : peers[x] # None => peers'[x] # None
    BY <1>6, <1>b
  <2>. QED  BY <1>1, <2>1, <2>2, <2>3, <2>4, RemovalsKnow DEF PeerInv, Grows
<1>10. ASSUME p \notin unsure' PROVE HandledAlone(p)' /\ Stands(p)'
  <2>1. \A q \in Request : ~Handles(q, p)
    BY <1>1, <1>10, <1>c, HandlesTouches, ClashUnsure
  <2>2. AsTold(p)
    BY <1>1, <1>10, <2>1 DEF PeerInv, Stands
  <2>3. NodeHas(p, ~on, a)
    BY <1>1, <1>c, <2>2 DEF AsTold, NodeHas
  <2>4. \A q \in Request : Handles(q, p)' => q = r
    BY <1>4, <2>1 DEF Handles
  <2>5. /\ Handles(r, p)' /\ job'[r].at = "setPeer" /\ job'[r].on = on /\ job'[r].a = a
    BY <1>3, <1>4 DEF Handles, Switches
  <2>6. /\ peers'[p] # None /\ peers'[p].enabled = on /\ peers'[p].address = a
    BY <1>2, <1>6, <1>b
  <2>7. NodeHas(p, ~job[r].on, job[r].a)'
    BY <1>1, <2>3, <2>5 DEF NodeHas
  <2>. QED  BY <2>4, <2>5, <2>6, <2>7 DEF HandledAlone, Stands
<1>11. p \in used
  BY <1>1 DEF PeerInv, Unknown
<1>. QED  BY <1>1, <1>6, <1>7, <1>8, <1>9, <1>10, <1>11, SparedStands, OwnStays DEF PeerInv, Keeping

(* A removal begins: it knows the user's devices, and is alone with them.   *)
LEMMA RemovalServes ==
  ASSUME Inv, PeerInv, NEW r \in Request, NEW u \in User, deleteUser(r, u)
  PROVE  PeerInv'
<1> DEFINE mine == PeersOf(u)
           touch == {u} \cup mine
           j == [at |-> "removePeers", touch |-> touch, u |-> u, todo |-> mine]
<1>1. /\ job[r] = Idle /\ job' = [job EXCEPT ![r] = j] /\ used' = used
      /\ peers' = peers /\ kernel' = kernel /\ conf' = conf /\ users' = users /\ u \in users
      /\ unsure' = unsure \cup Clashing(touch)
  BY DEF deleteUser, Begin, rows, nodes, wg
<1>2. /\ j \in PeerJob /\ j.at = "removePeers" /\ j.touch = touch /\ j.u = u /\ j.todo = mine
      /\ u \in touch /\ mine \subseteq touch
  BY DEF PeerJob, PeersOf
<1>3. /\ \A x \in Peer : x \in mine <=> peers[x] # None /\ peers[x].user = u
      /\ \A x \in Peer : x \in touch <=> x \in mine
  BY ProvisioningAssumption DEF PeersOf
<1>. HIDE DEF j, touch, mine
<1>4. \A q \in Request : job'[q] = IF q = r THEN j ELSE job[q]
  BY <1>1 DEF Inv, JobShape
<1>5. Idle.at \notin Creations \cup Switches \cup {"removePeers"}
  BY DEF Idle, Creations, Switches
<1>6. PeerJobShape' /\ DeviceShape'
  BY <1>1, <1>2, <1>4 DEF PeerJobShape, DeviceShape, PeerInv, Creations, Switches
<1>7. \A x \in Peer \ mine : Spared(x)
  BY <1>1, <1>2, <1>3, <1>4, <1>5 DEF Spared, Handles, Creations, Switches
<1>8. \A x \in Peer : \A b : Claims(x, b)' => Claims(x, b)
  BY <1>1, <1>2, <1>4 DEF Claims, Creations, Switches
<1>9. ASSUME NEW q \in Request, q # r, job[q].at = "removePeers", job[q].u = u,
             NEW x \in Peer, x \in job[q].touch \/ x \in touch
      PROVE  x \in unsure'
  <2>1. job[q] # Idle /\ u \in job[q].touch
    BY <1>5, <1>9 DEF PeerInv, PeerJobShape
  <2>. QED  BY <1>1, <1>2, <1>9, <2>1, ClashUnsure
<1>10. RemovalKnows'
  <2> SUFFICES ASSUME NEW q \in Request, job'[q].at = "removePeers"
               PROVE  /\ \A x \in Peer \ unsure' :
                           peers'[x] # None /\ peers'[x].user = job'[q].u => x \in job'[q].touch
                      /\ \A s \in Request : Creating(s)' /\ job'[s].u = job'[q].u => job'[s].p \in unsure'
                      /\ \A x \in Peer : x \in job'[q].touch \ unsure' =>
                           /\ job'[q].u \in users' /\ peers'[x] # None /\ peers'[x].user = job'[q].u
                           /\ \A s \in Request :
                                job'[s].at = "removePeers" /\ job'[s].u = job'[q].u => s = q
    BY DEF RemovalKnows
  <2>1. \A s \in Request : Creating(s)' => s # r /\ job'[s] = job[s] /\ Creating(s)
    BY <1>2, <1>4 DEF Creating, Creations
  <2>2. CASE q = r
    <3>1. job'[q].u = u /\ job'[q].touch = touch
      BY <1>2, <1>4, <2>2
    <3>2. ASSUME NEW s \in Request, Creating(s), job[s].u = u PROVE job[s].p \in unsure'
      <4>1. job[s] # Idle /\ u \in job[s].touch /\ job[s].p \in job[s].touch
        BY <1>5, <3>2 DEF PeerInv, PeerJobShape, Creating
      <4>2. job[s].p \in Peer
        BY <3>2 DEF Inv, JobShape, Creation
      <4>. QED  BY <1>1, <1>2, <4>1, <4>2, ClashUnsure
    <3>3. \A x \in Peer : x \in touch \ unsure' =>
            \A s \in Request : job'[s].at = "removePeers" /\ job'[s].u = u => s = r
      BY <1>4, <1>9
    <3>. QED  BY <1>1, <1>2, <1>3, <2>1, <2>2, <3>1, <3>2, <3>3
  <2>3. CASE q # r
    <3>1. job'[q] = job[q] /\ job[q].at = "removePeers"
      BY <1>4, <2>3
    <3>2. \A x \in Peer : x \in job[q].touch \ unsure' =>
            \A s \in Request : job'[s].at = "removePeers" /\ job'[s].u = job[q].u => s = q
      <4> SUFFICES ASSUME NEW x \in Peer, x \in job[q].touch \ unsure', NEW s \in Request,
                          job'[s].at = "removePeers", job'[s].u = job[q].u
                   PROVE  s = q
        OBVIOUS
      <4>1. s # r
        BY <1>2, <1>4, <1>9, <2>3, <3>1
      <4>. QED  BY <1>1, <1>4, <3>1, <4>1 DEF PeerInv, RemovalKnows
    <3>. QED  BY <1>1, <2>1, <3>1, <3>2 DEF PeerInv, RemovalKnows
  <2>. QED  BY <2>2, <2>3
<1>11. ASSUME NEW x \in mine, x \in Peer, x \notin unsure' PROVE HandledAlone(x)' /\ Stands(x)'
  <2>1. \A q \in Request : ~Handles(q, x)
    BY <1>1, <1>2, <1>11, HandlesTouches, ClashUnsure
  <2>2. AsTold(x)
    BY <1>1, <1>11, <2>1 DEF PeerInv, Stands
  <2>3. \A q \in Request : Handles(q, x)' => q = r
    BY <1>4, <2>1 DEF Handles
  <2>4. Handles(r, x)' /\ job'[r].at = "removePeers" /\ x \in job'[r].todo
    BY <1>2, <1>4, <1>11 DEF Handles
  <2>5. peers'[x] # None /\ AsTold(x)'
    BY <1>1, <1>3, <1>11, <2>2 DEF AsTold, NodeHas
  <2>. QED  BY <2>3, <2>4, <2>5 DEF HandledAlone, Stands, Switches
<1>12. mine \subseteq used
  BY <1>3 DEF PeerInv, Unknown, PeersOf, mine
<1>. QED  BY <1>1, <1>6, <1>7, <1>8, <1>10, <1>11, <1>12, SparedStands, OwnStays DEF PeerInv, Keeping

(* One device after the other is taken from the node, or nobody knows.      *)
LEMMA RemoveServes ==
  ASSUME Inv, PeerInv, NEW r \in Request, deleteRemotePeer(r)
  PROVE  PeerInv'
<1>1. PICK p \in job[r].todo :
        /\ job' = [job EXCEPT ![r].todo = @ \ {p}]
        /\ \/ kernel' = [kernel EXCEPT ![p] = None]
           \/ kernel' = kernel /\ p \in unsure'
  BY DEF deleteRemotePeer, wg, Fault
<1>2. /\ job[r].at = "removePeers" /\ peers' = peers /\ users' = users /\ used' = used
      /\ unsure \subseteq unsure' /\ Keeping
  BY DEF deleteRemotePeer, rows, wg, Saved, Keeping, Well, Fault
<1> DEFINE j == [job[r] EXCEPT !.todo = @ \ {p}]
<1>3. job[r] \in PeerJob /\ p \in Peer /\ p \in job[r].touch
  BY <1>2 DEF PeerInv, PeerJobShape, PeerJob, Switches
<1>4. /\ j \in PeerJob /\ j.at = "removePeers" /\ j.touch = job[r].touch /\ j.u = job[r].u
      /\ j.todo = job[r].todo \ {p}
  BY <1>2, <1>3 DEF PeerJob, Switches
<1>5. job' = [job EXCEPT ![r] = j]
  BY <1>1
<1>. HIDE DEF j
<1>6. \A q \in Request : job'[q] = IF q = r THEN j ELSE job[q]
  BY <1>5 DEF Inv, JobShape
<1>7. PeerJobShape' /\ DeviceShape'
  <2>1. DeviceShape'
    BY <1>1, <1>2 DEF DeviceShape, PeerInv, Keeping
  <2>2. j.u \in j.touch /\ j.todo \subseteq j.touch
    BY <1>2, <1>4 DEF PeerInv, PeerJobShape
  <2>3. PeerJobShape'
    BY <1>4, <1>6, <2>2 DEF PeerJobShape, PeerInv, Creations, Switches
  <2>. QED  BY <2>1, <2>3
<1>8. \A x \in Peer : x # p => Spared(x)
  BY <1>1, <1>2, <1>3, <1>4, <1>6 DEF Spared, PeerInv, DeviceShape
<1>9. \A x \in Peer : \A b : Claims(x, b)' => Claims(x, b)
  BY <1>2, <1>4, <1>6 DEF Claims, Creations, Switches
<1>10. RemovalKnows'
  <2>1. RowsKept
    BY <1>2, SameKeeps DEF Inv
  <2>2. Quiet
    BY <1>4, <1>6 DEF Quiet, Creating, Creations
  <2>3. \A q \in Request : job'[q].at = "removePeers" =>
          job[q].at = "removePeers" /\ job'[q].u = job[q].u /\ job'[q].touch = job[q].touch
    BY <1>2, <1>4, <1>6
  <2>. QED  BY <1>2, <2>1, <2>2, <2>3, RemovalsKnow DEF PeerInv, Grows
<1>11. Handles(r, p)
  BY <1>2, <1>3 DEF Handles
<1>12. ASSUME p \notin unsure' PROVE HandledAlone(p)' /\ Stands(p)'
  <2>1. HandledAlone(p) /\ Stands(p)
    BY <1>2, <1>3, <1>12 DEF PeerInv
  <2>2. \A q \in Request : Handles(q, p)' => q = r
    BY <1>6, <1>11, <2>1 DEF HandledAlone, Handles
  <2>3. peers'[p] # None /\ kernel'[p] = None
    BY <1>1, <1>2, <1>3, <1>11, <1>12, <2>1 DEF Stands, PeerInv, DeviceShape
  <2>4. Handles(r, p)' /\ job'[r].at = "removePeers" /\ p \notin job'[r].todo
    BY <1>3, <1>4, <1>6 DEF Handles
  <2>. QED  BY <2>2, <2>3, <2>4 DEF HandledAlone, Stands, Switches
<1>13. p \in used
  BY <1>3, <1>11 DEF PeerInv, Unknown
<1>. QED  BY <1>2, <1>7, <1>8, <1>9, <1>10, <1>12, <1>13, SparedStands, OwnStays DEF PeerInv, Keeping

(* The user goes with the devices he has then: those the removal knew.      *)
LEMMA DropServes ==
  ASSUME Inv, PeerInv, NEW r \in Request, DropUser(r)
  PROVE  PeerInv'
<1>1. /\ job[r].at = "removePeers" /\ job[r].todo = {} /\ Return(r)
      /\ kernel' = kernel /\ conf' = conf /\ used' = used /\ unsure \subseteq unsure'
  BY DEF DropUser, nodes, wg, Well, Fault
<1>2. PICK u : u = job[r].u
  OBVIOUS
<1>3. \A x \in Peer : x \in PeersOf(u) <=> peers[x] # None /\ peers[x].user = u
  BY DEF PeersOf
<1>4. \/ users' = users \ {u} /\ peers' = [x \in Peer |-> IF x \in PeersOf(u) THEN None ELSE peers[x]]
      \/ u \notin users /\ users' = users /\ peers' = peers
      \/ users' = users /\ peers' = peers /\ PeersOf(u) \subseteq unsure'
  BY <1>2 DEF DropUser, Fault
<1>5. Idle.at \notin Creations \cup Switches \cup {"removePeers"}
  BY DEF Idle, Creations, Switches
<1>6. \A q \in Request : job'[q] = IF q = r THEN Idle ELSE job[q]
  BY <1>1 DEF Inv, JobShape, Return
<1>7. /\ DOMAIN peers' = Peer
      /\ \A x \in Peer : peers'[x] = peers[x] \/ (peers'[x] = None /\ x \in PeersOf(u) /\ users' = users \ {u})
  BY <1>4 DEF PeerInv, DeviceShape
<1>8. PeerJobShape' /\ DeviceShape'
  BY <1>1, <1>4, <1>5, <1>6, <1>7 DEF PeerJobShape, DeviceShape, PeerInv
<1>9. \A x \in Peer : \A b : Claims(x, b)' => Claims(x, b)
  BY <1>5, <1>6, <1>7 DEF Claims
<1>10. \A x \in Peer \ unsure : x \in PeersOf(u) <=> Handles(r, x)
  BY <1>1, <1>2, <1>3 DEF PeerInv, RemovalKnows, Handles, Creations, Switches
<1>11. \A x \in Peer \ PeersOf(u) : peers'[x] = peers[x]
  BY <1>7
<1>12. ASSUME NEW x \in Peer \ unsure', x \notin PeersOf(u) PROVE Spared(x)
  <2>1. \A q \in Request : Handles(q, x) \/ Handles(q, x)' => q # r
    BY <1>1, <1>5, <1>6, <1>10, <1>12 DEF Handles
  <2>. QED  BY <1>1, <1>6, <1>11, <1>12, <2>1 DEF Spared
<1>13. ASSUME NEW x \in Peer \ unsure', x \in PeersOf(u) PROVE HandledAlone(x)' /\ Stands(x)'
  <2>1. Handles(r, x) /\ HandledAlone(x) /\ Stands(x)
    BY <1>1, <1>10, <1>13 DEF PeerInv
  <2>2. kernel[x] = None
    BY <1>1, <2>1 DEF Stands
  <2>3. u \in users
    BY <1>1, <1>2, <1>13, <2>1 DEF PeerInv, RemovalKnows, Handles, Creations, Switches
  <2>4. peers'[x] = None
    BY <1>4, <1>13, <2>3
  <2>5. \A q \in Request : ~Handles(q, x)'
    BY <1>5, <1>6, <2>1 DEF HandledAlone, Handles
  <2>. QED  BY <1>1, <2>2, <2>4, <2>5 DEF HandledAlone, Stands, AsTold
<1>14. ASSUME NEW x \in Peer, Unknown(x) PROVE Unknown(x)'
  <2>1. \A q \in Request : ~Handles(q, x)'
    BY <1>5, <1>6, <1>14 DEF Unknown, Handles
  <2>. QED  BY <1>1, <1>7, <1>14, <2>1 DEF Unknown
<1>15. RemovalKnows'
  <2> SUFFICES ASSUME NEW q \in Request, job'[q].at = "removePeers"
               PROVE  /\ \A x \in Peer \ unsure' :
                           peers'[x] # None /\ peers'[x].user = job'[q].u => x \in job'[q].touch
                      /\ \A s \in Request : Creating(s)' /\ job'[s].u = job'[q].u => job'[s].p \in unsure'
                      /\ \A x \in Peer : x \in job'[q].touch \ unsure' =>
                           /\ job'[q].u \in users' /\ peers'[x] # None /\ peers'[x].user = job'[q].u
                           /\ \A s \in Request :
                                job'[s].at = "removePeers" /\ job'[s].u = job'[q].u => s = q
    BY DEF RemovalKnows
  <2>1. q # r /\ job'[q] = job[q] /\ job[q].at = "removePeers"
    BY <1>5, <1>6
  <2>2. \A x \in Peer \ unsure' :
          peers'[x] # None /\ peers'[x].user = job'[q].u => x \in job'[q].touch
    BY <1>1, <1>7, <2>1 DEF PeerInv, RemovalKnows
  <2>3. \A s \in Request : Creating(s)' /\ job'[s].u = job'[q].u => job'[s].p \in unsure'
    BY <1>1, <1>5, <1>6, <2>1 DEF PeerInv, RemovalKnows, Creating
  <2>4. ASSUME NEW x \in Peer, x \in job'[q].touch \ unsure'
        PROVE  /\ job'[q].u \in users' /\ peers'[x] # None /\ peers'[x].user = job'[q].u
               /\ \A s \in Request : job'[s].at = "removePeers" /\ job'[s].u = job'[q].u => s = q
    <3>1. /\ job[q].u \in users /\ peers[x] # None /\ peers[x].user = job[q].u
          /\ \A s \in Request : job[s].at = "removePeers" /\ job[s].u = job[q].u => s = q
      BY <1>1, <2>1, <2>4 DEF PeerInv, RemovalKnows
    <3>2. u # job[q].u
      BY <1>1, <1>2, <2>1, <3>1
    <3>3. peers'[x] = peers[x] /\ job[q].u \in users'
      BY <1>3, <1>4, <1>11, <3>1, <3>2
    <3>. QED  BY <1>5, <1>6, <2>1, <3>1, <3>3
  <2>. QED  BY <2>2, <2>3, <2>4
<1>. QED  BY <1>1, <1>8, <1>9, <1>12, <1>13, <1>14, <1>15, SparedStands, OwnStays DEF PeerInv, Keeping

-----------------------------------------------------------------------------
(* The panel stops: its requests' devices are unsure.                       *)
LEMMA StopServes == ASSUME Inv, PeerInv, PanelStops PROVE PeerInv'
<1> DEFINE busy == {q \in Request : job[q] # Idle}
           T == {job[q].touch : q \in busy}
<1>1. /\ job' = [r \in Request |-> Idle] /\ peers' = peers /\ kernel' = kernel /\ conf' = conf /\ used' = used
      /\ unsure' = unsure \cup ((UNION T) \cap Resource)
  BY DEF PanelStops, Fault, rows, nodes, wg
<1>2. \A q \in Request : job[q] # Idle => job[q].touch \in T
  OBVIOUS
<1>. HIDE DEF busy, T
<1>3. Idle.at \notin Creations \cup Switches \cup {"removePeers"}
  BY DEF Idle, Creations, Switches
<1>4. PeerJobShape' /\ DeviceShape' /\ RemovalKnows' /\ \A x \in Peer, r \in Request : ~Handles(r, x)'
  BY <1>1, <1>3 DEF PeerJobShape, DeviceShape, RemovalKnows, PeerInv, Handles
<1>5. ASSUME NEW x \in Peer \ unsure', NEW r \in Request PROVE ~Handles(r, x)
  <2> SUFFICES ASSUME Handles(r, x) PROVE FALSE
    OBVIOUS
  <2>1. job[r].touch \in T /\ x \in job[r].touch
    BY <1>2, HandlesTouches
  <2>2. x \in UNION T /\ x \in Resource
    BY <2>1 DEF Resource
  <2>. QED  BY <1>1, <1>5, <2>2
<1>6. ASSUME NEW x \in Peer \ unsure' PROVE HandledAlone(x)' /\ Stands(x)'
  <2>1. AsTold(x)
    BY <1>1, <1>5, <1>6 DEF PeerInv, Stands
  <2>2. AsTold(x)'
    BY <1>1, <2>1 DEF AsTold, NodeHas
  <2>. QED  BY <1>4, <1>6, <2>2 DEF HandledAlone, Stands
<1>7. \A x \in Peer : \A b : Claims(x, b)' => Claims(x, b)
  BY <1>1, <1>3 DEF Claims
<1>8. \A x \in Peer : Unknown(x) => Unknown(x)'
  BY <1>1, <1>4 DEF Unknown
<1>. QED  BY <1>1, <1>4, <1>6, <1>7, <1>8, OwnStays DEF PeerInv

(* A step of a request about none leaves every device where it is.          *)
LEMMA ElsewhereServes ==
  ASSUME Inv, PeerInv, NEW r \in Request, NEW j,
         job[r].at \notin Creations \cup Switches \cup {"removePeers"},
         j.at \notin Creations \cup Switches \cup {"removePeers"},
         job' = [job EXCEPT ![r] = j],
         peers' = peers, kernel' = kernel, conf' = conf, users' = users, Grows
  PROVE  PeerInv'
<1>1. \A q \in Request : job'[q] = IF q = r THEN j ELSE job[q]
  BY DEF Inv, JobShape
<1>2. PeerJobShape' /\ DeviceShape'
  BY <1>1 DEF PeerJobShape, DeviceShape, PeerInv
<1>3. \A x \in Peer : Spared(x)
  BY <1>1 DEF Spared, Handles
<1>4. \A x \in Peer : \A b : Claims(x, b)' => Claims(x, b)
  BY <1>1 DEF Claims
<1>5. RemovalKnows'
  <2>1. RowsKept
    BY SameKeeps DEF Inv
  <2>2. Quiet
    BY <1>1 DEF Quiet, Creating
  <2>3. \A q \in Request : job'[q].at = "removePeers" => job'[q] = job[q]
    BY <1>1
  <2>. QED  BY <2>1, <2>2, <2>3, RemovalsKnow DEF PeerInv
<1>. QED  BY <1>2, <1>3, <1>4, <1>5, SparedStands, OwnStays DEF PeerInv, Keeping, Grows

LEMMA ElsewhereGoesOn ==
  ASSUME Inv, PeerInv, NEW r \in Request, NEW at,
         job[r].at \notin Creations \cup Switches \cup {"removePeers"},
         Return(r) \/ (Goto(r, at) /\ at \notin Creations \cup Switches \cup {"removePeers"}),
         peers' = peers, kernel' = kernel, conf' = conf, users' = users, Grows
  PROVE  PeerInv'
<1>1. Idle.at \notin Creations \cup Switches \cup {"removePeers"}
  BY DEF Idle, Creations, Switches
<1>2. CASE Return(r)
  BY <1>1, <1>2, ElsewhereServes DEF Return
<1>3. CASE Goto(r, at) /\ at \notin Creations \cup Switches \cup {"removePeers"}
  <2> DEFINE j == [job[r] EXCEPT !.at = at]
  <2>1. j.at = at
    BY DEF Inv, JobShape
  <2>2. job' = [job EXCEPT ![r] = j]
    BY <1>3 DEF Goto
  <2>. HIDE DEF j
  <2>. QED  BY <1>3, <2>1, <2>2, ElsewhereServes
<1>. QED  BY <1>2, <1>3

LEMMA ElsewhereStarts ==
  ASSUME Inv, PeerInv, NEW r \in Request, NEW j,
         j.at \notin Creations \cup Switches \cup {"removePeers"}, Begin(r, j), Grows
  PROVE  PeerInv'
<1>1. /\ job[r] = Idle /\ job' = [job EXCEPT ![r] = j]
      /\ peers' = peers /\ kernel' = kernel /\ conf' = conf /\ users' = users
  BY DEF Begin, rows, nodes, wg
<1>2. job[r].at \notin Creations \cup Switches \cup {"removePeers"}
  BY <1>1 DEF Idle, Creations, Switches
<1>. QED  BY <1>1, <1>2, ElsewhereServes

LEMMA OtherRequestServes ==
  ASSUME Inv, PeerInv, NEW r \in Request,
         \/ \E t \in Tunnel, n \in Name : createTunnel(r, t, n)
         \/ \E t \in Tunnel, act \in Action : tunnelAction(r, t, act)
         \/ \E t \in Tunnel : deleteTunnel(r, t)
         \/ \E f \in Forward, d \in Dest : handleForwards(r, f, d)
         \/ \E f \in Forward : handleForwardItem(r, f)
  PROVE  PeerInv'
<1> USE DEF Creations, Switches
<1>1. ASSUME NEW t \in Tunnel, NEW n \in Name, createTunnel(r, t, n) PROVE PeerInv'
  BY <1>1, ElsewhereStarts DEF createTunnel, New, Grows
<1>2. ASSUME NEW t \in Tunnel, NEW act \in Action, tunnelAction(r, t, act) PROVE PeerInv'
  BY <1>2, ElsewhereStarts DEF tunnelAction, Grows
<1>3. ASSUME NEW t \in Tunnel, deleteTunnel(r, t) PROVE PeerInv'
  BY <1>3, ElsewhereStarts DEF deleteTunnel, Grows
<1>4. ASSUME NEW f \in Forward, NEW d \in Dest, handleForwards(r, f, d) PROVE PeerInv'
  BY <1>4, ElsewhereStarts DEF handleForwards, New, Grows
<1>5. ASSUME NEW f \in Forward, handleForwardItem(r, f) PROVE PeerInv'
  BY <1>5, ElsewhereStarts DEF handleForwardItem, Grows
<1>. QED  BY <1>1, <1>2, <1>3, <1>4, <1>5

LEMMA OtherStepServes ==
  ASSUME Inv, PeerInv, NEW r \in Request,
         \/ CreateAtDestination(r) \/ CreateAtSource(r) \/ UndoDestination(r) \/ AddTunnel(r)
         \/ ActAtSource(r) \/ ActAtDestination(r) \/ SetStatus(r)
         \/ DeleteAtSource(r) \/ DeleteAtDestination(r) \/ DropTunnel(r)
         \/ InstallForward(r) \/ AddForward(r) \/ UninstallForward(r) \/ DropForward(r)
  PROVE  PeerInv'
<1> USE DEF rows, nodes, wg, Well, Fault, Grows
<1>0. DOMAIN job = Request /\ "at" \in DOMAIN job[r]
  BY DEF Inv, JobShape
<1> DEFINE Here == Creations \cup Switches \cup {"removePeers"}
<1>1. \A at \in {"createDst", "createSrc", "undoDst", "addTunnel", "actSrc", "actDst", "setStatus",
                 "delSrc", "delDst", "dropTunnel", "install", "addForward", "uninstall",
                 "dropForward", "idle"} : at \notin Here
  BY DEF Creations, Switches
<1> HIDE DEF Here
<1> DEFINE Off == job[r].at \notin Here /\ peers' = peers /\ kernel' = kernel /\ conf' = conf /\ users' = users /\ Grows
           Goes == Return(r) \/ \E at : Goto(r, at) /\ at \notin Here
<1>2. CreateAtDestination(r) => Off /\ Goes
  BY <1>1 DEF CreateAtDestination, CreateEnd
<1>3. CreateAtSource(r) => Off /\ Goes
  BY <1>1 DEF CreateAtSource, CreateEnd
<1>4. UndoDestination(r) => Off /\ Goes
  BY <1>1 DEF UndoDestination, DeleteEnd
<1>5. AddTunnel(r) => Off /\ Goes
  BY <1>1 DEF AddTunnel
<1>6. SetStatus(r) => Off /\ Goes
  BY <1>1 DEF SetStatus
<1>7. DeleteAtSource(r) => Off /\ Goes
  BY <1>1 DEF DeleteAtSource, DeleteEnd
<1>8. DeleteAtDestination(r) => Off /\ Goes
  BY <1>1 DEF DeleteAtDestination, DeleteEnd
<1>9. DropTunnel(r) => Off /\ Goes
  BY <1>1 DEF DropTunnel
<1>10. InstallForward(r) => Off /\ Goes
  BY <1>1 DEF InstallForward
<1>11. AddForward(r) => Off /\ Goes
  BY <1>1 DEF AddForward
<1>12. UninstallForward(r) => Off /\ Goes
  BY <1>1 DEF UninstallForward
<1>13. DropForward(r) => Off /\ Goes
  BY <1>1 DEF DropForward
<1>14. ASSUME NEW e, NEW from, NEW next, from \notin Here, next \notin Here, ActAt(r, e, from, next)
       PROVE  PeerInv'
  <2>0. Noted(r, next)
    BY <1>14, ActNotes
  <2>1. PICK failed : job' = [job EXCEPT ![r] = [@ EXCEPT !.at = next, !.failed = failed]]
    BY <2>0, Zenon DEF Noted
  <2> DEFINE j == [job[r] EXCEPT !.at = next, !.failed = failed]
  <2>2. j.at = next
    BY <1>0
  <2>3. job' = [job EXCEPT ![r] = j]
    BY <2>1
  <2>. HIDE DEF j
  <2>4. Off
    BY <1>14 DEF ActAt
  <2>. QED  BY <1>14, <2>2, <2>3, <2>4, ElsewhereServes DEF Here
<1>15. ActAtSource(r) \/ ActAtDestination(r) => PeerInv'
  BY <1>1, <1>14 DEF ActAtSource, ActAtDestination
<1>16. Off /\ Goes => PeerInv'
  BY ElsewhereGoesOn DEF Here
<1>. HIDE DEF Off, Goes
<1>. QED  BY <1>2, <1>3, <1>4, <1>5, <1>6, <1>7, <1>8, <1>9, <1>10, <1>11, <1>12, <1>13, <1>15, <1>16

LEMMA InitPeers == Init => PeerInv
<1> SUFFICES ASSUME Init PROVE PeerInv
  OBVIOUS
<1>1. \A r \in Request : job[r] = Idle /\ job[r].at \notin Creations \cup Switches \cup {"removePeers"}
  BY DEF Init, Idle, Creations, Switches
<1>2. /\ DOMAIN kernel = Peer /\ DOMAIN conf = Peer /\ peers \in [Peer -> PeerRow \cup {None}]
      /\ \A p \in Peer : peers[p] = None /\ kernel[p] = None /\ conf[p] = None
  BY DEF Init
<1>3. \A p \in Peer, r \in Request : ~Handles(r, p)
  BY <1>1 DEF Handles
<1>4. PeerJobShape /\ RemovalKnows /\ DeviceShape
  BY <1>1, <1>2 DEF PeerJobShape, RemovalKnows, DeviceShape
<1>5. \A p \in Peer : HandledAlone(p) /\ Stands(p) /\ OwnAddress(p) /\ Unknown(p)
  BY <1>1, <1>2, <1>3 DEF HandledAlone, Stands, AsTold, OwnAddress, Claims, Unknown
<1>. QED  BY <1>4, <1>5 DEF PeerInv

LEMMA NextPeers == Inv /\ PeerInv /\ [Next]_vars => PeerInv'
<1> SUFFICES ASSUME Inv, PeerInv, [Next]_vars PROVE PeerInv'
  OBVIOUS
<1>1. ASSUME NEW r \in Request, NewRequest(r) PROVE PeerInv'
  BY <1>1, CreateServes, EnforceServes, RemovalServes, OtherRequestServes DEF NewRequest
<1>2. ASSUME NEW r \in Request, RequestStep(r) PROVE PeerInv'
  BY <1>2, AddPeerServes, RecordServes, SwitchServes, RevertServes, RemoveServes, DropServes,
     OtherStepServes DEF RequestStep
<1>3. ASSUME job' = job, peers' = peers, users' = users, used' = used, unsure \subseteq unsure',
             kernel' \in {kernel, conf}, Keeping, \A x \in Peer \ unsure' : kernel'[x] = kernel[x]
      PROVE  PeerInv'
  <2>1. PeerJobShape' /\ DeviceShape' /\ RemovalKnows' /\ \A x \in Peer \ unsure' : Spared(x)
    BY <1>3 DEF PeerJobShape, DeviceShape, RemovalKnows, Creating, PeerInv, Spared, Keeping
  <2>2. \A x \in Peer : \A b : Claims(x, b)' => Claims(x, b)
    BY <1>3 DEF Claims
  <2>3. ASSUME NEW x \in Peer, Unknown(x) PROVE Unknown(x)'
    <3>1. \A r \in Request : ~Handles(r, x)'
      BY <1>3, <2>3 DEF Unknown, Handles
    <3>. QED  BY <1>3, <2>3, <3>1 DEF Unknown, Keeping
  <2>. QED  BY <1>3, <2>1, <2>2, <2>3, SparedStands, OwnStays DEF PeerInv
<1>4. ASSUME NEW e \in End, NodeRestarts(e) PROVE PeerInv'
  <2>1. /\ job' = job /\ peers' = peers /\ users' = users /\ used' = used
        /\ unsure' = unsure \cup {p \in Peer : kernel'[p] # kernel[p]}
        /\ kernel' \in {kernel, conf} /\ Keeping
    BY <1>4 DEF NodeRestarts, Fault, rows, wg, Keeping
  <2>. QED  BY <1>3, <2>1
<1>5. CASE UNCHANGED vars
  BY <1>3, <1>5 DEF vars, rows, nodes, wg, Keeping
<1>. QED  BY <1>1, <1>2, <1>4, <1>5, StopServes DEF Next

(* createWGPeer, enforceUserPolicies, setRemotePeerEnabled and the removal  *)
(* of a user: a device that is Known (no answer about it lost, no error     *)
(* dropped, no requests that overlap, not changed by a restart that found   *)
(* other peers saved) is served at its own address exactly when its row is  *)
(* enabled.                                                                 *)
THEOREM PeerCorrect == Spec => []PeerAsTold
<1>1. Inv /\ PeerInv => PeerAsTold
  <2> SUFFICES ASSUME PeerInv, NEW p \in Peer, Known(p)
               PROVE  IF peers[p] = None \/ ~peers[p].enabled THEN kernel[p] = None ELSE Serves(p)
    BY DEF PeerAsTold
  <2>1. \A r \in Request : ~Handles(r, p)
    BY HandlesTouches DEF Known, AtRest
  <2>2. AsTold(p)
    BY <2>1 DEF Known, PeerInv, Stands
  <2>. QED  BY <2>2 DEF AsTold, NodeHas, Serves
<1>. QED  BY InitInv, NextInv, InitPeers, NextPeers, <1>1, PTL DEF Spec

-----------------------------------------------------------------------------
(* Tunnels.  A request about a tunnel has done what its place says, at the  *)
(* ends of a name that nobody else uses.                                    *)
Making == {"createDst", "createSrc", "undoDst", "addTunnel"}
Removing == {"delSrc", "delDst", "dropTunnel"}
Acting == {"actSrc", "actDst", "setStatus"}
TunnelJobs == Making \cup Removing \cup Acting

TunnelJob ==
  [at : Making \cup Removing, touch : SUBSET Tunnel, t : Tunnel, n : Name]
    \cup [at : Acting, touch : SUBSET Tunnel, t : Tunnel, n : Name, act : Action, failed : BOOLEAN]

Works(r, t) == job[r].at \in TunnelJobs /\ job[r].t = t

TunnelJobShape ==
  \A r \in Request : job[r].at \in TunnelJobs => job[r] \in TunnelJob /\ job[r].t \in job[r].touch

UnitShape ==
  /\ unit \in [End -> [Name -> Unit]]
  /\ DOMAIN tunnels = Tunnel
  /\ \A t \in Tunnel : tunnels[t] # None => tunnels[t] \in TunnelRow

WorksAlone(t) == \A r, q \in Request : Works(r, t) /\ Works(q, t) => r = q

(* At one end: set up, and running what an action leaves, unless the node   *)
(* has started it again.                                                    *)
SetUp(u, t) == u.file = t /\ u.enabled /\ u.running \in {t, None}
Runs(u, t) == SetUp(u, t) /\ u.running = t
Rests(t, e, n) == <<t, e>> \in restarted \/ unit[e][n].running = None
Does(t, e, n, act) == IF act = "stop" THEN Rests(t, e, n) ELSE unit[e][n].running = t

Settled(t, n) ==
  /\ tunnels[t].name = n
  /\ \A e \in End : SetUp(unit[e][n], t)
  /\ tunnels[t].status = "online" /\ t \notin refreshed => \A e \in End : unit[e][n].running = t
  /\ tunnels[t].status = "stopped" => \A e \in End : Rests(t, e, n)

(* What a request has done so far.                                          *)
Made(r, t, n) ==
  /\ tunnels[t] = None
  /\ job[r].at = "createDst" => unit["dst"][n] = NoUnit
  /\ job[r].at # "createDst" => Runs(unit["dst"][n], t)
  /\ job[r].at \in {"createDst", "createSrc"} => unit["src"][n] = NoUnit
  /\ job[r].at = "undoDst" => unit["src"][n] = NoUnit \/ <<t, "src">> \in halfMade
  /\ job[r].at = "addTunnel" => Runs(unit["src"][n], t)

Done(r, t, n) ==
  /\ tunnels[t] # None /\ tunnels[t].name = n
  /\ \A e \in End : SetUp(unit[e][n], t)
  /\ job[r].act = "refresh" /\ t \notin refreshed => \A e \in End : unit[e][n].running = t
  /\ job[r].act # "refresh" /\ ~job[r].failed =>
       /\ job[r].at \in {"actDst", "setStatus"} => Does(t, "src", n, job[r].act)
       /\ job[r].at = "setStatus" => Does(t, "dst", n, job[r].act)

Unmade(r, t, n) ==
  /\ tunnels[t] # None /\ tunnels[t].name = n
  /\ job[r].at = "delSrc" => SetUp(unit["src"][n], t)
  /\ job[r].at # "delSrc" => unit["src"][n] = NoUnit
  /\ job[r].at = "dropTunnel" => unit["dst"][n] = NoUnit
  /\ job[r].at # "dropTunnel" => SetUp(unit["dst"][n], t)

Stage(r, t, n) ==
  /\ job[r].at \in Making => Made(r, t, n)
  /\ job[r].at \in Acting => Done(r, t, n)
  /\ job[r].at \in Removing => Unmade(r, t, n)

Reached(t) ==
  /\ (\A r \in Request : ~Works(r, t)) /\ tunnels[t] # None => Settled(t, tunnels[t].name)
  /\ \A r \in Request : Works(r, t) => Stage(r, t, job[r].n)

(* Who has a name, or something under it.                                   *)
Bears(t, n) ==
  \/ tunnels[t] # None /\ tunnels[t].name = n
  \/ \E r \in Request : Works(r, t) /\ job[r].n = n
Lies(t, e, n) == t \in {unit[e][n].file, unit[e][n].running}
Left(t, n) == \E e \in End : Lies(t, e, n)
Remains(t, n) == \E e \in End : <<t, e>> \notin halfMade /\ Lies(t, e, n)

OwnName(t) ==
  \A n \in Name :
    /\ Remains(t, n) => Bears(t, n)
    /\ Bears(t, n) => \A x \in Tunnel : x # t => ~Bears(x, n) /\ ~Left(x, n)

Untried(t) ==
  tunnels[t] = None /\ (\A n \in Name : ~Left(t, n)) /\ \A r \in Request : ~Works(r, t)

TunnelInv ==
  /\ UnitShape /\ TunnelJobShape
  /\ \A t \in Tunnel \ unsure : WorksAlone(t) /\ Reached(t) /\ OwnName(t)
  /\ \A t \in Tunnel \ used : Untried(t)

-----------------------------------------------------------------------------
(* A step that is not about x leaves it where it is, or a node starts it.   *)
Calm(x, e, n) ==
  /\ unit[e][n] = NoUnit => unit'[e][n] = NoUnit
  /\ SetUp(unit[e][n], x) =>
       /\ SetUp(unit'[e][n], x)
       /\ unit[e][n].running = x => unit'[e][n].running = x
       /\ Rests(x, e, n) => Rests(x, e, n)'

Excuses(x) ==
  /\ halfMade \subseteq halfMade'
  /\ x \in refreshed' <=> x \in refreshed
  /\ \A e \in End : <<x, e>> \in restarted => <<x, e>> \in restarted'

Undisturbed(x) ==
  /\ tunnels'[x] = tunnels[x]
  /\ \A r \in Request : Works(r, x) \/ Works(r, x)' => job'[r] = job[r]
  /\ \A n \in Name : \A e \in End : Lies(x, e, n)' => Lies(x, e, n)
  /\ x \notin unsure' => \A n \in Name : Bears(x, n) => \A e \in End : Calm(x, e, n)
  /\ Excuses(x)

LEMMA SameIsCalm ==
  ASSUME NEW x, NEW e, NEW n, unit'[e][n] = unit[e][n], <<x, e>> \in restarted => <<x, e>> \in restarted'
  PROVE  Calm(x, e, n)
BY DEF Calm, Rests

LEMMA UndisturbedStays ==
  ASSUME TunnelInv, unsure \subseteq unsure', NEW x \in Tunnel, Undisturbed(x)
  PROVE  /\ x \notin unsure' => /\ WorksAlone(x)' /\ Reached(x)'
                               /\ \A n \in Name : Remains(x, n)' => Bears(x, n)'
         /\ Untried(x) => Untried(x)'
         /\ \A n \in Name : Left(x, n)' => Left(x, n)
         /\ \A n \in Name : Bears(x, n)' => Bears(x, n)
<1>1. \A r \in Request : /\ Works(r, x)' <=> Works(r, x)
                         /\ Works(r, x) => job'[r] = job[r]
  BY DEF Undisturbed, Works
<1>2. \A n : Bears(x, n)' <=> Bears(x, n)
  BY <1>1 DEF Bears, Undisturbed
<1>5. \A n \in Name : (Left(x, n)' => Left(x, n)) /\ (Remains(x, n)' => Remains(x, n))
  BY DEF Left, Remains, Undisturbed, Excuses
<1>3. Untried(x) => Untried(x)'
  BY <1>1, <1>5 DEF Untried, Undisturbed
<1>4. ASSUME x \notin unsure'
      PROVE  WorksAlone(x)' /\ Reached(x)' /\ \A n \in Name : Remains(x, n)' => Bears(x, n)'
  <2>0. WorksAlone(x) /\ Reached(x) /\ OwnName(x)
    BY <1>4 DEF TunnelInv
  <2>1. WorksAlone(x)'
    BY <1>1, <2>0 DEF WorksAlone
  <2>2. \A n \in Name : Remains(x, n)' => Bears(x, n)'
    BY <1>2, <1>5, <2>0 DEF OwnName
  <2>3. \A n \in Name : Bears(x, n) => \A e \in End : Calm(x, e, n)
    BY <1>4 DEF Undisturbed
  <2>4. ASSUME \A r \in Request : ~Works(r, x)', tunnels'[x] # None
        PROVE  Settled(x, tunnels[x].name)'
    <3>1. tunnels'[x] = tunnels[x] /\ tunnels[x].name \in Name
      BY <2>4 DEF Undisturbed, TunnelInv, UnitShape, TunnelRow
    <3>2. Settled(x, tunnels[x].name) /\ Bears(x, tunnels[x].name)
      BY <1>1, <2>0, <2>4, <3>1 DEF Reached, Bears
    <3>3. PICK n \in Name : n = tunnels[x].name
      BY <3>1
    <3>4. Settled(x, n) /\ (x \in refreshed' <=> x \in refreshed) /\ \A e \in End : Calm(x, e, n)
      BY <2>3, <3>2, <3>3 DEF Undisturbed, Excuses
    <3>5. Settled(x, n)'
      BY <3>1, <3>4 DEF Settled, Calm
    <3>. QED  BY <3>1, <3>3, <3>5
  <2>5. ASSUME NEW r \in Request, Works(r, x)' PROVE Stage(r, x, job[r].n)'
    <3>1. Works(r, x) /\ job'[r] = job[r] /\ tunnels'[x] = tunnels[x]
      BY <1>1, <2>5 DEF Undisturbed
    <3>2. PICK n \in Name : n = job[r].n
      BY <3>1 DEF Works, TunnelInv, TunnelJobShape, TunnelJob
    <3>3. Stage(r, x, n) /\ Calm(x, "src", n) /\ Calm(x, "dst", n)
      BY <2>0, <2>3, <3>1, <3>2 DEF Reached, Bears, End
    <3>4. (x \in refreshed' <=> x \in refreshed) /\ (<<x, "src">> \in halfMade => <<x, "src">> \in halfMade')
      BY DEF Undisturbed, Excuses
    <3>5. Made(r, x, n) => Made(r, x, n)'
      BY <3>1, <3>3, <3>4 DEF Made, Calm, Runs
    <3>6. Done(r, x, n) => Done(r, x, n)'
      BY <3>1, <3>3, <3>4 DEF Done, Calm, Does, End
    <3>7. Unmade(r, x, n) => Unmade(r, x, n)'
      BY <3>1, <3>3 DEF Unmade, Calm
    <3>8. Stage(r, x, n)'
      BY <3>1, <3>3, <3>5, <3>6, <3>7 DEF Stage
    <3>. QED  BY <3>1, <3>2, <3>8
  <2>. QED  BY <2>1, <2>2, <2>4, <2>5 DEF Reached
<1>. QED  BY <1>2, <1>3, <1>4, <1>5

(* Names stay apart when nobody comes to bear, or to have left, another     *)
(* one.                                                                     *)
LEMMA OwnNameStays ==
  ASSUME TunnelInv, unsure \subseteq unsure', NEW x \in Tunnel, x \notin unsure',
         \A n \in Name : Remains(x, n)' => Bears(x, n)',
         \A y \in Tunnel : \A n \in Name :
           (Bears(y, n)' => Bears(y, n)) /\ (Left(y, n)' => Left(y, n) \/ Bears(y, n))
  PROVE  OwnName(x)'
<1>1. OwnName(x)
  BY DEF TunnelInv
<1>2. ASSUME NEW n \in Name, Bears(x, n)', NEW y \in Tunnel, y # x
      PROVE  ~Bears(y, n)' /\ ~Left(y, n)'
  BY <1>1, <1>2 DEF OwnName
<1>. QED  BY <1>2 DEF OwnName

(* A step that is about no tunnel.                                          *)
LEMMA NobodyDisturbed ==
  ASSUME TunnelInv, unsure \subseteq unsure', used \subseteq used', UnitShape', TunnelJobShape',
         \A x \in Tunnel : Undisturbed(x)
  PROVE  TunnelInv'
<1>1. \A y \in Tunnel : \A n \in Name :
        (Bears(y, n)' => Bears(y, n)) /\ (Left(y, n)' => Left(y, n) \/ Bears(y, n))
  BY UndisturbedStays
<1>2. \A x \in Tunnel \ unsure' : WorksAlone(x)' /\ Reached(x)' /\ OwnName(x)'
  BY <1>1, UndisturbedStays, OwnNameStays
<1>3. \A x \in Tunnel \ used' : Untried(x)'
  BY UndisturbedStays DEF TunnelInv
<1>. QED  BY <1>2, <1>3 DEF TunnelInv

-----------------------------------------------------------------------------
(* The step of a request about a tunnel: what it does at its own place is   *)
(* all there is to show.                                                    *)
LEMMA OwnPlace ==
  ASSUME TunnelInv, NEW r \in Request, NEW t \in Tunnel, NEW n \in Name, Works(r, t), job[r].n = n,
         TunnelJobShape', UnitShape', unsure \subseteq unsure', used' = used,
         \A q \in Request : q # r => job'[q] = job[q],
         \A x \in Tunnel : Works(r, x)' => x = t /\ job'[r].n = n,
         \A e \in End, m \in Name : m # n => unit'[e][m] = unit[e][m],
         \A x \in Tunnel : x # t => (\A e \in End : Lies(x, e, n)' => Lies(x, e, n)) /\ tunnels'[x] = tunnels[x],
         refreshed' = refreshed, restarted' = restarted, halfMade \subseteq halfMade',
         tunnels'[t] # None =>
           tunnels'[t].name = n \/ (tunnels[t] # None /\ tunnels'[t].name = tunnels[t].name),
         t \notin unsure' =>
           /\ Works(r, t)' => Stage(r, t, n)'
           /\ ~Works(r, t)' /\ tunnels'[t] # None => Settled(t, n)'
           /\ ~Works(r, t)' /\ tunnels'[t] = None => ~Remains(t, n)'
  PROVE  TunnelInv'
<1>1. Bears(t, n)
  BY DEF Bears
<1>2. ASSUME NEW x \in Tunnel, x # t PROVE Undisturbed(x)
  <2>1. \A q \in Request : Works(q, x) \/ Works(q, x)' => job'[q] = job[q]
    BY <1>2 DEF Works
  <2>2. \A m \in Name : \A e \in End : Lies(x, e, m)' => Lies(x, e, m)
    BY <1>2 DEF Lies
  <2>3. ASSUME x \notin unsure', NEW m \in Name, Bears(x, m), NEW e \in End
        PROVE  Calm(x, e, m)
    <3>1. m # n
      BY <1>1, <1>2, <2>3 DEF TunnelInv, OwnName
    <3>. QED  BY <3>1, SameIsCalm
  <2>. QED  BY <1>2, <2>1, <2>2, <2>3 DEF Undisturbed, Excuses
<1>3. ASSUME NEW m \in Name, Bears(t, m)' PROVE Bears(t, m)
  BY <1>1, <1>3 DEF Bears, Works
<1>4. ASSUME t \notin unsure'
      PROVE  WorksAlone(t)' /\ Reached(t)' /\ \A m \in Name : Remains(t, m)' => m = n /\ Bears(t, m)'
  <2>1. WorksAlone(t) /\ Reached(t) /\ OwnName(t)
    BY <1>4 DEF TunnelInv
  <2>2. \A q \in Request : Works(q, t)' => q = r
    BY <2>1 DEF WorksAlone, Works
  <2>3. WorksAlone(t)'
    BY <2>2 DEF WorksAlone
  <2>4. Stage(r, t, n)
    BY <2>1 DEF Reached
  <2>5. tunnels[t] # None => tunnels[t].name = n
    BY <2>4 DEF Stage, Made, Done, Unmade, Works, TunnelJobs
  <2>6. \A m \in Name : Bears(t, m) => m = n
    BY <2>1, <2>5 DEF Bears, WorksAlone
  <2>7. \A m \in Name : Remains(t, m)' => m = n
    <3>1. ASSUME NEW m \in Name, Remains(t, m)', m # n PROVE FALSE
      <4>1. Remains(t, m)
        BY <3>1 DEF Remains, Lies
      <4>. QED  BY <2>1, <2>6, <3>1, <4>1 DEF OwnName
    <3>. QED  BY <3>1
  <2>8. CASE Works(r, t)'
    <3>1. Bears(t, n)'
      BY <2>8 DEF Bears
    <3>2. Reached(t)'
      BY <1>4, <2>2, <2>8 DEF Reached
    <3>. QED  BY <2>3, <2>7, <3>1, <3>2
  <2>9. CASE ~Works(r, t)'
    <3>1. tunnels'[t] # None => tunnels'[t].name = n
      BY <2>5
    <3>2. Reached(t)'
      BY <1>4, <2>2, <2>9, <3>1 DEF Reached
    <3>3. Remains(t, n)' => Bears(t, n)'
      BY <1>4, <2>9, <3>1 DEF Bears
    <3>. QED  BY <2>3, <2>7, <3>2, <3>3
  <2>. QED  BY <2>8, <2>9
<1>5. \A y \in Tunnel : \A m \in Name : Bears(y, m)' => Bears(y, m)
  BY <1>2, <1>3, UndisturbedStays
<1>6. ASSUME NEW x \in Tunnel, x \notin unsure' PROVE OwnName(x)'
  <2>1. OwnName(x)
    BY <1>6 DEF TunnelInv
  <2>2. \A m \in Name : Remains(x, m)' => Bears(x, m)'
    BY <1>2, <1>4, <1>6, UndisturbedStays
  <2>3. ASSUME NEW m \in Name, Bears(x, m)', NEW y \in Tunnel, y # x
        PROVE  ~Bears(y, m)' /\ ~Left(y, m)'
    <3>1. Bears(x, m) /\ ~Bears(y, m) /\ ~Left(y, m)
      BY <1>5, <2>1, <2>3 DEF OwnName
    <3>2. ~Bears(y, m)'
      BY <1>5, <3>1
    <3>3. CASE y # t
      BY <1>2, <3>1, <3>2, <3>3, UndisturbedStays
    <3>4. CASE y = t
      <4>1. m # n
        BY <1>1, <3>1, <3>4
      <4>2. \A e \in End : unit'[e][m] = unit[e][m]
        BY <4>1
      <4>. QED  BY <3>1, <3>2, <4>2 DEF Left, Lies
    <3>. QED  BY <3>3, <3>4
  <2>. QED  BY <2>2, <2>3 DEF OwnName
<1>7. ASSUME NEW x \in Tunnel \ used' PROVE Untried(x)'
  BY <1>2, <1>7, UndisturbedStays DEF TunnelInv, Untried
<1>8. \A x \in Tunnel \ unsure' : WorksAlone(x)' /\ Reached(x)'
  BY <1>2, <1>4, UndisturbedStays
<1>. QED  BY <1>6, <1>7, <1>8 DEF TunnelInv

(* One end is written.                                                      *)
Writes(e, n, v) ==
  /\ unit'[e][n] = v
  /\ \A d \in End, m \in Name : d # e \/ m # n => unit'[d][m] = unit[d][m]

LEMMA Written ==
  ASSUME UnitShape, NEW e \in End, NEW n \in Name, NEW v \in Unit, tunnels' = tunnels,
         \/ unit' = [unit EXCEPT ![e][n] = v]
         \/ unit' = unit /\ v = unit[e][n]
  PROVE  UnitShape' /\ Writes(e, n, v)
BY DEF UnitShape, Writes

(* The job of a request about a tunnel, as it goes on.                      *)
LEMMA OwnJob ==
  ASSUME Inv, TunnelInv, NEW r \in Request, job[r].at \in TunnelJobs, NEW j, job' = [job EXCEPT ![r] = j],
         j = Idle \/ (j \in TunnelJob /\ j.t = job[r].t /\ j.n = job[r].n /\ j.touch = job[r].touch)
  PROVE  /\ TunnelJobShape' /\ job'[r] = j
         /\ \A q \in Request : q # r => job'[q] = job[q]
         /\ \A x \in Tunnel : Works(r, x)' => x = job[r].t /\ job'[r].n = job[r].n
<1>1. DOMAIN job = Request /\ Idle.at \notin TunnelJobs
  BY DEF Inv, JobShape, Idle, TunnelJobs, Making, Removing, Acting
<1>2. \A q \in Request : job'[q] = IF q = r THEN j ELSE job[q]
  BY <1>1
<1>3. TunnelJobShape'
  BY <1>1, <1>2 DEF TunnelJobShape, TunnelInv
<1>. QED  BY <1>1, <1>2, <1>3 DEF Works

LEMMA AtPlace ==
  ASSUME TunnelInv, NEW r \in Request, job[r].at \in TunnelJobs
  PROVE  \E t \in Tunnel, n \in Name :
           /\ t = job[r].t /\ n = job[r].n /\ Works(r, t) /\ job[r] \in TunnelJob
           /\ t \notin unsure => Stage(r, t, n)
<1>1. job[r] \in TunnelJob /\ job[r].t \in Tunnel /\ job[r].n \in Name /\ Works(r, job[r].t)
  BY DEF TunnelInv, TunnelJobShape, TunnelJob, Works
<1>2. job[r].t \notin unsure => Stage(r, job[r].t, job[r].n)
  BY <1>1 DEF TunnelInv, Reached
<1>. QED  BY <1>1, <1>2

LEMMA OwnGoes ==
  ASSUME Inv, TunnelInv, NEW r \in Request, NEW at, Return(r) \/ Goto(r, at),
         \/ job[r].at \in Making /\ at \in Making
         \/ job[r].at \in Removing /\ at \in Removing
  PROVE  /\ TunnelJobShape'
         /\ \A q \in Request : q # r => job'[q] = job[q]
         /\ \A x \in Tunnel : Works(r, x)' => x = job[r].t /\ job'[r].n = job[r].n
         /\ Return(r) => \A x : ~Works(r, x)'
         /\ Goto(r, at) => job'[r].at = at /\ \A x : x = job[r].t => Works(r, x)'
<1>1. /\ Idle.at \notin TunnelJobs /\ at \in TunnelJobs /\ job[r].at \in TunnelJobs
      /\ DOMAIN job = Request
  BY DEF Idle, TunnelJobs, Making, Removing, Acting, Inv, JobShape
<1>2. CASE Goto(r, at)
  <2> DEFINE j == [job[r] EXCEPT !.at = at]
  <2>1. job[r] \in TunnelJob
    BY <1>1 DEF TunnelInv, TunnelJobShape
  <2>2. /\ j \in TunnelJob /\ j.t = job[r].t /\ j.n = job[r].n /\ j.touch = job[r].touch
        /\ j.at = at
    BY <2>1 DEF TunnelJob, Making, Removing, Acting
  <2>3. job' = [job EXCEPT ![r] = j]
    BY <1>2 DEF Goto
  <2>. HIDE DEF j
  <2>4. job'[r] = j
    BY <1>1, <2>3
  <2>5. ~Return(r)
    BY <1>1, <2>2, <2>4 DEF Return
  <2>. QED  BY <1>1, <1>2, <2>2, <2>3, <2>4, <2>5, OwnJob DEF Works
<1>3. CASE Return(r) /\ ~Goto(r, at)
  BY <1>1, <1>3, OwnJob DEF Return, Works
<1>. QED  BY <1>2, <1>3

(* ... and one end of its name.                                             *)
LEMMA OwnEnd ==
  ASSUME TunnelInv, NEW r \in Request, NEW t \in Tunnel, NEW n \in Name, Works(r, t), job[r].n = n,
         TunnelJobShape', unsure \subseteq unsure', used' = used, tunnels' = tunnels,
         \A q \in Request : q # r => job'[q] = job[q],
         \A x \in Tunnel : Works(r, x)' => x = t /\ job'[r].n = n,
         NEW e \in End, NEW v \in Unit,
         v.file \in {unit[e][n].file, t, None},
         v.running \in {unit[e][n].running, unit[e][n].file, t, None},
         unit' = [unit EXCEPT ![e][n] = v] \/ (unit' = unit /\ v = unit[e][n]),
         refreshed' = refreshed, restarted' = restarted, halfMade \subseteq halfMade',
         t \notin unsure' /\ Writes(e, n, v) =>
           /\ Works(r, t)' => Stage(r, t, n)'
           /\ ~Works(r, t)' => tunnels[t] = None /\ ~Remains(t, n)'
  PROVE  TunnelInv'
<1>1. UnitShape' /\ Writes(e, n, v)
  BY Written DEF TunnelInv
<1>2. \A d \in End, m \in Name : m # n => unit'[d][m] = unit[d][m]
  BY <1>1 DEF Writes
<1>3. \A x \in Tunnel : x # t => \A d \in End : Lies(x, d, n)' => Lies(x, d, n)
  BY <1>1, ProvisioningAssumption DEF Writes, Lies
<1>. QED  BY <1>1, <1>2, <1>3, OwnPlace

-----------------------------------------------------------------------------
(* A unit that is written has what it takes to be one.                      *)
LEMMA Writable ==
  ASSUME UnitShape, NEW e \in End, NEW n \in Name, NEW t \in Tunnel
  PROVE  /\ unit[e][n] \in Unit /\ NoUnit \in Unit /\ Up(unit[e][n], t) \in Unit
         /\ Filed(unit[e][n], t) \in Unit
         /\ [Filed(unit[e][n], t) EXCEPT !.enabled = TRUE] \in Unit
         /\ [unit[e][n] EXCEPT !.file = None] \in Unit
         /\ Runs(Up(NoUnit, t), t)
<1>1. unit[e][n] \in Unit
  BY DEF UnitShape
<1>2. Filed(unit[e][n], t) \in Unit
  BY <1>1 DEF Filed, Unit
<1>3. [Filed(unit[e][n], t) EXCEPT !.enabled = TRUE] \in Unit
  BY <1>2 DEF Unit
<1>. QED  BY <1>1, <1>2, <1>3 DEF Unit, NoUnit, Up, Runs, SetUp

LEMMA FiledUnit ==
  ASSUME NEW u \in Unit, NEW t \in Tunnel
  PROVE  Filed(u, t) \in Unit /\ Filed(u, t).file = t /\ Filed(u, t).running = u.running
BY DEF Filed, Unit

(* A creation at one end: done, not done, or in part.                       *)
LEMMA CreateWrites ==
  ASSUME TunnelInv, NEW r \in Request, NEW t \in Tunnel, NEW n \in Name, job[r].t = t, job[r].n = n,
         NEW e \in End, NEW from, NEW next, NEW failed, CreateEnd(r, e, from, next, failed)
  PROVE  /\ job[r].at = from /\ tunnels' = tunnels /\ used' = used /\ unsure \subseteq unsure'
         /\ refreshed' = refreshed /\ restarted' = restarted /\ halfMade \subseteq halfMade'
         /\ \E v \in Unit :
              /\ v.file \in {unit[e][n].file, t, None}
              /\ v.running \in {unit[e][n].running, unit[e][n].file, t, None}
              /\ unit' = [unit EXCEPT ![e][n] = v] \/ (unit' = unit /\ v = unit[e][n])
              /\ \/ v = Up(unit[e][n], t) /\ Goto(r, next)
                 \/ v = unit[e][n] /\ failed
                 \/ <<t, e>> \in halfMade' /\ failed
                 \/ t \in unsure' /\ failed
<1>1. /\ job[r].at = from /\ tunnels' = tunnels /\ used' = used /\ unsure \subseteq unsure'
      /\ refreshed' = refreshed /\ restarted' = restarted /\ halfMade \subseteq halfMade'
  BY DEF CreateEnd, rows, Well, Fault
<1>2. UnitShape
  BY DEF TunnelInv
<1> DEFINE u == unit[e][n]
<1>3. u \in Unit
  BY <1>2, Writable
<1>4. /\ Up(u, t) \in Unit /\ Up(u, t).file \in {u.file, t, None}
      /\ Up(u, t).running \in {u.running, u.file, t, None}
  BY <1>2, Writable DEF Up
<1>5. CASE unit' = unit /\ failed
  BY <1>1, <1>3, <1>5
<1>6. ASSUME NEW v, v \in {Filed(u, t), [Filed(u, t) EXCEPT !.enabled = TRUE], Up(u, t)},
             unit' = [unit EXCEPT ![e][n] = v]
      PROVE  /\ v \in Unit /\ v.file \in {u.file, t, None}
             /\ v.running \in {u.running, u.file, t, None}
  <2>0. Filed(u, t) \in Unit /\ Filed(u, t).file = t /\ Filed(u, t).running = u.running
    BY <1>3, FiledUnit
  <2>1. CASE v = Filed(u, t)
    BY <2>0, <2>1
  <2>2. CASE v = [Filed(u, t) EXCEPT !.enabled = TRUE]
    BY <2>0, <2>2 DEF Unit
  <2>3. CASE v = Up(u, t)
    BY <1>4, <2>3
  <2>. QED  BY <1>6, <2>1, <2>2, <2>3
<1>7. \/ unit' = [unit EXCEPT ![e][n] = Up(u, t)] /\ Goto(r, next)
      \/ unit' = unit /\ failed
      \/ \E v \in {Filed(u, t), [Filed(u, t) EXCEPT !.enabled = TRUE], Up(u, t)} :
           /\ unit' = [unit EXCEPT ![e][n] = v] /\ failed
           /\ <<t, e>> \in halfMade' \/ t \in unsure'
  BY DEF CreateEnd, Fault
<1>. QED  BY <1>1, <1>4, <1>5, <1>6, <1>7

LEMMA CreateAtDestinationTells ==
  ASSUME Inv, TunnelInv, NEW r \in Request, CreateAtDestination(r)
  PROVE  TunnelInv'
<1> USE DEF TunnelJobs, Making, Removing, Acting
<1>1. job[r].at = "createDst" /\ CreateEnd(r, "dst", "createDst", "createSrc", Return(r))
  BY DEF CreateAtDestination, CreateEnd
<1>2. PICK t \in Tunnel, n \in Name :
        t = job[r].t /\ n = job[r].n /\ Works(r, t) /\ (t \notin unsure => Stage(r, t, n))
  BY <1>1, AtPlace
<1>0. job[r].t = t /\ job[r].n = n /\ "dst" \in End
  BY <1>2 DEF End
<1>3. PICK v \in Unit :
        /\ v.file \in {unit["dst"][n].file, t, None}
        /\ v.running \in {unit["dst"][n].running, unit["dst"][n].file, t, None}
        /\ unit' = [unit EXCEPT !["dst"][n] = v] \/ (unit' = unit /\ v = unit["dst"][n])
        /\ \/ v = Up(unit["dst"][n], t) /\ Goto(r, "createSrc")
           \/ v = unit["dst"][n] /\ Return(r)
           \/ <<t, "dst">> \in halfMade' /\ Return(r)
           \/ t \in unsure' /\ Return(r)
  BY <1>0, <1>1, CreateWrites
<1>4. /\ tunnels' = tunnels /\ used' = used /\ unsure \subseteq unsure'
      /\ refreshed' = refreshed /\ restarted' = restarted /\ halfMade \subseteq halfMade'
  BY <1>0, <1>1, CreateWrites
<1>5. /\ TunnelJobShape'
      /\ \A q \in Request : q # r => job'[q] = job[q]
      /\ \A x \in Tunnel : Works(r, x)' => x = t /\ job'[r].n = n
      /\ Return(r) => \A x : ~Works(r, x)'
      /\ Goto(r, "createSrc") => job'[r].at = "createSrc" /\ Works(r, t)'
  BY <1>1, <1>2, <1>3, OwnGoes
<1>6. ASSUME t \notin unsure', Writes("dst", n, v)
      PROVE  /\ Works(r, t)' => Stage(r, t, n)'
             /\ ~Works(r, t)' => tunnels[t] = None /\ ~Remains(t, n)'
  <2>1. tunnels[t] = None /\ unit["dst"][n] = NoUnit /\ unit["src"][n] = NoUnit
    BY <1>1, <1>2, <1>4, <1>6 DEF Stage, Made
  <2>2. unit'["dst"][n] = v /\ unit'["src"][n] = NoUnit
    BY <1>6, <2>1 DEF Writes, End
  <2>3. CASE v = Up(NoUnit, t) /\ job'[r].at = "createSrc" /\ Works(r, t)'
    <3>1. Runs(v, t)
      BY <2>3 DEF Up, NoUnit, Runs, SetUp
    <3>2. Stage(r, t, n)'
      BY <1>4, <2>1, <2>2, <2>3, <3>1 DEF Stage, Made
    <3>. QED  BY <2>3, <3>2
  <2>4. CASE v = NoUnit /\ Return(r)
    BY <1>5, <2>1, <2>2, <2>4, ProvisioningAssumption DEF Remains, Lies, NoUnit, End
  <2>5. CASE <<t, "dst">> \in halfMade' /\ Return(r)
    BY <1>5, <2>1, <2>2, <2>5, ProvisioningAssumption DEF Remains, Lies, NoUnit, End
  <2>. QED  BY <1>3, <1>5, <1>6, <2>1, <2>3, <2>4, <2>5
<1>. QED  BY <1>2, <1>3, <1>4, <1>5, <1>6, OwnEnd DEF End

LEMMA CreateAtSourceTells == ASSUME Inv, TunnelInv, NEW r \in Request, CreateAtSource(r) PROVE TunnelInv'
<1> USE DEF TunnelJobs, Making, Removing, Acting
<1>1. job[r].at = "createSrc" /\ CreateEnd(r, "src", "createSrc", "addTunnel", Goto(r, "undoDst"))
  BY DEF CreateAtSource, CreateEnd
<1>2. PICK t \in Tunnel, n \in Name :
        t = job[r].t /\ n = job[r].n /\ Works(r, t) /\ (t \notin unsure => Stage(r, t, n))
  BY <1>1, AtPlace
<1>0. job[r].t = t /\ job[r].n = n /\ "src" \in End
  BY <1>2 DEF End
<1>3. PICK v \in Unit :
        /\ v.file \in {unit["src"][n].file, t, None}
        /\ v.running \in {unit["src"][n].running, unit["src"][n].file, t, None}
        /\ unit' = [unit EXCEPT !["src"][n] = v] \/ (unit' = unit /\ v = unit["src"][n])
        /\ \/ v = Up(unit["src"][n], t) /\ Goto(r, "addTunnel")
           \/ v = unit["src"][n] /\ Goto(r, "undoDst")
           \/ <<t, "src">> \in halfMade' /\ Goto(r, "undoDst")
           \/ t \in unsure' /\ Goto(r, "undoDst")
  BY <1>0, <1>1, CreateWrites
<1>4. /\ tunnels' = tunnels /\ used' = used /\ unsure \subseteq unsure'
      /\ refreshed' = refreshed /\ restarted' = restarted /\ halfMade \subseteq halfMade'
  BY <1>0, <1>1, CreateWrites
<1>5. /\ TunnelJobShape'
      /\ \A q \in Request : q # r => job'[q] = job[q]
      /\ \A x \in Tunnel : Works(r, x)' => x = t /\ job'[r].n = n
      /\ \A at \in {"addTunnel", "undoDst"} : Goto(r, at) => job'[r].at = at /\ Works(r, t)'
  BY <1>1, <1>2, <1>3, OwnGoes
<1>6. ASSUME t \notin unsure', Writes("src", n, v) PROVE Works(r, t)' /\ Stage(r, t, n)'
  <2>1. tunnels[t] = None /\ Runs(unit["dst"][n], t) /\ unit["src"][n] = NoUnit
    BY <1>1, <1>2, <1>4, <1>6 DEF Stage, Made
  <2>2. unit'["src"][n] = v /\ unit'["dst"][n] = unit["dst"][n]
    BY <1>6 DEF Writes, End
  <2>3. CASE v = Up(NoUnit, t) /\ Goto(r, "addTunnel")
    <3>1. Runs(v, t)
      BY <2>3 DEF Up, NoUnit, Runs, SetUp
    <3>2. job'[r].at = "addTunnel" /\ Works(r, t)'
      BY <1>5, <2>3
    <3>. QED  BY <1>4, <2>1, <2>2, <3>1, <3>2 DEF Stage, Made
  <2>4. CASE (v = NoUnit \/ <<t, "src">> \in halfMade') /\ Goto(r, "undoDst")
    <3>1. job'[r].at = "undoDst" /\ Works(r, t)'
      BY <1>5, <2>4
    <3>. QED  BY <1>4, <2>1, <2>2, <2>4, <3>1 DEF Stage, Made
  <2>. QED  BY <1>3, <1>6, <2>1, <2>3, <2>4
<1>. QED  BY <1>2, <1>3, <1>4, <1>5, <1>6, OwnEnd DEF End

(* A deletion at one end: nothing is left, or its tunnel is unsure.         *)
LEMMA DeleteWrites ==
  ASSUME TunnelInv, NEW r \in Request, NEW t \in Tunnel, NEW n \in Name, job[r].t = t, job[r].n = n,
         NEW e \in End, NEW next, DeleteEnd(r, e, next)
  PROVE  /\ next /\ tunnels' = tunnels /\ used' = used /\ unsure \subseteq unsure'
         /\ refreshed' = refreshed /\ restarted' = restarted /\ halfMade \subseteq halfMade'
         /\ \E v \in Unit :
              /\ v.file \in {unit[e][n].file, t, None}
              /\ v.running \in {unit[e][n].running, unit[e][n].file, t, None}
              /\ unit' = [unit EXCEPT ![e][n] = v] \/ (unit' = unit /\ v = unit[e][n])
              /\ unit[e][n].file # None => v = NoUnit \/ t \in unsure'
<1>1. /\ next /\ tunnels' = tunnels /\ used' = used /\ unsure \subseteq unsure'
      /\ refreshed' = refreshed /\ restarted' = restarted /\ halfMade \subseteq halfMade'
  BY DEF DeleteEnd, rows, excuses, Well, Fault
<1> DEFINE u == unit[e][n]
           w == [unit[e][n] EXCEPT !.file = None]
           z == Deleted(unit[e][n])
<1>2. /\ u \in Unit /\ w \in Unit /\ z \in Unit
      /\ z.file \in {u.file, None} /\ z.running \in {u.running, None}
      /\ u.file # None => z = NoUnit
      /\ w.file = None /\ w.running = u.running
  BY Writable DEF TunnelInv, NoUnit, Unit, Deleted
<1>3. \/ unit' = [unit EXCEPT ![e][n] = z]
      \/ unit' = [unit EXCEPT ![e][n] = w] /\ t \in unsure'
      \/ unit' = unit /\ t \in unsure'
  BY DEF DeleteEnd, Fault
<1>. HIDE DEF w, z
<1>. QED  BY <1>1, <1>2, <1>3

LEMMA UndoDestinationTells == ASSUME Inv, TunnelInv, NEW r \in Request, UndoDestination(r) PROVE TunnelInv'
<1> USE DEF TunnelJobs, Making, Removing, Acting
<1>1. job[r].at = "undoDst" /\ DeleteEnd(r, "dst", Return(r))
  BY DEF UndoDestination
<1>2. PICK t \in Tunnel, n \in Name :
        t = job[r].t /\ n = job[r].n /\ Works(r, t) /\ (t \notin unsure => Stage(r, t, n))
  BY <1>1, AtPlace
<1>3. PICK v \in Unit :
        /\ v.file \in {unit["dst"][n].file, t, None}
        /\ v.running \in {unit["dst"][n].running, unit["dst"][n].file, t, None}
        /\ unit' = [unit EXCEPT !["dst"][n] = v] \/ (unit' = unit /\ v = unit["dst"][n])
        /\ unit["dst"][n].file # None => v = NoUnit \/ t \in unsure'
  BY <1>1, <1>2, DeleteWrites DEF End
<1>4. /\ tunnels' = tunnels /\ used' = used /\ unsure \subseteq unsure'
      /\ refreshed' = refreshed /\ restarted' = restarted /\ halfMade \subseteq halfMade'
      /\ Return(r)
  BY <1>1, <1>2, DeleteWrites DEF End
<1>5. /\ TunnelJobShape'
      /\ \A q \in Request : q # r => job'[q] = job[q]
      /\ \A x \in Tunnel : Works(r, x)' => x = t /\ job'[r].n = n
      /\ ~Works(r, t)'
  BY <1>1, <1>2, <1>4, OwnGoes
<1>6. ASSUME t \notin unsure', Writes("dst", n, v)
      PROVE  tunnels[t] = None /\ ~Remains(t, n)'
  <2>1. /\ tunnels[t] = None /\ unit["dst"][n].file = t
        /\ unit["src"][n] = NoUnit \/ <<t, "src">> \in halfMade
    BY <1>1, <1>2, <1>4, <1>6 DEF Stage, Made, Runs, SetUp
  <2>2. v = NoUnit
    BY <1>3, <1>6, <2>1, ProvisioningAssumption
  <2>3. unit'["dst"][n] = NoUnit /\ unit'["src"][n] = unit["src"][n]
    BY <1>6, <2>2 DEF Writes, End
  <2>. QED  BY <1>4, <2>1, <2>3, ProvisioningAssumption DEF Remains, Lies, NoUnit, End
<1>. QED  BY <1>2, <1>3, <1>4, <1>5, <1>6, OwnEnd DEF End

LEMMA DeleteAtSourceTells == ASSUME Inv, TunnelInv, NEW r \in Request, DeleteAtSource(r) PROVE TunnelInv'
<1> USE DEF TunnelJobs, Making, Removing, Acting
<1>1. job[r].at = "delSrc" /\ DeleteEnd(r, "src", Goto(r, "delDst"))
  BY DEF DeleteAtSource
<1>2. PICK t \in Tunnel, n \in Name :
        t = job[r].t /\ n = job[r].n /\ Works(r, t) /\ (t \notin unsure => Stage(r, t, n))
  BY <1>1, AtPlace
<1>3. PICK v \in Unit :
        /\ v.file \in {unit["src"][n].file, t, None}
        /\ v.running \in {unit["src"][n].running, unit["src"][n].file, t, None}
        /\ unit' = [unit EXCEPT !["src"][n] = v] \/ (unit' = unit /\ v = unit["src"][n])
        /\ unit["src"][n].file # None => v = NoUnit \/ t \in unsure'
  BY <1>1, <1>2, DeleteWrites DEF End
<1>4. /\ tunnels' = tunnels /\ used' = used /\ unsure \subseteq unsure'
      /\ refreshed' = refreshed /\ restarted' = restarted /\ halfMade \subseteq halfMade'
      /\ Goto(r, "delDst")
  BY <1>1, <1>2, DeleteWrites DEF End
<1>5. /\ TunnelJobShape'
      /\ \A q \in Request : q # r => job'[q] = job[q]
      /\ \A x \in Tunnel : Works(r, x)' => x = t /\ job'[r].n = n
      /\ job'[r].at = "delDst" /\ Works(r, t)'
  BY <1>1, <1>2, <1>4, OwnGoes
<1>6. ASSUME t \notin unsure', Writes("src", n, v) PROVE Stage(r, t, n)'
  <2>0. Unmade(r, t, n)
    BY <1>1, <1>2, <1>4, <1>6 DEF Stage
  <2>1. Unmade(r, t, n) /\ v = NoUnit
    BY <1>1, <1>3, <1>6, <2>0, ProvisioningAssumption DEF Unmade, SetUp
  <2>2. unit'["src"][n] = NoUnit /\ unit'["dst"][n] = unit["dst"][n]
    BY <1>6, <2>1 DEF Writes, End
  <2>3. Unmade(r, t, n)'
    BY <1>1, <1>4, <1>5, <2>1, <2>2 DEF Unmade
  <2>. QED  BY <1>5, <2>3 DEF Stage
<1>. QED  BY <1>2, <1>3, <1>4, <1>5, <1>6, OwnEnd DEF End

LEMMA DeleteAtDestinationTells == ASSUME Inv, TunnelInv, NEW r \in Request, DeleteAtDestination(r) PROVE TunnelInv'
<1> USE DEF TunnelJobs, Making, Removing, Acting
<1>1. job[r].at = "delDst" /\ DeleteEnd(r, "dst", Goto(r, "dropTunnel"))
  BY DEF DeleteAtDestination
<1>2. PICK t \in Tunnel, n \in Name :
        t = job[r].t /\ n = job[r].n /\ Works(r, t) /\ (t \notin unsure => Stage(r, t, n))
  BY <1>1, AtPlace
<1>3. PICK v \in Unit :
        /\ v.file \in {unit["dst"][n].file, t, None}
        /\ v.running \in {unit["dst"][n].running, unit["dst"][n].file, t, None}
        /\ unit' = [unit EXCEPT !["dst"][n] = v] \/ (unit' = unit /\ v = unit["dst"][n])
        /\ unit["dst"][n].file # None => v = NoUnit \/ t \in unsure'
  BY <1>1, <1>2, DeleteWrites DEF End
<1>4. /\ tunnels' = tunnels /\ used' = used /\ unsure \subseteq unsure'
      /\ refreshed' = refreshed /\ restarted' = restarted /\ halfMade \subseteq halfMade'
      /\ Goto(r, "dropTunnel")
  BY <1>1, <1>2, DeleteWrites DEF End
<1>5. /\ TunnelJobShape'
      /\ \A q \in Request : q # r => job'[q] = job[q]
      /\ \A x \in Tunnel : Works(r, x)' => x = t /\ job'[r].n = n
      /\ job'[r].at = "dropTunnel" /\ Works(r, t)'
  BY <1>1, <1>2, <1>4, OwnGoes
<1>6. ASSUME t \notin unsure', Writes("dst", n, v) PROVE Stage(r, t, n)'
  <2>0. Unmade(r, t, n)
    BY <1>1, <1>2, <1>4, <1>6 DEF Stage
  <2>1. Unmade(r, t, n) /\ v = NoUnit
    BY <1>1, <1>3, <1>6, <2>0, ProvisioningAssumption DEF Unmade, SetUp
  <2>2. unit'["dst"][n] = NoUnit /\ unit'["src"][n] = unit["src"][n]
    BY <1>6, <2>1 DEF Writes, End
  <2>3. Unmade(r, t, n)'
    BY <1>1, <1>4, <1>5, <2>1, <2>2 DEF Unmade
  <2>. QED  BY <1>5, <2>3 DEF Stage
<1>. QED  BY <1>2, <1>3, <1>4, <1>5, <1>6, OwnEnd DEF End

LEMMA AddTunnelTells == ASSUME Inv, TunnelInv, NEW r \in Request, AddTunnel(r) PROVE TunnelInv'
<1> USE DEF TunnelJobs, Making, Removing, Acting
<1>1. /\ job[r].at = "addTunnel" /\ Return(r) /\ unit' = unit /\ used' = used
      /\ unsure \subseteq unsure'
      /\ refreshed' = refreshed /\ restarted' = restarted /\ halfMade' = halfMade
  BY DEF AddTunnel, nodes, excuses, Well, Fault
<1>2. PICK t \in Tunnel, n \in Name :
        t = job[r].t /\ n = job[r].n /\ Works(r, t) /\ (t \notin unsure => Stage(r, t, n))
  BY <1>1, AtPlace
<1>3. /\ TunnelJobShape'
      /\ \A q \in Request : q # r => job'[q] = job[q]
      /\ \A x \in Tunnel : ~Works(r, x)'
  BY <1>1, <1>2, OwnGoes
<1> DEFINE row == [name |-> n, status |-> "online"]
<1>4. tunnels' = [tunnels EXCEPT ![t] = row] \/ (tunnels' = tunnels /\ t \in unsure')
  BY <1>2 DEF AddTunnel, Fault
<1>5. row \in TunnelRow /\ row # None /\ row.name = n /\ row.status = "online"
  BY ProvisioningAssumption DEF TunnelRow
<1>. HIDE DEF row
<1>6. /\ \A x \in Tunnel : x # t => tunnels'[x] = tunnels[x]
      /\ (tunnels'[t] = tunnels[t] /\ t \in unsure') \/ tunnels'[t] = row
      /\ UnitShape'
  BY <1>1, <1>4, <1>5 DEF TunnelInv, UnitShape
<1>7. ASSUME t \notin unsure' PROVE tunnels'[t] # None /\ Settled(t, n)'
  <2>1. tunnels'[t] = row
    BY <1>6, <1>7
  <2>2. Runs(unit["dst"][n], t) /\ Runs(unit["src"][n], t)
    BY <1>1, <1>2, <1>7 DEF Stage, Made
  <2>. QED  BY <1>1, <1>5, <2>1, <2>2 DEF Settled, Runs, End
<1>8. tunnels'[t] = tunnels[t] \/ (tunnels'[t] # None => tunnels'[t].name = n)
  BY <1>5, <1>6
<1>9. \A x \in Tunnel : x # t => (\A e \in End : Lies(x, e, n)' => Lies(x, e, n)) /\ tunnels'[x] = tunnels[x]
  BY <1>1, <1>6 DEF Lies
<1>. QED  BY <1>1, <1>2, <1>3, <1>6, <1>7, <1>8, <1>9, OwnPlace

LEMMA DropTunnelTells == ASSUME Inv, TunnelInv, NEW r \in Request, DropTunnel(r) PROVE TunnelInv'
<1> USE DEF TunnelJobs, Making, Removing, Acting
<1>1. /\ job[r].at = "dropTunnel" /\ Return(r) /\ unit' = unit /\ used' = used
      /\ unsure \subseteq unsure'
      /\ refreshed' = refreshed /\ restarted' = restarted /\ halfMade' = halfMade
  BY DEF DropTunnel, nodes, excuses, Well, Fault
<1>2. PICK t \in Tunnel, n \in Name :
        t = job[r].t /\ n = job[r].n /\ Works(r, t) /\ (t \notin unsure => Stage(r, t, n))
  BY <1>1, AtPlace
<1>3. /\ TunnelJobShape'
      /\ \A q \in Request : q # r => job'[q] = job[q]
      /\ \A x \in Tunnel : ~Works(r, x)'
  BY <1>1, <1>2, OwnGoes
<1>4. tunnels' = [tunnels EXCEPT ![t] = None] \/ (tunnels' = tunnels /\ t \in unsure')
  BY <1>2 DEF DropTunnel, Fault
<1>5. /\ \A x \in Tunnel : x # t => tunnels'[x] = tunnels[x]
      /\ (tunnels'[t] = tunnels[t] /\ t \in unsure') \/ tunnels'[t] = None
      /\ UnitShape'
  BY <1>1, <1>4 DEF TunnelInv, UnitShape
<1>6. ASSUME t \notin unsure' PROVE tunnels'[t] = None /\ ~Remains(t, n)'
  <2>1. unit["dst"][n] = NoUnit /\ unit["src"][n] = NoUnit
    BY <1>1, <1>2, <1>6 DEF Stage, Unmade
  <2>. QED  BY <1>1, <1>5, <1>6, <2>1, ProvisioningAssumption DEF Remains, Lies, NoUnit, End
<1>7. \A x \in Tunnel : x # t => (\A e \in End : Lies(x, e, n)' => Lies(x, e, n)) /\ tunnels'[x] = tunnels[x]
  BY <1>1, <1>5 DEF Lies
<1>. QED  BY <1>1, <1>2, <1>3, <1>5, <1>6, <1>7, OwnPlace

-----------------------------------------------------------------------------
(* An action at one end leaves a unit that was set up as it should be.      *)
LEMMA ActedUnit ==
  ASSUME NEW u \in Unit, NEW act \in Action
  PROVE  /\ Acted(u, act) \in Unit /\ Acted(u, act).file = u.file
         /\ Acted(u, act).running \in {u.running, u.file, None}
         /\ \A t : SetUp(u, t) => SetUp(Acted(u, act), t)
         /\ \A t : SetUp(u, t) /\ act # "refresh" =>
              Acted(u, act).running = IF act = "stop" THEN None ELSE t
         /\ act = "refresh" => Acted(u, act) = u
<1>1. [u EXCEPT !.running = u.file] \in Unit /\ [u EXCEPT !.running = None] \in Unit
  BY DEF Unit
<1>2. Acted(u, act) \in {u, [u EXCEPT !.running = u.file], [u EXCEPT !.running = None]}
  BY DEF Acted, Action
<1>3. Acted(u, act) \in Unit /\ Acted(u, act).file = u.file
      /\ Acted(u, act).running \in {u.running, u.file, None}
  BY <1>1, <1>2 DEF Unit
<1>4. ASSUME NEW t, SetUp(u, t), act # "refresh"
      PROVE  /\ SetUp(Acted(u, act), t)
             /\ Acted(u, act).running = IF act = "stop" THEN None ELSE t
  <2>1. CASE act = "start"
    BY <1>4, <2>1 DEF SetUp, Acted, Unit
  <2>2. CASE act = "restart"
    BY <1>4, <2>2 DEF SetUp, Acted, Unit
  <2>3. CASE act = "stop"
    BY <1>4, <2>3 DEF SetUp, Acted, Unit
  <2>. QED  BY <1>4, <2>1, <2>2, <2>3 DEF Action
<1>5. act = "refresh" => Acted(u, act) = u
  BY DEF Acted
<1>. QED  BY <1>3, <1>4, <1>5

LEMMA ActWrites ==
  ASSUME Inv, TunnelInv, NEW r \in Request, NEW e \in End, NEW next, next \in Acting, job[r].at \in Acting,
         NEW from, ActAt(r, e, from, next),
         NEW t \in Tunnel, NEW n \in Name, job[r].t = t, job[r].n = n
  PROVE  /\ tunnels' = tunnels /\ used' = used /\ unsure \subseteq unsure'
         /\ refreshed' = refreshed /\ restarted' = restarted /\ halfMade' = halfMade
         /\ TunnelJobShape' /\ Works(r, t)' /\ job'[r].at = next /\ job'[r].act = job[r].act
         /\ \A q \in Request : q # r => job'[q] = job[q]
         /\ \A x \in Tunnel : Works(r, x)' => x = t /\ job'[r].n = n
         /\ job[r].act \in Action
         /\ \E v \in {unit[e][n], Acted(unit[e][n], job[r].act)} :
              /\ unit' = [unit EXCEPT ![e][n] = v] \/ (unit' = unit /\ v = unit[e][n])
              /\ ~job'[r].failed => v = Acted(unit[e][n], job[r].act) /\ ~job[r].failed
<1> DEFINE u == unit[e][n]
<1>1. /\ tunnels' = tunnels /\ used' = used /\ unsure \subseteq unsure'
      /\ refreshed' = refreshed /\ restarted' = restarted /\ halfMade' = halfMade
  BY DEF ActAt, rows, excuses, Well, Fault
<1> DEFINE D(f) == job' = [job EXCEPT ![r] = [@ EXCEPT !.at = next, !.failed = f]]
           W == unit' = [unit EXCEPT ![e][n] = Acted(u, job[r].act)]
<1>10. (W /\ D(job[r].failed)) \/ (unit' = unit /\ D(TRUE)) \/ (W /\ D(TRUE))
  BY DEF ActAt
<1>. HIDE DEF D, W
<1>2. PICK failed : D(failed) /\ ((W /\ failed \in {job[r].failed, TRUE}) \/ (unit' = unit /\ failed = TRUE))
  BY <1>10
<1>3. job[r] \in [at : Acting, touch : SUBSET Tunnel, t : Tunnel, n : Name, act : Action, failed : BOOLEAN]
  BY DEF TunnelInv, TunnelJobShape, TunnelJob, TunnelJobs, Making, Removing, Acting
<1>4. failed \in BOOLEAN /\ job[r].act \in Action
  BY <1>2, <1>3
<1> DEFINE j == [job[r] EXCEPT !.at = next, !.failed = failed]
<1>5. /\ j \in [at : Acting, touch : SUBSET Tunnel, t : Tunnel, n : Name, act : Action, failed : BOOLEAN]
      /\ j.at = next /\ j.failed = failed /\ j.touch = job[r].touch /\ j.t = t /\ j.n = n
      /\ j.act = job[r].act
  BY <1>3, <1>4
<1>6. job' = [job EXCEPT ![r] = j]
  BY <1>2 DEF D
<1>. HIDE DEF j
<1>7. j \in TunnelJob /\ job[r].at \in TunnelJobs /\ next \in TunnelJobs
  BY <1>5 DEF TunnelJob, TunnelJobs
<1>8. /\ TunnelJobShape' /\ job'[r] = j
      /\ \A q \in Request : q # r => job'[q] = job[q]
      /\ \A x \in Tunnel : Works(r, x)' => x = t /\ job'[r].n = n
  BY <1>5, <1>6, <1>7, OwnJob
<1>9. Works(r, t)'
  BY <1>5, <1>7, <1>8 DEF Works
<1>11. W => unit' = [unit EXCEPT ![e][n] = Acted(u, job[r].act)]
  BY DEF W
<1>12. \E v \in {u, Acted(u, job[r].act)} :
         /\ unit' = [unit EXCEPT ![e][n] = v] \/ (unit' = unit /\ v = u)
         /\ ~job'[r].failed => v = Acted(u, job[r].act) /\ ~job[r].failed
  BY <1>2, <1>5, <1>8, <1>11
<1>. QED  BY <1>1, <1>4, <1>5, <1>8, <1>9, <1>12

LEMMA ActGoes ==
  ASSUME Inv, TunnelInv, NEW r \in Request, NEW e \in End, NEW next, next \in Acting, job[r].at \in Acting,
         NEW from, ActAt(r, e, from, next),
         NEW t \in Tunnel, NEW n \in Name, job[r].t = t, job[r].n = n
  PROVE  /\ tunnels' = tunnels /\ used' = used /\ unsure \subseteq unsure'
         /\ refreshed' = refreshed /\ restarted' = restarted /\ halfMade' = halfMade
         /\ TunnelJobShape' /\ Works(r, t)' /\ job'[r].at = next /\ job'[r].act = job[r].act
         /\ \A q \in Request : q # r => job'[q] = job[q]
         /\ \A x \in Tunnel : Works(r, x)' => x = t /\ job'[r].n = n
         /\ job[r].act \in Action
BY ActWrites

LEMMA ActAtSourceTells == ASSUME Inv, TunnelInv, NEW r \in Request, ActAtSource(r) PROVE TunnelInv'
<1> USE DEF TunnelJobs, Making, Removing, Acting
<1>1. job[r].at = "actSrc" /\ ActAt(r, "src", "actSrc", "actDst")
  BY DEF ActAtSource, ActAt
<1>2. PICK t \in Tunnel, n \in Name :
        t = job[r].t /\ n = job[r].n /\ Works(r, t) /\ (t \notin unsure => Stage(r, t, n))
  BY <1>1, AtPlace
<1>0. /\ job[r].at \in Acting /\ "actDst" \in Acting /\ "src" \in End
      /\ job[r].t = t /\ job[r].n = n
  BY <1>1, <1>2 DEF End
<1>3. PICK v \in {unit["src"][n], Acted(unit["src"][n], job[r].act)} :
        /\ unit' = [unit EXCEPT !["src"][n] = v] \/ (unit' = unit /\ v = unit["src"][n])
        /\ ~job'[r].failed => v = Acted(unit["src"][n], job[r].act) /\ ~job[r].failed
  BY <1>0, <1>1, ActWrites
<1>4. /\ tunnels' = tunnels /\ used' = used /\ unsure \subseteq unsure'
      /\ refreshed' = refreshed /\ restarted' = restarted /\ halfMade' = halfMade
      /\ TunnelJobShape' /\ Works(r, t)' /\ job'[r].at = "actDst" /\ job'[r].act = job[r].act
      /\ \A q \in Request : q # r => job'[q] = job[q]
      /\ \A x \in Tunnel : Works(r, x)' => x = t /\ job'[r].n = n
      /\ job[r].act \in Action
  BY <1>0, <1>1, ActGoes
<1> DEFINE u == unit["src"][n]
<1>5. u \in Unit
  BY Writable DEF TunnelInv, End
<1>6. v \in Unit /\ v.file \in {u.file, t, None} /\ v.running \in {u.running, u.file, t, None}
  BY <1>3, <1>4, <1>5, ActedUnit
<1>7. ASSUME t \notin unsure', Writes("src", n, v) PROVE Stage(r, t, n)'
  <2>1. Done(r, t, n)
    BY <1>1, <1>2, <1>4, <1>7 DEF Stage
  <2>2. SetUp(u, t)
    BY <2>1 DEF Done, End
  <2>3. /\ SetUp(v, t) /\ (job[r].act = "refresh" => v = u)
        /\ job[r].act # "refresh" /\ ~job'[r].failed =>
             ~job[r].failed /\ v.running = IF job[r].act = "stop" THEN None ELSE t
    BY <1>3, <1>4, <1>5, <2>2, ActedUnit
  <2>4. unit'["src"][n] = v /\ unit'["dst"][n] = unit["dst"][n]
    BY <1>7 DEF Writes, End
  <2>5. /\ \A d \in End : SetUp(unit'[d][n], t)
        /\ job[r].act = "refresh" /\ t \notin refreshed => \A d \in End : unit'[d][n].running = t
    BY <2>1, <2>3, <2>4 DEF Done, End
  <2>7. job[r].act # "refresh" /\ ~job'[r].failed => Does(t, "src", n, job[r].act)'
    BY <1>4, <2>3, <2>4 DEF Does, Rests
  <2>8. Does(t, "dst", n, job[r].act) => Does(t, "dst", n, job[r].act)'
    BY <1>4, <2>4 DEF Does, Rests
  <2>6. Done(r, t, n)'
    BY <1>1, <1>4, <2>1, <2>3, <2>5, <2>7, <2>8 DEF Done
  <2>. QED  BY <1>4, <2>6 DEF Stage
<1>. QED  BY <1>2, <1>3, <1>4, <1>6, <1>7, OwnEnd DEF End

LEMMA ActAtDestinationTells == ASSUME Inv, TunnelInv, NEW r \in Request, ActAtDestination(r) PROVE TunnelInv'
<1> USE DEF TunnelJobs, Making, Removing, Acting
<1>1. job[r].at = "actDst" /\ ActAt(r, "dst", "actDst", "setStatus")
  BY DEF ActAtDestination, ActAt
<1>2. PICK t \in Tunnel, n \in Name :
        t = job[r].t /\ n = job[r].n /\ Works(r, t) /\ (t \notin unsure => Stage(r, t, n))
  BY <1>1, AtPlace
<1>0. /\ job[r].at \in Acting /\ "setStatus" \in Acting /\ "dst" \in End
      /\ job[r].t = t /\ job[r].n = n
  BY <1>1, <1>2 DEF End
<1>3. PICK v \in {unit["dst"][n], Acted(unit["dst"][n], job[r].act)} :
        /\ unit' = [unit EXCEPT !["dst"][n] = v] \/ (unit' = unit /\ v = unit["dst"][n])
        /\ ~job'[r].failed => v = Acted(unit["dst"][n], job[r].act) /\ ~job[r].failed
  BY <1>0, <1>1, ActWrites
<1>4. /\ tunnels' = tunnels /\ used' = used /\ unsure \subseteq unsure'
      /\ refreshed' = refreshed /\ restarted' = restarted /\ halfMade' = halfMade
      /\ TunnelJobShape' /\ Works(r, t)' /\ job'[r].at = "setStatus" /\ job'[r].act = job[r].act
      /\ \A q \in Request : q # r => job'[q] = job[q]
      /\ \A x \in Tunnel : Works(r, x)' => x = t /\ job'[r].n = n
      /\ job[r].act \in Action
  BY <1>0, <1>1, ActGoes
<1> DEFINE u == unit["dst"][n]
<1>5. u \in Unit
  BY Writable DEF TunnelInv, End
<1>6. v \in Unit /\ v.file \in {u.file, t, None} /\ v.running \in {u.running, u.file, t, None}
  BY <1>3, <1>4, <1>5, ActedUnit
<1>7. ASSUME t \notin unsure', Writes("dst", n, v) PROVE Stage(r, t, n)'
  <2>1. Done(r, t, n)
    BY <1>1, <1>2, <1>4, <1>7 DEF Stage
  <2>2. SetUp(u, t)
    BY <2>1 DEF Done, End
  <2>3. /\ SetUp(v, t) /\ (job[r].act = "refresh" => v = u)
        /\ job[r].act # "refresh" /\ ~job'[r].failed =>
             ~job[r].failed /\ v.running = IF job[r].act = "stop" THEN None ELSE t
    BY <1>3, <1>4, <1>5, <2>2, ActedUnit
  <2>4. unit'["dst"][n] = v /\ unit'["src"][n] = unit["src"][n]
    BY <1>7 DEF Writes, End
  <2>5. /\ \A d \in End : SetUp(unit'[d][n], t)
        /\ job[r].act = "refresh" /\ t \notin refreshed => \A d \in End : unit'[d][n].running = t
    BY <2>1, <2>3, <2>4 DEF Done, End
  <2>7. job[r].act # "refresh" /\ ~job'[r].failed => Does(t, "dst", n, job[r].act)'
    BY <1>4, <2>3, <2>4 DEF Does, Rests
  <2>8. Does(t, "src", n, job[r].act) => Does(t, "src", n, job[r].act)'
    BY <1>4, <2>4 DEF Does, Rests
  <2>6. Done(r, t, n)'
    BY <1>1, <1>4, <2>1, <2>3, <2>5, <2>7, <2>8 DEF Done
  <2>. QED  BY <1>4, <2>6 DEF Stage
<1>. QED  BY <1>2, <1>3, <1>4, <1>6, <1>7, OwnEnd DEF End

LEMMA SetStatusTells == ASSUME Inv, TunnelInv, NEW r \in Request, SetStatus(r) PROVE TunnelInv'
<1> USE DEF TunnelJobs, Making, Removing, Acting
<1>1. /\ job[r].at = "setStatus" /\ Return(r) /\ unit' = unit /\ used' = used
      /\ unsure \subseteq unsure'
      /\ refreshed' = refreshed /\ restarted' = restarted /\ halfMade' = halfMade
  BY DEF SetStatus, nodes, excuses, Well, Fault
<1>2. PICK t \in Tunnel, n \in Name :
        t = job[r].t /\ n = job[r].n /\ Works(r, t) /\ (t \notin unsure => Stage(r, t, n))
  BY <1>1, AtPlace
<1>3. /\ TunnelJobShape'
      /\ \A q \in Request : q # r => job'[q] = job[q]
      /\ \A x \in Tunnel : ~Works(r, x)'
  <2>1. job' = [job EXCEPT ![r] = Idle] /\ Idle.at \notin TunnelJobs
    BY <1>1 DEF Return, Idle
  <2>. QED  BY <1>1, <2>1, OwnJob DEF Works
<1> DEFINE status == StatusAfter(job[r].act, job[r].failed)
           row == [tunnels[t] EXCEPT !.status = status]
<1>4. \/ tunnels[t] = None /\ tunnels' = tunnels
      \/ tunnels[t] # None /\ tunnels' = [tunnels EXCEPT ![t] = row]
      \/ tunnels' = tunnels /\ t \in unsure'
  BY <1>2 DEF SetStatus, Fault
<1>5. ASSUME tunnels[t] # None
      PROVE  row \in TunnelRow /\ row # None /\ row.name = tunnels[t].name /\ row.status = status
  <2>1. tunnels[t] \in TunnelRow /\ status \in {"online", "stopped", "degraded"}
    BY <1>5 DEF TunnelInv, UnitShape, StatusAfter
  <2>. HIDE DEF status
  <2>. QED  BY <2>1, ProvisioningAssumption DEF TunnelRow
<1>. HIDE DEF row, status
<1>6. /\ \A x \in Tunnel : x # t => tunnels'[x] = tunnels[x]
      /\ \/ tunnels'[t] = tunnels[t] /\ (tunnels[t] = None \/ t \in unsure')
         \/ tunnels'[t] = row /\ tunnels[t] # None
      /\ UnitShape'
  BY <1>1, <1>4, <1>5 DEF TunnelInv, UnitShape
<1>7. t \notin unsure => Done(r, t, n)
  BY <1>1, <1>2 DEF Stage
<1>8. ASSUME t \notin unsure' PROVE tunnels'[t] # None /\ Settled(t, n)'
  <2>1. Done(r, t, n) /\ tunnels'[t] = row /\ tunnels[t] # None
    BY <1>1, <1>6, <1>7, <1>8 DEF Done
  <2>2. row.name = n /\ row.status = status /\ row # None
    BY <1>5, <2>1 DEF Done
  <2>3. /\ \A e \in End : SetUp(unit[e][n], t)
        /\ job[r].act # "refresh" /\ ~job[r].failed => \A e \in End : Does(t, e, n, job[r].act)
        /\ job[r].act = "refresh" /\ t \notin refreshed => \A e \in End : unit[e][n].running = t
    BY <1>1, <2>1 DEF Done, End
  <2>4. /\ status = "online" => ~job[r].failed /\ job[r].act # "stop"
        /\ status = "stopped" => ~job[r].failed /\ job[r].act = "stop"
    BY DEF status, StatusAfter
  <2>5. /\ status = "online" /\ t \notin refreshed => \A e \in End : unit[e][n].running = t
        /\ status = "stopped" => \A e \in End : Rests(t, e, n)
    BY <2>3, <2>4 DEF Does
  <2>. QED  BY <1>1, <2>1, <2>2, <2>3, <2>5 DEF Settled, Rests
<1>9. \A x \in Tunnel : x # t => (\A e \in End : Lies(x, e, n)' => Lies(x, e, n)) /\ tunnels'[x] = tunnels[x]
  BY <1>1, <1>6 DEF Lies
<1>10. tunnels'[t] # None => tunnels[t] # None /\ tunnels'[t].name = tunnels[t].name
  BY <1>5, <1>6
<1>. QED  BY <1>1, <1>2, <1>3, <1>6, <1>8, <1>9, <1>10, OwnPlace

-----------------------------------------------------------------------------
(* A request begins: no other tunnel is disturbed.                          *)
LEMMA Started ==
  ASSUME Inv, TunnelInv, NEW r \in Request, NEW j, j \in TunnelJob, j.t \in j.touch, Begin(r, j),
         \A x \in Tunnel : x # j.t => Excuses(x)
  PROVE  /\ tunnels' = tunnels /\ unit' = unit /\ job'[r] = j /\ UnitShape' /\ TunnelJobShape'
         /\ \A x : ~Works(r, x) /\ (Works(r, x)' <=> x = j.t)
         /\ \A q \in Request : q # r => job'[q] = job[q]
         /\ \A x \in Tunnel : x # j.t => Undisturbed(x)
<1> USE DEF TunnelJobs, Making, Removing, Acting
<1>1. tunnels' = tunnels /\ unit' = unit /\ job[r] = Idle /\ job' = [job EXCEPT ![r] = j]
  BY DEF Begin, rows, nodes
<1>2. \A q \in Request : job'[q] = IF q = r THEN j ELSE job[q]
  BY <1>1 DEF Inv, JobShape
<1>3. Idle.at \notin TunnelJobs /\ j.at \in TunnelJobs
  BY DEF Idle, TunnelJob
<1>4. UnitShape' /\ TunnelJobShape'
  BY <1>1, <1>2, <1>3 DEF UnitShape, TunnelJobShape, TunnelInv
<1>5. \A x : ~Works(r, x) /\ (Works(r, x)' <=> x = j.t)
  BY <1>1, <1>2, <1>3 DEF Works
<1>6. ASSUME NEW x \in Tunnel, x # j.t PROVE Undisturbed(x)
  <2>1. Excuses(x) /\ \A e \in End : \A n \in Name : Calm(x, e, n)
    BY <1>1, <1>6, SameIsCalm DEF Excuses
  <2>. QED  BY <1>1, <1>2, <1>5, <1>6, <2>1 DEF Undisturbed, Lies
<1>. QED  BY <1>1, <1>2, <1>4, <1>5, <1>6

(* A request about a tunnel that has a row finds it as told.                *)
LEMMA FoundKeeps ==
  ASSUME Inv, TunnelInv, NEW r \in Request, NEW t \in Tunnel, tunnels[t] # None,
         NEW j, j \in TunnelJob, j.at \in {"actSrc", "delSrc"}, j.t = t, j.n = tunnels[t].name,
         t \in j.touch, Begin(r, j), unsure \subseteq unsure', used' = used,
         Clashing({t}) \subseteq unsure',
         halfMade' = halfMade, \A x \in Tunnel : x # t => Excuses(x),
         j.at = "actSrc" /\ j.act = "refresh" /\ t \notin refreshed' =>
           t \notin refreshed /\ tunnels[t].status = "online"
  PROVE  TunnelInv'
<1> USE DEF TunnelJobs, Making, Removing, Acting
<1>1. /\ tunnels' = tunnels /\ unit' = unit /\ job'[r] = j /\ UnitShape' /\ TunnelJobShape'
      /\ \A x : ~Works(r, x) /\ (Works(r, x)' <=> x = t)
      /\ \A q \in Request : q # r => job'[q] = job[q]
      /\ \A x \in Tunnel : x # t => Undisturbed(x)
  BY Started
<1>2. t \in used
  BY DEF TunnelInv, Untried
<1>3. PICK n \in Name : n = tunnels[t].name
  BY DEF TunnelInv, UnitShape, TunnelRow
<1>4. ASSUME t \notin unsure'
      PROVE  WorksAlone(t)' /\ Reached(t)' /\ \A m \in Name : Remains(t, m)' => Bears(t, m)'
  <2>1. WorksAlone(t) /\ Reached(t) /\ OwnName(t)
    BY <1>4 DEF TunnelInv
  <2>2. \A q \in Request : ~Works(q, t)
    <3>1. \A q \in Request : job[q] # Idle => t \notin job[q].touch
      BY <1>4 DEF Clashing, Resource
    <3>2. Idle.at \notin TunnelJobs
      BY DEF Idle
    <3>. QED  BY <3>1, <3>2 DEF Works, TunnelInv, TunnelJobShape
  <2>3. \A q \in Request : Works(q, t)' <=> q = r
    BY <1>1, <2>2 DEF Works
  <2>4. Settled(t, n)
    BY <1>3, <2>1, <2>2 DEF Reached
  <2>5. Stage(r, t, n)'
    <3>1. /\ \A e \in End : SetUp(unit[e][n], t)
          /\ tunnels[t].status = "online" /\ t \notin refreshed => \A e \in End : unit[e][n].running = t
      BY <2>4 DEF Settled
    <3>. QED  BY <1>1, <1>3, <1>4, <3>1 DEF Stage, Done, Unmade, End
  <2>6. Reached(t)'
    BY <1>1, <1>3, <2>3, <2>5 DEF Reached
  <2>7. \A m \in Name : Remains(t, m)' => Bears(t, m)'
    BY <1>1, <2>1, <2>2 DEF OwnName, Bears, Remains, Lies
  <2>. QED  BY <2>3, <2>6, <2>7 DEF WorksAlone
<1>5. \A y \in Tunnel : \A m \in Name :
        (Bears(y, m)' => Bears(y, m)) /\ (Left(y, m)' => Left(y, m) \/ Bears(y, m))
  <2>1. ASSUME NEW m \in Name, Bears(t, m)' PROVE Bears(t, m)
    BY <1>1, <2>1 DEF Bears, Works
  <2>2. \A y \in Tunnel : \A m \in Name : Left(y, m)' => Left(y, m)
    BY <1>1 DEF Left, Lies
  <2>. QED  BY <1>1, <2>1, <2>2, UndisturbedStays
<1>6. ASSUME NEW x \in Tunnel, x \notin unsure' PROVE WorksAlone(x)' /\ Reached(x)' /\ OwnName(x)'
  <2>1. /\ WorksAlone(x)' /\ Reached(x)'
        /\ \A m \in Name : Remains(x, m)' => Bears(x, m)'
    BY <1>1, <1>4, <1>6, UndisturbedStays
  <2>. QED  BY <1>5, <1>6, <2>1, OwnNameStays
<1>7. \A x \in Tunnel \ used' : Untried(x)'
  BY <1>1, <1>2, UndisturbedStays DEF TunnelInv
<1>. QED  BY <1>1, <1>6, <1>7 DEF TunnelInv

LEMMA FoundTells ==
  ASSUME Inv, TunnelInv, NEW r \in Request, NEW t \in Tunnel,
         deleteTunnel(r, t) \/ \E act \in Action : tunnelAction(r, t, act)
  PROVE  TunnelInv'
<1>1. tunnels[t] # None /\ used' = used
  BY DEF deleteTunnel, tunnelAction
<1>2. tunnels[t].name \in Name
  BY <1>1 DEF TunnelInv, UnitShape, TunnelRow
<1>3. CASE deleteTunnel(r, t)
  <2> DEFINE j == [at |-> "delSrc", touch |-> {t}, t |-> t, n |-> tunnels[t].name]
  <2>1. /\ j \in TunnelJob /\ j.at = "delSrc" /\ j.t = t /\ j.n = tunnels[t].name /\ t \in j.touch
    BY <1>2 DEF TunnelJob, Removing
  <2>2. Begin(r, j) /\ unsure' = unsure \cup Clashing({t}) /\ halfMade' = halfMade
    BY <1>3 DEF deleteTunnel, excuses
  <2>3. \A x \in Tunnel : Excuses(x)
    BY <1>3 DEF deleteTunnel, excuses, Excuses
  <2>. HIDE DEF j
  <2>. QED  BY <1>1, <2>1, <2>2, <2>3, FoundKeeps
<1>4. ASSUME NEW act \in Action, tunnelAction(r, t, act) PROVE TunnelInv'
  <2> DEFINE j == [at |-> "actSrc", touch |-> {t}, t |-> t, n |-> tunnels[t].name,
                   act |-> act, failed |-> FALSE]
  <2>1. /\ j \in TunnelJob /\ j.at = "actSrc" /\ j.t = t /\ j.n = tunnels[t].name /\ t \in j.touch
        /\ j.act = act
    BY <1>2 DEF TunnelJob, Acting
  <2>2. /\ Begin(r, j)
        /\ unsure' = unsure \cup Clashing({t}) /\ halfMade' = halfMade
        /\ act = "refresh" /\ t \notin refreshed' => t \notin refreshed /\ tunnels[t].status = "online"
    BY <1>4 DEF tunnelAction
  <2>3. \A x \in Tunnel : x # t => Excuses(x)
    BY <1>4 DEF tunnelAction, Excuses
  <2>. HIDE DEF j
  <2>. QED  BY <1>1, <2>1, <2>2, <2>3, FoundKeeps
<1>. QED  BY <1>3, <1>4

(* A creation: whoever has the name already is unsure from now on.          *)
LEMMA CreateTells ==
  ASSUME Inv, TunnelInv, NEW r \in Request, NEW t \in Tunnel, NEW n \in Name, createTunnel(r, t, n)
  PROVE  TunnelInv'
<1> USE DEF TunnelJobs, Making, Removing, Acting
<1> DEFINE j == [at |-> "createDst", touch |-> {t}, t |-> t, n |-> n]
<1>1. /\ j \in TunnelJob /\ j.at = "createDst" /\ j.t = t /\ j.n = n /\ t \in j.touch
  BY DEF TunnelJob
<1>2. /\ t \notin used /\ used' = used \cup {t} /\ Begin(r, j)
      /\ unsure' = IF NameTaken(n) \/ Namesakes(n) # {}
                   THEN unsure \cup {t} \cup Namesakes(n) \cup NamesakesAtWork(n) ELSE unsure
      /\ \A x \in Tunnel : Excuses(x)
  BY DEF createTunnel, New, excuses, Excuses
<1>. HIDE DEF j
<1>3. /\ tunnels' = tunnels /\ unit' = unit /\ job'[r] = j /\ UnitShape' /\ TunnelJobShape'
      /\ \A x : ~Works(r, x) /\ (Works(r, x)' <=> x = t)
      /\ \A q \in Request : q # r => job'[q] = job[q]
      /\ \A x \in Tunnel : x # t => Undisturbed(x)
  BY <1>1, <1>2, Started
<1>4. unsure \subseteq unsure' /\ Untried(t)
  BY <1>2 DEF TunnelInv
<1>5. ASSUME NEW x \in Tunnel, Bears(x, n) PROVE x \in unsure' /\ t \in unsure'
  <2>1. CASE tunnels[x] # None /\ tunnels[x].name = n
    <3>1. x \in Namesakes(n)
      BY <2>1 DEF Namesakes
    <3>. QED  BY <1>2, <3>1
  <2>2. ASSUME NEW q \in Request, Works(q, x), job[q].n = n PROVE x \in unsure' /\ t \in unsure'
    <3>1. job[q] \in TunnelJob
      BY <2>2 DEF Works, TunnelInv, TunnelJobShape
    <3>2. "n" \in DOMAIN job[q] /\ job[q] # Idle
      BY <3>1 DEF TunnelJob, Idle
    <3>3. NameTaken(n) /\ x \in NamesakesAtWork(n)
      BY <2>2, <3>2 DEF NameTaken, NamesakesAtWork, Works
    <3>. QED  BY <1>2, <3>3
  <2>. QED  BY <1>5, <2>1, <2>2 DEF Bears
<1>6. ASSUME t \notin unsure'
      PROVE  /\ \A e \in End : unit[e][n] = NoUnit
             /\ \A x \in Tunnel : ~Bears(x, n) /\ ~Left(x, n)
  <2>1. \A e \in End : unit[e][n] = NoUnit
    BY <1>2, <1>6 DEF NameTaken
  <2>2. ASSUME NEW x \in Tunnel PROVE ~Left(x, n)
    BY <2>1, ProvisioningAssumption DEF Left, Lies, NoUnit
  <2>3. \A x \in Tunnel : ~Bears(x, n)
    BY <1>5, <1>6
  <2>. QED  BY <2>1, <2>2, <2>3
<1>7. /\ \A q \in Request : Works(q, t)' <=> q = r
      /\ \A m \in Name : (Bears(t, m)' => m = n) /\ ~Left(t, m)' /\ ~Remains(t, m)'
  <2>1. \A q \in Request : Works(q, t)' <=> q = r
    BY <1>3, <1>4 DEF Untried, Works
  <2>. QED  BY <1>1, <1>3, <1>4, <2>1 DEF Untried, Bears, Left, Remains, Lies
<1>8. \A x \in Tunnel : x # t =>
        \A m \in Name : (Bears(x, m)' => Bears(x, m)) /\ (Left(x, m)' => Left(x, m))
  BY <1>3, <1>4, UndisturbedStays
<1>9. ASSUME t \notin unsure' PROVE WorksAlone(t)' /\ Reached(t)' /\ OwnName(t)'
  <2>1. Stage(r, t, n)'
    BY <1>1, <1>3, <1>4, <1>6, <1>9 DEF Untried, Stage, Made, End
  <2>2. Reached(t)'
    BY <1>1, <1>3, <1>7, <2>1 DEF Reached
  <2>3. OwnName(t)'
    BY <1>6, <1>7, <1>8, <1>9 DEF OwnName
  <2>. QED  BY <1>7, <2>2, <2>3 DEF WorksAlone
<1>10. ASSUME NEW x \in Tunnel, x \notin unsure', x # t PROVE WorksAlone(x)' /\ Reached(x)' /\ OwnName(x)'
  <2>1. /\ WorksAlone(x)' /\ Reached(x)'
        /\ \A m \in Name : Remains(x, m)' => Bears(x, m)'
    BY <1>3, <1>4, <1>10, UndisturbedStays
  <2>2. OwnName(x)
    BY <1>4, <1>10 DEF TunnelInv
  <2>3. ASSUME NEW m \in Name, Bears(x, m)', NEW y \in Tunnel, y # x
        PROVE  ~Bears(y, m)' /\ ~Left(y, m)'
    <3>1. Bears(x, m) /\ ~Bears(y, m) /\ ~Left(y, m)
      BY <1>8, <1>10, <2>2, <2>3 DEF OwnName
    <3>2. CASE y # t
      BY <1>8, <3>1, <3>2
    <3>3. CASE y = t
      BY <1>5, <1>7, <1>10, <3>1, <3>3
    <3>. QED  BY <3>2, <3>3
  <2>. QED  BY <2>1, <2>3 DEF OwnName
<1>11. \A x \in Tunnel \ used' : Untried(x)'
  BY <1>2, <1>3, <1>4, UndisturbedStays DEF TunnelInv
<1>. QED  BY <1>3, <1>9, <1>10, <1>11 DEF TunnelInv

-----------------------------------------------------------------------------
(* A step of a request that is about no tunnel.                             *)
LEMMA NotAboutTunnels ==
  ASSUME Inv, TunnelInv, NEW r \in Request, NEW j, job[r].at \notin TunnelJobs,
         j.at \notin TunnelJobs, job' = [job EXCEPT ![r] = j],
         tunnels' = tunnels, unit' = unit, excuses' = excuses, Grows
  PROVE  TunnelInv'
<1>1. \A q \in Request : job'[q] = IF q = r THEN j ELSE job[q]
  BY DEF Inv, JobShape
<1>2. TunnelJobShape' /\ UnitShape'
  BY <1>1 DEF TunnelJobShape, UnitShape, TunnelInv
<1>3. \A x \in Tunnel : Excuses(x) /\ \A e \in End : \A n \in Name : Calm(x, e, n)
  BY SameIsCalm DEF excuses, Excuses
<1>4. \A x \in Tunnel : Undisturbed(x)
  BY <1>1, <1>3 DEF Undisturbed, Lies, Works
<1>. QED  BY <1>2, <1>4, NobodyDisturbed DEF Grows

LEMMA NotAboutGoes ==
  ASSUME Inv, TunnelInv, NEW r \in Request, NEW at, job[r].at \notin TunnelJobs,
         Return(r) \/ (Goto(r, at) /\ at \notin TunnelJobs),
         tunnels' = tunnels, unit' = unit, excuses' = excuses, Grows
  PROVE  TunnelInv'
<1>1. Idle.at \notin TunnelJobs
  BY DEF Idle, TunnelJobs, Making, Removing, Acting
<1>2. CASE Return(r)
  BY <1>1, <1>2, NotAboutTunnels DEF Return
<1>3. CASE Goto(r, at) /\ at \notin TunnelJobs
  <2> DEFINE j == [job[r] EXCEPT !.at = at]
  <2>1. j.at = at
    BY DEF Inv, JobShape
  <2>2. job' = [job EXCEPT ![r] = j]
    BY <1>3 DEF Goto
  <2>. HIDE DEF j
  <2>. QED  BY <1>3, <2>1, <2>2, NotAboutTunnels
<1>. QED  BY <1>2, <1>3

LEMMA NotAboutBegins ==
  ASSUME Inv, TunnelInv, NEW r \in Request, NEW j, j.at \notin TunnelJobs, Begin(r, j), excuses' = excuses, Grows
  PROVE  TunnelInv'
<1>1. job[r] = Idle /\ job' = [job EXCEPT ![r] = j] /\ tunnels' = tunnels /\ unit' = unit
  BY DEF Begin, rows, nodes
<1>2. job[r].at \notin TunnelJobs
  BY <1>1 DEF Idle, TunnelJobs, Making, Removing, Acting
<1>. QED  BY <1>1, <1>2, NotAboutTunnels

LEMMA OtherRequestTells ==
  ASSUME Inv, TunnelInv, NEW r \in Request,
         \/ \E f \in Forward, d \in Dest : handleForwards(r, f, d)
         \/ \E f \in Forward : handleForwardItem(r, f)
         \/ \E p \in Peer, u \in User, a \in Address : createWGPeer(r, p, u, a)
         \/ \E u \in User : deleteUser(r, u)
  PROVE  TunnelInv'
<1> USE DEF TunnelJobs, Making, Removing, Acting
<1>1. ASSUME NEW f \in Forward, NEW d \in Dest, handleForwards(r, f, d) PROVE TunnelInv'
  BY <1>1, NotAboutBegins DEF handleForwards, New, Grows
<1>2. ASSUME NEW f \in Forward, handleForwardItem(r, f) PROVE TunnelInv'
  BY <1>2, NotAboutBegins DEF handleForwardItem, Grows
<1>3. ASSUME NEW p \in Peer, NEW u \in User, NEW a \in Address, createWGPeer(r, p, u, a)
      PROVE  TunnelInv'
  BY <1>3, NotAboutBegins DEF createWGPeer, New, Grows
<1>4. ASSUME NEW u \in User, deleteUser(r, u) PROVE TunnelInv'
  BY <1>4, NotAboutBegins DEF deleteUser, Grows
<1>. QED  BY <1>1, <1>2, <1>3, <1>4

LEMMA OtherStepTells ==
  ASSUME Inv, TunnelInv, NEW r \in Request,
         \/ InstallForward(r) \/ AddForward(r) \/ UninstallForward(r) \/ DropForward(r)
         \/ AddPeer(r) \/ RecordPeer(r) \/ setRemotePeerEnabled(r) \/ RevertPeer(r)
         \/ deleteRemotePeer(r) \/ DropUser(r) \/ \E p \in Peer : enforceUserPolicies(r, p)
  PROVE  TunnelInv'
<1> USE DEF rows, nodes, Well, Fault, Grows
<1>0. DOMAIN job = Request /\ "at" \in DOMAIN job[r]
  BY DEF Inv, JobShape
<1>1. \A at \in {"install", "addForward", "uninstall",
                 "dropForward", "addPeer", "recordPeer", "setPeer", "revertPeer",
                 "removePeers", "idle"} : at \notin TunnelJobs
  BY DEF TunnelJobs, Making, Removing, Acting
<1> DEFINE Off == /\ job[r].at \notin TunnelJobs /\ tunnels' = tunnels /\ unit' = unit
                  /\ excuses' = excuses /\ Grows
           Goes == Return(r) \/ \E at : Goto(r, at) /\ at \notin TunnelJobs
<1>2. InstallForward(r) => Off /\ Goes
  BY <1>1 DEF InstallForward
<1>3. AddForward(r) => Off /\ Goes
  BY <1>1 DEF AddForward
<1>4. UninstallForward(r) => Off /\ Goes
  BY <1>1 DEF UninstallForward
<1>5. DropForward(r) => Off /\ Goes
  BY <1>1 DEF DropForward
<1>6. AddPeer(r) => Off /\ Goes
  BY <1>1 DEF AddPeer, Saved
<1>7. RecordPeer(r) => Off /\ Goes
  BY <1>1 DEF RecordPeer
<1>8. setRemotePeerEnabled(r) => Off /\ Goes
  BY <1>1 DEF setRemotePeerEnabled, Saved
<1>9. RevertPeer(r) => Off /\ Goes
  BY <1>1 DEF RevertPeer
<1>10. DropUser(r) => Off /\ Goes
  BY <1>1 DEF DropUser
<1>11. ASSUME deleteRemotePeer(r) PROVE TunnelInv'
  <2>1. PICK p : job' = [job EXCEPT ![r].todo = @ \ {p}]
    BY <1>11 DEF deleteRemotePeer
  <2> DEFINE j == [job[r] EXCEPT !.todo = @ \ {p}]
  <2>2. j.at = "removePeers"
    BY <1>0, <1>11 DEF deleteRemotePeer
  <2>3. job' = [job EXCEPT ![r] = j]
    BY <2>1
  <2>. HIDE DEF j
  <2>4. Off
    BY <1>1, <1>11 DEF deleteRemotePeer, Saved
  <2>. QED  BY <1>1, <2>2, <2>3, <2>4, NotAboutTunnels
<1>12. ASSUME NEW p \in Peer, enforceUserPolicies(r, p) PROVE TunnelInv'
  <2> DEFINE a == peers[p].address
             j == [at |-> "setPeer", touch |-> {p, a}, p |-> p, a |-> a, on |-> ~peers[p].enabled]
  <2>1. job' = [job EXCEPT ![r] = j] /\ j.at = "setPeer"
    BY <1>12 DEF enforceUserPolicies
  <2>. HIDE DEF j
  <2>2. Off
    BY <1>1, <1>12 DEF enforceUserPolicies, Idle
  <2>. QED  BY <1>1, <2>1, <2>2, NotAboutTunnels
<1>13. Off /\ Goes => TunnelInv'
  BY NotAboutGoes
<1>. HIDE DEF Off, Goes
<1>. QED  BY <1>2, <1>3, <1>4, <1>5, <1>6, <1>7, <1>8, <1>9, <1>10, <1>11, <1>12, <1>13

(* The panel stops: its requests' tunnels are unsure.  A node restarts:     *)
(* what is set up comes to run, which is said of it if it was stopped.      *)
LEMMA StopTells == ASSUME Inv, TunnelInv, PanelStops PROVE TunnelInv'
<1>1. /\ job' = [r \in Request |-> Idle] /\ tunnels' = tunnels /\ unit' = unit /\ used' = used
      /\ unsure' = unsure \cup
                     ((UNION {job[r].touch : r \in {q \in Request : job[q] # Idle}}) \cap Resource)
      /\ refreshed' = refreshed /\ restarted' = restarted /\ halfMade' = halfMade
  BY DEF PanelStops, Fault, rows, nodes, excuses
<1>2. Idle.at \notin TunnelJobs
  BY DEF Idle, TunnelJobs, Making, Removing, Acting
<1>3. TunnelJobShape' /\ UnitShape'
  BY <1>1, <1>2 DEF TunnelJobShape, UnitShape, TunnelInv
<1>4. ASSUME NEW x \in Tunnel \ unsure', NEW r \in Request PROVE ~Works(r, x)
  <2>1. ASSUME job[r] # Idle, x \in job[r].touch PROVE FALSE
    <3> DEFINE busy == {q \in Request : job[q] # Idle}
               S == {job[q].touch : q \in busy}
    <3>1. job[r].touch \in S
      BY <2>1
    <3>2. unsure' = unsure \cup ((UNION S) \cap Resource)
      BY <1>1
    <3>. HIDE DEF S
    <3>3. x \in UNION S
      BY <2>1, <3>1
    <3>4. x \in Resource /\ x \notin unsure'
      BY <1>4 DEF Resource
    <3>. QED  BY <3>2, <3>3, <3>4
  <2>. QED  BY <1>2, <2>1 DEF Works, TunnelInv, TunnelJobShape
<1>5. \A x : \A r \in Request : ~Works(r, x)'
  BY <1>1, <1>2 DEF Works
<1>6. \A y \in Tunnel : \A m \in Name :
        (Bears(y, m)' => Bears(y, m)) /\ (Left(y, m)' => Left(y, m) \/ Bears(y, m))
  BY <1>1, <1>5 DEF Bears, Left, Lies
<1>7. ASSUME NEW x \in Tunnel, x \notin unsure' PROVE WorksAlone(x)' /\ Reached(x)' /\ OwnName(x)'
  <2>1. Reached(x) /\ OwnName(x) /\ unsure \subseteq unsure'
    BY <1>1, <1>7 DEF TunnelInv
  <2>2. WorksAlone(x)'
    BY <1>5 DEF WorksAlone
  <2>3. ASSUME tunnels[x] # None PROVE Settled(x, tunnels[x].name)
    BY <1>4, <1>7, <2>1, <2>3 DEF Reached
  <2>4. Reached(x)'
    BY <1>1, <1>5, <2>3 DEF Reached, Settled, Rests
  <2>5. \A m \in Name : Remains(x, m)' => Bears(x, m)'
    BY <1>1, <1>4, <1>7, <2>1 DEF OwnName, Remains, Lies, Bears
  <2>. QED  BY <1>6, <1>7, <2>1, <2>2, <2>4, <2>5, OwnNameStays
<1>8. \A x \in Tunnel \ used' : Untried(x)'
  BY <1>1, <1>5 DEF TunnelInv, Untried, Left, Lies
<1>. QED  BY <1>3, <1>7, <1>8 DEF TunnelInv

LEMMA RestartTells == ASSUME Inv, TunnelInv, NEW e \in End, NodeRestarts(e) PROVE TunnelInv'
<1> DEFINE Back(u) == [u EXCEPT !.running = IF u.enabled THEN u.file ELSE None]
           stopped == {m \in Name : unit[e][m].running = None /\ unit[e][m].enabled /\ unit[e][m].file # None}
<1>1. /\ job' = job /\ tunnels' = tunnels /\ used' = used /\ unsure \subseteq unsure'
      /\ refreshed' = refreshed /\ halfMade' = halfMade
      /\ restarted' = restarted \cup {<<unit[e][m].file, e>> : m \in stopped}
      /\ unit' = [unit EXCEPT ![e] = [m \in Name |-> Back(unit[e][m])]]
  BY DEF NodeRestarts, Fault, rows
<1>2. UnitShape /\ unit \in [End -> [Name -> Unit]]
  BY DEF TunnelInv, UnitShape
<1>3. ASSUME NEW u \in Unit
      PROVE  /\ Back(u) \in Unit /\ Back(u).file = u.file /\ Back(u).running \in {u.file, None}
             /\ u = NoUnit => Back(u) = u
             /\ \A t : SetUp(u, t) => Runs(Back(u), t)
  BY DEF Unit, NoUnit, SetUp, Runs
<1>. HIDE DEF Back
<1>4. \A d \in End, m \in Name : unit'[d][m] = IF d = e THEN Back(unit[d][m]) ELSE unit[d][m]
  BY <1>1, <1>2
<1>5. unit' \in [End -> [Name -> Unit]]
  BY <1>1, <1>2, <1>3
<1>6. UnitShape' /\ TunnelJobShape'
  BY <1>1, <1>2, <1>5 DEF UnitShape, TunnelJobShape, TunnelInv
<1>7. \A x \in Tunnel : \A m \in Name : \A d \in End : Lies(x, d, m)' => Lies(x, d, m)
  BY <1>2, <1>3, <1>4, ProvisioningAssumption DEF Lies
<1>8. \A x \in Tunnel : Excuses(x)
  BY <1>1 DEF Excuses
<1>9. ASSUME NEW x \in Tunnel, NEW m \in Name, NEW d \in End PROVE Calm(x, d, m)
  <2>1. CASE d # e
    BY <1>1, <1>4, <2>1, SameIsCalm
  <2>2. CASE d = e
    <3> DEFINE u == unit[e][m]
    <3>1. unit'[e][m] = Back(u) /\ u \in Unit
      BY <1>2, <1>4
    <3>2. u = NoUnit => unit'[e][m] = NoUnit
      BY <1>3, <3>1
    <3>3. ASSUME SetUp(u, x)
          PROVE  /\ SetUp(unit'[e][m], x) /\ unit'[e][m].running = x
                 /\ Rests(x, e, m) => Rests(x, e, m)'
      <4>1. Runs(unit'[e][m], x)
        BY <1>3, <3>1, <3>3
      <4>2. ASSUME u.running = None PROVE <<x, e>> \in restarted'
        <5>1. m \in stopped /\ u.file = x
          BY <3>3, <4>2, ProvisioningAssumption DEF SetUp
        <5>2. <<unit[e][m].file, e>> \in {<<unit[e][k].file, e>> : k \in stopped}
          BY <5>1
        <5>. QED  BY <1>1, <5>1, <5>2
      <4>. QED  BY <1>1, <4>1, <4>2 DEF Runs, Rests
    <3>. QED  BY <2>2, <3>2, <3>3 DEF Calm
  <2>. QED  BY <2>1, <2>2
<1>10. \A x \in Tunnel : Undisturbed(x)
  BY <1>1, <1>7, <1>8, <1>9 DEF Undisturbed
<1>. QED  BY <1>1, <1>6, <1>10, NobodyDisturbed

LEMMA InitTunnels == Init => TunnelInv
<1> SUFFICES ASSUME Init PROVE TunnelInv
  OBVIOUS
<1>1. \A r \in Request : job[r] = Idle /\ job[r].at \notin TunnelJobs
  BY DEF Init, Idle, TunnelJobs, Making, Removing, Acting
<1>2. /\ DOMAIN tunnels = Tunnel /\ \A t \in Tunnel : tunnels[t] = None
      /\ unit \in [End -> [Name -> Unit]] /\ \A e \in End, n \in Name : unit[e][n] = NoUnit
  BY DEF Init, Unit, NoUnit
<1>3. UnitShape /\ TunnelJobShape
  BY <1>1, <1>2 DEF UnitShape, TunnelJobShape
<1>4. ASSUME NEW t \in Tunnel PROVE WorksAlone(t) /\ Reached(t) /\ OwnName(t) /\ Untried(t)
  <2>1. \A r \in Request : ~Works(r, t)
    BY <1>1 DEF Works
  <2>2. \A x \in Tunnel : \A n \in Name : ~Left(x, n)
    BY <1>2, ProvisioningAssumption DEF Left, Lies, NoUnit
  <2>3. \A n : ~Bears(t, n)
    BY <1>2, <2>1 DEF Bears
  <2>. QED  BY <1>2, <2>1, <2>2, <2>3 DEF WorksAlone, Reached, OwnName, Left, Remains, Untried
<1>. QED  BY <1>3, <1>4 DEF TunnelInv

LEMMA NextTunnels == Inv /\ TunnelInv /\ [Next]_vars => TunnelInv'
<1> SUFFICES ASSUME Inv, TunnelInv, [Next]_vars PROVE TunnelInv'
  OBVIOUS
<1>1. ASSUME NEW r \in Request, NewRequest(r) PROVE TunnelInv'
  BY <1>1, CreateTells, FoundTells, OtherRequestTells, OtherStepTells DEF NewRequest
<1>2. ASSUME NEW r \in Request, RequestStep(r) PROVE TunnelInv'
  BY <1>2, CreateAtDestinationTells, CreateAtSourceTells, UndoDestinationTells, AddTunnelTells,
     ActAtSourceTells, ActAtDestinationTells, SetStatusTells, DeleteAtSourceTells,
     DeleteAtDestinationTells, DropTunnelTells, OtherStepTells DEF RequestStep
<1>3. CASE UNCHANGED vars
  <2>1. TunnelJobShape' /\ UnitShape'
    BY <1>3 DEF vars, rows, nodes, TunnelJobShape, UnitShape, TunnelInv
  <2>2. \A x \in Tunnel : Excuses(x) /\ \A e \in End : \A n \in Name : Calm(x, e, n)
    BY <1>3, SameIsCalm DEF vars, nodes, excuses, Excuses
  <2>3. \A x \in Tunnel : Undisturbed(x)
    BY <1>3, <2>2 DEF vars, rows, nodes, Undisturbed, Lies
  <2>. QED  BY <1>3, <2>1, <2>3, NobodyDisturbed DEF vars
<1>. QED  BY <1>1, <1>2, <1>3, RestartTells, StopTells DEF Next

(* createTunnel, tunnelAction and deleteTunnel of the panel, over two       *)
(* agents, as long as the tunnel is Known: no answer about it lost, no      *)
(* Update not saved, nobody else with its name, no two requests at once.    *)
(* One that is shown as online and was not brought there by a refresh runs  *)
(* at both ends, one that is shown as stopped runs at no end whose node has *)
(* not started it again, and of one without a row nothing is left, except   *)
(* at an end where its creation failed half way.                            *)
THEOREM TunnelCorrect == Spec => []TunnelAsTold
<1>1. Inv /\ TunnelInv => TunnelAsTold
  <2> SUFFICES ASSUME TunnelInv, NEW t \in Tunnel, Known(t)
               PROVE  IF tunnels[t] = None
                      THEN \A e \in End, n \in Name :
                             <<t, e>> \notin halfMade => t \notin {unit[e][n].file, unit[e][n].running}
                      ELSE LET n == tunnels[t].name IN
                           /\ tunnels[t].status = "online" /\ t \notin refreshed =>
                                \A e \in End : unit[e][n].running = t
                           /\ tunnels[t].status = "stopped" =>
                                \A e \in End : <<t, e>> \notin restarted => unit[e][n].running = None
    BY DEF TunnelAsTold
  <2>1. \A r \in Request : ~Works(r, t)
    BY DEF Known, AtRest, Works, TunnelInv, TunnelJobShape, TunnelJobs, Making, Removing, Acting, Idle
  <2>2. Reached(t) /\ OwnName(t)
    BY DEF Known, TunnelInv
  <2>3. CASE tunnels[t] = None
    BY <2>1, <2>2, <2>3 DEF OwnName, Bears, Remains, Lies
  <2>4. CASE tunnels[t] # None
    BY <2>1, <2>2, <2>4 DEF Reached, Settled, Rests
  <2>. QED  BY <2>3, <2>4
<1>. QED  BY InitInv, NextInv, InitTunnels, NextTunnels, <1>1, PTL DEF Spec

-----------------------------------------------------------------------------
(* Types.  The fields of a job are in the invariants above, by its place;   *)
(* what is left is that it has a place, and the other variables.            *)
Places == Creations \cup Switches \cup {"removePeers"} \cup ForwardJobs \cup TunnelJobs

Placed ==
  /\ job = [r \in Request |-> job[r]]
  /\ \A r \in Request : job[r] = Idle \/ job[r].at \in Places

RowsTyped ==
  /\ tunnels \in [Tunnel -> TunnelRow \cup {None}]
  /\ forwards \in [Forward -> Dest \cup {None}]
  /\ users \in SUBSET User

(* A script is of a forward that has a description.                         *)
NatTyped ==
  /\ nat \in [rules : SUBSET Rule, file : [Forward -> Dest \cup {None}], script : SUBSET Forward]
  /\ \A f \in nat.script : nat.file[f] # None

KernelTyped == kernel \in [Peer -> KernelPeer \cup {None}]

SavedTyped == conf \in [Peer -> KernelPeer \cup {None}]

HistoryTyped ==
  /\ unsure \in SUBSET Resource /\ used \in SUBSET Resource
  /\ begun \in 0..MaxRequests /\ faults \in 0..MaxFaults

ExcusesTyped ==
  /\ refreshed \in SUBSET Tunnel
  /\ restarted \in SUBSET (Tunnel \X End) /\ halfMade \in SUBSET (Tunnel \X End)

Shaped == Inv /\ ForwardInv /\ PeerInv /\ TunnelInv
Typed == RowsTyped /\ NatTyped /\ KernelTyped /\ HistoryTyped /\ Placed

(* What a job at a place has.                                               *)
LEMMA Fields ==
  ASSUME Shaped, NEW r \in Request
  PROVE  /\ job[r].at \in TunnelJobs => job[r] \in TunnelJob /\ job[r].t \in Tunnel /\ job[r].n \in Name
         /\ job[r].at \in ForwardJobs => job[r] \in ForwardJob /\ job[r].f \in Forward
         /\ job[r].at \in {"install", "addForward"} => job[r].d \in Dest
         /\ job[r].at \in Creations =>
              job[r] \in Creation /\ job[r].p \in Peer /\ job[r].u \in User /\ job[r].a \in Address
         /\ job[r].at \in Switches =>
              /\ job[r] \in PeerJob /\ job[r].p \in Peer /\ job[r].a \in Address
              /\ job[r].on \in BOOLEAN
         /\ job[r].at = "removePeers" => job[r] \in PeerJob /\ job[r].u \in User
<1>1. job[r].at \in TunnelJobs => job[r] \in TunnelJob /\ job[r].t \in Tunnel /\ job[r].n \in Name
  BY DEF Shaped, TunnelInv, TunnelJobShape, TunnelJob
<1>2. job[r].at \in ForwardJobs => job[r] \in ForwardJob /\ job[r].f \in Forward
  BY DEF Shaped, ForwardInv, ForwardJobShape, ForwardJob
<1>3. job[r].at \in {"install", "addForward"} => job[r].d \in Dest
  BY DEF Shaped, ForwardInv, ForwardJobShape, ForwardJob, ForwardJobs
<1>4. job[r].at \in Creations =>
        job[r] \in Creation /\ job[r].p \in Peer /\ job[r].u \in User /\ job[r].a \in Address
  BY DEF Shaped, Inv, JobShape, Creating, Creation
<1>5. job[r].at \in Switches =>
        /\ job[r] \in PeerJob /\ job[r].p \in Peer /\ job[r].a \in Address /\ job[r].on \in BOOLEAN
  BY DEF Shaped, PeerInv, PeerJobShape, PeerJob, Switches
<1>6. job[r].at = "removePeers" => job[r] \in PeerJob /\ job[r].u \in User
  BY DEF Shaped, PeerInv, PeerJobShape, PeerJob, Switches
<1>. QED  BY <1>1, <1>2, <1>3, <1>4, <1>5, <1>6

LEMMA TypesFollow == Shaped /\ Typed /\ SavedTyped /\ ExcusesTyped => TypeOK
<1> SUFFICES ASSUME Shaped, Typed, SavedTyped, ExcusesTyped PROVE TypeOK
  OBVIOUS
<1>1. ASSUME NEW r \in Request PROVE job[r] \in Job
  <2>1. job[r] = Idle \/ job[r].at \in Places
    BY DEF Typed, Placed
  <2>2. CASE job[r].at \in TunnelJobs
    <3>1. job[r] \in TunnelJob
      BY <2>2, Fields
    <3>2. SUBSET Tunnel \subseteq Touch
      BY DEF Touch, Resource
    <3>. QED  BY <3>1, <3>2 DEF Job, TunnelJob, Making, Removing, Acting
  <2>3. CASE job[r].at \in ForwardJobs
    <3>1. job[r] \in ForwardJob
      BY <2>3, Fields
    <3>2. SUBSET Resource \subseteq Touch
      BY DEF Touch
    <3>. QED  BY <3>1, <3>2 DEF Job, ForwardJob
  <2>4. CASE job[r].at \in Creations
    <3>1. job[r] \in Creation
      BY <2>4, Fields
    <3>. QED  BY <3>1 DEF Job, Creation, Creations, Touch
  <2>5. CASE job[r].at \in Switches \cup {"removePeers"}
    <3>1. job[r] \in PeerJob
      BY <2>5, Fields
    <3>2. SUBSET (Peer \cup Address) \subseteq Touch /\ SUBSET (Peer \cup User) \subseteq Touch
      BY DEF Touch, Resource
    <3>. QED  BY <3>1, <3>2 DEF Job, PeerJob, Switches
  <2>. QED  BY <2>1, <2>2, <2>3, <2>4, <2>5 DEF Places, Job
<1>2. job \in [Request -> Job]
  BY <1>1 DEF Typed, Placed
<1>3. peers \in [Peer -> PeerRow \cup {None}]
  BY DEF Shaped, PeerInv, DeviceShape
<1>4. unit \in [End -> [Name -> Unit]]
  BY DEF Shaped, TunnelInv, UnitShape
<1>. QED  BY <1>2, <1>3, <1>4 DEF TypeOK, Typed, RowsTyped, NatTyped, KernelTyped, HistoryTyped,
                               SavedTyped, ExcusesTyped

-----------------------------------------------------------------------------
(* A job moves to a place, or is done.                                      *)
LEMMA MovesTo ==
  ASSUME Placed, NEW r \in Request, NEW j, j = Idle \/ j.at \in Places, job' = [job EXCEPT ![r] = j]
  PROVE  Placed'
<1>1. job' = [q \in Request |-> IF q = r THEN j ELSE job[q]]
  BY DEF Placed
<1>. QED  BY <1>1 DEF Placed

LEMMA Moves ==
  ASSUME Inv, Placed, NEW r \in Request, NEW at, at \in Places, Return(r) \/ Goto(r, at)
  PROVE  Placed'
<1>1. CASE Return(r)
  BY <1>1, MovesTo DEF Return
<1>2. CASE Goto(r, at)
  <2> DEFINE j == [job[r] EXCEPT !.at = at]
  <2>1. j.at = at
    BY DEF Inv, JobShape
  <2>2. job' = [job EXCEPT ![r] = j]
    BY <1>2 DEF Goto
  <2>. HIDE DEF j
  <2>. QED  BY <2>1, <2>2, MovesTo
<1>. QED  BY <1>1, <1>2

(* A fault that blurs resources, or none.                                   *)
LEMMA Blurs ==
  ASSUME HistoryTyped, NEW blurred, Well \/ Fault(blurred), blurred \subseteq Resource,
         used' = used, begun' = begun
  PROVE  HistoryTyped'
<1>1. faults' \in 0..MaxFaults
  BY ProvisioningAssumption DEF HistoryTyped, Well, Fault
<1>. QED  BY <1>1 DEF HistoryTyped, Well, Fault

LEMMA BeginsTyped ==
  ASSUME HistoryTyped, begun < MaxRequests, begun' = begun + 1, faults' = faults,
         unsure' \subseteq Resource, used' \subseteq Resource
  PROVE  HistoryTyped'
<1>1. begun' \in 0..MaxRequests
  BY ProvisioningAssumption DEF HistoryTyped
<1>. QED  BY <1>1 DEF HistoryTyped

LEMMA RulesAre == \A f \in Forward : \A d \in Dest : Rules(f, d) \subseteq Rule
BY DEF Rule

LEMMA InstalledTyped ==
  ASSUME KernelTyped, NEW p \in Peer, NEW a \in Address, NEW secret \in BOOLEAN
  PROVE  Installed(p, a, secret) \in [Peer -> KernelPeer \cup {None}]
<1> DEFINE s == secret \/ (kernel[p] # None /\ kernel[p].secret)
<1>1. s \in BOOLEAN
  OBVIOUS
<1>2. Installed(p, a, secret) =
        [q \in Peer |-> IF q = p THEN [address |-> a, secret |-> s]
                        ELSE IF kernel[q] # None /\ kernel[q].address = a
                        THEN [kernel[q] EXCEPT !.address = None] ELSE kernel[q]]
  BY DEF Installed
<1>. HIDE DEF s
<1>3. [address |-> a, secret |-> s] \in KernelPeer
  BY <1>1 DEF KernelPeer
<1>4. \A q \in Peer : kernel[q] # None => [kernel[q] EXCEPT !.address = None] \in KernelPeer
  BY DEF KernelTyped, KernelPeer
<1>. QED  BY <1>2, <1>3, <1>4 DEF KernelTyped

-----------------------------------------------------------------------------
(* Requests that begin.                                                     *)
LEMMA StartTyped ==
  ASSUME Typed, NEW r \in Request, NEW j, j.at \in Places, Begin(r, j),
         unsure' \subseteq Resource, used' \subseteq Resource
  PROVE  Typed'
<1>1. /\ job' = [job EXCEPT ![r] = j] /\ tunnels' = tunnels /\ forwards' = forwards /\ users' = users
      /\ nat' = nat /\ kernel' = kernel /\ faults' = faults /\ begun < MaxRequests
      /\ begun' = begun + 1
  BY DEF Begin, rows, nodes, wg
<1>2. Placed'
  BY <1>1, MovesTo DEF Typed
<1>3. HistoryTyped'
  BY <1>1, BeginsTyped DEF Typed
<1>. QED  BY <1>1, <1>2, <1>3 DEF Typed, RowsTyped, NatTyped, KernelTyped

LEMMA ClashingIn == \A touch : Clashing(touch) \subseteq Resource
BY DEF Clashing

LEMMA RequestTyped ==
  ASSUME Shaped, Typed, NEW r \in Request, NewRequest(r)
  PROVE  Typed'
<1> USE DEF Places, TunnelJobs, Making, Removing, Acting, ForwardJobs, Creations, Switches
<1>0. unsure \subseteq Resource /\ used \subseteq Resource
  BY DEF Typed, HistoryTyped
<1>1. ASSUME NEW t \in Tunnel, NEW n \in Name, createTunnel(r, t, n) PROVE Typed'
  <2>1. NamesakesAtWork(n) \subseteq Tunnel
    <3>1. ASSUME NEW q \in Request, job[q] # Idle, "n" \in DOMAIN job[q] PROVE job[q].t \in Tunnel
      <4>1. job[q].at \in Places
        BY <3>1 DEF Typed, Placed
      <4>2. CASE job[q].at \in TunnelJobs
        BY <4>2, Fields
      <4>3. CASE job[q].at \in ForwardJobs
        <5>1. job[q] \in ForwardJob
          BY <4>3, Fields
        <5>. QED  BY <3>1, <5>1 DEF ForwardJob
      <4>4. CASE job[q].at \in Creations
        <5>1. job[q] \in Creation
          BY <4>4, Fields
        <5>. QED  BY <3>1, <5>1 DEF Creation
      <4>5. CASE job[q].at \in Switches \cup {"removePeers"}
        <5>1. job[q] \in PeerJob
          BY <4>5, Fields
        <5>. QED  BY <3>1, <5>1 DEF PeerJob
      <4>. QED  BY <4>1, <4>2, <4>3, <4>4, <4>5 DEF Places
    <3>. QED  BY <3>1 DEF NamesakesAtWork
  <2>2. unsure' \subseteq Resource /\ used' \subseteq Resource
    BY <1>0, <1>1, <2>1 DEF createTunnel, New, Namesakes, Resource
  <2>. QED  BY <1>1, <2>2, StartTyped DEF createTunnel
<1>2. ASSUME NEW t \in Tunnel, NEW act \in Action, tunnelAction(r, t, act) PROVE Typed'
  <2>1. unsure' \subseteq Resource /\ used' \subseteq Resource
    BY <1>0, <1>2, ClashingIn DEF tunnelAction, Resource
  <2>. QED  BY <1>2, <2>1, StartTyped DEF tunnelAction
<1>3. ASSUME NEW t \in Tunnel, deleteTunnel(r, t) PROVE Typed'
  <2>1. unsure' \subseteq Resource /\ used' \subseteq Resource
    BY <1>0, <1>3, ClashingIn DEF deleteTunnel
  <2>. QED  BY <1>3, <2>1, StartTyped DEF deleteTunnel
<1>4. ASSUME NEW f \in Forward, NEW d \in Dest, handleForwards(r, f, d) PROVE Typed'
  <2>1. \A q \in Request : job[q].at \in {"install", "addForward"} => job[q].f \in Forward
    BY Fields
  <2>2. unsure' \subseteq Resource /\ used' \subseteq Resource
    BY <1>0, <1>4, <2>1 DEF handleForwards, New, Resource
  <2>. QED  BY <1>4, <2>2, StartTyped DEF handleForwards
<1>5. ASSUME NEW f \in Forward, handleForwardItem(r, f) PROVE Typed'
  <2>1. unsure' \subseteq Resource /\ used' \subseteq Resource
    BY <1>0, <1>5, ClashingIn DEF handleForwardItem
  <2>. QED  BY <1>5, <2>1, StartTyped DEF handleForwardItem
<1>6. ASSUME NEW p \in Peer, NEW u \in User, NEW a \in Address, createWGPeer(r, p, u, a) PROVE Typed'
  <2>1. unsure' \subseteq Resource /\ used' \subseteq Resource
    BY <1>0, <1>6, ClashingIn DEF createWGPeer, New, Resource
  <2>. QED  BY <1>6, <2>1, StartTyped DEF createWGPeer
<1>7. ASSUME NEW p \in Peer, enforceUserPolicies(r, p) PROVE Typed'
  <2> DEFINE a == peers[p].address
             j == [at |-> "setPeer", touch |-> {p, a}, p |-> p, a |-> a, on |-> ~peers[p].enabled]
  <2>1. /\ job' = [job EXCEPT ![r] = j] /\ tunnels' = tunnels /\ forwards' = forwards
        /\ users' = users /\ nat' = nat /\ kernel' = kernel /\ faults' = faults /\ used' = used
        /\ begun < MaxRequests /\ begun' = begun + 1 /\ j.at = "setPeer"
    BY <1>7 DEF enforceUserPolicies, nodes, wg
  <2>2. unsure' \subseteq Resource
    BY <1>0, <1>7, ClashingIn DEF enforceUserPolicies
  <2>. HIDE DEF j
  <2>3. Placed'
    BY <2>1, MovesTo DEF Typed
  <2>4. HistoryTyped'
    BY <1>0, <2>1, <2>2, BeginsTyped DEF Typed
  <2>. QED  BY <2>1, <2>3, <2>4 DEF Typed, RowsTyped, NatTyped, KernelTyped
<1>8. ASSUME NEW u \in User, deleteUser(r, u) PROVE Typed'
  <2>1. unsure' \subseteq Resource /\ used' \subseteq Resource
    BY <1>0, <1>8, ClashingIn DEF deleteUser
  <2>. QED  BY <1>8, <2>1, StartTyped DEF deleteUser
<1>. QED  BY <1>1, <1>2, <1>3, <1>4, <1>5, <1>6, <1>7, <1>8 DEF NewRequest

(* What a step about a tunnel does besides its call of an agent.            *)
LEMMA TunnelStepFrame ==
  ASSUME NEW r \in Request,
         \/ CreateAtDestination(r) \/ CreateAtSource(r) \/ UndoDestination(r) \/ AddTunnel(r)
         \/ ActAtSource(r) \/ ActAtDestination(r) \/ SetStatus(r)
         \/ DeleteAtSource(r) \/ DeleteAtDestination(r) \/ DropTunnel(r)
  PROVE  /\ forwards' = forwards /\ users' = users /\ nat' = nat /\ kernel' = kernel
         /\ used' = used /\ begun' = begun /\ job[r].at \in TunnelJobs
         /\ Well \/ Fault({}) \/ Fault({job[r].t})
         /\ \/ ActAtSource(r) \/ ActAtDestination(r)
            \/ Return(r) \/ \E at \in Places : Goto(r, at)
         /\ AddTunnel(r) \/ SetStatus(r) \/ DropTunnel(r) \/ tunnels' = tunnels
<1> USE DEF Places, TunnelJobs, Making, Removing, Acting
<1>1. CASE CreateAtDestination(r)
  BY <1>1 DEF CreateAtDestination, CreateEnd, rows, wg
<1>2. CASE CreateAtSource(r)
  BY <1>2 DEF CreateAtSource, CreateEnd, rows, wg
<1>3. CASE UndoDestination(r)
  BY <1>3 DEF UndoDestination, DeleteEnd, rows, wg
<1>4. CASE DeleteAtSource(r)
  BY <1>4 DEF DeleteAtSource, DeleteEnd, rows, wg
<1>5. CASE DeleteAtDestination(r)
  BY <1>5 DEF DeleteAtDestination, DeleteEnd, rows, wg
<1>6. CASE ActAtSource(r) \/ ActAtDestination(r)
  <2>1. /\ UNCHANGED <<tunnels, forwards, users, nat, kernel, used, begun>>
        /\ job[r].at \in {"actSrc", "actDst"}
        /\ Well \/ Fault({})
    BY <1>6 DEF ActAtSource, ActAtDestination, ActAt, rows, wg
  <2>. QED  BY <1>6, <2>1
<1>7. CASE AddTunnel(r)
  <2>1. /\ UNCHANGED <<forwards, users, nat, kernel, used, begun>>
        /\ job[r].at = "addTunnel" /\ Return(r)
        /\ Well \/ Fault({job[r].t})
    BY <1>7 DEF AddTunnel, nodes, wg
  <2>. QED  BY <1>7, <2>1
<1>8. CASE SetStatus(r)
  <2>1. /\ UNCHANGED <<forwards, users, nat, kernel, used, begun>>
        /\ job[r].at = "setStatus" /\ Return(r)
        /\ Well \/ Fault({job[r].t})
    BY <1>8 DEF SetStatus, nodes, wg
  <2>. QED  BY <1>8, <2>1
<1>9. CASE DropTunnel(r)
  <2>1. /\ UNCHANGED <<forwards, users, nat, kernel, used, begun>>
        /\ job[r].at = "dropTunnel" /\ Return(r)
        /\ Well \/ Fault({job[r].t})
    BY <1>9 DEF DropTunnel, nodes, wg
  <2>. QED  BY <1>9, <2>1
<1>. QED  BY <1>1, <1>2, <1>3, <1>4, <1>5, <1>6, <1>7, <1>8, <1>9

(* Steps about tunnels.                                                     *)
LEMMA TunnelStepTyped ==
  ASSUME Shaped, Typed, NEW r \in Request,
         \/ CreateAtDestination(r) \/ CreateAtSource(r) \/ UndoDestination(r) \/ AddTunnel(r)
         \/ ActAtSource(r) \/ ActAtDestination(r) \/ SetStatus(r)
         \/ DeleteAtSource(r) \/ DeleteAtDestination(r) \/ DropTunnel(r)
  PROVE  Typed'
<1> USE DEF Places, TunnelJobs, Making, Removing, Acting
<1>0. Inv /\ Placed /\ HistoryTyped
  BY DEF Shaped, Typed
<1>1. /\ forwards' = forwards /\ users' = users /\ nat' = nat /\ kernel' = kernel
      /\ used' = used /\ begun' = begun /\ job[r].at \in TunnelJobs
      /\ Well \/ Fault({}) \/ Fault({job[r].t})
  BY TunnelStepFrame
<1>2. job[r].t \in Tunnel /\ job[r].n \in Name /\ job[r] \in TunnelJob
  BY <1>1, Fields
<1>3. HistoryTyped'
  BY <1>0, <1>1, <1>2, Blurs DEF Resource
<1>4. ASSUME NEW e, NEW from, NEW next, next \in Acting, ActAt(r, e, from, next) PROVE Placed'
  <2>0. Noted(r, next)
    BY <1>4, ActNotes
  <2>1. PICK failed : job' = [job EXCEPT ![r] = [@ EXCEPT !.at = next, !.failed = failed]]
    BY <2>0, Zenon DEF Noted
  <2> DEFINE j == [job[r] EXCEPT !.at = next, !.failed = failed]
  <2>2. j.at = next
    BY <1>0 DEF Inv, JobShape
  <2>3. job' = [job EXCEPT ![r] = j]
    BY <2>1
  <2>. HIDE DEF j
  <2>. QED  BY <1>0, <1>4, <2>2, <2>3, MovesTo
<1>5. ActAtSource(r) \/ ActAtDestination(r) => Placed'
  BY <1>4 DEF ActAtSource, ActAtDestination
<1>6. ASSUME ~(ActAtSource(r) \/ ActAtDestination(r)) PROVE Placed'
  <2>1. Return(r) \/ \E at \in Places : Goto(r, at)
    BY <1>6, TunnelStepFrame
  <2>2. "addTunnel" \in Places
    OBVIOUS
  <2>. QED  BY <1>0, <2>1, <2>2, Moves, Zenon
<1>7. tunnels' \in [Tunnel -> TunnelRow \cup {None}]
  <2>1. tunnels \in [Tunnel -> TunnelRow \cup {None}]
    BY DEF Typed, RowsTyped
  <2>2. CASE AddTunnel(r)
    <3>1. [name |-> job[r].n, status |-> "online"] \in TunnelRow
      BY <1>2 DEF TunnelRow
    <3>. QED  BY <2>1, <2>2, <3>1 DEF AddTunnel
  <2>3. CASE SetStatus(r)
    <3> DEFINE t == job[r].t
               status == StatusAfter(job[r].act, job[r].failed)
               row == [tunnels[t] EXCEPT !.status = status]
    <3>1. status \in {"online", "stopped", "degraded"}
      BY DEF StatusAfter
    <3>2. tunnels' = tunnels \/ (tunnels[t] # None /\ tunnels' = [tunnels EXCEPT ![t] = row])
      BY <2>3 DEF SetStatus
    <3>. HIDE DEF status
    <3>3. tunnels[t] # None => row \in TunnelRow
      BY <1>2, <2>1, <3>1 DEF TunnelRow
    <3>. HIDE DEF row
    <3>. QED  BY <2>1, <3>2, <3>3
  <2>4. CASE DropTunnel(r)
    BY <2>1, <2>4 DEF DropTunnel
  <2>5. CASE ~(AddTunnel(r) \/ SetStatus(r) \/ DropTunnel(r))
    <3>1. tunnels' = tunnels
      BY <2>5, TunnelStepFrame
    <3>. QED  BY <2>1, <3>1, Zenon
  <2>. QED  BY <2>2, <2>3, <2>4, <2>5
<1>. QED  BY <1>1, <1>3, <1>5, <1>6, <1>7 DEF Typed, RowsTyped, NatTyped, KernelTyped

(* Steps about forwards.                                                    *)
LEMMA ForwardStepTyped ==
  ASSUME Shaped, Typed, NEW r \in Request,
         InstallForward(r) \/ AddForward(r) \/ UninstallForward(r) \/ DropForward(r)
  PROVE  Typed'
<1> USE DEF Places, ForwardJobs
<1>0. Inv /\ Placed /\ HistoryTyped
  BY DEF Shaped, Typed
<1>1. /\ tunnels' = tunnels /\ users' = users /\ kernel' = kernel
      /\ used' = used /\ begun' = begun /\ job[r].at \in ForwardJobs
      /\ Well \/ Fault({}) \/ Fault({job[r].f})
      /\ Return(r) \/ \E at \in Places : Goto(r, at)
  BY DEF InstallForward, AddForward, UninstallForward, DropForward, rows, nodes, wg
<1>2. PICK f \in Forward : f = job[r].f
  BY <1>1, Fields
<1>3. HistoryTyped'
  BY <1>0, <1>1, <1>2, Blurs DEF Resource
<1>4. Placed'
  <2>1. "install" \in Places
    OBVIOUS
  <2>. QED  BY <1>0, <1>1, <2>1, Moves
<1>5. forwards' \in [Forward -> Dest \cup {None}]
  <2>1. forwards \in [Forward -> Dest \cup {None}]
    BY DEF Typed, RowsTyped
  <2>2. CASE AddForward(r)
    <3>1. job[r].d \in Dest
      BY <2>2, Fields DEF AddForward
    <3>. QED  BY <2>1, <2>2, <3>1 DEF AddForward
  <2>3. CASE ~AddForward(r)
    BY <2>1, <2>3 DEF InstallForward, UninstallForward, DropForward, rows
  <2>. QED  BY <2>2, <2>3
<1>6. NatTyped'
  <2>1. /\ nat \in [rules : SUBSET Rule, file : [Forward -> Dest \cup {None}], script : SUBSET Forward]
        /\ nat.rules \subseteq Rule /\ nat.script \subseteq Forward
        /\ nat.file \in [Forward -> Dest \cup {None}]
        /\ \A x \in nat.script : nat.file[x] # None
    BY DEF Typed, NatTyped
  <2>2. CASE InstallForward(r)
    <3>1. PICK d \in Dest : d = job[r].d
      BY <2>2, Fields DEF InstallForward
    <3> DEFINE file == [nat.file EXCEPT ![f] = d]
    <3>2. file \in [Forward -> Dest \cup {None}] /\ \A x \in nat.script \cup {f} : file[x] # None
      BY <2>1, ProvisioningAssumption
    <3>3. Rules(f, d) \subseteq Rule
      BY RulesAre
    <3>4. \/ nat' = nat
          \/ nat' = [rules |-> nat.rules \cup Rules(f, d), file |-> file, script |-> nat.script \cup {f}]
          \/ \E some \in SUBSET Rules(f, d) :
               nat' = [rules |-> nat.rules \cup some, file |-> file, script |-> nat.script]
      BY <1>2, <2>2, <3>1 DEF InstallForward
    <3>. HIDE DEF file
    <3>5. CASE nat' = nat
      BY <2>1, <3>5 DEF NatTyped
    <3>6. CASE nat' = [rules |-> nat.rules \cup Rules(f, d), file |-> file, script |-> nat.script \cup {f}]
      BY <2>1, <3>2, <3>3, <3>6 DEF NatTyped
    <3>7. ASSUME NEW some \in SUBSET Rules(f, d),
                 nat' = [rules |-> nat.rules \cup some, file |-> file, script |-> nat.script]
          PROVE  NatTyped'
      BY <2>1, <3>2, <3>3, <3>7 DEF NatTyped
    <3>. QED  BY <3>4, <3>5, <3>6, <3>7
  <2>3. CASE UninstallForward(r)
    <3> DEFINE file == [nat.file EXCEPT ![f] = None]
               left == IF nat.file[f] = None THEN nat.rules ELSE nat.rules \ Rules(f, nat.file[f])
    <3>1. file \in [Forward -> Dest \cup {None}] /\ \A x \in nat.script \ {f} : file[x] # None
      BY <2>1
    <3>2. left \subseteq Rule
      BY <2>1
    <3>3. nat' = nat \/ nat' = [rules |-> left, file |-> file, script |-> nat.script \ {f}]
      BY <1>2, <2>3 DEF UninstallForward, Uninstalled
    <3>. HIDE DEF file, left
    <3>. QED  BY <2>1, <3>1, <3>2, <3>3 DEF NatTyped
  <2>4. CASE ~(InstallForward(r) \/ UninstallForward(r))
    <3>1. nat' = nat
      BY <2>4 DEF AddForward, DropForward, nodes
    <3>. QED  BY <2>1, <3>1 DEF NatTyped
  <2>. QED  BY <2>2, <2>3, <2>4
<1>. QED  BY <1>1, <1>3, <1>4, <1>5, <1>6 DEF Typed, RowsTyped, KernelTyped

(* Steps about devices.                                                     *)
LEMMA PeerStepTyped ==
  ASSUME Shaped, Typed, NEW r \in Request,
         \/ AddPeer(r) \/ RecordPeer(r) \/ setRemotePeerEnabled(r) \/ RevertPeer(r)
         \/ deleteRemotePeer(r) \/ DropUser(r)
  PROVE  Typed'
<1> USE DEF Places, Creations, Switches
<1>0. Inv /\ Placed /\ HistoryTyped
  BY DEF Shaped, Typed
<1>1. kernel \in [Peer -> KernelPeer \cup {None}] /\ users \in SUBSET User
  BY DEF Typed, KernelTyped, RowsTyped
<1> DEFINE Only == /\ tunnels' = tunnels /\ forwards' = forwards /\ nat' = nat
                   /\ used' = used /\ begun' = begun
<1>2. ASSUME Only, users' \in SUBSET User, kernel' \in [Peer -> KernelPeer \cup {None}], Placed',
             NEW blurred \in SUBSET Resource, Well \/ Fault(blurred)
      PROVE  Typed'
  <2>1. HistoryTyped'
    BY <1>0, <1>2, Blurs
  <2>. QED  BY <1>2, <2>1 DEF Typed, RowsTyped, NatTyped, KernelTyped
<1>3. /\ {} \in SUBSET Resource /\ \A p \in Peer : {p} \in SUBSET Resource
      /\ \A u : PeersOf(u) \in SUBSET Resource
  BY DEF Resource, PeersOf
<1>4. "addPeer" \in Places
  OBVIOUS
<1>5. CASE AddPeer(r)
  <2>1. PICK p \in Peer, a \in Address : p = job[r].p /\ a = job[r].a
    BY <1>5, Fields DEF AddPeer
  <2>2. Only /\ users' = users /\ kernel' \in {kernel, Installed(p, a, TRUE)}
    BY <1>5, <2>1 DEF AddPeer, rows, wg
  <2>3. Placed'
    BY <1>0, <1>4, <1>5, Moves DEF AddPeer
  <2>4. kernel' \in [Peer -> KernelPeer \cup {None}]
    <3>1. Installed(p, a, TRUE) \in [Peer -> KernelPeer \cup {None}]
      BY InstalledTyped DEF Typed
    <3>. QED  BY <1>1, <2>2, <3>1
  <2>5. Well \/ Fault({}) \/ Fault({p})
    BY <1>5, <2>1 DEF AddPeer, Saved
  <2>. QED  BY <1>1, <1>2, <1>3, <2>2, <2>3, <2>4, <2>5
<1>6. CASE RecordPeer(r)
  <2>1. PICK p \in Peer : p = job[r].p
    BY <1>6, Fields DEF RecordPeer
  <2>2. Only /\ users' = users /\ kernel' = kernel /\ (Well \/ Fault({p}))
    BY <1>6, <2>1 DEF RecordPeer, nodes, wg
  <2>3. Placed'
    BY <1>0, <1>4, <1>6, Moves DEF RecordPeer
  <2>. QED  BY <1>1, <1>2, <1>3, <2>2, <2>3
<1>7. CASE setRemotePeerEnabled(r)
  <2>1. PICK p \in Peer, a \in Address, on \in BOOLEAN :
          p = job[r].p /\ a = job[r].a /\ on = job[r].on
    BY <1>7, Fields DEF setRemotePeerEnabled
  <2>2. Only /\ users' = users /\ kernel' \in {kernel, SetState(p, a, on)}
    BY <1>7, <2>1 DEF setRemotePeerEnabled, rows, wg
  <2>3. Placed'
    BY <1>0, <1>4, <1>7, Moves DEF setRemotePeerEnabled
  <2>4. SetState(p, a, on) \in [Peer -> KernelPeer \cup {None}]
    <3>1. CASE on
      BY <3>1, InstalledTyped DEF Typed, SetState
    <3>2. CASE ~on
      BY <1>1, <3>2 DEF SetState
    <3>. QED  BY <3>1, <3>2
  <2>5. Well \/ Fault({}) \/ Fault({p})
    BY <1>7, <2>1 DEF setRemotePeerEnabled, Saved
  <2>6. kernel' \in [Peer -> KernelPeer \cup {None}]
    BY <1>1, <2>2, <2>4
  <2>. QED  BY <1>1, <1>2, <1>3, <2>2, <2>3, <2>5, <2>6
<1>8. CASE RevertPeer(r)
  <2>1. PICK p \in Peer : p = job[r].p
    BY <1>8, Fields DEF RevertPeer
  <2>2. Only /\ users' = users /\ kernel' = kernel /\ (Well \/ Fault({p}))
    BY <1>8, <2>1 DEF RevertPeer, nodes, wg
  <2>3. Placed'
    BY <1>0, <1>4, <1>8, Moves DEF RevertPeer
  <2>. QED  BY <1>1, <1>2, <1>3, <2>2, <2>3
<1>9. CASE deleteRemotePeer(r)
  <2>1. job[r].at = "removePeers" /\ job[r].todo \subseteq Peer
    BY <1>9, Fields DEF deleteRemotePeer, PeerJob
  <2>2. PICK p \in Peer :
          /\ kernel' \in {kernel, [kernel EXCEPT ![p] = None]} /\ (Well \/ Fault({}) \/ Fault({p}))
          /\ job' = [job EXCEPT ![r].todo = @ \ {p}]
    <3>1. PICK p \in job[r].todo :
            /\ \/ kernel' = [kernel EXCEPT ![p] = None] /\ Saved
               \/ UNCHANGED wg /\ Fault({p})
               \/ kernel' = [kernel EXCEPT ![p] = None] /\ conf' \in {conf, kernel'} /\ Fault({p})
            /\ job' = [job EXCEPT ![r].todo = @ \ {p}]
      BY <1>9 DEF deleteRemotePeer
    <3>2. Well \/ Fault({}) \/ Fault({p})
      BY <3>1 DEF Saved
    <3>3. kernel' \in {kernel, [kernel EXCEPT ![p] = None]}
      BY <3>1 DEF wg
    <3>. QED  BY <2>1, <3>1, <3>2, <3>3
  <2> DEFINE j == [job[r] EXCEPT !.todo = @ \ {p}]
  <2>3. j.at = "removePeers" /\ job' = [job EXCEPT ![r] = j]
    BY <1>0, <2>1, <2>2 DEF Inv, JobShape
  <2>. HIDE DEF j
  <2>4. Placed'
    BY <1>0, <2>3, MovesTo
  <2>5. Only /\ users' = users
    BY <1>9 DEF deleteRemotePeer, rows
  <2>6. kernel' \in [Peer -> KernelPeer \cup {None}]
    BY <1>1, <2>2
  <2>. QED  BY <1>1, <1>2, <1>3, <2>2, <2>4, <2>5, <2>6
<1>10. CASE DropUser(r)
  <2>1. /\ Only /\ kernel' = kernel /\ users' \in {users, users \ {job[r].u}}
        /\ Well \/ Fault(PeersOf(job[r].u))
    BY <1>10 DEF DropUser, nodes, wg
  <2>2. Placed'
    BY <1>0, <1>4, <1>10, Moves DEF DropUser
  <2>. QED  BY <1>1, <1>2, <1>3, <2>1, <2>2
<1>. QED  BY <1>5, <1>6, <1>7, <1>8, <1>9, <1>10

(* A node restarts; the panel stops.                                        *)
LEMMA RestartTyped == ASSUME Typed, SavedTyped, NEW e \in End, NodeRestarts(e) PROVE Typed'
<1> DEFINE blurred == {p \in Peer : kernel'[p] # kernel[p]}
           back == UNION {Rules(f, nat.file[f]) : f \in nat.script}
<1>1. /\ tunnels' = tunnels /\ forwards' = forwards /\ users' = users /\ kernel' \in {kernel, conf}
      /\ job' = job /\ used' = used /\ begun' = begun /\ Fault(blurred)
      /\ nat' = nat \/ nat' = [nat EXCEPT !.rules = back]
  BY DEF NodeRestarts, rows, wg
<1>2. blurred \subseteq Resource
  BY DEF Resource
<1>. HIDE DEF blurred
<1>3. HistoryTyped'
  BY <1>1, <1>2, Blurs DEF Typed
<1>4. back \subseteq Rule
  <2>1. \A f \in nat.script : f \in Forward /\ nat.file[f] \in Dest
    BY DEF Typed, NatTyped
  <2>2. \A f \in nat.script : Rules(f, nat.file[f]) \subseteq Rule
    BY <2>1, RulesAre
  <2>. QED  BY <2>2
<1>. HIDE DEF back
<1>5. NatTyped'
  BY <1>1, <1>4 DEF Typed, NatTyped
<1>6. KernelTyped'
  BY <1>1 DEF Typed, KernelTyped, SavedTyped
<1>. QED  BY <1>1, <1>3, <1>5, <1>6 DEF Typed, RowsTyped, Placed

LEMMA StopTyped == ASSUME Shaped, Typed, PanelStops PROVE Typed'
<1> DEFINE blurred == (UNION {job[r].touch : r \in {q \in Request : job[q] # Idle}}) \cap Resource
<1>1. /\ tunnels' = tunnels /\ forwards' = forwards /\ users' = users /\ kernel' = kernel
      /\ nat' = nat /\ used' = used /\ begun' = begun /\ Fault(blurred)
      /\ job' = [r \in Request |-> Idle]
  BY DEF PanelStops, rows, nodes, wg
<1>2. blurred \subseteq Resource
  OBVIOUS
<1>. HIDE DEF blurred
<1>3. HistoryTyped'
  BY <1>1, <1>2, Blurs DEF Typed
<1>4. Placed'
  BY <1>1 DEF Placed
<1>. QED  BY <1>1, <1>3, <1>4 DEF Typed, RowsTyped, NatTyped, KernelTyped

(* The file of the interface has what the kernel has, or had.               *)
LEMMA SavedStays ==
  ASSUME Typed', SavedTyped, [Next]_vars
  PROVE  SavedTyped'
<1> USE DEF rows, nodes, wg
<1>1. ASSUME NEW r \in Request, NewRequest(r) PROVE conf' = conf
  BY <1>1 DEF NewRequest, createTunnel, tunnelAction, deleteTunnel, handleForwards,
              handleForwardItem, createWGPeer, enforceUserPolicies, deleteUser, Begin
<1>2. ASSUME NEW r \in Request, RequestStep(r) PROVE conf' \in {conf, kernel'}
  <2>1. CASE \/ CreateAtDestination(r) \/ CreateAtSource(r) \/ UndoDestination(r) \/ AddTunnel(r)
             \/ ActAtSource(r) \/ ActAtDestination(r) \/ SetStatus(r)
             \/ DeleteAtSource(r) \/ DeleteAtDestination(r) \/ DropTunnel(r)
    <3>1. CASE CreateAtDestination(r) \/ CreateAtSource(r)
      BY <3>1 DEF CreateAtDestination, CreateAtSource, CreateEnd
    <3>2. CASE UndoDestination(r) \/ DeleteAtSource(r) \/ DeleteAtDestination(r)
      BY <3>2 DEF UndoDestination, DeleteAtSource, DeleteAtDestination, DeleteEnd
    <3>3. CASE ActAtSource(r) \/ ActAtDestination(r)
      BY <3>3 DEF ActAtSource, ActAtDestination, ActAt
    <3>4. CASE AddTunnel(r) \/ SetStatus(r) \/ DropTunnel(r)
      BY <3>4 DEF AddTunnel, SetStatus, DropTunnel
    <3>. QED  BY <2>1, <3>1, <3>2, <3>3, <3>4
  <2>2. CASE InstallForward(r) \/ AddForward(r) \/ UninstallForward(r) \/ DropForward(r)
    BY <2>2 DEF InstallForward, AddForward, UninstallForward, DropForward
  <2>3. CASE \/ AddPeer(r) \/ RecordPeer(r) \/ setRemotePeerEnabled(r) \/ RevertPeer(r)
             \/ deleteRemotePeer(r) \/ DropUser(r)
    BY <2>3 DEF AddPeer, RecordPeer, setRemotePeerEnabled, RevertPeer, deleteRemotePeer, DropUser,
                Saved
  <2>. QED  BY <1>2, <2>1, <2>2, <2>3 DEF RequestStep
<1>3. ASSUME NEW e \in End, NodeRestarts(e) PROVE conf' \in {conf, kernel'}
  BY <1>3 DEF NodeRestarts
<1>4. PanelStops \/ UNCHANGED vars => conf' = conf
  BY DEF PanelStops, vars
<1>5. conf' \in {conf, kernel'}
  BY <1>1, <1>2, <1>3, <1>4 DEF Next
<1>. QED  BY <1>5 DEF Typed, KernelTyped, SavedTyped

(* The exceptions made for tunnels are of tunnels.                          *)
LEMMA ExcusesStay ==
  ASSUME Shaped, ExcusesTyped, [Next]_vars
  PROVE  ExcusesTyped'
<1> USE DEF excuses
<1>1. ASSUME NEW r \in Request, NewRequest(r) PROVE ExcusesTyped'
  <2>1. CASE \E t \in Tunnel, act \in Action : tunnelAction(r, t, act)
    BY <2>1 DEF tunnelAction, ExcusesTyped
  <2>2. CASE ~\E t \in Tunnel, act \in Action : tunnelAction(r, t, act)
    <3>1. UNCHANGED excuses
      BY <1>1, <2>2 DEF NewRequest, createTunnel, deleteTunnel, handleForwards, handleForwardItem,
                        createWGPeer, enforceUserPolicies, deleteUser
    <3>. QED  BY <3>1 DEF ExcusesTyped
  <2>. QED  BY <2>1, <2>2
<1>2. ASSUME NEW r \in Request, RequestStep(r) PROVE ExcusesTyped'
  <2>1. ASSUME NEW e \in End, NEW from, NEW next, NEW failed, job[r].at = from, from \in TunnelJobs,
               CreateEnd(r, e, from, next, failed)
        PROVE  ExcusesTyped'
    <3>1. job[r].t \in Tunnel
      BY <2>1, Fields
    <3>2. /\ refreshed' = refreshed /\ restarted' = restarted
          /\ halfMade' \in {halfMade, halfMade \cup {<<job[r].t, e>>}}
      BY <2>1 DEF CreateEnd
    <3>. QED  BY <3>1, <3>2 DEF ExcusesTyped
  <2>2. CASE CreateAtDestination(r) \/ CreateAtSource(r)
    <3>1. "src" \in End /\ "dst" \in End /\ {"createDst", "createSrc"} \subseteq TunnelJobs
      BY DEF End, TunnelJobs, Making
    <3>2. CASE CreateAtDestination(r)
      <4>1. CreateEnd(r, "dst", "createDst", "createSrc", Return(r)) /\ job[r].at = "createDst"
        BY <3>2 DEF CreateAtDestination, CreateEnd
      <4>. QED  BY <2>1, <3>1, <4>1
    <3>3. CASE CreateAtSource(r)
      <4>1. CreateEnd(r, "src", "createSrc", "addTunnel", Goto(r, "undoDst")) /\ job[r].at = "createSrc"
        BY <3>3 DEF CreateAtSource, CreateEnd
      <4>. QED  BY <2>1, <3>1, <4>1
    <3>. QED  BY <2>2, <3>2, <3>3
  <2>3. CASE ~(CreateAtDestination(r) \/ CreateAtSource(r))
    <3>1. UndoDestination(r) \/ DeleteAtSource(r) \/ DeleteAtDestination(r) => ExcusesTyped'
      BY DEF UndoDestination, DeleteAtSource, DeleteAtDestination, DeleteEnd, ExcusesTyped
    <3>2. ActAtSource(r) \/ ActAtDestination(r) => ExcusesTyped'
      BY DEF ActAtSource, ActAtDestination, ActAt, ExcusesTyped
    <3>3. AddTunnel(r) \/ SetStatus(r) \/ DropTunnel(r) => ExcusesTyped'
      BY DEF AddTunnel, SetStatus, DropTunnel, ExcusesTyped
    <3>4. InstallForward(r) \/ AddForward(r) \/ UninstallForward(r) \/ DropForward(r) => ExcusesTyped'
      BY DEF InstallForward, AddForward, UninstallForward, DropForward, ExcusesTyped
    <3>5. AddPeer(r) \/ RecordPeer(r) \/ setRemotePeerEnabled(r) => ExcusesTyped'
      BY DEF AddPeer, RecordPeer, setRemotePeerEnabled, ExcusesTyped
    <3>6. RevertPeer(r) \/ deleteRemotePeer(r) \/ DropUser(r) => ExcusesTyped'
      BY DEF RevertPeer, deleteRemotePeer, DropUser, ExcusesTyped
    <3>. QED  BY <1>2, <2>3, <3>1, <3>2, <3>3, <3>4, <3>5, <3>6 DEF RequestStep
  <2>. QED  BY <2>2, <2>3
<1>3. ASSUME NEW e \in End, NodeRestarts(e) PROVE ExcusesTyped'
  <2>1. /\ refreshed' = refreshed /\ halfMade' = halfMade
        /\ \A x \in restarted' : x \in restarted
             \/ \E n \in Name : unit[e][n].file # None /\ x = <<unit[e][n].file, e>>
    BY <1>3 DEF NodeRestarts
  <2>2. \A n \in Name : unit[e][n].file \in Tunnel \cup {None}
    BY DEF Shaped, TunnelInv, UnitShape, Unit
  <2>. QED  BY <2>1, <2>2 DEF ExcusesTyped
<1>4. PanelStops \/ UNCHANGED vars => ExcusesTyped'
  BY DEF PanelStops, vars, ExcusesTyped
<1>. QED  BY <1>1, <1>2, <1>3, <1>4 DEF Next

LEMMA InitTyped == Init => Typed
<1> SUFFICES ASSUME Init PROVE Typed
  OBVIOUS
<1>1. Placed
  BY DEF Init, Placed
<1>2. RowsTyped /\ KernelTyped
  BY DEF Init, RowsTyped, KernelTyped
<1>3. NatTyped
  BY DEF Init, NatTyped
<1>4. HistoryTyped
  BY ProvisioningAssumption DEF Init, HistoryTyped
<1>. QED  BY <1>1, <1>2, <1>3, <1>4 DEF Typed

LEMMA NextTyped == Shaped /\ Typed /\ SavedTyped /\ [Next]_vars => Typed'
<1> SUFFICES ASSUME Shaped, Typed, SavedTyped, [Next]_vars PROVE Typed'
  OBVIOUS
<1>1. ASSUME NEW r \in Request, RequestStep(r) PROVE Typed'
  BY <1>1, TunnelStepTyped, ForwardStepTyped, PeerStepTyped DEF RequestStep
<1>2. CASE UNCHANGED vars
  BY <1>2 DEF vars, rows, nodes, wg, bounds, Typed, RowsTyped, NatTyped, KernelTyped, HistoryTyped, Placed
<1>. QED  BY <1>1, <1>2, RequestTyped, RestartTyped, StopTyped DEF Next

(* Every state of the panel, its nodes and its requests is one of those     *)
(* that are declared: a script is never of a forward without description,   *)
(* and no request is at a place without the fields it needs there.          *)
THEOREM TypeCorrect == Spec => []TypeOK
<1> DEFINE IInv == Shaped /\ Typed /\ SavedTyped /\ ExcusesTyped
<1>0. Init => SavedTyped /\ ExcusesTyped
  BY DEF Init, SavedTyped, ExcusesTyped
<1>1. Init => IInv
  BY <1>0, InitInv, InitForward, InitPeers, InitTunnels, InitTyped DEF Shaped
<1>2. IInv /\ [Next]_vars => IInv'
  <2> SUFFICES ASSUME IInv, [Next]_vars PROVE IInv'
    OBVIOUS
  <2>1. Shaped' /\ Typed'
    BY NextInv, NextForward, NextPeers, NextTunnels, NextTyped DEF Shaped
  <2>. QED  BY <2>1, SavedStays, ExcusesStay
<1>3. IInv => TypeOK
  BY TypesFollow
<1>. HIDE DEF IInv
<1>. QED  BY <1>1, <1>2, <1>3, PTL DEF Spec
=============================================================================
