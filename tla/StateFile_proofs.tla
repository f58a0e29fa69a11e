-------------------------- MODULE StateFile_proofs --------------------------
(***************************************************************************)
(* The store is atomic: for any values, cells and readers, StateFile       *)
(* implements AtomicStore, and a failing Update changes nothing.  The      *)
(* argument rests on Inv: nested data is never shared, the state in memory *)
(* is the saved one while the lock is free, and what is renamed is the     *)
(* copy the callback has made.                                             *)
(***************************************************************************)
EXTENDS StateFile, TLAPS

USE InitialAssumption

(* The marks for "nothing there" are no records of the data.                *)
LEMMA Marks ==
  /\ Nothing \notin Struct /\ Nothing \notin State
  /\ Missing \notin File /\ Torn \notin File
  <1>1. \A x \in Struct \cup State : "plain" \in DOMAIN x
    BY DEF Struct, State
  <1>2. \A x \in File : "plain" \in DOMAIN x
    BY DEF File
  <1>3. /\ "plain" \notin DOMAIN Nothing
        /\ "plain" \notin DOMAIN Missing
        /\ "plain" \notin DOMAIN Torn
    BY DEF Nothing, Missing, Torn
  <1> QED BY <1>1, <1>2, <1>3

(* Conversions: what is written to disk is what is read back.               *)
LEMMA RoundTrip ==
  ASSUME NEW st \in State
  PROVE  stateToDisk(st) \in File /\ diskToState(stateToDisk(st)) = st
  BY DEF State, File, stateToDisk, diskToState

LEMMA SavedType == TypeOK => Saved \in State
  <1>1. Default \in State
    BY DEF Default, State
  <1>2. \A file \in File : diskToState(file) \in State
    BY DEF File, State, diskToState
  <1> QED BY <1>1, <1>2 DEF TypeOK, Saved

LEMMA StateOfType ==
  ASSUME TypeOK, NEW x \in Struct
  PROVE  StateOf(x) \in State
  BY DEF TypeOK, Struct, State, StateOf

(* Writing to a cell changes no struct that has another one.                *)
LEMMA OtherCell ==
  ASSUME NEW x, NEW c, TypeOK, x \in Struct, c \in Cell, c # x.nested,
         NEW v, heap' = [heap EXCEPT ![c] = v]
  PROVE  heap'[x.nested] = heap[x.nested]
  BY DEF TypeOK, Struct

(* A copy is a struct with the same contents, in its own cell.              *)
LEMMA CopyOf ==
  ASSUME TypeOK, NEW x \in Struct, NEW c \in Cell, heap' = [heap EXCEPT ![c] = heap[x.nested]]
  PROVE  /\ cloneState(x, c) \in Struct /\ cloneState(x, c).nested = c
         /\ [plain |-> cloneState(x, c).plain, secret |-> cloneState(x, c).secret,
             nested |-> heap'[c]] = StateOf(x)
         /\ heap' \in [Cell -> Value]
  BY DEF TypeOK, Struct, cloneState, StateOf

(* The invariant holds at first.                                            *)
LEMMA InitInv == Init => Inv
  BY Marks DEF Init, Inv, TypeOK, Phases, LiveIsSaved, FailureChangesNothing, NoSharing,
               CompleteWhenRenamed, InstallsSaved, Default, State

(* Opening the store: what is in memory is what the file holds.             *)
LEMMA OpenInv ==
  ASSUME Inv, NEW c \in Cell, OpenStore(c)
  PROVE  Inv'
  <1> DEFINE opened == [plain |-> Saved.plain, secret |-> Saved.secret, nested |-> c]
  <1>1. /\ TypeOK /\ Saved \in State
        /\ pc = "down" /\ next = Nothing /\ result = "none"
        /\ \A r \in Reader : held[r] = Nothing
    BY SavedType DEF Inv, OpenStore, Phases, TypeOK
  <1>2. /\ live' = opened /\ heap' = [heap EXCEPT ![c] = Saved.nested] /\ pc' = "idle"
        /\ UNCHANGED <<next, held, disk, tmp, before, result>>
    BY DEF OpenStore
  <1>3. Saved' = Saved
    BY <1>2 DEF Saved
  <1>4. opened \in Struct /\ opened # Nothing
    BY <1>1, Marks DEF Struct, State
  <1>5. heap' \in [Cell -> Value] /\ heap'[c] = Saved.nested
    BY <1>1, <1>2 DEF TypeOK, State
  <1>6. StateOf(live)' = Saved'
    BY <1>1, <1>2, <1>3, <1>5 DEF StateOf, State
  <1> HIDE DEF opened
  <1>7. TypeOK'
    BY <1>1, <1>2, <1>4, <1>5 DEF TypeOK
  <1>8. Phases'
    BY <1>1, <1>2, <1>4 DEF Phases
  <1>9. NoSharing'
    BY <1>1, <1>2 DEF NoSharing
  <1> QED BY <1>1, <1>2, <1>6, <1>7, <1>8, <1>9
          DEF Inv, LiveIsSaved, FailureChangesNothing, CompleteWhenRenamed, InstallsSaved

(* Reading: the reader gets a cell nobody else has.                         *)
LEMMA ReadInv ==
  ASSUME Inv, NEW r \in Reader, NEW c \in Cell, Read(r, c)
  PROVE  Inv'
  <1> DEFINE clone == cloneState(live, c)
  <1>1. /\ TypeOK /\ Phases /\ NoSharing /\ pc = "idle" /\ next = Nothing /\ live \in Struct
        /\ c \notin InUse /\ StateOf(live) = Saved
        /\ result = "error" => Saved = before
    BY DEF Inv, Read, Phases, TypeOK, LiveIsSaved, FailureChangesNothing
  <1>2. /\ held' = [held EXCEPT ![r] = clone] /\ heap' = [heap EXCEPT ![c] = heap[live.nested]]
        /\ UNCHANGED <<live, next, pc, disk, tmp, before, result>>
    BY DEF Read, Copied
  <1>3. /\ live.nested # c
        /\ \A q \in Reader : held[q] # Nothing => held[q].nested # c
    BY <1>1, Marks DEF InUse
  <1>4. clone \in Struct /\ clone.nested = c /\ heap' \in [Cell -> Value]
    BY <1>1, <1>2, CopyOf
  <1>5. StateOf(live)' = StateOf(live) /\ Saved' = Saved
    BY <1>1, <1>2, <1>3, OtherCell DEF StateOf, Saved
  <1> HIDE DEF clone
  <1>6. TypeOK'
    BY <1>1, <1>2, <1>4 DEF TypeOK
  <1>7. \A q \in Reader : held'[q] = IF q = r THEN clone ELSE held[q]
    BY <1>1, <1>2 DEF TypeOK
  <1>8. Phases'
    BY <1>1, <1>2 DEF Phases
  <1>9. NoSharing'
    BY <1>1, <1>2, <1>3, <1>4, <1>7 DEF NoSharing
  <1> QED BY <1>1, <1>2, <1>5, <1>6, <1>8, <1>9
          DEF Inv, LiveIsSaved, FailureChangesNothing, CompleteWhenRenamed, InstallsSaved

(* Taking the lock: the callback gets a cell nobody else has.               *)
LEMMA LockInv ==
  ASSUME Inv, NEW c \in Cell, Lock(c)
  PROVE  Inv'
  <1> DEFINE clone == cloneState(live, c)
  <1>1. /\ TypeOK /\ Phases /\ NoSharing /\ pc = "idle" /\ live \in Struct
        /\ c \notin InUse /\ StateOf(live) = Saved /\ Saved \in State
    BY SavedType DEF Inv, Lock, Phases, TypeOK, LiveIsSaved
  <1>2. /\ next' = clone /\ heap' = [heap EXCEPT ![c] = heap[live.nested]] /\ pc' = "callback"
        /\ before' = Saved /\ result' = "none"
        /\ UNCHANGED <<live, held, disk, tmp>>
    BY DEF Lock, Copied
  <1>3. /\ live.nested # c
        /\ \A q \in Reader : held[q] # Nothing => held[q].nested # c
    BY <1>1, Marks DEF InUse
  <1>4. clone \in Struct /\ clone.nested = c /\ clone # Nothing /\ heap' \in [Cell -> Value]
    <2>1. clone \in Struct /\ clone.nested = c /\ heap' \in [Cell -> Value]
      BY <1>1, <1>2, CopyOf
    <2> HIDE DEF clone
    <2> QED BY <2>1, Marks
  <1>5. StateOf(live)' = StateOf(live) /\ Saved' = Saved
    BY <1>1, <1>2, <1>3, OtherCell DEF StateOf, Saved
  <1> HIDE DEF clone
  <1>6. TypeOK'
    BY <1>1, <1>2, <1>4 DEF TypeOK
  <1>7. Phases'
    BY <1>1, <1>2, <1>4 DEF Phases
  <1>8. NoSharing'
    BY <1>1, <1>2, <1>3, <1>4 DEF NoSharing
  <1> QED BY <1>1, <1>2, <1>5, <1>6, <1>7, <1>8
          DEF Inv, LiveIsSaved, FailureChangesNothing, CompleteWhenRenamed, InstallsSaved

(* The callback writes to nothing but its own copy.                         *)
LEMMA EditInv ==
  ASSUME Inv, NEW v \in Value, Edit(v)
  PROVE  Inv'
  <1>1. /\ TypeOK /\ Phases /\ NoSharing /\ pc = "callback"
        /\ live \in Struct /\ next \in Struct /\ next.nested # live.nested
        /\ \A q \in Reader : held[q] # Nothing => held[q].nested # next.nested
        /\ StateOf(live) = before /\ Saved = before
    BY Marks DEF Inv, Edit, Phases, TypeOK, FailureChangesNothing, NoSharing
  <1>2. UNCHANGED <<live, pc, held, disk, tmp, before, result>>
    BY DEF Edit
  <1>3. /\ next' \in Struct /\ next'.nested = next.nested
        /\ heap' \in [Cell -> Value]
        /\ heap'[live.nested] = heap[live.nested]
    <2>1. CASE next' = [next EXCEPT !.plain = v] /\ heap' = heap
      BY <1>1, <2>1 DEF Struct, TypeOK
    <2>2. CASE next' = [next EXCEPT !.secret = v] /\ heap' = heap
      BY <1>1, <2>2 DEF Struct, TypeOK
    <2>3. CASE next' = next /\ heap' = [heap EXCEPT ![next.nested] = v]
      BY <1>1, <2>3 DEF Struct, TypeOK
    <2> QED BY <2>1, <2>2, <2>3 DEF Edit
  <1>4. StateOf(live)' = StateOf(live) /\ Saved' = Saved
    BY <1>2, <1>3 DEF StateOf, Saved
  <1>5. TypeOK'
    BY <1>1, <1>2, <1>3 DEF TypeOK
  <1>6. Phases'
    BY <1>1, <1>2, <1>3, Marks DEF Phases
  <1>7. NoSharing'
    BY <1>1, <1>2, <1>3 DEF NoSharing
  <1> QED BY <1>1, <1>2, <1>4, <1>5, <1>6, <1>7
          DEF Inv, LiveIsSaved, FailureChangesNothing, CompleteWhenRenamed, InstallsSaved

(* Saving and installing the copy.                                          *)
LEMMA SaveInv ==
  ASSUME Inv, BeginSave \/ WriteTmp \/ Rename \/ Install
  PROVE  Inv'
  <1>1. /\ TypeOK /\ Phases /\ NoSharing
        /\ pc \in {"callback", "saving", "written", "renamed"}
        /\ live \in Struct /\ next \in Struct /\ StateOf(next) \in State
    BY Marks, StateOfType DEF Inv, BeginSave, WriteTmp, Rename, Install, Phases, TypeOK
  <1>2. CASE BeginSave
    BY <1>1, <1>2 DEF BeginSave, Inv, TypeOK, Phases, NoSharing, LiveIsSaved, StateOf, Saved,
                      FailureChangesNothing, CompleteWhenRenamed, InstallsSaved
  <1>3. CASE WriteTmp
    <2>1. stateToDisk(StateOf(next)) \in File
      BY <1>1, RoundTrip
    <2> QED
      BY <1>1, <1>3, <2>1 DEF WriteTmp, Inv, TypeOK, Phases, NoSharing, LiveIsSaved, StateOf,
                  Saved, FailureChangesNothing, CompleteWhenRenamed, InstallsSaved
  <1>4. CASE Rename
    <2>1. /\ pc = "written" /\ pc' = "renamed" /\ disk' = tmp /\ tmp' = Missing
          /\ tmp = stateToDisk(StateOf(next)) /\ tmp \in File /\ tmp # Missing
          /\ UNCHANGED <<heap, live, next, held, before, result>>
      BY <1>1, <1>4, RoundTrip, Marks DEF Rename, Inv, CompleteWhenRenamed
    <2>2. Saved' = StateOf(next) /\ StateOf(next)' = StateOf(next)
      BY <1>1, <2>1, RoundTrip DEF Saved, StateOf
    <2>3. TypeOK'
      BY <1>1, <2>1 DEF TypeOK
    <2>4. Phases' /\ NoSharing'
      BY <1>1, <2>1 DEF Phases, NoSharing
    <2> QED
      BY <1>1, <2>1, <2>2, <2>3, <2>4 DEF Inv, Phases, LiveIsSaved, FailureChangesNothing,
                                          CompleteWhenRenamed, InstallsSaved
  <1>5. CASE Install
    <2>1. /\ pc = "renamed" /\ pc' = "idle" /\ live' = next /\ next' = Nothing
          /\ result' = "ok" /\ StateOf(next) = Saved
          /\ UNCHANGED <<heap, held, disk, before, tmp>>
      BY <1>5 DEF Install, Return, Inv, InstallsSaved
    <2>2. StateOf(live)' = StateOf(next) /\ Saved' = Saved
      BY <2>1 DEF StateOf, Saved
    <2>3. TypeOK'
      BY <1>1, <2>1 DEF TypeOK
    <2>4. Phases'
      BY <1>1, <2>1, Marks DEF Phases
    <2>5. NoSharing'
      BY <1>1, <2>1, Marks DEF NoSharing
    <2> QED
      BY <2>1, <2>2, <2>3, <2>4, <2>5 DEF Inv, LiveIsSaved, FailureChangesNothing,
                                          CompleteWhenRenamed, InstallsSaved
  <1> QED BY <1>2, <1>3, <1>4, <1>5

(* An Update that fails drops its copy.                                     *)
LEMMA FailInv ==
  ASSUME Inv, CallbackFails \/ SaveFails
  PROVE  Inv'
  <1>1. /\ TypeOK /\ Phases /\ NoSharing /\ StateOf(live) = before /\ Saved = before
        /\ live # Nothing
    BY DEF Inv, CallbackFails, SaveFails, FailureChangesNothing, Phases
  <1>2. /\ pc' = "idle" /\ next' = Nothing /\ result' = "error"
        /\ UNCHANGED <<heap, held, disk, before, live, tmp>>
    BY DEF CallbackFails, SaveFails, Return
  <1>3. StateOf(live)' = StateOf(live) /\ Saved' = Saved
    BY <1>2 DEF StateOf, Saved
  <1>4. TypeOK' /\ Phases' /\ NoSharing'
    BY <1>1, <1>2 DEF TypeOK, Phases, NoSharing
  <1> QED BY <1>1, <1>2, <1>3, <1>4 DEF Inv, LiveIsSaved, FailureChangesNothing,
                                       CompleteWhenRenamed, InstallsSaved

(* A crash takes the memory with it and nothing else; Forget, a reader's    *)
(* copy.                                                                    *)
LEMMA ForgetInv ==
  ASSUME Inv, Crash \/ (\E r \in Reader : Forget(r)) \/ UNCHANGED vars
  PROVE  Inv'
  <1>1. CASE Crash
    BY <1>1 DEF Crash, Inv, TypeOK, Phases, NoSharing, LiveIsSaved, StateOf, Saved,
                FailureChangesNothing, CompleteWhenRenamed, InstallsSaved
  <1>2. CASE \E r \in Reader : Forget(r)
    <2> PICK r \in Reader : Forget(r)
      BY <1>2
    <2>1. /\ held' = [held EXCEPT ![r] = Nothing]
          /\ UNCHANGED <<heap, live, next, pc, disk, tmp, before, result>>
      BY DEF Forget
    <2>2. TypeOK' /\ Phases' /\ NoSharing'
      BY <2>1 DEF Inv, TypeOK, Phases, NoSharing
    <2> QED BY <2>1, <2>2 DEF Inv, LiveIsSaved, StateOf, Saved, FailureChangesNothing,
                             CompleteWhenRenamed, InstallsSaved
  <1>3. CASE UNCHANGED vars
    BY <1>3 DEF vars, Inv, TypeOK, Phases, NoSharing, LiveIsSaved, StateOf, Saved,
                FailureChangesNothing, CompleteWhenRenamed, InstallsSaved
  <1> QED BY <1>1, <1>2, <1>3

LEMMA NextInv == Inv /\ [Next]_vars => Inv'
  BY OpenInv, ReadInv, LockInv, EditInv, SaveInv, FailInv, ForgetInv DEF Next

(* Memory, file and copies stay consistent through every interleaving of    *)
(* Update, Read, failures and crashes.                                      *)
THEOREM InvCorrect == Spec => []Inv
  BY InitInv, NextInv, PTL DEF Spec

(* An Update that returns an error, or is cut off before its rename, has    *)
(* changed neither the state in memory nor the state file.                  *)
THEOREM FailuresHarmless == Spec => []FailureChangesNothing
  <1>1. Inv => FailureChangesNothing
    BY DEF Inv
  <1> QED BY <1>1, InvCorrect, PTL

-----------------------------------------------------------------------------
(* The refinement.  A reader's copy, and the proposal, are as they look     *)
(* through the heap.                                                        *)
Copies == [r \in Reader |-> Seen(held[r])]

(* A reader's copy is not touched by writes to other cells.                 *)
LEMMA CopiesKept ==
  ASSUME TypeOK, held' = held,
         \A r \in Reader : held[r] # Nothing => heap'[held[r].nested] = heap[held[r].nested]
  PROVE  Copies' = Copies
  BY DEF Copies, Seen, StateOf

LEMMA SavedKept == UNCHANGED disk => Saved' = Saved
  BY DEF Saved

(* The detailed store starts as the atomic one.                             *)
LEMMA InitRefines == Init => Atomic!Init
  BY DEF Init, Atomic!Init, Seen, Saved, Nothing, Atomic!Nothing

LEMMA OpenRefines ==
  ASSUME Inv, NEW c \in Cell, OpenStore(c)
  PROVE  Atomic!Open
  <1>1. /\ TypeOK /\ pc = "down" /\ next = Nothing /\ \A r \in Reader : held[r] = Nothing
        /\ pc' = "idle" /\ UNCHANGED <<next, held, disk, tmp, before, result>>
    BY DEF Inv, OpenStore, Phases
  <1>2. Copies' = Copies /\ Saved' = Saved /\ Seen(next)' = Seen(next)
    BY <1>1, CopiesKept, SavedKept DEF Seen
  <1> QED BY <1>1, <1>2 DEF Atomic!Open, Copies

LEMMA ReadRefines ==
  ASSUME Inv, NEW r \in Reader, NEW c \in Cell, Read(r, c)
  PROVE  Atomic!Read(r)
  <1> DEFINE clone == cloneState(live, c)
  <1>1. /\ TypeOK /\ pc = "idle" /\ next = Nothing /\ live \in Struct
        /\ c \notin InUse /\ StateOf(live) = Saved
        /\ held' = [held EXCEPT ![r] = clone] /\ heap' = [heap EXCEPT ![c] = heap[live.nested]]
        /\ UNCHANGED <<live, next, pc, disk, tmp, before, result>>
    BY DEF Inv, Read, Copied, Phases, TypeOK, LiveIsSaved
  <1>2. \A q \in Reader : held[q] # Nothing => held[q] \in Struct /\ held[q].nested # c
    BY <1>1 DEF InUse, TypeOK
  <1>3. /\ clone # Nothing
        /\ [plain |-> clone.plain, secret |-> clone.secret, nested |-> heap'[clone.nested]] = Saved
    <2> HIDE DEF clone
    <2>1. /\ clone \in Struct /\ clone.nested = c
          /\ [plain |-> clone.plain, secret |-> clone.secret, nested |-> heap'[c]] = StateOf(live)
      BY <1>1, CopyOf DEF clone
    <2> QED BY <1>1, <2>1, Marks
  <1>4. \A q \in Reader : Seen(held[q])' = IF q = r THEN Saved ELSE Seen(held[q])
    <2> TAKE q \in Reader
    <2>1. CASE q = r
      <3>1. held'[q] = clone
        BY <1>1, <2>1 DEF TypeOK
      <3> HIDE DEF clone
      <3> QED BY <1>3, <2>1, <3>1 DEF Seen, StateOf
    <2>2. CASE q # r
      <3>1. held'[q] = held[q]
        BY <1>1, <2>2 DEF TypeOK
      <3>2. held[q] # Nothing => heap'[held[q].nested] = heap[held[q].nested]
        BY <1>1, <1>2, OtherCell
      <3> QED BY <2>2, <3>1, <3>2 DEF Seen, StateOf
    <2> QED BY <2>1, <2>2
  <1>5. Copies' = [Copies EXCEPT ![r] = Saved]
    BY <1>4 DEF Copies
  <1>6. Saved' = Saved /\ Seen(next)' = Seen(next) /\ Seen(next) = Atomic!Nothing
    BY <1>1, SavedKept DEF Seen, Nothing, Atomic!Nothing
  <1> QED BY <1>1, <1>5, <1>6 DEF Atomic!Read, Copies

LEMMA LockRefines ==
  ASSUME Inv, NEW c \in Cell, Lock(c)
  PROVE  Atomic!Begin
  <1> DEFINE clone == cloneState(live, c)
  <1>1. /\ TypeOK /\ pc = "idle" /\ next = Nothing /\ live \in Struct
        /\ c \notin InUse /\ StateOf(live) = Saved
        /\ next' = clone /\ heap' = [heap EXCEPT ![c] = heap[live.nested]] /\ pc' = "callback"
        /\ result' = "none" /\ UNCHANGED <<live, held, disk, tmp>>
    BY DEF Inv, Lock, Copied, Phases, TypeOK, LiveIsSaved
  <1>2. \A q \in Reader : held[q] # Nothing => heap'[held[q].nested] = heap[held[q].nested]
    BY <1>1, OtherCell DEF InUse, TypeOK
  <1>3. /\ clone # Nothing
        /\ [plain |-> clone.plain, secret |-> clone.secret, nested |-> heap'[clone.nested]] = Saved
    <2> HIDE DEF clone
    <2>1. /\ clone \in Struct /\ clone.nested = c
          /\ [plain |-> clone.plain, secret |-> clone.secret, nested |-> heap'[c]] = StateOf(live)
      BY <1>1, CopyOf DEF clone
    <2> QED BY <1>1, <2>1, Marks
  <1>4. Seen(next)' = Saved
    <2> HIDE DEF clone
    <2> QED BY <1>1, <1>3 DEF Seen, StateOf
  <1>5. Copies' = Copies /\ Saved' = Saved
    BY <1>1, <1>2, CopiesKept, SavedKept
  <1>6. Seen(next) = Atomic!Nothing
    BY <1>1 DEF Seen, Nothing, Atomic!Nothing
  <1> QED BY <1>1, <1>4, <1>5, <1>6 DEF Atomic!Begin, Copies

LEMMA EditRefines ==
  ASSUME Inv, Inv', NEW v \in Value, Edit(v)
  PROVE  Atomic!Edit
  <1>1. /\ TypeOK /\ pc = "callback" /\ next \in Struct /\ next # Nothing
        /\ UNCHANGED <<live, pc, held, disk, tmp, before, result>>
        /\ \A q \in Reader : held[q] # Nothing => held[q] \in Struct /\ held[q].nested # next.nested
    BY Marks DEF Inv, Edit, Phases, TypeOK, NoSharing
  <1>2. \A q \in Reader : held[q] # Nothing => heap'[held[q].nested] = heap[held[q].nested]
    <2>1. CASE heap' = heap
      BY <2>1
    <2>2. CASE heap' = [heap EXCEPT ![next.nested] = v]
      <3>1. next.nested \in Cell
        BY <1>1 DEF Struct
      <3> QED BY <1>1, <2>2, <3>1, OtherCell
    <2> QED BY <2>1, <2>2 DEF Edit
  <1>3. Copies' = Copies /\ Saved' = Saved
    BY <1>1, <1>2, CopiesKept, SavedKept
  <1>4. Seen(next) # Atomic!Nothing
    BY <1>1, StateOfType, Marks DEF Seen, Nothing, Atomic!Nothing
  <1>5. Seen(next)' \in State
    <2>1. next' \in Struct /\ next' # Nothing /\ heap' \in [Cell -> Value]
      BY <1>1, Marks DEF Inv, Phases, TypeOK
    <2> QED BY <2>1 DEF Seen, StateOf, Struct, State
  <1> QED BY <1>1, <1>3, <1>4, <1>5 DEF Atomic!Edit, Copies

(* The rename is the step at which the Update takes effect.                 *)
LEMMA RenameRefines ==
  ASSUME Inv, Rename
  PROVE  Atomic!Commit
  <1>1. /\ TypeOK /\ pc = "written" /\ pc' = "renamed" /\ disk' = tmp
        /\ tmp = stateToDisk(StateOf(next)) /\ next \in Struct /\ next # Nothing
        /\ UNCHANGED <<heap, live, next, held, before, result>>
    BY Marks DEF Rename, Inv, CompleteWhenRenamed, TypeOK, Phases
  <1>2. StateOf(next) \in State /\ tmp \in File /\ tmp # Missing
    BY <1>1, StateOfType, RoundTrip, Marks
  <1>3. Saved' = StateOf(next)
    BY <1>1, <1>2, RoundTrip DEF Saved
  <1>4. Seen(next) = StateOf(next) /\ Seen(next)' = Seen(next) /\ Seen(next) # Atomic!Nothing
    BY <1>1, <1>2, Marks DEF Seen, StateOf, Nothing, Atomic!Nothing
  <1>5. Copies' = Copies
    BY <1>1, CopiesKept
  <1> QED BY <1>1, <1>3, <1>4, <1>5 DEF Atomic!Commit, Copies

(* Installing and failing are the two ends of an Update.                    *)
LEMMA EndRefines ==
  ASSUME Inv, Install \/ CallbackFails \/ SaveFails
  PROVE  Atomic!End
  <1>1. /\ TypeOK /\ next \in Struct /\ next # Nothing
        /\ pc' = "idle" /\ next' = Nothing /\ UNCHANGED <<heap, held, disk>>
        /\ result' = IF pc = "renamed" THEN "ok" ELSE "error"
        /\ pc # "down"
    BY Marks DEF Inv, Phases, TypeOK, Install, CallbackFails, SaveFails, Return
  <1>2. Seen(next) # Atomic!Nothing /\ Seen(next)' = Atomic!Nothing
    BY <1>1, StateOfType, Marks DEF Seen, Nothing, Atomic!Nothing
  <1>3. Copies' = Copies /\ Saved' = Saved
    BY <1>1, CopiesKept, SavedKept
  <1> QED BY <1>1, <1>2, <1>3 DEF Atomic!End, Copies

LEMMA CrashRefines == Inv /\ Crash => Atomic!Crash
  BY SavedKept DEF Crash, Atomic!Crash, Seen, Nothing, Atomic!Nothing

LEMMA ForgetRefines ==
  ASSUME Inv, NEW r \in Reader, Forget(r)
  PROVE  Atomic!Forget(r)
  <1>1. /\ TypeOK /\ held' = [held EXCEPT ![r] = Nothing]
        /\ UNCHANGED <<heap, live, next, pc, disk, tmp, before, result>>
    BY DEF Inv, Forget
  <1>2. \A q \in Reader : Seen(held[q])' = IF q = r THEN Atomic!Nothing ELSE Seen(held[q])
    BY <1>1 DEF Seen, StateOf, TypeOK, Nothing, Atomic!Nothing
  <1>3. Copies' = [Copies EXCEPT ![r] = Atomic!Nothing]
    BY <1>2 DEF Copies
  <1>4. Saved' = Saved /\ Seen(next)' = Seen(next)
    BY <1>1, SavedKept DEF Seen, StateOf
  <1> QED BY <1>1, <1>3, <1>4 DEF Atomic!Forget, Copies

(* Writing the file beside, and steps that change nothing, are invisible.   *)
LEMMA StutterRefines ==
  ASSUME Inv, BeginSave \/ WriteTmp \/ UNCHANGED vars
  PROVE  UNCHANGED Atomic!vars
  <1>1. UNCHANGED <<heap, next, held, disk, result>> /\ (pc = "renamed") = (pc' = "renamed")
        /\ (pc # "down") = (pc' # "down")
    BY DEF BeginSave, WriteTmp, vars
  <1>2. Saved' = Saved /\ Seen(next)' = Seen(next) /\ Copies' = Copies
    BY <1>1, SavedKept DEF Seen, StateOf, Copies
  <1> QED BY <1>1, <1>2 DEF Atomic!vars, Copies

LEMMA NextRefines == Inv /\ Inv' /\ [Next]_vars => [Atomic!Next]_Atomic!vars
  BY OpenRefines, ReadRefines, LockRefines, EditRefines, RenameRefines, EndRefines,
     CrashRefines, ForgetRefines, StutterRefines
  DEF Next, Atomic!Next

(* Store implements the atomic store its callers are written against.       *)
THEOREM StoreIsAtomic == Spec => IsAtomic
  BY InitRefines, NextRefines, InvCorrect, PTL DEF Spec, IsAtomic, Atomic!Spec
=============================================================================
