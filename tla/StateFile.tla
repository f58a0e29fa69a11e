----------------------------- MODULE StateFile -----------------------------
(***************************************************************************)
(* The panel's Store (internal/panel/store.go): the state in memory behind *)
(* a lock, the file it is saved to, and crashes at any point.              *)
(*                                                                         *)
(* A state has fields of its own (a Go struct copies them), nested slices  *)
(* and maps (a Go struct shares them: they are a cell of the heap) and     *)
(* secrets, which the exported types hide from encoding/json.  Update      *)
(* holds the lock from cloneState to the end, so one writer is all there   *)
(* is at a time; Read lets go of it while its caller keeps what it got.    *)
(***************************************************************************)
CONSTANTS Value, Initial,   \* what a field may hold, and the default
          Cell,             \* heap cells
          Reader            \* goroutines that keep what a Read has given them

ASSUME InitialAssumption == Initial \in Value

VARIABLES
  heap,     \* the nested data
  live,     \* Store.st
  next,     \* the local variable of Update
  pc,       \* where Update is
  held,     \* held[r]: what reader r took out of its Read
  disk,     \* the state file
  tmp,      \* the file beside it that is renamed over it
  before,   \* history: the state in the file when the last Update began
  result    \* history: what the last Update returned

vars == <<heap, live, next, pc, held, disk, tmp, before, result>>

Nothing == [none |-> TRUE]
Missing == [missing |-> TRUE]
Torn == [torn |-> TRUE]

Struct == [plain : Value, secret : Value, nested : Cell]
State == [plain : Value, secret : Value, nested : Value]
File == [plain : Value, secretField : Value, nested : Value]

Default == [plain |-> Initial, secret |-> Initial, nested |-> Initial]

TypeOK ==
  /\ heap \in [Cell -> Value]
  /\ live \in Struct \cup {Nothing}
  /\ next \in Struct \cup {Nothing}
  /\ pc \in {"down", "idle", "callback", "saving", "written", "renamed"}
  /\ held \in [Reader -> Struct \cup {Nothing}]
  /\ disk \in File \cup {Missing}
  /\ tmp \in File \cup {Missing, Torn}
  /\ before \in State
  /\ result \in {"none", "ok", "error"}

-----------------------------------------------------------------------------
(* What a struct amounts to, with its nested data.                          *)
StateOf(struct) ==
  [plain |-> struct.plain, secret |-> struct.secret, nested |-> heap[struct.nested]]

(* The secrets are not in the JSON of a State: they have fields of their    *)
(* own in diskState.                                                        *)
stateToDisk(st) == [plain |-> st.plain, secretField |-> st.secret, nested |-> st.nested]

(* Slip: the secret is left at its zero value.                              *)
diskToStateWithoutSecret(file) ==
  [plain |-> file.plain, secret |-> Initial, nested |-> file.nested]

diskToState(file) ==
  [plain |-> file.plain, secret |-> file.secretField, nested |-> file.nested]

Saved == IF disk = Missing THEN Default ELSE diskToState(disk)

InUse == {x.nested : x \in ({live, next} \cup {held[r] : r \in Reader}) \ {Nothing}}

(* Slip: the copy shares its nested data with the original.                 *)
cloneStateShallow(struct, c) == struct

(* A copy of a struct whose nested data is in cell c of its own.            *)
cloneState(struct, c) == [struct EXCEPT !.nested = c]

Copied(c) == heap' = [heap EXCEPT ![c] = heap[live.nested]]

-----------------------------------------------------------------------------
Init ==
  /\ heap = [c \in Cell |-> Initial]
  /\ live = Nothing
  /\ next = Nothing
  /\ pc = "down"
  /\ held = [r \in Reader |-> Nothing]
  /\ disk = Missing
  /\ tmp = Missing
  /\ before = Default
  /\ result = "none"

OpenStore(c) ==
  /\ pc = "down"
  /\ live' = [plain |-> Saved.plain, secret |-> Saved.secret, nested |-> c]
  /\ heap' = [heap EXCEPT ![c] = Saved.nested]
  /\ pc' = "idle"
  /\ UNCHANGED <<next, held, disk, tmp, before, result>>

Read(r, c) ==
  /\ pc = "idle"
  /\ c \notin InUse
  /\ held' = [held EXCEPT ![r] = cloneState(live, c)]
  /\ Copied(c)
  /\ UNCHANGED <<live, next, pc, disk, tmp, before, result>>

(* The caller is done with what it read.                                    *)
Forget(r) ==
  /\ held' = [held EXCEPT ![r] = Nothing]
  /\ UNCHANGED <<heap, live, next, pc, disk, tmp, before, result>>

(* Update takes the lock and makes the copy its callback works on.          *)
Lock(c) ==
  /\ pc = "idle"
  /\ c \notin InUse
  /\ next' = cloneState(live, c)
  /\ Copied(c)
  /\ pc' = "callback"
  /\ before' = Saved
  /\ result' = "none"
  /\ UNCHANGED <<live, held, disk, tmp>>

(* The callback writes to its copy, fields or nested data, in any order.    *)
Edit(v) ==
  /\ pc = "callback"
  /\ \/ next' = [next EXCEPT !.plain = v] /\ heap' = heap
     \/ next' = [next EXCEPT !.secret = v] /\ heap' = heap
     \/ next' = next /\ heap' = [heap EXCEPT ![next.nested] = v]
  /\ UNCHANGED <<live, pc, held, disk, tmp, before, result>>

Return(outcome) ==
  /\ pc' = "idle"
  /\ next' = Nothing
  /\ result' = outcome
  /\ UNCHANGED <<heap, held, disk, before>>

CallbackFails ==
  /\ pc = "callback"
  /\ Return("error")
  /\ UNCHANGED <<live, tmp>>

(* Slip: the copy is installed before it is saved.                          *)
BeginSaveInstalled ==
  /\ pc = "callback"
  /\ pc' = "saving"
  /\ tmp' = Torn
  /\ live' = [next EXCEPT !.nested = live.nested]
  /\ UNCHANGED <<heap, next, held, disk, before, result>>

(* saveStateLocked: the file beside is written, then renamed.               *)
BeginSave ==
  /\ pc = "callback"
  /\ pc' = "saving"
  /\ tmp' = Torn
  /\ UNCHANGED <<heap, live, next, held, disk, before, result>>

WriteTmp ==
  /\ pc = "saving"
  /\ tmp' = stateToDisk(StateOf(next))
  /\ pc' = "written"
  /\ UNCHANGED <<heap, live, next, held, disk, before, result>>

Rename ==
  /\ pc = "written"
  /\ disk' = tmp
  /\ tmp' = Missing
  /\ pc' = "renamed"
  /\ UNCHANGED <<heap, live, next, held, before, result>>

(* No directory, a full disk, a failing rename.                             *)
SaveFails ==
  /\ pc \in {"callback", "saving", "written"}
  /\ Return("error")
  /\ UNCHANGED <<live, tmp>>

(* The saved copy becomes the state.                                        *)
Install ==
  /\ pc = "renamed"
  /\ live' = next
  /\ Return("ok")
  /\ UNCHANGED tmp

(* The process is killed: both files are as they are.                       *)
Crash ==
  /\ pc # "down"
  /\ pc' = "down"
  /\ live' = Nothing
  /\ next' = Nothing
  /\ held' = [r \in Reader |-> Nothing]
  /\ result' = "none"
  /\ UNCHANGED <<heap, disk, tmp, before>>

Next ==
  \/ \E c \in Cell : OpenStore(c) \/ Lock(c) \/ \E r \in Reader : Read(r, c)
  \/ \E r \in Reader : Forget(r)
  \/ \E v \in Value : Edit(v)
  \/ CallbackFails \/ BeginSave \/ WriteTmp \/ Rename \/ SaveFails \/ Install
  \/ Crash

Spec == Init /\ [][Next]_vars

-----------------------------------------------------------------------------
(* Every handler sees what a restart would find: the state in memory is the *)
(* saved one whenever the lock is free.                                     *)
LiveIsSaved == pc = "idle" => StateOf(live) = Saved

(* An Update that reports an error has changed neither the file nor the     *)
(* state in memory, and so has a crash before the rename                    *)
(* (TestStoreUpdateCallbackFailureDoesNotMutateState,                       *)
(* TestStoreUpdateSaveFailureDoesNotMutateState).                           *)
FailureChangesNothing ==
  /\ result = "error" => StateOf(live) = before /\ Saved = before
  /\ pc \in {"callback", "saving", "written"} => StateOf(live) = before /\ Saved = before

(* Nobody's nested data can be written through somebody else's copy         *)
(* (TestCloneStateDeepCopiesNewNestedSlices).                               *)
NoSharing ==
  /\ live # Nothing /\ next # Nothing => live.nested # next.nested
  /\ \A r \in Reader : held[r] # Nothing =>
       /\ \A x \in {live, next} \ {Nothing} : x.nested # held[r].nested
       /\ \A q \in Reader \ {r} : held[q] # Nothing => held[q].nested # held[r].nested

(* The file that is renamed is a complete one.                              *)
CompleteWhenRenamed == pc = "written" => tmp = stateToDisk(StateOf(next))

(* A renamed copy is what the file holds until it is installed.             *)
InstallsSaved == pc = "renamed" => next # Nothing /\ StateOf(next) = Saved

(* What there is in memory, phase by phase.                                 *)
Phases ==
  /\ pc = "down" <=> live = Nothing
  /\ pc \in {"callback", "saving", "written", "renamed"} <=> next # Nothing
  /\ pc = "down" => \A r \in Reader : held[r] = Nothing
  /\ result # "none" => pc = "idle"

(* The inductive invariant behind the refinement.                           *)
Inv ==
  /\ TypeOK
  /\ Phases
  /\ LiveIsSaved
  /\ FailureChangesNothing
  /\ NoSharing
  /\ CompleteWhenRenamed
  /\ InstallsSaved

Seen(x) == IF x = Nothing THEN Nothing ELSE StateOf(x)

(* The store the handlers are written against: what the file holds, taken   *)
(* at the rename, with every reader's copy as it finds it when it looks.    *)
Atomic ==
  INSTANCE AtomicStore WITH
    stored    <- Saved,
    proposal  <- Seen(next),
    committed <- pc = "renamed",
    copy      <- [r \in Reader |-> Seen(held[r])],
    up        <- pc # "down"

(* The detailed store implements the atomic one.                            *)
IsAtomic == Atomic!Spec
=============================================================================
