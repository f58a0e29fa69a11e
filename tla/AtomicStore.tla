---------------------------- MODULE AtomicStore ----------------------------
(***************************************************************************)
(* What the panel's handlers rely on: the store holds one state; an Update *)
(* works on a proposal that replaces the state in one step, or not at all  *)
(* if the Update reports an error; no crash takes a change back; a reader  *)
(* gets a copy of the state as it is, and its copy is its own.             *)
(***************************************************************************)
CONSTANTS State,     \* the states a panel can be in
          Default,   \* the state of a panel that has never been saved
          Reader     \* goroutines that hold what a Read has given them

VARIABLES stored,    \* the state of the panel
          proposal,  \* what the Update under way would make of it
          committed, \* that Update has taken effect
          result,    \* what the last Update has reported
          copy,      \* copy[r]: what reader r holds
          up         \* the process is running

vars == <<stored, proposal, committed, result, copy, up>>

Nothing == [none |-> TRUE]

Init ==
  /\ stored = Default
  /\ proposal = Nothing
  /\ committed = FALSE
  /\ result = "none"
  /\ copy = [r \in Reader |-> Nothing]
  /\ up = FALSE

Begin ==
  /\ up
  /\ proposal = Nothing
  /\ proposal' = stored
  /\ result' = "none"
  /\ UNCHANGED <<stored, committed, copy, up>>

Edit ==
  /\ proposal # Nothing /\ ~committed
  /\ proposal' \in State
  /\ UNCHANGED <<stored, committed, result, copy, up>>

Commit ==
  /\ proposal # Nothing /\ ~committed
  /\ stored' = proposal
  /\ committed' = TRUE
  /\ UNCHANGED <<proposal, result, copy, up>>

End ==
  /\ proposal # Nothing
  /\ proposal' = Nothing
  /\ committed' = FALSE
  /\ result' = IF committed THEN "ok" ELSE "error"
  /\ UNCHANGED <<stored, copy, up>>

(* Reading waits for the Update under way.                                  *)
Read(r) ==
  /\ up
  /\ proposal = Nothing
  /\ copy' = [copy EXCEPT ![r] = stored]
  /\ UNCHANGED <<stored, proposal, committed, result, up>>

Forget(r) ==
  /\ copy' = [copy EXCEPT ![r] = Nothing]
  /\ UNCHANGED <<stored, proposal, committed, result, up>>

Open ==
  /\ up' = TRUE
  /\ UNCHANGED <<stored, proposal, committed, result, copy>>

Crash ==
  /\ up' = FALSE
  /\ proposal' = Nothing
  /\ committed' = FALSE
  /\ result' = "none"
  /\ copy' = [r \in Reader |-> Nothing]
  /\ UNCHANGED stored

Next ==
  \/ Begin \/ Edit \/ Commit \/ End
  \/ \E r \in Reader : Read(r) \/ Forget(r)
  \/ Open \/ Crash

Spec == Init /\ [][Next]_vars
=============================================================================
