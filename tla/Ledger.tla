------------------------------- MODULE Ledger -------------------------------
(***************************************************************************)
(* What a user may expect of the bill for what Xray carries for him: every *)
(* byte waits to be charged first, is charged at most once, stays on the   *)
(* bill until a reset forgives the whole of it, and is not charged again.  *)
(* Bytes that wait may be lost, in his favour.                             *)
(***************************************************************************)
EXTENDS Naturals

VARIABLES carried,    \* bytes carried so far
          pending,    \* of these, the ones still to be charged
          charged,    \* the bill
          forgiven    \* what resets have taken off it

vars == <<carried, pending, charged, forgiven>>

Init == carried = 0 /\ pending = 0 /\ charged = 0 /\ forgiven = 0

Carry ==
  /\ carried' = carried + 1
  /\ pending' = pending + 1
  /\ UNCHANGED <<charged, forgiven>>

Charge ==
  /\ \E n \in 1..pending : pending' = pending - n /\ charged' = charged + n
  /\ UNCHANGED <<carried, forgiven>>

Lose ==
  /\ \E n \in 1..pending : pending' = pending - n
  /\ UNCHANGED <<carried, charged, forgiven>>

Reset ==
  /\ forgiven' = forgiven + charged
  /\ charged' = 0
  /\ UNCHANGED <<carried, pending>>

Next == Carry \/ Charge \/ Lose \/ Reset

Spec == Init /\ [][Next]_vars
=============================================================================
