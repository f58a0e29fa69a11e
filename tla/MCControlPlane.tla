--------------------------- MODULE MCControlPlane ---------------------------
(* Small instances of ControlPlane.  Symmetry is sound: the elements of    *)
(* each of these sets are only compared for equality, and the saved states *)
(* do not tell them apart.                                                 *)
EXTENDS ControlPlane, TLC

Symmetry == UNION {Permutations(S) : S \in
  {Req, NodeId, InboundId, OutboundId, GroupId, ClientId, Name, Slot, Tag}}

Up == [usable |-> TRUE]

(* A panel with every node up and every user known. *)
NodesAndUsers ==
  {[EmptyStore EXCEPT !.nodes = [n \in NodeId |-> Up], !.users = UserId]}

(* A panel nobody has used yet. *)
Blank == {EmptyStore}
=============================================================================
