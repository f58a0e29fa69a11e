--------------------------- MODULE MCProvisioning ---------------------------
(* A small instance of Provisioning.  Symmetry is sound: these values are  *)
(* only compared for equality.                                             *)
EXTENDS Provisioning

Symmetry ==
  UNION {Permutations(S) : S \in {Request, Tunnel, Name, User, Peer, Address}}

(* Tunnels share neither rows nor nodes' files with forwards and devices:   *)
(* a behaviour has the ones or the others.                                  *)
Separately == used \subseteq Tunnel \/ used \cap Tunnel = {}
=============================================================================
