---------------------------- MODULE MCDeployment ----------------------------
(* Small instances of Deployment.  Symmetry is sound: keys, jobs and       *)
(* handlers are only compared for equality.                                *)
EXTENDS Deployment, FiniteSets, TLC

Symmetry == Permutations(Key) \cup Permutations(Job) \cup Permutations(Handler)

(* Jobs side by side meet all faults but the last, which a job meets alone. *)
OneAtLast ==
  faults = MaxFaults => Cardinality({d \in Job : job[d] # Idle}) <= 1
=============================================================================
