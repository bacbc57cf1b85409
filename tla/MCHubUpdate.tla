----------------------------- MODULE MCHubUpdate ----------------------------
(***************************************************************************)
(* HubUpdate for TLC: two releases of remote-icmp, the second as large as   *)
(* may be; the first has no binary for the UI, and the second one that is  *)
(* too large.                                                              *)
(***************************************************************************)
EXTENDS HubUpdate, TLC

Assets == [g \in Releases |-> IF g = 1 THEN Capable ELSE Targets]
Sizes == [g \in Releases |-> [t \in Targets |-> IF g = 2 /\ t = UI THEN 3 ELSE g]]
Symmetric == Permutations(Requests)
=============================================================================
