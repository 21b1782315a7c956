----------------------------- MODULE MCHostLink -----------------------------
(* HostLink with a symmetry set: payloads are only compared for equality.   *)
EXTENDS HostLink, TLC

PayloadSymmetry == Permutations(Args)
=============================================================================
