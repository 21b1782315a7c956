----------------------------- MODULE MCPrimer2 -----------------------------
(* Model checking Primer2: identifiers, keys, transaction ids and telemetry *)
(* images are only ever compared for equality, so they are interchangeable. *)
EXTENDS Primer2, TLC

Symmetry == Permutations(Ids) \cup Permutations(Keys) \cup Permutations(Txids)
              \cup Permutations(Telemetry)
=============================================================================
