--------------------------- MODULE MCCrystalhdTx ---------------------------
(***************************************************************************)
(* Model-checking parameters of CrystalhdTx.                               *)
(***************************************************************************)
EXTENDS CrystalhdTx, TLC

DoneOrError == {"done", "error"}
Done == {"done"}

Undisturbed == ~disturbed

\* Packets, requests and writers are interchangeable.
TxSymmetry ==
    Permutations(Pkt) \cup Permutations(Dio) \cup Permutations(Writers)
=============================================================================
