------------------------ MODULE MCCrystalhdFirmware ------------------------
(***************************************************************************)
(* Model-checking parameters of CrystalhdFirmware.                         *)
(***************************************************************************)
EXTENDS CrystalhdFirmware, TLC

\* Blocks are interchangeable.
PibSymmetry == Permutations(Pib)
=============================================================================
