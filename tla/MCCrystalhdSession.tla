------------------------- MODULE MCCrystalhdSession -------------------------
(***************************************************************************)
(* Model-checking parameters of CrystalhdSession.                          *)
(***************************************************************************)
EXTENDS CrystalhdSession, TLC

\* Files are interchangeable.
FileSymmetry == Permutations(File)
=============================================================================
