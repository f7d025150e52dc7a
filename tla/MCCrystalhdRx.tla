--------------------------- MODULE MCCrystalhdRx ---------------------------
(***************************************************************************)
(* Model-checking parameters of CrystalhdRx.                               *)
(***************************************************************************)
EXTENDS CrystalhdRx, TLC

Luma == {"y"}               \* 422 mode
LumaChroma == {"y", "uv"}   \* 420 mode

Start == {"start"}
PauseResume == {"pause", "resume"}
StartFlush == {"start", "flush", "discard"}

UnderFifo == {"under", "fifo"}
Complete == {"under"}
AllPictures == {"fresh", "repeat", "garbage"}
Fresh == {"fresh"}
Garbage == {"garbage"}

\* The packets are interchangeable: no action or property orders them.
PktSymmetry == Permutations(Pkt)
=============================================================================
