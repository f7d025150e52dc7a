--------------------------- MODULE MCLibTxBuffer ---------------------------
(***************************************************************************)
(* Model-checking module of LibTxBuffer.  The application's thread ends    *)
(* when the device is closed, and so does the transmit thread.             *)
(***************************************************************************)
EXTENDS LibTxBuffer
=============================================================================
