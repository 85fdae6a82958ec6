---------------------------- MODULE MCBridgeHost -----------------------------
(***************************************************************************)
(* BridgeHost with a window of a few samples of a heap of a few bytes.     *)
(***************************************************************************)
EXTENDS BridgeHost

(* A device that can lose its heap byte by byte *)
MCLeaking == 0..3
=============================================================================
