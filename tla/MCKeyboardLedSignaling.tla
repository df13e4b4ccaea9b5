------------------------ MODULE MCKeyboardLedSignaling ------------------------
(***************************************************************************)
(* The decoder with bytes of two bits: frames of up to three payload bytes *)
(* and a timeout of three ticks.                                           *)
(***************************************************************************)
EXTENDS Screen

MCSizeOf == [b \in Byte |-> (IF b[0] THEN 1 ELSE 0) + (IF b[1] THEN 2 ELSE 0)]
=============================================================================
