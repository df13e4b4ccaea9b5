----------------------------- MODULE MCBleKeyboard -----------------------------
(***************************************************************************)
(* The keyboard with a password of four characters, of which two equal     *)
(* ones follow each other and one is not typed, and three connections.     *)
(***************************************************************************)
EXTENDS BleKeyboard

MCPassword == <<"a", "a", "return", "b">>
=============================================================================
