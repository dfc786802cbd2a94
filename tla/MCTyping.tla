------------------------------ MODULE MCTyping ------------------------------
(***************************************************************************)
(* The instances of MCFakeKeyboard with the history of shared keys.        *)
(***************************************************************************)
EXTENDS MCFakeKeyboard, SharedKeys
=============================================================================
