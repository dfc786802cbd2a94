---------------------------- MODULE MCKeystrokes ----------------------------
(***************************************************************************)
(* The instance of MCFakeKeyboard that implements Keystrokes: one key.     *)
(***************************************************************************)
EXTENDS MCFakeKeyboard, Typing

LetterLayout == SubSeq(MCLayout, 1, 1)
=============================================================================
