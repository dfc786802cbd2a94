--------------------------- MODULE MCFakeKeyboard ---------------------------
(***************************************************************************)
(* Small instances of FakeKeyboard for TLC.  Three keys: a letter that the *)
(* Fn layer turns into another one, the Fn key, and the space bar, which   *)
(* accepts heavy taps; and one point outside of every key.                 *)
(***************************************************************************)
EXTENDS FakeKeyboard

CONSTANTS t1, t2, t3, old, onLetter, onFn, onSpace, offKeys

KEY_F1 == 59
KEY_MUTE == 113

MCPoints == {onLetter, onFn, onSpace, offKeys}

MCLayout ==
  << [event_code |-> KEY_F1, event_code_fn |-> KEY_MUTE, area |-> {onLetter}],
     [event_code |-> KEY_FN, event_code_fn |-> 0, area |-> {onFn}],
     [event_code |-> KEY_SPACE, event_code_fn |-> 0, area |-> {onSpace}] >>

Report(pos, p, major) == [pos |-> pos, p |-> p, touch_major |-> major]

\* Taps of two keys that make one code depend on the other, and a slide.
FnReports == {Report(onLetter, 80, 1000), Report(onFn, 80, 1000),
              Report(offKeys, 80, 1000)}

\* One key: taps and slides of many fingers.
SlideReports == {Report(onLetter, 80, 1000), Report(offKeys, 80, 1000)}

\* Taps that are valid and taps that are too light, and slides.
MixedReports == SlideReports \cup {Report(onLetter, kMinTapPressure - 1, 1000)}

\* Taps of every weight, on an ordinary key and on the space bar.  A slot whose
\* pressure was never reported reads -1, and then the diameters decide.
WeightReports ==
  {Report(onLetter, kMinTapPressure - 1, 1000),
   Report(onLetter, kMinTapPressure, 1000),
   Report(onLetter, kMaxTapPressure + 1, 1000),
   Report(onSpace, kMaxTapPressure + 1, 1000),
   Report(onLetter, -1, kMinTapTouchDiameter - 1),
   Report(onLetter, -1, kMaxTapTouchDiameter),
   Report(onLetter, -1, kMaxTapTouchDiameter + 1),
   Report(onSpace, -1, kMaxTapTouchDiameter + 1),
   Report(offKeys, -1, 1000)}

Symmetric == Permutations(Tids)
=============================================================================
