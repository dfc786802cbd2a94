----------------------------- MODULE Keystrokes -----------------------------
(***************************************************************************)
(* What a touch keyboard promises, contact by contact, without its queue,  *)
(* its clock and its event loop.  A contact that lands on a key is         *)
(* undecided; it is pressed once, or dropped, or ignored for the rest of   *)
(* its stay.  Whatever it pressed it releases once, when it slides off its *)
(* key or lifts; if it lifts before it was decided it leaves a tap behind, *)
(* a press with its release; if it was dropped, and lifts from its key, it *)
(* leaves a release that no press belongs to.  Presses and releases are    *)
(* owed for a while, and a release never overtakes the press of a tap.     *)
(*                                                                         *)
(* FakeKeyboard implements this under the mapping of module Typing.        *)
(***************************************************************************)
EXTENDS Integers

CONSTANTS
  Contacts,   \* names of contacts; a name may come back after it was lifted
  Codes       \* what keys type

VARIABLES
  alive,      \* whether the keyboard exists
  contact,    \* what each contact is to the keyboard
  taps,       \* for each code, how many presses are owed to lifted contacts
  releases,   \* for each code, how many releases are owed
  keys        \* the keys that are down

vars == <<alive, contact, taps, releases, keys>>

Away == [stage |-> "away", code |-> 0]
Ignored == [stage |-> "ignored", code |-> 0]
At(stage, code) == [stage |-> stage, code |-> code]

\* A contact that stands for a key is in one of these stages.
Stages == {"undecided", "pressed", "dropped"}

Become(t, what) == contact' = [contact EXCEPT ![t] = what]
Add(debts, code, n) == [debts EXCEPT ![code] = @ + n]

-----------------------------------------------------------------------------
Init ==
  /\ alive = TRUE
  /\ contact = [t \in Contacts |-> Away]
  /\ taps = [code \in Codes |-> 0]
  /\ releases = [code \in Codes |-> 0]
  /\ keys = {}

Land(t, code) ==
  /\ contact[t] = Away /\ Become(t, At("undecided", code))
  /\ UNCHANGED <<taps, releases, keys>>

LandBesideKeys(t) ==
  /\ contact[t] = Away /\ Become(t, Ignored)
  /\ UNCHANGED <<taps, releases, keys>>

Press(t, code) ==
  /\ contact[t] = At("undecided", code) /\ Become(t, At("pressed", code))
  /\ keys' = keys \cup {code}
  /\ UNCHANGED <<taps, releases>>

\* Its weight is not that of a tap.
Drop(t, code) ==
  /\ contact[t] = At("undecided", code) /\ Become(t, At("dropped", code))
  /\ UNCHANGED <<taps, releases, keys>>

SlideOff(t, code) ==
  /\ \E stage \in Stages : contact[t] = At(stage, code)
  /\ Become(t, Ignored)
  /\ releases' = IF contact[t].stage = "pressed" THEN Add(releases, code, 1) ELSE releases
  /\ UNCHANGED <<taps, keys>>

\* One release for each of the three stages: also for a contact that was dropped and
\* has pressed nothing.
Lift(t, code) ==
  /\ \E stage \in Stages : contact[t] = At(stage, code)
  /\ Become(t, Away)
  /\ taps' = IF contact[t].stage = "undecided" THEN Add(taps, code, 1) ELSE taps
  /\ releases' = Add(releases, code, 1)
  /\ UNCHANGED keys

LiftIgnored(t) ==
  /\ contact[t] = Ignored /\ Become(t, Away)
  /\ UNCHANGED <<taps, releases, keys>>

\* The press of a contact that is gone.
Tap(code) ==
  /\ taps[code] > 0
  /\ taps' = Add(taps, code, -1)
  /\ keys' = keys \cup {code}
  /\ UNCHANGED <<contact, releases>>

\* The release that belongs to a tap stays behind for it.
Release(code) ==
  /\ releases[code] > taps[code]
  /\ releases' = Add(releases, code, -1)
  /\ keys' = keys \ {code}
  /\ UNCHANGED <<contact, taps>>

Touch(t) ==
  \/ LandBesideKeys(t) \/ LiftIgnored(t)
  \/ \E code \in Codes :
       Land(t, code) \/ Press(t, code) \/ Drop(t, code) \/ SlideOff(t, code) \/ Lift(t, code)

Act == (\E t \in Contacts : Touch(t)) \/ (\E code \in Codes : Tap(code) \/ Release(code))

\* The keyboard is removed, and its keys come up.
Quit == alive' = FALSE /\ keys' = {} /\ UNCHANGED <<contact, taps, releases>>

Next == alive /\ ((Act /\ UNCHANGED alive) \/ Quit)

Spec == Init /\ [][Next]_vars

-----------------------------------------------------------------------------
\* What the promises come to: of every code enough releases are owed for the taps
\* to come, and a key that is down is under a contact that pressed it, or has a
\* release to come that is not a tap's.
NothingSticks ==
  \A code \in Codes :
    /\ taps[code] <= releases[code]
    /\ code \in keys =>
         \/ releases[code] > taps[code]
         \/ \E t \in Contacts : contact[t] = At("pressed", code)
=============================================================================
