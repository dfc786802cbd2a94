------------------------------- MODULE Typing -------------------------------
(***************************************************************************)
(* FakeKeyboard implements Keystrokes: the mapping reads from the finger   *)
(* table and the queue what each contact is and what is owed.              *)
(***************************************************************************)
EXTENDS FakeKeyboard

\* What the keyboard has made of a tracking id.
Contact(tid) ==
  LET d == finger_data[tid]
      at(stage) == [stage |-> stage, code |-> d.event_code]
  IN  IF ~Live(tid) THEN [stage |-> "away", code |-> 0]
      ELSE IF Rejected(tid) THEN [stage |-> "ignored", code |-> 0]
      ELSE IF d.down_sent THEN at("pressed")
      ELSE IF EventsOf(pending_events, tid) # {} THEN at("undecided")
      ELSE at("dropped")

\* The pending events that nobody can revoke any more.
TapsOf(c) ==
  {i \in DOMAIN pending_events : /\ pending_events[i].is_down /\ pending_events[i].ev_code = c
                                 /\ ~Live(pending_events[i].tid)}
UpsOf(c) == {i \in DOMAIN pending_events : IsUp(i, c)}

Abstract ==
  INSTANCE Keystrokes WITH
    Contacts <- Tids,
    alive    <- pc # "exited",
    contact  <- [tid \in Tids |-> Contact(tid)],
    taps     <- [c \in Codes |-> Cardinality(TapsOf(c))],
    releases <- [c \in Codes |-> Cardinality(UpsOf(c))]

\* Every step of the keyboard is a step of Keystrokes or none, in whichever order
\* fingers land, slide and lift, events fire and the process falls behind: each
\* contact is decided once, each press that is sent is followed by one release of
\* its own, and the only release without a press is the one that a contact whose
\* tap was dropped leaves behind when it lifts (HandleLeavingFinger enqueues it,
\* see LeavingFingersWereSent).
TypesKeystrokes == Abstract!Spec
=============================================================================
