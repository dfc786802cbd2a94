----------------------------- MODULE Mirroring ------------------------------
(***************************************************************************)
(* FakeTouchpad implements Mirror: the virtual touchpad is a mirror of the *)
(* touchpad's region of the sensor.  The frames that are still to come are *)
(* those that the unread events complete.                                  *)
(***************************************************************************)
EXTENDS FakeTouchpad

\* What can be seen of a contact at (x, y) of the sensor with tracking id t.
Seen(t, x, y) ==
  IF t # NoTid /\ PadContains(region, x, y)
  THEN [tid |-> t, at |-> PadPosition(hw, region, x, y)]
  ELSE [tid |-> NoTid]

\* What the slots of a device show, of which value(s, code) are the values.
View(value(_, _)) ==
  [s \in Slots |-> Seen(value(s, "ABS_MT_TRACKING_ID"), value(s, "ABS_MT_POSITION_X"),
                                                        value(s, "ABS_MT_POSITION_Y"))]

SensorView == LET value(s, c) == contacts[s][c] IN View(value)

SlotsView(slots) == LET value(s, c) == FindValueByEvent(slots[s], c) IN View(value)

PadView ==
  [s \in Slots |->
     IF pad[s]["ABS_MT_TRACKING_ID"] = NoTid THEN [tid |-> NoTid]
     ELSE [tid |-> pad[s]["ABS_MT_TRACKING_ID"],
           at  |-> [x |-> pad[s]["ABS_MT_POSITION_X"], y |-> pad[s]["ABS_MT_POSITION_Y"]]]]

\* The machine and the views of its SYN_REPORTs, after so many unread events.
Unread ==
  LET after[i \in 0 .. Len(events)] ==
        IF i = 0 THEN [machine |-> [slot |-> slot_, slots |-> slots_], views |-> <<>>]
        ELSE LET p == after[i - 1]
             IN  IF IsSyn(events[i])
                 THEN [p EXCEPT !.views = Append(@, SlotsView(p.machine.slots))]
                 ELSE [p EXCEPT !.machine = After(@, events[i])]
  IN  after[Len(events)].views

Abstract ==
  INSTANCE Mirror WITH
    Nothing  <- [s \in Slots |-> [tid |-> NoTid]],
    open     <- running,
    original <- SensorView,
    coming   <- IF running THEN Unread ELSE <<>>,
    shown    <- PadView

\* Every frame of the sensor arrives on the virtual touchpad, whole, once and in
\* order, with the contacts inside the region and no others, however the events
\* of frames pile up in front of the process; and none is left when it exits.
MirrorsRegion == Abstract!Spec
=============================================================================
