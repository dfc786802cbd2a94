---------------------------- MODULE FakeTouchpad ----------------------------
(***************************************************************************)
(* The touchpad process: class FakeTouchpad (faketouchpad.cc,              *)
(* faketouchpad.h) on its state machine, and the virtual touchpad it       *)
(* writes to.  After every SYN_REPORT of the sensor the process writes all *)
(* of its slots and a SYN_REPORT; readers of the virtual device see the    *)
(* result as one frame, so it is one step here.                            *)
(***************************************************************************)
EXTENDS MtStateMachine, Geometry

CONSTANTS
  hw,       \* hw_config_
  region    \* xmin_, xmax_, ymin_, ymax_: a record of x1, x2, y1, y2

ASSUME RegionAssumption ==
  /\ hw.rotation \in {0, 90, 180, 270}
  /\ {region.x1, region.x2, region.y1, region.y2} \subseteq Nat

\* The contacts of the sensor have a position.
ASSUME PositionAssumption == {"ABS_MT_POSITION_X", "ABS_MT_POSITION_Y"} \subseteq Axes

\* Mutant: tracking ids are not passed on.
SupportedWithoutTid == {"ABS_MT_PRESSURE", "ABS_MT_POSITION_X", "ABS_MT_POSITION_Y"}

\* The codes the touchpad passes on: IsSupportedForTouchpads.
Supported == {"ABS_MT_TRACKING_ID", "ABS_MT_PRESSURE", "ABS_MT_POSITION_X",
              "ABS_MT_POSITION_Y", "ABS_MT_TOUCH_MAJOR", "ABS_MT_TOUCH_MINOR"}

Buttons == {"BTN_TOUCH", "BTN_TOOL_FINGER", "BTN_TOOL_DOUBLETAP",
            "BTN_TOOL_TRIPLETAP", "BTN_TOOL_QUADTAP"}

VARIABLES
  running,             \* whether the process runs and its device exists
  slot_memberships_,
  pad,                 \* the kernel's values of the virtual touchpad
  buttons              \* the buttons the kernel holds down on it

vars == <<contacts, kslot, events, slot_, slots_, running, slot_memberships_, pad, buttons>>

-----------------------------------------------------------------------------
InRegion(slot) ==
  PadContains(region, FindValueByEvent(slot, "ABS_MT_POSITION_X"),
                      FindValueByEvent(slot, "ABS_MT_POSITION_Y"))

\* The code and the value PassEventsThrough sends for the pair of a slot.
OutCode(code) ==
  IF hw.rotation \in {0, 180} THEN code
  ELSE IF code = "ABS_MT_POSITION_X" THEN "ABS_MT_POSITION_Y"
  ELSE IF code = "ABS_MT_POSITION_Y" THEN "ABS_MT_POSITION_X"
  ELSE code

OutValue(slot, code) ==
  LET at == PadPosition(hw, region, FindValueByEvent(slot, "ABS_MT_POSITION_X"),
                                    FindValueByEvent(slot, "ABS_MT_POSITION_Y"))
  IN  IF OutCode(code) = "ABS_MT_POSITION_X" THEN at.x
      ELSE IF OutCode(code) = "ABS_MT_POSITION_Y" THEN at.y
      ELSE slot[code]

\* Mutant: a contact that leaves the region is forgotten without a word.
SyncedWithoutLeaving(s) ==
  LET slot == slots_[s]
      sent == {c \in DOMAIN slot : c \in Supported}
  IN  IF ~InRegion(slot) THEN pad[s]
      ELSE [c \in DOMAIN pad[s] |->
              IF \E d \in sent : OutCode(d) = c
              THEN OutValue(slot, CHOOSE d \in sent : OutCode(d) = c)
              ELSE pad[s][c]]

\* SyncTouchEvents, for one slot: what the virtual touchpad holds after the
\* tracking id of a contact that enters or leaves, and the pairs passed through.
Synced(s) ==
  LET slot == slots_[s]
      sent == {c \in DOMAIN slot : c \in Supported}
      tid  == FindValueByEvent(slot, "ABS_MT_TRACKING_ID")
  IN  IF ~InRegion(slot)
      THEN IF slot_memberships_[s]
           THEN [pad[s] EXCEPT !["ABS_MT_TRACKING_ID"] = NoTid]
           ELSE pad[s]
      ELSE [c \in DOMAIN pad[s] |->
              IF \E d \in sent : OutCode(d) = c
              THEN OutValue(slot, CHOOSE d \in sent : OutCode(d) = c)
              ELSE IF c = "ABS_MT_TRACKING_ID" /\ ~slot_memberships_[s]
              THEN tid
              ELSE pad[s][c]]

\* The contacts SyncTouchEvents counts.
Touches ==
  {s \in Slots : /\ InRegion(slots_[s])
                 /\ "ABS_MT_TRACKING_ID" \in DOMAIN slots_[s]
                 /\ slots_[s]["ABS_MT_TRACKING_ID"] # NoTid}

\* Mutant: the contacts of the whole sensor are counted.
ButtonsOfSensor ==
  LET n == Cardinality({s \in Slots :
             FindValueByEvent(slots_[s], "ABS_MT_TRACKING_ID") # NoTid})
  IN  (IF n > 0 THEN {"BTN_TOUCH"} ELSE {})
      \cup (IF n = 1 THEN {"BTN_TOOL_FINGER"} ELSE {})
      \cup (IF n = 2 THEN {"BTN_TOOL_DOUBLETAP"} ELSE {})
      \cup (IF n = 3 THEN {"BTN_TOOL_TRIPLETAP"} ELSE {})
      \cup (IF n = 4 THEN {"BTN_TOOL_QUADTAP"} ELSE {})

\* SendTouchpadBtnEvents(touch_count).
ButtonsDown ==
  LET touch_count == Cardinality(Touches)
  IN  (IF touch_count > 0 THEN {"BTN_TOUCH"} ELSE {})
      \cup (IF touch_count = 1 THEN {"BTN_TOOL_FINGER"} ELSE {})
      \cup (IF touch_count = 2 THEN {"BTN_TOOL_DOUBLETAP"} ELSE {})
      \cup (IF touch_count = 3 THEN {"BTN_TOOL_TRIPLETAP"} ELSE {})
      \cup (IF touch_count = 4 THEN {"BTN_TOOL_QUADTAP"} ELSE {})

-----------------------------------------------------------------------------
Start ==
  /\ MachineInit
  /\ running = TRUE
  /\ slot_memberships_ = [s \in Slots |-> FALSE]
  /\ pad = [s \in Slots |-> [c \in Codes |->
              IF c = "ABS_MT_TRACKING_ID" THEN NoTid ELSE 0]]
  /\ buttons = {}

Init == Untouched /\ Start

SensorFrame == Frame /\ UNCHANGED <<running, slot_memberships_, pad, buttons>>

\* An event that does not complete a frame.
ReadEvent ==
  /\ running /\ events # <<>> /\ ~IsSyn(Head(events))
  /\ AddEvent(Head(events))
  /\ events' = Tail(events)
  /\ UNCHANGED <<sensor, running, slot_memberships_, pad, buttons>>

\* Mutant: a frame that has a successor already is not worth sending.
ReadSynUnlessLate ==
  /\ running /\ events # <<>> /\ IsSyn(Head(events))
  /\ AddEvent(Head(events))
  /\ events' = Tail(events)
  /\ IF \E i \in 2 .. Len(events) : IsSyn(events[i])
     THEN UNCHANGED <<pad, slot_memberships_, buttons>>
     ELSE /\ pad' = [s \in Slots |-> Synced(s)]
          /\ slot_memberships_' = [s \in Slots |-> InRegion(slots_[s])]
          /\ buttons' = ButtonsDown
  /\ UNCHANGED <<sensor, running>>

\* The SYN_REPORT: the whole of SyncTouchEvents and SendTouchpadBtnEvents.
ReadSyn ==
  /\ running /\ events # <<>> /\ IsSyn(Head(events))
  /\ AddEvent(Head(events))
  /\ events' = Tail(events)
  /\ pad' = [s \in Slots |-> Synced(s)]
  /\ slot_memberships_' = [s \in Slots |-> InRegion(slots_[s])]
  /\ buttons' = ButtonsDown
  /\ UNCHANGED <<sensor, running>>

\* The sensor goes away: read() fails, the process exits, and the kernel takes
\* the virtual touchpad and its contacts with it.
ReadFails ==
  /\ running
  /\ running' = FALSE
  /\ pad' = [s \in Slots |-> [pad[s] EXCEPT !["ABS_MT_TRACKING_ID"] = NoTid]]
  /\ buttons' = {}
  /\ UNCHANGED <<sensor, machine, events, slot_memberships_>>

Gone == ~running /\ UNCHANGED vars

Consume == ReadEvent \/ ReadSyn

Next == (running /\ SensorFrame) \/ Consume \/ ReadFails \/ Gone

Spec == Init /\ [][Next]_vars

\* The process starts while the sensor is in use.
LateSpec == InUse /\ Start /\ [][Next]_vars

\* The process reads what is there to read.  Nobody has to touch the sensor.
FairSpec == Spec /\ WF_vars(Consume)

-----------------------------------------------------------------------------
TypeOK ==
  /\ DOMAIN contacts = Slots /\ \A s \in Slots : DOMAIN contacts[s] = Codes
  /\ kslot \in Slots /\ slot_ \in Slots
  /\ \A s \in Slots : DOMAIN slots_[s] \subseteq Codes
  /\ slot_memberships_ \in [Slots -> BOOLEAN]
  /\ \A s \in Slots : DOMAIN pad[s] = Codes
  /\ buttons \subseteq Buttons /\ running \in BOOLEAN

OnPad(s) ==
  /\ Touching(s)
  /\ PadContains(region, contacts[s]["ABS_MT_POSITION_X"],
                         contacts[s]["ABS_MT_POSITION_Y"])

\* Between frames a slot of the virtual touchpad holds the contact of the same
\* slot of the sensor if it touches inside the region, at the place seen from
\* the region's corner, and no contact otherwise - whatever mixture of lifting,
\* landing, entering and leaving the frames before were.
PadShowsContacts ==
  running /\ events = <<>> => \A s \in Slots :
    /\ pad[s]["ABS_MT_TRACKING_ID"] =
         IF OnPad(s) THEN contacts[s]["ABS_MT_TRACKING_ID"] ELSE NoTid
    /\ OnPad(s) =>
         LET at == PadPosition(hw, region, contacts[s]["ABS_MT_POSITION_X"],
                                           contacts[s]["ABS_MT_POSITION_Y"])
         IN  /\ pad[s]["ABS_MT_POSITION_X"] = at.x
             /\ pad[s]["ABS_MT_POSITION_Y"] = at.y

\* In every frame the readers of the virtual touchpad see, its buttons are those
\* of its contacts: the touch button for any, the tool button of their number.
ButtonsCountContacts ==
  LET n == Cardinality({s \in Slots : pad[s]["ABS_MT_TRACKING_ID"] # NoTid})
  IN  /\ "BTN_TOUCH" \in buttons <=> n > 0
      /\ "BTN_TOOL_FINGER" \in buttons <=> n = 1
      /\ "BTN_TOOL_DOUBLETAP" \in buttons <=> n = 2
      /\ "BTN_TOOL_TRIPLETAP" \in buttons <=> n = 3
      /\ "BTN_TOOL_QUADTAP" \in buttons <=> n = 4

\* A contact that is lifted leaves the virtual touchpad, however fast the sensor
\* goes on.
LiftedContactsLeave ==
  \A s \in Slots, t \in Tids :
    contacts[s]["ABS_MT_TRACKING_ID"] # t ~> pad[s]["ABS_MT_TRACKING_ID"] # t
=============================================================================
