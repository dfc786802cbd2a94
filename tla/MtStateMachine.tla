--------------------------- MODULE MtStateMachine ---------------------------
(***************************************************************************)
(* The multitouch state machine (statemachine/) behind the evdev device    *)
(* it reads.  The kernel sends the changes of a frame only, as a stream of *)
(* events, and announces the slot they belong to only when it changes; the *)
(* machine puts the contacts together again.                               *)
(*                                                                         *)
(* The device is modelled from what the code relies on: the changes of one *)
(* frame, slot by slot, with a SYN_REPORT behind them.  If the reader is   *)
(* so slow that its buffer fills up, the kernel empties it and puts        *)
(* SYN_DROPPED in front of what follows.                                   *)
(***************************************************************************)
EXTENDS Integers, FiniteSets, SequencesExt

CONSTANTS
  kNumSlots,    \* slots of the sensor and of the machine
  Tids,         \* the tracking ids of contacts
  AxisValues,   \* the values of every other axis: a function on axis codes
  BufferSize,   \* the reader's buffer overflows with so many events in it
  MaxBacklog    \* bound: no frame comes while more events than this are unread

kSlotMissingValue == -1
NoTid == -1           \* the tracking id of a slot without a contact

Slots == 0 .. kNumSlots - 1
Axes == DOMAIN AxisValues
Codes == Axes \cup {"ABS_MT_TRACKING_ID"}

ASSUME SlotsAssumption == kNumSlots \in Nat \ {0} /\ NoTid \notin Tids

ASSUME BufferAssumption == BufferSize \in Nat \ {0} /\ MaxBacklog \in 0 .. BufferSize - 1

ASSUME AxesAssumption ==
  /\ Axes \subseteq STRING /\ "ABS_MT_TRACKING_ID" \notin Axes
  /\ "ABS_MT_SLOT" \notin Axes /\ \A c \in Axes : AxisValues[c] \subseteq Nat
  /\ IsFiniteSet(Axes)

VARIABLES
  contacts,   \* the kernel's values of the sensor: slot -> code -> value
  kslot,      \* the slot the kernel announced last
  events,     \* the reader's buffer
  slot_,      \* MtStateMachine::slot_
  slots_      \* MtStateMachine::slots_: slot -> the codes it has seen -> value

sensor == <<contacts, kslot>>
machine == <<slot_, slots_>>

Abs(code, value) == [type |-> "EV_ABS", code |-> code, value |-> value]
Syn(code) == [type |-> "EV_SYN", code |-> code, value |-> 0]

-----------------------------------------------------------------------------
(* The sensor.                                                             *)

Touching(s) == contacts[s]["ABS_MT_TRACKING_ID"] # NoTid

\* The values of a slot whose tracking id is one of tids.
WithTids(tids) ==
  {d \in [Codes -> tids \cup UNION {AxisValues[a] : a \in Axes}] :
     /\ d["ABS_MT_TRACKING_ID"] \in tids
     /\ \A a \in Axes : d[a] \in AxisValues[a]}

\* What slot s may hold after a frame: the contact moves, lifts (its axes keep
\* their values), or is one that no slot had before.
NextContact(s) ==
  LET c == contacts[s]
      free == Tids \ {contacts[r]["ABS_MT_TRACKING_ID"] : r \in Slots}
  IN  {c} \cup WithTids(free)
      \cup (IF Touching(s)
            THEN WithTids({c["ABS_MT_TRACKING_ID"]})
                   \cup {[c EXCEPT !["ABS_MT_TRACKING_ID"] = NoTid]}
            ELSE {})

\* The events of slot s: only what changed, behind the slot if that is news.
SlotEvents(s, new, announced) ==
  LET changed == SetToSeq({c \in Codes : new[c] # contacts[s][c]})
  IN  IF changed = <<>> THEN <<>>
      ELSE (IF announced = s THEN <<>> ELSE <<Abs("ABS_MT_SLOT", s)>>)
           \o [i \in DOMAIN changed |-> Abs(changed[i], new[changed[i]])]

\* The slots' events in order, then the SYN_REPORT.
FrameEvents(new) ==
  LET changed == {s \in Slots : new[s] # contacts[s]}
      before(s) == {r \in changed : r < s}
      announced(s) == IF before(s) = {} THEN kslot ELSE Max(before(s))
      part == [s \in Slots |-> SlotEvents(s, new[s], announced(s))]
  IN  FlattenSeq([i \in 1 .. kNumSlots |-> part[i - 1]]) \o <<Syn("SYN_REPORT")>>

\* The buffer after the events of a frame: what fits before the overflow is lost
\* with all that was unread.
Buffered(evs) ==
  LET room == BufferSize - 1 - Len(events)
  IN  IF Len(evs) <= room THEN events \o evs
      ELSE <<Syn("SYN_DROPPED")>> \o SubSeq(evs, room + 1, Len(evs))

Frame ==
  /\ Len(events) <= MaxBacklog
  /\ \E new \in {f \in [Slots -> UNION {NextContact(s) : s \in Slots}] :
                   /\ \A s \in Slots : f[s] \in NextContact(s)
                   /\ \A s, r \in Slots :
                        s # r /\ f[s]["ABS_MT_TRACKING_ID"] # NoTid =>
                          f[s]["ABS_MT_TRACKING_ID"] # f[r]["ABS_MT_TRACKING_ID"]} :
       /\ new # contacts
       /\ contacts' = new
       /\ kslot' = Max({s \in Slots : new[s] # contacts[s]})
       /\ events' = Buffered(FrameEvents(new))
  /\ UNCHANGED machine

-----------------------------------------------------------------------------
(* The machine.                                                            *)

IsSyn(ev) == ev.type = "EV_SYN" /\ ev.code = "SYN_REPORT"
IsSlot(ev) == ev.type = "EV_ABS" /\ ev.code = "ABS_MT_SLOT"

FindValueByEvent(slot, code) ==
  IF code \in DOMAIN slot THEN slot[code] ELSE kSlotMissingValue

\* slots_[slot_][key] = ev.value.
Stored(m, ev) ==
  [m.slots EXCEPT ![m.slot] =
     [c \in DOMAIN @ \cup {ev.code} |-> IF c = ev.code THEN ev.value ELSE m.slots[m.slot][c]]]

\* Mutant: every frame starts at slot 0 again.
AfterFromSlot0(m, ev) ==
  IF IsSlot(ev) THEN [m EXCEPT !.slot = ev.value]
  ELSE IF IsSyn(ev) THEN [m EXCEPT !.slot = 0]
  ELSE IF ev.type = "EV_ABS" THEN [m EXCEPT !.slots = Stored(m, ev)]
  ELSE m

\* Mutant: an ABS_MT_SLOT is stored like any other event of EV_ABS.
AfterStoresSlot(m, ev) ==
  IF IsSlot(ev) THEN [slot |-> ev.value, slots |-> Stored(m, ev)]
  ELSE IF ev.type = "EV_ABS" THEN [m EXCEPT !.slots = Stored(m, ev)]
  ELSE m

\* The machine m after AddEvent(ev).
After(m, ev) ==
  IF IsSlot(ev) THEN [m EXCEPT !.slot = ev.value]
  ELSE IF ev.type = "EV_ABS" THEN [m EXCEPT !.slots = Stored(m, ev)]
  ELSE m

\* AddEvent(ev).  It returns IsSyn(ev): the frame is complete.
AddEvent(ev) ==
  LET m == After([slot |-> slot_, slots |-> slots_], ev)
  IN  slot_' = m.slot /\ slots_' = m.slots

\* FillSnapshot: the fingers by their tracking ids.
Snapshot ==
  LET tid(s) == FindValueByEvent(slots_[s], "ABS_MT_TRACKING_ID")
      live == {s \in Slots : tid(s) # kSlotMissingValue}
  IN  [t \in {tid(s) : s \in live} |->
         LET s == Max({r \in live : tid(r) = t})
         IN  [a \in Axes |-> FindValueByEvent(slots_[s], a)]]

-----------------------------------------------------------------------------
\* A sensor that nobody has touched yet.
Untouched ==
  /\ contacts = [s \in Slots |-> [c \in Codes |->
                   IF c = "ABS_MT_TRACKING_ID" THEN NoTid ELSE 0]]
  /\ kslot = 0

\* A sensor in use: the process starts at any time, also when udev adds the
\* device of a panel that fingers rest on.
InUse ==
  /\ contacts \in [Slots -> WithTids(Tids \cup {NoTid})]
  /\ \A s, r \in Slots : s # r /\ Touching(s) =>
       contacts[s]["ABS_MT_TRACKING_ID"] # contacts[r]["ABS_MT_TRACKING_ID"]
  /\ kslot \in Slots

\* A client that has just opened the device, and MtStateMachine().
MachineInit ==
  /\ events = <<>>
  /\ slot_ = 0
  /\ slots_ = [s \in Slots |-> <<>>]

\* Between frames the machine holds the sensor's contacts: the snapshot of the
\* keyboard has the fingers that touch, and no others, with the values of their
\* axes (-1 for an axis that still has the value 0 the kernel began with).
\* "mimicking the kernel's state machine" (README.upstream.md:45-47).
SnapshotIsSensor ==
  events = <<>> =>
    /\ DOMAIN Snapshot = {contacts[s]["ABS_MT_TRACKING_ID"] : s \in {r \in Slots : Touching(r)}}
    /\ \A s \in Slots : Touching(s) => \A a \in Axes :
         LET v == Snapshot[contacts[s]["ABS_MT_TRACKING_ID"]][a]
         IN  v = contacts[s][a] \/ (v = kSlotMissingValue /\ contacts[s][a] = 0)

\* Weaker, for a machine that may not know every finger: those it knows touch,
\* and are where the machine has them.
KnownFingersAreReal ==
  events = <<>> => \A t \in DOMAIN Snapshot : \E s \in Slots :
    /\ contacts[s]["ABS_MT_TRACKING_ID"] = t
    /\ \A a \in Axes : Snapshot[t][a] \in {contacts[s][a], kSlotMissingValue}
=============================================================================
