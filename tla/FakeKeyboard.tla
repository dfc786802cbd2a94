---------------------------- MODULE FakeKeyboard ----------------------------
(***************************************************************************)
(* The keyboard process of the touch keyboard handler: class FakeKeyboard  *)
(* (fakekeyboard.cc, fakekeyboard.h), its event loop Consume() with the    *)
(* select()/read() of EvdevSource::GetNextEvent (evdevsource.cc), and what *)
(* the process can see of the kernel: the touch sensor that feeds it and   *)
(* the virtual keyboard it writes to.                                      *)
(*                                                                         *)
(* Time.  clock_gettime() values only matter relative to the deadlines of  *)
(* the pending events, so an event carries  due, the ticks left until its  *)
(* deadline (negative once it is overdue), and Tick lets every pending     *)
(* event age.  A millisecond is TicksPerMs ticks, so that the rounding of  *)
(* the timeout to whole milliseconds is part of the model.                 *)
(*                                                                         *)
(* Control.  pc tells where Consume() is:                                  *)
(*   "top"      the loop head, about to read the clock (line 341)          *)
(*   "select"   inside select(), with  timer  ticks to go                  *)
(*   "read"     inside read(), without a timeout                           *)
(*   "process"  inside ProcessIncomingSnapshot                             *)
(*   "fire"     the loop over the pending events                           *)
(*   "exited"   read() threw: main() has left, the uinput device is gone   *)
(* The clock is read once per iteration after GetNextEvent, and that value *)
(* serves "process" and "fire": their duration is spent at "top".          *)
(***************************************************************************)
EXTENDS Integers, FiniteSets, SequencesExt

CONSTANTS
  Tids,         \* tracking ids the touch sensor gives to its contacts
  kOldTID,      \* the tracking id of events that belong to no finger
  Points,       \* positions of the sensor
  Layout,       \* the keys: a sequence of [event_code, event_code_fn, area],
                \* area being the set of points the key contains
  Reports,      \* what a snapshot says of a finger: [pos, p, touch_major]
  kEventDelay,  \* ticks between an event's creation and its deadline
  TicksPerMs,   \* ticks in a millisecond, the unit of GetNextEvent's timeout
  MaxLag,       \* bound: ticks the process may lose between two waits
  MaxFrame      \* bound: input_events in one frame, its SYN_REPORT included

kNoKey == 0                     \* keys are numbered from 1 here
KEY_SPACE == 57
KEY_FN == 464

kMinTapPressure == 50
kMaxTapPressure == 110
kMinTapTouchDiameter == 300
kMaxTapTouchDiameter == 3000

Keys == 1 .. Len(Layout)
Codes == {Layout[k].event_code : k \in Keys}
           \cup ({Layout[k].event_code_fn : k \in Keys} \ {0})

ASSUME TidsAssumption == kOldTID \notin Tids /\ IsFiniteSet(Tids)

ASSUME LayoutAssumption ==
  /\ Layout \in Seq([event_code : Nat \ {0}, event_code_fn : Nat,
                     area : SUBSET Points])
  /\ Reports \subseteq [pos : Points, p : Int, touch_major : Int]

ASSUME TimeAssumption ==
  /\ TicksPerMs \in Nat \ {0}
  /\ kEventDelay \in Nat \ {0}
  /\ MaxLag \in Nat
  /\ MaxFrame \in Nat \ {0, 1}

\* An event more than 2 ms late behaves like one that is 2 ms late: its timeout
\* is negative, and it is ready to fire.  due stops there.
Horizon == 2 * TicksPerMs

\* Fingers are rejected for the reasons of enum RejectionStatus that the code
\* assigns; kRejectAlreadyComplete is assigned nowhere.
RejectionStatus ==
  {"kNotRejectedYet", "kRejectTouchdownOffKey", "kRejectMovedOffKey"}

\* arrival_time_ is left out: nothing reads it.
FingerData ==
  [max_pressure : Int, max_touch_major : Int,
   starting_key_number : Keys \cup {kNoKey}, event_code : Codes \cup {0},
   down_sent : BOOLEAN, rejection_status : RejectionStatus]

Event ==
  [ev_code : Codes, is_down : BOOLEAN, tid : Tids \cup {kOldTID},
   is_guaranteed : BOOLEAN, due : -Horizon .. kEventDelay]

VARIABLES
  pc,              \* where Consume() is
  finger_data,     \* finger_data_: a function on the tids it knows
  pending_events,  \* pending_events_, the queue
  fn_key_pressed,  \* fn_key_pressed_
  needs_syn,       \* the local variable of one iteration of Consume()
  timer,           \* ticks until the select() times out
  lag,             \* ticks the process has lost since it last waited
  unread,          \* events of the current frame still in the source device
  snap,            \* the snapshot being processed: a function on its tids
  todo,            \* the tids of snap the first loop has not visited yet
  keys,            \* the keys the kernel holds down on the virtual keyboard
  seen             \* the keys its readers know to be down (up to the last SYN)

vars == <<pc, finger_data, pending_events, fn_key_pressed, needs_syn, timer,
          lag, unread, snap, todo, keys, seen>>

queue == <<finger_data, pending_events, fn_key_pressed>>
clock == <<timer, lag>>
frame == <<unread, snap, todo>>
output == <<needs_syn, keys, seen>>

NoFingers == [t \in {} |-> 0]
Live(tid) == tid \in DOMAIN finger_data
Rejected(tid) == finger_data[tid].rejection_status # "kNotRejectedYet"

-----------------------------------------------------------------------------
(* The layout.                                                             *)

KeyContains(k, pos) == pos \in Layout[k].area

\* The first key of the layout that contains pos.
KeyAt(pos) ==
  LET hit == {k \in Keys : KeyContains(k, pos)}
  IN  IF hit = {} THEN kNoKey ELSE CHOOSE k \in hit : \A h \in hit : k <= h

\* Mutant: a key without a second code types its code 0 on the Fn layer.
CodeForWithoutFnCheck(k) ==
  IF fn_key_pressed THEN Layout[k].event_code_fn ELSE Layout[k].event_code

\* The code a finger that lands on key k types.
CodeFor(k) ==
  IF fn_key_pressed /\ Layout[k].event_code_fn # 0
  THEN Layout[k].event_code_fn
  ELSE Layout[k].event_code

StillOnFirstKey(pos, d) ==
  /\ d.starting_key_number # kNoKey
  /\ KeyContains(d.starting_key_number, pos)

\* The check of a tap before its event fires: pressure where the sensor
\* reports it (-1 says it does not), else the diameter of the contact.
TapOk(d) ==
  LET space == Layout[d.starting_key_number].event_code = KEY_SPACE
  IN  IF d.max_pressure # -1
      THEN /\ d.max_pressure >= kMinTapPressure
           /\ space \/ d.max_pressure <= kMaxTapPressure
      ELSE /\ d.max_touch_major >= kMinTapTouchDiameter
           /\ space \/ d.max_touch_major <= kMaxTapTouchDiameter

-----------------------------------------------------------------------------
(* The queue of pending events.                                            *)

\* Mutant: the event takes the key's first code, whatever the layer.
DownEventOfFirstLayer(code, tid) ==
  [ev_code |-> Layout[KeyAt(snap[tid].pos)].event_code, is_down |-> TRUE,
   tid |-> tid, is_guaranteed |-> FALSE, due |-> kEventDelay]

DownEvent(code, tid) ==
  [ev_code |-> code, is_down |-> TRUE, tid |-> tid, is_guaranteed |-> FALSE,
   due |-> kEventDelay]

UpEvent(code) ==
  [ev_code |-> code, is_down |-> FALSE, tid |-> kOldTID,
   is_guaranteed |-> TRUE, due |-> kEventDelay]

\* Mutant: the arguments of TimespecIsLater swapped.
EnqueueEventSwapped(q, ev) ==
  LET sooner == {i \in DOMAIN q : ev.due > q[i].due}
  IN  IF sooner = {} THEN Append(q, ev) ELSE InsertAt(q, Min(sooner), ev)

\* Before the first event with a later deadline, else at the end.
EnqueueEvent(q, ev) ==
  LET later == {i \in DOMAIN q : q[i].due > ev.due}
  IN  IF later = {} THEN Append(q, ev) ELSE InsertAt(q, Min(later), ev)

EventsOf(q, tid) == {i \in DOMAIN q : q[i].tid = tid}

\* Mutants: the scan is missing, or it erases the events of every finger.
EraseNothing(q, tid) == q
EraseAll(q, tid) == <<>>

\* RejectFinger's scan: every event of tid is erased, the others keep their
\* order.  The j-th one left is the one with j survivors up to it.
EraseTid(q, tid) ==
  LET keep == DOMAIN q \ EventsOf(q, tid)
  IN  [j \in 1 .. Cardinality(keep) |->
         q[CHOOSE i \in keep : Cardinality({k \in keep : k <= i}) = j]]

\* Mutant: no event is marked.
MarkNothing(q, tid) == q

\* HandleLeavingFinger's scan: the first event of tid becomes guaranteed.
MarkGuaranteed(q, tid) ==
  [i \in DOMAIN q |->
     [ev_code |-> q[i].ev_code, is_down |-> q[i].is_down, tid |-> q[i].tid,
      is_guaranteed |-> \/ q[i].is_guaranteed
                        \/ /\ q[i].tid = tid
                           /\ \A j \in EventsOf(q, tid) : i <= j,
      due |-> q[i].due]]

\* One tick of the clock, as the deadlines feel it.
Age(due) == IF due > -Horizon THEN due - 1 ELSE due
AgeEvents(q) ==
  [i \in DOMAIN q |->
     [ev_code |-> q[i].ev_code, is_down |-> q[i].is_down, tid |-> q[i].tid,
      is_guaranteed |-> q[i].is_guaranteed, due |-> Age(q[i].due)]]

SetFinger(tid, d) ==
  [t \in DOMAIN finger_data \cup {tid} |-> IF t = tid THEN d ELSE finger_data[t]]

-----------------------------------------------------------------------------
(* The loop head and the wait.                                             *)

\* Mutant: the millisecond that makes up for the rounding is not added.
TimeoutsWithoutExtra(due) ==
  LET ms == {due \div TicksPerMs, -((-due) \div TicksPerMs)}
  IN  {IF m < 0 THEN TicksPerMs ELSE m * TicksPerMs : m \in ms}

\* timeout_ms in ticks.  The code adds the difference of the seconds to the
\* truncated difference of the nanoseconds: that is the floor or the ceiling
\* of the difference, depending on where the second boundary falls.
Timeouts(due) ==
  LET ms == {due \div TicksPerMs, -((-due) \div TicksPerMs)}
  IN  {IF m + 1 < 0 THEN TicksPerMs ELSE (m + 1) * TicksPerMs : m \in ms}

\* Lines 336-359: compute the timeout, then GetNextEvent selects if it is
\* positive and goes straight to a read() without timeout if it is not.
LoopTop ==
  /\ pc = "top"
  /\ needs_syn' = FALSE
  /\ lag' = 0
  /\ IF pending_events = <<>>
     THEN pc' = "read" /\ timer' = 0
     ELSE \E t \in Timeouts(Head(pending_events).due) :
            /\ timer' = t
            /\ pc' = IF t > 0 THEN "select" ELSE "read"
  /\ UNCHANGED <<queue, frame, keys, seen>>

InWait == pc \in {"select", "read"}

\* The process sleeps: nothing to read, and no timeout has expired.
Asleep ==
  /\ unread = 0
  /\ pc = "read" \/ (pc = "select" /\ timer > 0)

\* Time passes: freely while the process sleeps, and for at most MaxLag ticks
\* between the moment it may run and its next wait.
Tick ==
  /\ InWait \/ pc = "top"
  /\ Asleep \/ lag < MaxLag
  /\ lag' = IF Asleep THEN lag ELSE lag + 1
  /\ timer' = IF timer > 0 THEN timer - 1 ELSE 0
  /\ pending_events' = AgeEvents(pending_events)
  /\ UNCHANGED <<pc, finger_data, fn_key_pressed, frame, output>>

\* select() returns 0 and GetNextEvent false: on to the firing loop.
SelectTimeout ==
  /\ pc = "select" /\ timer = 0 /\ unread = 0
  /\ pc' = "fire"
  /\ lag' = 0
  /\ UNCHANGED <<queue, timer, frame, output>>

\* A frame of the sensor reaches the device, and its first event is read.  It
\* is not the SYN_REPORT, so AddEvent returns false and the loop continues at
\* its head, past the firing loop.
ReadFirst ==
  /\ InWait /\ unread = 0
  /\ \E n \in 2 .. MaxFrame : unread' = n - 1
  /\ pc' = "top"
  /\ timer' = 0 /\ lag' = 0
  /\ UNCHANGED <<queue, snap, todo, output>>

\* Another event of the frame that is not the SYN_REPORT.
ReadNext ==
  /\ InWait /\ unread > 1
  /\ unread' = unread - 1
  /\ pc' = "top"
  /\ timer' = 0 /\ lag' = 0
  /\ UNCHANGED <<queue, snap, todo, output>>

\* The SYN_REPORT: AddEvent fills a snapshot.  The kernel numbers its contacts
\* consecutively, so a tid does not come back while an event of its last
\* contact is pending.
ReadSyn ==
  /\ InWait /\ unread = 1
  /\ unread' = 0
  /\ \E tids \in SUBSET Tids :
       /\ \A t \in tids \ DOMAIN finger_data : EventsOf(pending_events, t) = {}
       /\ snap' \in [tids -> Reports]
       /\ todo' = tids
  /\ pc' = "process"
  /\ timer' = 0 /\ lag' = 0
  /\ UNCHANGED <<queue, output>>

\* The sensor goes away: read() returns -1, GetNextEvent throws, main() exits
\* and the kernel removes the virtual keyboard, which releases its keys.
ReadFails ==
  /\ InWait
  /\ pc' = "exited"
  /\ keys' = {} /\ seen' = {}
  /\ UNCHANGED <<queue, clock, frame, needs_syn>>

-----------------------------------------------------------------------------
(* ProcessIncomingSnapshot: the fingers of the snapshot, one at a time and *)
(* in any order (it is an unordered_map), then the fingers that left.      *)

\* A new finger.  (The haptic pulse of line 265 changes nothing here.)
ArriveFinger(tid) ==
  /\ pc = "process" /\ tid \in todo /\ ~Live(tid)
  /\ LET key  == KeyAt(snap[tid].pos)
         code == IF key = kNoKey THEN 0 ELSE CodeFor(key)
     IN  /\ pending_events' =
              IF key = kNoKey THEN pending_events
              ELSE EnqueueEvent(pending_events, DownEvent(code, tid))
         /\ finger_data' = SetFinger(tid,
              [max_pressure |-> snap[tid].p,
               max_touch_major |-> snap[tid].touch_major,
               starting_key_number |-> key, event_code |-> code,
               down_sent |-> FALSE,
               rejection_status |-> IF key = kNoKey
                                    THEN "kRejectTouchdownOffKey"
                                    ELSE "kNotRejectedYet"])
         /\ fn_key_pressed' = (fn_key_pressed \/ code = KEY_FN)
  /\ todo' = todo \ {tid}
  /\ UNCHANGED <<pc, clock, unread, snap, output>>

\* A finger that was rejected before: nothing is updated.
SkipRejected(tid) ==
  /\ pc = "process" /\ tid \in todo /\ Live(tid) /\ Rejected(tid)
  /\ todo' = todo \ {tid}
  /\ UNCHANGED <<pc, queue, clock, unread, snap, output>>

\* Mutant: an update forgets that the key-down was sent.
UpdatedFromScratch(tid, status) ==
  LET d == finger_data[tid]
  IN  [max_pressure |-> snap[tid].p, max_touch_major |-> snap[tid].touch_major,
       starting_key_number |-> d.starting_key_number,
       event_code |-> d.event_code, down_sent |-> FALSE,
       rejection_status |-> status]

\* finger_data[tid] after a new report: the maxima grow.
Updated(tid, status) ==
  LET d == finger_data[tid]
      larger(a, b) == IF a < b THEN b ELSE a
  IN  [max_pressure |-> larger(d.max_pressure, snap[tid].p),
       max_touch_major |-> larger(d.max_touch_major, snap[tid].touch_major),
       starting_key_number |-> d.starting_key_number,
       event_code |-> d.event_code, down_sent |-> d.down_sent,
       rejection_status |-> status]

\* A known finger that is still on its first key.
TrackFinger(tid) ==
  /\ pc = "process" /\ tid \in todo /\ Live(tid) /\ ~Rejected(tid)
  /\ StillOnFirstKey(snap[tid].pos, finger_data[tid])
  /\ finger_data' = SetFinger(tid, Updated(tid, "kNotRejectedYet"))
  /\ todo' = todo \ {tid}
  /\ UNCHANGED <<pc, pending_events, fn_key_pressed, clock, unread, snap, output>>

\* A known finger that has left its first key: RejectFinger erases what it has
\* pending, and if its key is down a key-up follows.
MoveOffKey(tid) ==
  /\ pc = "process" /\ tid \in todo /\ Live(tid) /\ ~Rejected(tid)
  /\ ~StillOnFirstKey(snap[tid].pos, finger_data[tid])
  /\ finger_data' = SetFinger(tid, Updated(tid, "kRejectMovedOffKey"))
  /\ LET d    == finger_data[tid]
         left == EraseTid(pending_events, tid)
     IN  /\ pending_events' = IF d.down_sent
                              THEN EnqueueEvent(left, UpEvent(d.event_code))
                              ELSE left
         /\ fn_key_pressed' =
              (fn_key_pressed /\ ~(d.down_sent /\ d.event_code = KEY_FN))
  /\ todo' = todo \ {tid}
  /\ UNCHANGED <<pc, clock, unread, snap, output>>

\* The fingers the second loop removes.
Leaving == DOMAIN finger_data \ DOMAIN snap

ForgetRejected(tid) ==
  /\ pc = "process" /\ todo = {} /\ tid \in Leaving /\ Rejected(tid)
  /\ finger_data' = Restrict(finger_data, DOMAIN finger_data \ {tid})
  /\ UNCHANGED <<pc, pending_events, fn_key_pressed, clock, frame, output>>

\* HandleLeavingFinger: the finger's pending event, if there is one, becomes
\* guaranteed; a guaranteed key-up follows unless that event was one.
LeaveFinger(tid) ==
  /\ pc = "process" /\ todo = {} /\ tid \in Leaving /\ ~Rejected(tid)
  /\ LET d      == finger_data[tid]
         marked == IF d.down_sent THEN pending_events
                   ELSE MarkGuaranteed(pending_events, tid)
         up_event_guaranteed ==
           /\ ~d.down_sent
           /\ \E i \in EventsOf(pending_events, tid) :
                /\ \A j \in EventsOf(pending_events, tid) : i <= j
                /\ ~pending_events[i].is_down
     IN  /\ pending_events' = IF up_event_guaranteed THEN marked
                              ELSE EnqueueEvent(marked, UpEvent(d.event_code))
         /\ fn_key_pressed' =
              (fn_key_pressed /\ (up_event_guaranteed \/ d.event_code # KEY_FN))
  /\ finger_data' = Restrict(finger_data, DOMAIN finger_data \ {tid})
  /\ UNCHANGED <<pc, clock, frame, output>>

EndSnapshot ==
  /\ pc = "process" /\ todo = {} /\ Leaving = {}
  /\ pc' = "fire"
  /\ snap' = NoFingers
  /\ UNCHANGED <<queue, clock, unread, todo, output>>

-----------------------------------------------------------------------------
(* The firing loop.                                                        *)

NextEvent == Head(pending_events)

\* Mutant: the deadline is not looked at.
ReadyToFireAtOnce == pc = "fire" /\ pending_events # <<>>

ReadyToFire == pc = "fire" /\ pending_events # <<>> /\ NextEvent.due <= 0

\* The finger is still there and its tap is out of range: the event is dropped.
DropTap ==
  /\ ReadyToFire
  /\ Live(NextEvent.tid) /\ ~TapOk(finger_data[NextEvent.tid])
  /\ pending_events' = Tail(pending_events)
  /\ UNCHANGED <<pc, finger_data, fn_key_pressed, clock, frame, output>>

\* SendEvent(EV_KEY, ...): the kernel's key state takes the value.
SendKey ==
  /\ ReadyToFire
  /\ Live(NextEvent.tid) => TapOk(finger_data[NextEvent.tid])
  /\ pending_events' = Tail(pending_events)
  /\ keys' = IF NextEvent.is_down THEN keys \cup {NextEvent.ev_code}
             ELSE keys \ {NextEvent.ev_code}
  /\ needs_syn' = TRUE
  /\ LET tid == NextEvent.tid
     IN  finger_data' =
           IF NextEvent.is_down /\ Live(tid)
           THEN SetFinger(tid,
                  [max_pressure |-> finger_data[tid].max_pressure,
                   max_touch_major |-> finger_data[tid].max_touch_major,
                   starting_key_number |-> finger_data[tid].starting_key_number,
                   event_code |-> finger_data[tid].event_code,
                   down_sent |-> TRUE,
                   rejection_status |-> finger_data[tid].rejection_status])
           ELSE finger_data
  /\ UNCHANGED <<pc, fn_key_pressed, clock, frame, seen>>

\* Mutant: no SYN_REPORT follows.
EndFiringWithoutSyn ==
  /\ pc = "fire" /\ ~ReadyToFire
  /\ pc' = "top"
  /\ UNCHANGED <<queue, clock, frame, output>>

\* No event is ready any more: SYN_REPORT if something was sent, and loop.
EndFiring ==
  /\ pc = "fire" /\ ~ReadyToFire
  /\ pc' = "top"
  /\ seen' = IF needs_syn THEN keys ELSE seen
  /\ UNCHANGED <<queue, clock, frame, needs_syn, keys>>

\* The process is gone.
Exited == pc = "exited" /\ UNCHANGED vars

-----------------------------------------------------------------------------
Init ==
  /\ pc = "top"
  /\ finger_data = NoFingers
  /\ pending_events = <<>>
  /\ fn_key_pressed = FALSE
  /\ needs_syn = FALSE
  /\ timer = 0 /\ lag = 0
  /\ unread = 0 /\ snap = NoFingers /\ todo = {}
  /\ keys = {} /\ seen = {}

ProcessFinger(tid) ==
  \/ ArriveFinger(tid) \/ SkipRejected(tid) \/ TrackFinger(tid)
  \/ MoveOffKey(tid) \/ ForgetRejected(tid) \/ LeaveFinger(tid)

\* The steps the process takes by itself.
Handle ==
  \/ LoopTop \/ SelectTimeout \/ ReadNext \/ ReadSyn
  \/ \E tid \in Tids : ProcessFinger(tid)
  \/ EndSnapshot \/ DropTap \/ SendKey \/ EndFiring

Next == Handle \/ Tick \/ ReadFirst \/ ReadFails \/ Exited

Spec == Init /\ [][Next]_vars

\* The scheduler runs a process that can run, and time diverges: only finitely
\* many frames arrive in a tick, so a clock that may go on infinitely often
\* does.  Nobody has to touch the sensor (no fairness of ReadFirst), but a
\* frame that has begun is delivered whole.
FairSpec == Spec /\ WF_vars(Handle) /\ SF_vars(Tick)

-----------------------------------------------------------------------------
(* Invariants.                                                             *)

TypeOK ==
  /\ pc \in {"top", "select", "read", "process", "fire", "exited"}
  /\ DOMAIN finger_data \subseteq Tids
  /\ finger_data \in [DOMAIN finger_data -> FingerData]
  /\ pending_events \in Seq(Event)
  /\ fn_key_pressed \in BOOLEAN /\ needs_syn \in BOOLEAN
  /\ timer \in Nat /\ lag \in 0 .. MaxLag /\ unread \in 0 .. MaxFrame - 1
  /\ snap \in [DOMAIN snap -> Reports]
  /\ todo \subseteq DOMAIN snap \cap Tids
  /\ keys \subseteq Codes /\ seen \subseteq Codes

IsUp(i, c) == ~pending_events[i].is_down /\ pending_events[i].ev_code = c
UpPending(c) == \E i \in DOMAIN pending_events : IsUp(i, c)

\* A finger that the keyboard remembers to have pressed c.
Holds(tid, c) ==
  /\ Live(tid) /\ ~Rejected(tid)
  /\ finger_data[tid].down_sent /\ finger_data[tid].event_code = c

\* No key stays down for good: a key the kernel holds down is held by a finger
\* that is still on it, or its key-up is on its way.  (HandleLeavingFinger and
\* RejectFinger's caller are the only sources of key-ups; both decide from
\* down_sent_, which the firing loop sets, whether one is due.)
NoStuckKey ==
  \A c \in keys : UpPending(c) \/ \E tid \in Tids : Holds(tid, c)

\* The key-down of a finger that has already left is followed by a key-up of the
\* same key, later in the queue.  (HandleLeavingFinger marks the one and
\* enqueues the other behind it, and neither can be erased or overtaken.)
QuickTapReleased ==
  \A i \in DOMAIN pending_events :
    pending_events[i].is_down /\ ~Live(pending_events[i].tid) =>
      /\ pending_events[i].is_guaranteed
      /\ \E j \in DOMAIN pending_events :
           j > i /\ IsUp(j, pending_events[i].ev_code)

\* A finger gets at most one key-down: one event is pending for it at most, none
\* once it was sent and none once the finger was rejected.
OneDecisionPerFinger ==
  \A tid \in Tids :
    /\ Cardinality(EventsOf(pending_events, tid)) <= 1
    /\ Live(tid) /\ (Rejected(tid) \/ finger_data[tid].down_sent) =>
         EventsOf(pending_events, tid) = {}

\* A pending event whose finger is on the sensor was made by that finger, for the
\* key it landed on: the firing loop's layout_[starting_key_number_] (line 399)
\* never reads outside the layout, and the event types what the finger stands for.
EventsMatchFingers ==
  \A i \in DOMAIN pending_events :
    Live(pending_events[i].tid) =>
      /\ finger_data[pending_events[i].tid].starting_key_number # kNoKey
      /\ finger_data[pending_events[i].tid].event_code = pending_events[i].ev_code

\* The queue is in the order of the deadlines, which the firing loop relies on
\* when it stops at the first event that is not due.
QueueInOrder ==
  \A i, j \in DOMAIN pending_events :
    i < j => pending_events[i].due <= pending_events[j].due

\* The Fn layer is on while the kernel sees Fn down, unless Fn is on its way up:
\* the flag, which follows the touches, and the key, which follows the queue,
\* are never apart for longer than that.
FnLayerCoversKey ==
  KEY_FN \in keys => fn_key_pressed \/ UpPending(KEY_FN)

\* Outside the firing loop the readers of the virtual keyboard know every key
\* that was sent: no path through the loop waits with a SYN_REPORT owing.
EverythingFlushed ==
  pc # "fire" => seen = keys

\* select() never times out before the event it waits for may fire: the added
\* millisecond makes up for both roundings.
TimeoutNotEarly ==
  pc = "select" /\ timer = 0 /\ pending_events # <<>> => NextEvent.due <= 0

\* "No timeout if there aren't any pending events" (line 342), and a timeout at
\* most until the next pending event if there are (lines 338-339): the process
\* does not sleep in read() while it has events to fire.
NoBlindWait ==
  Asleep /\ pc = "read" => pending_events = <<>>

-----------------------------------------------------------------------------
(* Properties of steps.                                                    *)

\* A key goes down only for the oldest event, after its delay, and for a finger
\* that has left its key by lifting, or is still on it with a valid tap.
PressIsJustified ==
  [][\A c \in keys' \ keys : \E ev \in {NextEvent} :
       /\ ev.ev_code = c /\ ev.due <= 0
       /\ \/ ev.is_guaranteed /\ ~Live(ev.tid)
          \/ /\ Live(ev.tid) /\ ~Rejected(ev.tid)
             /\ TapOk(finger_data[ev.tid]) /\ Holds(ev.tid, c)']_vars

-----------------------------------------------------------------------------
(* What comments of the code say, and the code does not do.                *)

\* Guaranteed events are "already checked and ready to go" (fakekeyboard.h:84-89):
\* a key-down becomes guaranteed only for a tap that passes the firing check.
GuaranteedAreChecked ==
  [][\A tid \in Leaving :
       LeaveFinger(tid) /\ EventsOf(pending_events, tid) # {} =>
         TapOk(finger_data[tid])]_vars

\* HandleLeavingFinger on its key-up: "If we're here we either have already sent the
\* key_down event for this finger, or have just marked in guaranteed"
\* (fakekeyboard.cc:188-190).  A finger whose tap was dropped has neither.
LeavingFingersWereSent ==
  [][\A tid \in Leaving :
       LeaveFinger(tid) =>
         finger_data[tid].down_sent \/ EventsOf(pending_events, tid) # {}]_vars

\* The Fn codes are for "Fn modifier key pressed" (fakekeyboard.h:54-59): between
\* snapshots the Fn layer is on only while some finger on the sensor landed on Fn.
FnLayerNeedsFinger ==
  fn_key_pressed /\ pc = "top" =>
    \E tid \in DOMAIN finger_data : finger_data[tid].event_code = KEY_FN

-----------------------------------------------------------------------------
(* Liveness.                                                               *)

\* A key that no finger holds comes up, however the touches go on.
KeysComeUp ==
  \A c \in Codes :
    (c \in keys /\ ~\E tid \in Tids : Holds(tid, c)) ~> c \notin keys

\* Every tap is decided: the event of a finger does not stay in the queue.
TapsAreDecided ==
  \A tid \in Tids :
    (EventsOf(pending_events, tid) # {} /\ pc # "exited") ~>
      (EventsOf(pending_events, tid) = {} \/ pc = "exited")

=============================================================================
