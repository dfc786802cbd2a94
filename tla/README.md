# Verification of the touch keyboard handler

The touch keyboard handler makes a keyboard and a touchpad out of one multitouch sensor without keys.
`touch_keyboard_handler` reads the sensor's evdev node, forks into two processes, and feeds two virtual
uinput devices; a layout file says which part of the sensor is which key.  This directory holds TLA+
models of the program, the TLC configurations that check them, and proofs checked by TLAPS.

Commands, run in this directory:

    tlc -config Typing.cfg MCTyping           # any run: see the table of runs for module and cfg
    tlapm FakeKeyboardProofs.tla              # proofs: also TypingProofs, TimespecProofs, FakeTouchpadProofs,
                                              # MirroringProofs, GeometryProofs, LayoutsProofs, ServiceProofs

## 1. The system

| Component | State it keeps | Operations | What is hard about it |
|---|---|---|---|
| `FakeKeyboard` (`fakekeyboard.cc`) | `finger_data_`, `pending_events_`, `fn_key_pressed_`, `layout_` | `Consume`, `ProcessIncomingSnapshot`, `HandleLeavingFinger`, `RejectFinger`, `EnqueueEvent`, the firing loop | a delayed queue shared by all fingers; fingers that tap, slide, lift and overlap; a wait computed from truncated times |
| `EvdevSource` (`evdevsource.cc`) | `source_fd_` | `OpenSourceDevice`, `GetNextEvent` | a timeout that means "none" when it is 0 |
| `MtStateMachine`, `MtSlot`, `EventKey` (`statemachine/`) | `slot_`, `slots_` | `AddEvent`, `FillSnapshot` | a stream of changes, which must never be misread or missed |
| `FakeTouchpad` (`faketouchpad.cc`) | `slot_memberships_`, its region | `Consume`, `SyncTouchEvents`, `PassEventsThrough`, `SendTouchpadBtnEvents` | contacts that enter, leave, lift and land in any mixture of frames |
| geometry (both `LoadLayout`, `Contains`, `TouchFFManager`) | areas of keys, pad and motors | turning millimetres into points of a turned sensor | four hand-written cases in three places, with truncations |
| `UinputDevice` (`uinputdevice.cc`) | `uinput_fd_` | create, enable, copy axes, finalize, `SendEvent` | every call may fail, and most results are ignored |
| `TouchFFManager`, `FFDriver` (`haptic/`) | two libraries of effect ids | `RegisterFF`, `UploadEffect`, `EventTriggered`, `PlayEffect` | two motors that number effects on their own and may be missing |
| `main` with unit and udev rules | two processes | load, fork, start, wait, exit | the order in which two processes fail; a sensor that goes and comes |
| layout files (`csv.h`, `LoadHWConfig`, both `LoadLayout`) | variables that live through the loop over the rows | `read_header`, `read_row` | columns in any order or missing; what throws, and where it is caught |
| logging, packaging | - | - | output, data: not modelled |

How they interact.  The kernel sends both processes the same stream of the sensor.  Each process has its
own descriptor, its own `MtStateMachine` and its own virtual device; after the fork they share nothing.
Within a process everything is one thread: `Consume()` waits in `GetNextEvent`, gives the event to the state
machine, and on a `SYN_REPORT` handles the frame.  The concurrency is between a process, the clock, the
kernel that queues further events, and the user's fingers.

What makes each component correct:

- keyboard: a key that goes down comes up; a tap produces one key press or none, after its delay, and only
  if it was a valid tap; key-downs precede their key-ups; the queue is served in order and in time; the Fn
  layer agrees with the Fn key; readers see every key sent;
- state machine: between frames it holds what the sensor holds;
- touchpad: its contacts are the sensor's contacts inside its region, at the right place, with the right
  buttons;
- geometry: keys, pad and motors are where the user sees them, whichever way the sensor is mounted;
- layout files: every row becomes the key its author wrote, or the process does not start;
- service: a set-up call that fails costs no more than the rest of its function, a parent with nothing to do waits
  for its child, and nothing outlives the sensor.

## 2. Modules and how they correspond to the code

| Module | Models | Composition |
|---|---|---|
| `FakeKeyboard` | the keyboard process and its clock, sensor frames and virtual keyboard | the core |
| `MCFakeKeyboard` | instances: letter with an Fn code, Fn, space bar, a point beside the keys | extends `FakeKeyboard` |
| `Keystrokes` | abstract: what a touch keyboard promises, contact by contact | - |
| `Typing` | `FakeKeyboard` implements `Keystrokes` | extends `FakeKeyboard`, instance of `Keystrokes` |
| `SharedKeys` | fingers that share a key | extends `Typing` |
| `MCTyping`, `MCKeystrokes` | the instances of `MCFakeKeyboard` with and without the history of shared keys | extend `MCFakeKeyboard`, and `SharedKeys` or `Typing` |
| `Timespec` | the arithmetic on seconds and nanoseconds of `fakekeyboard.cc` | operators only |
| `FakeKeyboardProofs` | theorems | extends `FakeKeyboard` |
| `TypingProofs` | theorems: the refinement, and shared keys | extends `SharedKeys` and `FakeKeyboardProofs` |
| `TimespecProofs` | theorems: the ticks of `FakeKeyboard` lose nothing of `Timespec` | extends `FakeKeyboard`, instance of `Timespec` |
| `MtStateMachine` | the kernel's stream of changes, `AddEvent`, `FillSnapshot` | - |
| `FakeTouchpad` | the touchpad process and its virtual device | extends `MtStateMachine` and `Geometry` |
| `Mirror` | abstract: a device that shows every frame of another, whole and in order | - |
| `Mirroring` | `FakeTouchpad` implements `Mirror` | extends `FakeTouchpad`, instance of `Mirror` |
| `MCFakeTouchpad` | a small sensor mounted like the shipped one | extends `Mirroring` |
| `FakeTouchpadProofs` | theorems | extends `FakeTouchpad` |
| `MirroringProofs` | theorems: what the state machine and the touchpad hold, and the refinement | extends `Mirroring` and `FakeTouchpadProofs` |
| `CsvReader` | the CSV reader as the program uses it: cells, headers, rows | operators only |
| `Layouts` | `LoadHWConfig` and both `LoadLayout`, row by row | extends `CsvReader` and `Geometry` |
| `Geometry` | the two `LoadLayout`, `Contains`, the touchpad's transformation, the choice of a motor | operators only |
| `Panel`, `MCPanel` | a finger anywhere on a panel, and what its user sees; good and bad files | extend `Layouts` |
| `GeometryProofs` | theorems | extends `Geometry` |
| `LayoutsProofs` | theorems | extends `Panel` and `GeometryProofs` |
| `Service` | `main()`, the set-up of both devices, the motors, systemd and udev | - |
| `ServiceProofs` | theorems | extends `Service` |

**FakeKeyboard.**  Variables carry the names of the members.  `pc` says where `Consume()` is: its head
(`LoopTop` computes the timeout), inside `select()` or `read()` (`SelectTimeout`, `ReadFirst`, `ReadNext`,
`ReadSyn`, `ReadFails`), in `ProcessIncomingSnapshot` (one action per finger and branch: `ArriveFinger`,
`SkipRejected`, `TrackFinger`, `MoveOffKey`, then `ForgetRejected` and `LeaveFinger` for fingers that left,
and `EndSnapshot`), or in the firing loop (`SendKey`, `DropTap`, `EndFiring`).  The snapshot is an
`unordered_map`, so its fingers come in any order.  `due` is the time left until an event's deadline and
`Tick` lets it run; the module stops counting once an event is two milliseconds overdue, since
the code then does the same whatever the delay.  A millisecond has `TicksPerMs` ticks.  `Timeouts` has both
results the code's subtraction of seconds and nanoseconds can give: the difference is truncated twice, so
it is the floor or the ceiling of the true one, and a millisecond is added.  `keys` is what the kernel
holds down on the virtual keyboard, `seen` what its readers know since the last `SYN_REPORT`.

Two abstractions need a reason.  `ReadSyn` gives the finger table the contacts of a frame directly, as
`SnapshotIsSensor` (checked in `FakeTouchpad`) allows; it does not reuse a tracking id while an event of its last
contact is pending, because the kernel numbers contacts consecutively, 65536 of them, and an event is
pending for 50 ms.  A short read and an interrupted `select()`, which the code treats like a timeout, do not
happen on an evdev descriptor without signal handlers and are left out.

**Timespec.**  The two fields of a `timespec`, the loop that carries nanoseconds into seconds, the comparison by
fields, and the timeout with C's division.  A nanosecond of `Timespec` is a tick of `FakeKeyboard`, so that
`NsPerMs` is `TicksPerMs`; the theorems then hold of 1000000 as of any other number.

**Keystrokes, Typing and SharedKeys.**  `Keystrokes` knows contacts, not the queue: a contact that lands on a key is
*undecided*, then *pressed*, *dropped* (too light or too heavy) or *ignored* (off the keys, or slid off).
What it pressed it releases once.  If it lifts undecided it leaves a tap: a press and its release, both
owed.  `Release` needs more releases owed than taps: it may not take the one that belongs to a press still to
come.  A dropped contact that lifts from its key leaves a release that no press belongs to: `HandleLeavingFinger`
enqueues a key-up for it, although the comment above that line says that its key-down was sent or marked
(*light_tap*).  The kernel ignores the key-up unless another finger holds the key.  The mapping in
`Typing` reads the stage of a contact from `finger_data_` and its pending event, `taps` from the pending key-downs
whose finger is gone and `releases` from the pending key-ups.  `shared`, in `SharedKeys`, is a history variable: the keys that two
fingers have claimed at once, until all is sent.

**MtStateMachine.**  `Frame` lets any number of slots change at once (land, move, lift, or be replaced
within the frame) and appends the kernel's events: only changed values, the slot only if it is not the one
announced last, `SYN_REPORT` at the end.  A full buffer is emptied and `SYN_DROPPED` put in front.  An axis
that still has its first value 0 was never sent, so `FindValueByEvent` says -1 for it; the properties say so.

**FakeTouchpad.**  `ReadEvent` and `ReadSyn` are an iteration of `Consume()`.  `ReadSyn` writes all slots, as
`SyncTouchEvents` does; a reader of the virtual device sees the result at the `SYN_REPORT`, so it is one step.

**Mirror and Mirroring.**  `coming` is mapped to what the unread events will show: the state machine is run over
them, and each `SYN_REPORT` among them gives a frame.  `shown` is the virtual device, `original` the sensor, both
cut to the region and in the pad's coordinates.

**CsvReader and Layouts.**  A line is the sequence of its trimmed cells, and a cell its sign and digits, or text: the
splitting into cells is left out, the conversion of digits into ints (with the overflow check before each
digit) and doubles is not: `IntOf` and `DoubleOf` follow `parse_signed_integer` and `parse_float` digit by digit.
`Numeral`, which knows no sign, range or point, is the reference for both (`StandsFor`).  `Layouts` keeps the variables of `FakeKeyboard::LoadLayout`, which are declared outside of its
loop (`locals`), and goes on with an arbitrary `hw_config` when `touch-hw.csv` has no row, as the code does.

**Geometry and Panel.**  Lengths are integers, `Unit` of them to the millimetre; doubles become exact
fractions, conversions to `int` truncate towards 0.  `Panel` holds the reference: a panel is turned by a
quarter `rotation / 90` times, which has nothing in common with the code's four cases.

**Service.**  One action per call that may fail; of the axes that `CopyABSOutputEvents` copies, two, with both
calls of each.  `step` is the number of the next uinput call.  A call succeeds (`granted`) or fails (`failed`);
after a failure `Following` skips what is left of the same function, `CopyABSOutputEvents` or
`FinalizeUinputCreation`, and goes on behind it, since `Start()` ignores what its functions return.  What
was skipped was never asked for and is in neither set.  `source` turns "dead" when the sensor goes; from then on the queries
to the sensor fail, which the code does not look at: `CopyABSOutputEvents` finds no types or no axes to copy
(`NothingToCopy`) or sets an empty range (`blank`).  `Accounted` lists these reasons for a device to lack
something, and `FailuresStayLocal` says that there is no other.  systemd starts the service when the sensor
comes and it is not active, never restarts it, and kills what is left when the main process exits.
The motors belong to the keyboard process and are closed, their effects forgotten, when it ends.

## 3. What is checked

| Run | Module, cfg | Checks | States |
|---|---|---|---|
| typing | `MCTyping`, `Typing.cfg` | `TypeOK`, `NoStuckKey`, `QuickTapReleased`, `OneDecisionPerFinger`, `EventsMatchFingers`, `QueueInOrder`, `FnLayerCoversKey`, `EverythingFlushed`, `KeyStaysUnderFinger` | 6.4 million |
| keystrokes | `MCKeystrokes`, `Keystrokes.cfg` | `NoBlindWait`, `TimeoutNotEarly`, `PressIsJustified`, `TypesKeystrokes`, `KeysComeUp`, `TapsAreDecided` | 629 000 |
| touchpad | `MCFakeTouchpad`, `Touchpad.cfg` | `TypeOK`, `SnapshotIsSensor`, `PadShowsContacts`, `ButtonsCountContacts`, `LiftedContactsLeave`, `MirrorsRegion` | 247 000 |
| panel | `MCPanel`, `Panel.cfg` | `KeyUnderFinger`, `AllKeysOrNone`, `PadUnderFinger`, `PadShowsFinger`, `MotorUnderFinger`, `OneOwner` | 118 000 |
| service | `Service`, `Service.cfg` | `TypeOK`, `FailuresStayLocal`, `EffectsAreUploaded`, `ChildIsWaitedFor`, `SensorGoneStopsService` | 1.1 million |

`TypesKeystrokes` and `MirrorsRegion` are refinements: the abstract specification, under the mapping, as a property.
Each property is stated in words above its definition.  Seven more runs each show one place where the code
does not do what a comment or document says; see section 6.

### Bounds, and why they are enough

- *typing* has two fingers on a letter key with a second code, on Fn, and beside the keys.  Every interaction in
  the code is between a finger and the queue, a finger and the Fn flag, or two fingers through either;
  two fingers and the ids of fingers already gone exercise all of them.  The delay is two ticks, so an
  event may be pending before, at and after another's deadline; `MaxLag = 1` lets the process fall
  behind by a tick before each wait.  `MaxFrame = 2` means one event before the `SYN_REPORT`.
- *keystrokes* has two fingers on one letter (`LetterLayout`), with valid and too light taps, milliseconds of two
  ticks, and frames of up to three events (`MaxFrame = 3`), which break the wait in their middle.  The delay is
  three ticks, no whole number of milliseconds, so that the wait is rounded either way.  One key suffices:
  events of other codes pass each other in *typing*, and the debts of `Keystrokes` are kept code by code.
  `MaxLag = 0`, a process that waits again within the tick, because `NoBlindWait` and the two liveness properties
  need it; `TypesKeystrokes`, `TimeoutNotEarly` and `PressIsJustified` do not and are proved for every lag, weight and
  number of ticks.  Taps that are too heavy, and taps by diameter, are left to the proofs (and
  are among the reports of *quick_tap* and *light_tap*).
- Symmetry is used in *typing* alone, which checks invariants only: it permutes the two tracking ids, which occur in nothing
  but sets and functions.
- *touchpad* has two slots, two tracking ids and a region with a border on either side.  `MaxBacklog = 1`
  lets a frame arrive while the `SYN_REPORT` of the last one is unread.
- *panel* has two sensors (with different margins) at 0, 90 and 270 degrees, 33 by 67 points on 20 by 32
  half-millimetres: no whole number of points per unit.  Keys and pads have fractional edges.  The files have their columns in two
  orders, without the Fn columns, without a needed one, twice one, no row, a last empty line, a cell too
  many, text for a number, and an int just in and just out of its range: `MaxInt` is 299, which has as many digits as
  a code and leaves the check of each digit something to refuse.
- *service* lets the sensor come twice (`MaxArrivals = 2`), so that it may return before the old processes have
  noticed that it left.

Deadlock is checked in every run but *service*, where the service may be stopped for good once the sensor's
arrivals are used up.

### Fairness

`FakeKeyboard!FairSpec` assumes that a process that can run does (`WF_vars(Handle)`), and that the clock goes
on (`SF_vars(Tick)`): it is disabled while the process works, hence strong fairness, and only finitely many
frames arrive in a tick.  Nobody has to touch the sensor: `ReadFirst` and `ReadFails` have no fairness, but
a frame that has begun is delivered.  Of `FakeTouchpad` only `Consume` is fair.  `Service!FairSpec` assumes
that both processes run and that systemd notices an exit; the sensor need not move.

## 4. What is proved

TLAPS checks these for every value of the constants.

**FakeKeyboardProofs**, from `TidsAssumption`, `LayoutAssumption` and `TimeAssumption` (a finite set of tracking ids without
`kOldTID`; any layout; any positive delay, ticks per millisecond, lag and frame length):
`TypeCorrect`, `KeysNeverStick`, `QuickTapsAreReleased`, `QueueStaysInOrder`, `FingersAreDecidedOnce`, `EventsFollowFingers`,
`FnLayerFollowsKey`, `PressesAreJustified`, `TimeoutsAreNotEarly`, `OutputIsFlushed`, and `PromptProcessNeverWaitsBlindly`
(which needs `MaxLag = 0`, and *blind_wait* shows why).

The inductive invariant is `IndInv == TypeInv /\ QueueInv /\ KeyInv`.  None of the safety properties is
inductive alone, since whether a key-up is due depends on `down_sent_`, which the firing loop sets through the
tracking id of an event.  So the invariant ties events to fingers:

- `TypeInv` is `TypeOK` and `FingersOnKeys`: a finger that was not rejected landed on a key and types one of its codes
  (the key-up of a leaving finger takes its code from there).
- `QueueInv`: a key-down belongs to a finger and a key-up to none (`OwnersKnown`); the event of a finger on the sensor
  is the decision it waits for, so the finger is neither rejected nor down (`LiveEvents`); no finger has two events
  (`OneEventPerFinger`); nothing is left of an earlier contact when its id arrives (`ArrivalsAreFresh`, which the
  kernel's numbering gives); `QuickTapReleased`, which needs `QueueInOrder`, since the key-up is enqueued with the latest
  deadline and must land behind the key-down.
- `KeyInv`: `NoStuckKey`, and for the Fn layer `FnDownsCovered`: a pending Fn-down finds the layer on or has its
  Fn-up behind it, which `SendKey` turns into `FnLayerCoversKey`.

The module first proves what the operations on the queue preserve (inserting, erasing, marking, ageing; `EraseTid`
numbers the survivors, so this is a statement about cardinalities), then types, then one lemma per action for
`IndInv`.  `WaitInv` is a second invariant for the wait: a select() is entered with a timer that covers the time to
the first deadline (`TimeoutCovers`), which gives `TimeoutNotEarly`; with `MaxLag = 0` nothing is overdue at the
loop head (`PromptWait`).

**TimespecProofs**, from `TimeAssumption`: `DeadlinesAreExact` (a deadline is a normalised time, exactly so many
milliseconds later), `LaterIsByTicks` (comparing by fields is comparing the times), and `TimeoutIsModelled` (what the code
computes from seconds and nanoseconds is one of the values of `Timeouts`).  Together they say that counting in
ticks loses nothing of the code's clock arithmetic (whose doubles hold whole numbers far below 2^53 and are
exact).

**TypingProofs**, from the same assumptions: `ImplementsKeystrokes` (`TypesKeystrokes`), `KeystrokesSettle` and `KeysStayUnderFingers`.
The refinement has one hard step, `Release`: when the code sends a key-up, more releases must be owed than
taps.  `IndInv` counts nothing, so a second invariant, `Balanced`, is needed: in every rest of the queue a code
has no more key-downs of lifted fingers than key-ups.  With a key-up at the head, the rest
behind it gives the inequality.  `KeystrokesSettle` draws a conclusion from the
abstract specification alone: whatever is down has a finger on it or a release to come that is not a tap's
(`Keystrokes!NothingSticks`), which is more than `NoStuckKey` says.  `KeyStaysUnderFinger` needs `SharingInv`: of a code that is not shared, only one finger is
concerned; while its key-down waits, every pending key-up of the code is before it; and once it was sent, none
is left, and the key is down.

**FakeTouchpadProofs**, from `AxesAssumption`, `RegionAssumption` and `PositionAssumption` (a finite set of axes with the two
of the position among them; any region): `TypeCorrect` and `ButtonsAreCounted`, and the same two for a process that starts
while fingers touch, `TypeCorrectWhenLate` and `ButtonsAreCountedWhenLate`.  The
invariant adds that the device has no contact in a slot that was outside of the region, or of which no
tracking id was read (`Known`), since such a slot is written without one.

**MirroringProofs**: `MachineFollowsSensor` (`SnapshotIsSensor`), `TouchpadShowsContacts` (`PadShowsContacts`) and `ImplementsMirror`
(`MirrorsRegion`), for any slots, axes, tracking ids and backlog.  The invariant says that running the state machine
over what is still in the kernel's buffer (`Final`) leads from what it holds to what the sensor
holds; `Frame` appends events that keep this, `ReadEvent` and `ReadSyn` take one off.
These three have hypotheses, which are part of their statements:

- `[]NothingDropped`: the kernel never empties its buffer.  Without it they are false (*dropped*).  `LargeBufferLosesNothing`
  shows when it holds: the buffer has room for the largest frame behind the largest backlog (`RoomForFrames`, a
  fact about constants), and `LargeBufferKeepsFaith` draws the conclusion.  The constants of *touchpad* satisfy
  `RoomForFrames`, those of *dropped* do not.
- `AwayFromEdge`, for what the virtual device shows: the region does not begin at the first column or row of the sensor.
  If it does, a first contact in the pad's corner has the position 0, which a fresh device already has,
  so the kernel does not pass it on; the state machine has then no value, `FindValueByEvent` says -1, and the
  contact is outside.  The proof attempt found this; the shipped layout's pad is away from the edges.

**LayoutsProofs**, from `FilesAssumption` and `NumbersAssumption`, in four parts:

- of every file: `KeysAreComplete` (`AllKeysOrNone`), `ColumnsInAnyOrder` (two files that differ in the
  order of their columns are read alike), and `NothingLeaksBetweenRows` (if every length is named, a key depends on its
  own row alone).  The invariants are `RowsAreKeys`, the number of keys read so far, and `RowsAreIndependent`;
- of every cell: `IntsAreRead` (a cell is read as an int exactly if the number written is one, and then as that
  number) and `DoublesAreRead`, both by induction over the digits.  The induction is the least-number
  principle on the set of the lengths for which the claim fails (`Upwards`), because the library's induction
  theorems cannot be instantiated; that the recursive functions exist is proved the same way (`Recursion`);
- what the processes know of the files once they have started (`PanelInv`);
- of every place of the finger: `KeysAreUnderFingers`, `PadIsUnderFinger`, `ContactsHaveOneOwner`, `PadShowsTheFinger`, `MotorIsUnderFinger`,
  the invariants of *panel*.  The argument for the first three is that the conversion to points keeps order
  (`PointsKeepOrder`), so the edges of a turned area separate what they separated on the panel; the slack
  of a unit comes from truncation.

The last part assumes what the properties are about: `FilesAreTrue`, that the digits in the files are written for the
panel the user sees, and `SensorsAreFine`, that a sensor has at least a point per unit of length (a
coarser one cannot tell two units apart, and the properties allow one unit).  TLC confirms both for the files
of *panel* (`FilesDescribeThePanel`).  `KeysAreUnderFingers` and `ContactsHaveOneOwner` also
assume a sensor that is not upside down, see *upside_down* in section 6; the others hold for all four mountings.

**ServiceProofs**, from `ArrivalsAssumption`: `TypeCorrect`, `FailuresAreLocal` (`FailuresStayLocal`), `MotorsPlayTheirOwn`
(`EffectsAreUploaded`) and `ChildrenAreWaitedFor` (`ChildIsWaitedFor`).  The invariant adds what holds before and during the
set-up (`SetUpInv`: nothing was asked before it, an empty range only of a sensor that has gone, and every call before the
next one is `Accounted` for, which is what carries a failure over the calls skipped behind it), that no
child exists before the fork (`ForkInv`), and that the libraries hold what the drivers took (`LibraryInv`).

**GeometryProofs**: `KeysDoNotOverlap` (keys that lie beside each other in the layout share no point of the sensor; the
argument is that every conversion keeps order, `TruncMonotone`) and `PadStaysInRange`.

Only model-checked: the liveness properties (`KeysComeUp`, `TapsAreDecided`, `LiftedContactsLeave`, `SensorGoneStopsService`),
which are outside the prover's reach.  Every safety property of the passing runs, and both
refinements, are theorems.

## 5. What is not modelled

- Logging, option parsing, packaging: output or data.
- Of `csv.h`, what the program does not use (quotes, comments, other types), exponents and fractions finer than a
  unit, and the blocks in which `LineReader` fetches a file (without a thread: the program
  defines `CSV_IO_NO_THREAD`): a block holds a megabyte, a layout a few
  kilobytes.
- Write errors of `SendEvent`, which the code logs and ignores.
- More than ten slots: `slots_` has `kNumSlots` elements and the code does not check the kernel's slot.
- The value of a clock that goes wrong; `CLOCK_MONOTONIC` is used throughout.
- A query of `CopyABSOutputEvents` to the sensor that fails although the sensor is there (one that has gone is modelled).
- A sensor that comes back before the old processes noticed that it went: the model has it, and the service is
  then gone until the next arrival, because the unit has no `Restart=`; no document says otherwise.
- The keyboard and the touchpad on one stream of the sensor: they share nothing but the panel, and `OneOwner`
  says that no point of it is both a key and the pad.
- Two keys with the same code, other than by two fingers on one key: releasing either releases both, and so
  the first of two fingers that leave one key releases it.  No document says what should happen;
  `NoStuckKey` allows keys to be up early, and `KeyStaysUnderFinger` says that a key is up early in no other case.

A remark on the shipped layout: the touchpad ends at 145.5 mm and the button beside it begins at 145 mm, and the
pad's far edge belongs to it while a key's does not.  Their areas share a column of the sensor, so there
a contact is a click and a touch.  `OneOwner` states the gap that excludes this.

## 6. Where code and comments differ

| Run | Property | What TLC shows |
|---|---|---|
| blind_wait | `NoBlindWait` | An event overdue by one to two milliseconds gives a timeout of -1 + 1 = 0, which `GetNextEvent` takes for "none": the process sleeps in `read()` with a key event pending until the sensor is touched again. (`fakekeyboard.cc:347`) |
| fn_layer | `FnLayerNeedsFinger` | A finger that slides off Fn before its key-down was sent leaves the Fn layer on. (`fakekeyboard.cc:286`) |
| quick_tap | `GuaranteedAreChecked` | A tap shorter than the delay is never checked for its weight. (`fakekeyboard.cc:179`) |
| light_tap | `LeavingFingersWereSent` | A finger whose tap was dropped for its weight gets a key-up when it lifts, for a key-down that was neither sent nor marked. (`fakekeyboard.cc:191`) |
| dropped | `SnapshotIsSensor` | After the kernel's buffer overflowed, the state machine disagrees with the sensor for good. The model's buffer holds 16 events, the kernel's at least 64; the overflow is the same. (`eventkey.cc:14`) |
| attach | `KnownFingersAreReal` | A process that starts while fingers touch takes the kernel's current slot for slot 0, and its state machine gives one finger the position of another. (`statemachine.h:39`) |
| upside_down | `UpsideDownKeysWork` | For a rotation of 180 degrees `x2` is never set, and no key can be hit. (`fakekeyboard.cc:88`) |

## 7. Plan

Done: the keyboard with its invariants proved, and what it implements; its clock arithmetic; state machine and
touchpad, with what they implement, also started late; geometry and the files it is read from; the service
with its set-up call by call.  Every safety property of the passing runs is proved.  Left:

1. five and more contacts on the touchpad in TLC (the theorems cover any number);
2. the conversion of exponents in `parse_float`, if a layout file ever has one;
3. the fate of a touchpad whose region begins at the sensor's edge, beyond what `AwayFromEdge` excludes.
