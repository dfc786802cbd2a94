------------------------------ MODULE Service -------------------------------
(***************************************************************************)
(* The life of the two processes (main.cc): how the service starts when    *)
(* udev finds the sensor, forks into keyboard and touchpad, sets up its    *)
(* devices, and ends when the sensor goes.  Every call may fail, and most  *)
(* of their results are ignored.                                           *)
(*                                                                         *)
(* systemd and udev are modelled from the unit and the rules: the service  *)
(* is started when the sensor appears and is not active, never restarted,  *)
(* and when its main process exits systemd kills what is left of it.       *)
(***************************************************************************)
EXTENDS Integers, Sequences, FiniteSets

CONSTANT MaxArrivals   \* bound: how often the sensor appears

ASSUME ArrivalsAssumption == MaxArrivals \in Nat

Processes == {"keyboard", "touchpad"}   \* the parent and the child
Motors == {"left", "right"}
NoEffect == -1
UinputCalls == {"open", "EV_KEY", "keys", "EV_ABS", "enable slot", "range slot",
                "enable place", "range place", "setup", "create"}

\* What Start() asks of uinput, in order: CreateUinputFD, EnableEventType and
\* EnableKeyEvent, CopyABSOutputEvents, and the two calls of
\* FinalizeUinputCreation.  CopyABSOutputEvents takes the sensor's axes in the order
\* of their codes (here the slot and a position), enables each and sets its range.
Calls ==
  [p \in Processes |->
     IF p = "keyboard" THEN <<"open", "EV_KEY", "keys", "setup", "create">>
     ELSE <<"open", "EV_KEY", "keys", "EV_ABS",
            "enable slot", "range slot", "enable place", "range place",
            "setup", "create">>]

\* The two functions that make several calls, and return at the first that fails.
CopyABSOutputEvents == {"EV_ABS", "enable slot", "range slot", "enable place", "range place"}
FinalizeUinputCreation == {"setup", "create"}

Together(c, d) ==
  \/ c = d
  \/ {c, d} \subseteq CopyABSOutputEvents \/ {c, d} \subseteq FinalizeUinputCreation

VARIABLES
  sensor,     \* whether the touch sensor is there
  arrivals,   \* how often it has come
  active,     \* whether systemd holds the service for active
  pc,         \* where each process is
  source,     \* its source_fd_: "none", "live", or "dead" when the sensor left
  step,       \* the number of its next uinput call
  granted,    \* the uinput calls that succeeded, while its descriptor is open
  failed,     \* those that were made and failed
  blank,      \* those that passed on what a sensor that had left did not say
  motors,     \* per motor: whether it is open, and the effects its driver has taken
  fflib,      \* the ids in left_driver_fflib_ and right_driver_fflib_
  played      \* per motor: the effects that were written to it

vars == <<sensor, arrivals, active, pc, source, step, granted, failed, blank, motors, fflib, played>>
world == <<sensor, arrivals, active>>
uinput == <<step, granted, failed, blank>>
haptics == <<motors, fflib, played>>

NoMotors == [m \in Motors |-> [open |-> FALSE, taken |-> {}]]
EmptyLib == [m \in Motors |-> NoEffect]
NothingPlayed == [m \in Motors |-> {}]

Goto(p, l) == pc' = [pc EXCEPT ![p] = l]

\* TouchFFManager and its drivers live in the keyboard process, and the kernel
\* forgets the effects of a motor that is closed.
CloseMotors == motors' = NoMotors /\ fflib' = EmptyLib /\ played' = NothingPlayed

\* The process is gone, and with it its descriptors and the uinput device.
Exit(p) ==
  /\ Goto(p, "exited")
  /\ source' = [source EXCEPT ![p] = "none"]
  /\ step' = [step EXCEPT ![p] = 1]
  /\ granted' = [granted EXCEPT ![p] = {}]
  /\ failed' = [failed EXCEPT ![p] = {}]
  /\ blank' = [blank EXCEPT ![p] = {}]
  /\ IF p = "keyboard" THEN CloseMotors ELSE UNCHANGED haptics

-----------------------------------------------------------------------------
(* The world.                                                              *)

\* udev finds the sensor; systemd starts the service unless it is active.
SensorArrives ==
  /\ ~sensor /\ arrivals < MaxArrivals
  /\ sensor' = TRUE /\ arrivals' = arrivals + 1 /\ active' = TRUE
  /\ IF active THEN UNCHANGED pc ELSE Goto("keyboard", "load")
  /\ UNCHANGED <<source, uinput, haptics>>

\* Open descriptors of the sensor are dead from now on.
SensorLeaves ==
  /\ sensor /\ sensor' = FALSE
  /\ source' = [p \in Processes |-> IF source[p] = "live" THEN "dead" ELSE source[p]]
  /\ UNCHANGED <<arrivals, active, pc, uinput, haptics>>

\* The main process has exited: systemd kills the rest of the service.
Stop ==
  /\ active /\ pc["keyboard"] = "exited"
  /\ active' = FALSE
  /\ pc' = [p \in Processes |-> "none"]
  /\ source' = [p \in Processes |-> "none"]
  /\ step' = [p \in Processes |-> 1]
  /\ granted' = [p \in Processes |-> {}]
  /\ failed' = [p \in Processes |-> {}]
  /\ blank' = [p \in Processes |-> {}]
  /\ CloseMotors
  /\ UNCHANGED <<sensor, arrivals>>

-----------------------------------------------------------------------------
(* The processes.                                                          *)

\* Without touch-hw.csv the reader throws, outside of main()'s try; without a row
\* in it LoadHWConfig returns FALSE, which is ignored.
LoadHWConfig ==
  /\ pc["keyboard"] = "load"
  /\ \/ Goto("keyboard", "fork") /\ UNCHANGED <<source, uinput, haptics>>
     \/ Exit("keyboard")
  /\ UNCHANGED world

\* A failed fork() is logged, and main() returns.
Fork ==
  /\ pc["keyboard"] = "fork"
  /\ \/ /\ pc' = [p \in Processes |-> IF p = "keyboard" THEN "haptic" ELSE "layout"]
        /\ UNCHANGED <<source, uinput, haptics>>
     \/ Exit("keyboard")
  /\ UNCHANGED world

\* UploadEffect: the id the motor's driver gave to the effect, or -1.
Uploaded(motor) == IF motor.taken = {} THEN NoEffect ELSE CHOOSE id \in motor.taken : TRUE

\* Mutant: the id of the left upload is kept for both.
RegisterLeft(ms) == [m \in Motors |-> Uploaded(ms["left"])]

RegisterFF(ms) == [m \in Motors |-> Uploaded(ms[m])]

\* TouchFFManager: each motor may be missing, or refuse the effect.  (A gain that
\* cannot be set is logged only.)
OpenMotors ==
  /\ pc["keyboard"] = "haptic"
  /\ motors' \in [Motors -> [open : BOOLEAN, taken : {{}, {0}, {1}}]]
  /\ \A m \in Motors : motors'[m].taken # {} => motors'[m].open
  /\ fflib' = RegisterFF(motors')
  /\ Goto("keyboard", "layout")
  /\ UNCHANGED <<world, source, uinput, played>>

\* A missing layout file throws into main()'s catch, in either process.
LoadLayout(p) ==
  /\ pc[p] = "layout"
  /\ \/ Goto(p, "source") /\ UNCHANGED <<source, uinput, haptics>>
     \/ Exit(p)
  /\ UNCHANGED world

\* OpenSourceDevice.  If it fails Start() returns: the child leaves main(), the
\* parent waits for the child.
OpenSource(p) ==
  /\ pc[p] = "source"
  /\ \/ /\ sensor
        /\ source' = [source EXCEPT ![p] = "live"]
        /\ Goto(p, "setup")
        /\ UNCHANGED <<uinput, haptics>>
     \/ /\ p = "keyboard" /\ Goto(p, "wait") /\ UNCHANGED <<source, uinput, haptics>>
     \/ p = "touchpad" /\ Exit(p)
  /\ UNCHANGED world

\* Mutants: the calls go on behind the last one; Start() gives up at a failure.
FollowingPastTheLast(p, goesOn) == {i \in 1 .. Len(Calls[p]) + 1 : i > step[p]}
FollowingSuccess(p, goesOn) == {i \in 1 .. Len(Calls[p]) : i > step[p] /\ goesOn}

\* The calls that may come next: the others of the same function only if it goes
\* on, and then those of Start(), which ignores how its functions end.
Following(p, goesOn) ==
  {i \in 1 .. Len(Calls[p]) :
     i > step[p] /\ (goesOn \/ ~Together(Calls[p][i], Calls[p][step[p]]))}

SetUpNext(p, goesOn) ==
  \/ Following(p, goesOn) = {} /\ Goto(p, "run") /\ UNCHANGED step
  \/ \E i \in Following(p, goesOn) :
       /\ \A j \in Following(p, goesOn) : i <= j
       /\ step' = [step EXCEPT ![p] = i] /\ UNCHANGED pc

\* CopyABSOutputEvents asks the sensor for its types of events before "EV_ABS", for
\* its axes before the first of them, and for the range of each.  If the sensor
\* has left, the results are ignored, and the answers are what was there
\* before: no types, no axes, an empty range.
NothingToCopy(p) == source[p] = "dead" /\ Calls[p][step[p]] \in {"EV_ABS", "enable slot"}
NoRange(p) == source[p] = "dead" /\ Calls[p][step[p]] = "range slot"

\* One call to uinput.  Without a descriptor every other call fails.
SetUp(p) ==
  /\ pc[p] = "setup"
  /\ LET call == Calls[p][step[p]]
     IN  \/ /\ ~NothingToCopy(p) /\ (call = "open" \/ "open" \in granted[p])
            /\ granted' = [granted EXCEPT ![p] = @ \cup {call}]
            /\ blank' = IF NoRange(p) THEN [blank EXCEPT ![p] = @ \cup {call}] ELSE blank
            /\ SetUpNext(p, TRUE)
            /\ UNCHANGED failed
         \/ /\ ~NothingToCopy(p)
            /\ failed' = [failed EXCEPT ![p] = @ \cup {call}]
            /\ SetUpNext(p, FALSE)
            /\ UNCHANGED <<granted, blank>>
         \/ /\ NothingToCopy(p)
            /\ SetUpNext(p, FALSE)
            /\ UNCHANGED <<granted, failed, blank>>
  /\ UNCHANGED <<world, source, haptics>>

\* A finger lands on a key: PlayEffect, with the motor's own id, on the motor
\* below it.  That may still be the work of an event read before the sensor went.
Play(m) ==
  /\ pc["keyboard"] = "run"
  /\ motors[m].open /\ fflib[m] >= 0
  /\ played' = [played EXCEPT ![m] = @ \cup {fflib[m]}]
  /\ UNCHANGED <<world, pc, source, uinput, motors, fflib>>

\* Mutant: a failed read() counts as a timeout.
ReadFailsSilently(p) ==
  pc[p] = "run" /\ source[p] = "dead" /\ UNCHANGED vars

\* read() fails, GetNextEvent throws, main() catches and exits.
ReadFails(p) ==
  /\ pc[p] = "run" /\ source[p] = "dead"
  /\ Exit(p)
  /\ UNCHANGED world

\* Mutant: nobody waits.
WaitForNobody ==
  /\ pc["keyboard"] = "wait"
  /\ Exit("keyboard")
  /\ UNCHANGED world

\* wait(NULL) returns when the child has exited.
Wait ==
  /\ pc["keyboard"] = "wait" /\ pc["touchpad"] = "exited"
  /\ Exit("keyboard")
  /\ UNCHANGED world

-----------------------------------------------------------------------------
Init ==
  /\ sensor = FALSE /\ arrivals = 0 /\ active = FALSE
  /\ pc = [p \in Processes |-> "none"]
  /\ source = [p \in Processes |-> "none"]
  /\ step = [p \in Processes |-> 1]
  /\ granted = [p \in Processes |-> {}] /\ failed = [p \in Processes |-> {}]
  /\ blank = [p \in Processes |-> {}]
  /\ motors = NoMotors /\ fflib = EmptyLib /\ played = NothingPlayed

Process(p) == LoadLayout(p) \/ OpenSource(p) \/ SetUp(p) \/ ReadFails(p)

Main == LoadHWConfig \/ Fork \/ OpenMotors \/ Wait

Next ==
  \/ SensorArrives \/ SensorLeaves \/ Stop \/ Main
  \/ \E p \in Processes : Process(p)
  \/ \E m \in Motors : Play(m)

Spec == Init /\ [][Next]_vars

\* Processes that can run do, and systemd notices an exit.  The sensor need not
\* move, and nobody has to type.
FairSpec ==
  /\ Spec
  /\ WF_vars(Main) /\ WF_vars(Stop)
  /\ \A p \in Processes : WF_vars(Process(p))

-----------------------------------------------------------------------------
TypeOK ==
  /\ sensor \in BOOLEAN /\ active \in BOOLEAN /\ arrivals \in 0 .. MaxArrivals
  /\ pc \in [Processes -> {"none", "load", "fork", "haptic", "layout", "source",
                           "setup", "run", "wait", "exited"}]
  /\ source \in [Processes -> {"none", "live", "dead"}]
  /\ step \in [Processes -> Nat]
  /\ \A p \in Processes : step[p] \in 1 .. Len(Calls[p])
  /\ granted \in [Processes -> SUBSET UinputCalls] /\ failed \in [Processes -> SUBSET UinputCalls]
  /\ blank \in [Processes -> SUBSET UinputCalls]
  /\ motors \in [Motors -> [open : BOOLEAN, taken : SUBSET {0, 1}]]
  /\ fflib \in [Motors -> {NoEffect, 0, 1}]
  /\ played \in [Motors -> SUBSET {0, 1}]

\* Why a device may be without what the i-th call asks for: the call failed, or one
\* before it in the same function, or the sensor to copy it from is gone.
Accounted(p, i) ==
  \/ Calls[p][i] \in granted[p] \ blank[p]
  \/ \E j \in 1 .. i : Calls[p][j] \in failed[p] /\ Together(Calls[p][j], Calls[p][i])
  \/ Calls[p][i] \in CopyABSOutputEvents /\ source[p] = "dead"

\* Start() ignores every result, so a process may enter its loop with less than a
\* whole device, or with none.  But a failure costs no more than the rest of the
\* function it happens in, and no device announces less than the sensor, or an
\* empty range, for a process that still has the sensor, unless the kernel refused it.
FailuresStayLocal ==
  \A p \in Processes :
    pc[p] = "run" => \A i \in 1 .. Len(Calls[p]) : Accounted(p, i)

\* Each motor has a library of its own (RegisterFF): whatever is written to a
\* motor names an effect that this motor has taken, whichever of the two motors
\* is missing, refuses the effect or numbers it differently.
EffectsAreUploaded == \A m \in Motors : played[m] \subseteq motors[m].taken

\* systemd kills the touchpad when the keyboard, its parent, exits.  A parent that has
\* nothing to do, because it could not open the sensor, waits for its child; one that
\* exits over a child at work has lost its layout file or the sensor (main()).
ChildIsWaitedFor ==
  [][pc["keyboard"] # "exited" /\ pc'["keyboard"] = "exited" =>
       \/ pc["touchpad"] \in {"none", "exited"}
       \/ pc["keyboard"] = "layout"
       \/ source["keyboard"] = "dead"]_vars

\* When the sensor goes, so does the service, with both processes and their
\* virtual devices - also when the parent waits for a child that runs.
SensorGoneStopsService ==
  ~sensor ~> (sensor \/ (~active /\ \A p \in Processes : pc[p] = "none" /\ granted[p] = {}))
=============================================================================
