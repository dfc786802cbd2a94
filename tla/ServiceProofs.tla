---------------------------- MODULE ServiceProofs ----------------------------
(***************************************************************************)
(* Theorems about Service, however often the sensor comes and goes.        *)
(***************************************************************************)
EXTENDS Service, TLAPS

(***************************************************************************)
(* The inductive invariant.                                                *)
(***************************************************************************)

\* A process that has not begun to set up its device has asked for nothing; of one
\* that is at it, every call so far is accounted for, the skipped ones included.
\* What was copied from nothing was copied because the sensor was gone.
SetUpInv ==
  \A p \in Processes :
    /\ pc[p] \notin {"setup", "run"} => step[p] = 1 /\ granted[p] = {} /\ blank[p] = {}
    /\ blank[p] \subseteq CopyABSOutputEvents
    /\ blank[p] # {} => source[p] = "dead"
    /\ pc[p] = "setup" => \A i \in 1 .. step[p] - 1 : Accounted(p, i)

\* The libraries hold what the drivers have taken, and nothing is played before
\* they are filled.
LibraryInv ==
  /\ \A m \in Motors : fflib[m] # NoEffect => fflib[m] \in motors[m].taken
  /\ pc["keyboard"] \in {"none", "load", "fork", "haptic"} => played = NothingPlayed
  /\ ~active => pc["keyboard"] = "none"

\* There is no child before the fork.
ForkInv == pc["keyboard"] \in {"none", "load", "fork"} => pc["touchpad"] = "none"

IndInv ==
  TypeOK /\ SetUpInv /\ FailuresStayLocal /\ ForkInv /\ LibraryInv
  /\ EffectsAreUploaded

LEMMA CallsShape ==
  \A p \in Processes :
    /\ Len(Calls[p]) \in Nat \ {0}
    /\ \A i \in 1 .. Len(Calls[p]) : Calls[p][i] \in UinputCalls
<1>. SUFFICES ASSUME NEW p \in Processes
              PROVE  /\ Len(Calls[p]) \in Nat \ {0}
                     /\ \A i \in 1 .. Len(Calls[p]) : Calls[p][i] \in UinputCalls
  OBVIOUS
<1>1. Calls[p] \in Seq(UinputCalls) /\ Len(Calls[p]) \in {5, 10}
  <2>1. CASE p = "keyboard"
    BY <2>1 DEF Calls, UinputCalls
  <2>2. CASE p = "touchpad"
    BY <2>2 DEF Calls, UinputCalls
  <2>. QED
    BY <2>1, <2>2 DEF Processes
<1>2. ASSUME NEW s \in Seq(UinputCalls)
      PROVE  \A i \in 1 .. Len(s) : s[i] \in UinputCalls
  OBVIOUS
<1>. QED
  BY <1>1, <1>2

LEMMA NoHaptics ==
  /\ NoMotors \in [Motors -> [open : BOOLEAN, taken : SUBSET {0, 1}]]
  /\ EmptyLib \in [Motors -> {NoEffect, 0, 1}]
  /\ NothingPlayed \in [Motors -> SUBSET {0, 1}]
<1>1. [open |-> FALSE, taken |-> {}] \in [open : BOOLEAN, taken : SUBSET {0, 1}]
  OBVIOUS
<1>. QED
  BY <1>1, Zenon DEF NoMotors, EmptyLib, NothingPlayed

LEMMA InitEstablishes == Init => IndInv
<1>. SUFFICES ASSUME Init PROVE IndInv
  OBVIOUS
<1>1. TypeOK
  <2>0. sensor \in BOOLEAN /\ active \in BOOLEAN
    BY Zenon DEF Init
  <2>1. /\ arrivals \in 0 .. MaxArrivals
        /\ pc \in [Processes -> {"none", "load", "fork", "haptic", "layout", "source",
                                 "setup", "run", "wait", "exited"}]
        /\ source \in [Processes -> {"none", "live", "dead"}]
    BY ArrivalsAssumption DEF Init
  <2>2. /\ step \in [Processes -> Nat]
        /\ \A p \in Processes : step[p] \in 1 .. Len(Calls[p])
    BY CallsShape DEF Init
  <2>3. /\ granted \in [Processes -> SUBSET UinputCalls] /\ failed \in [Processes -> SUBSET UinputCalls]
        /\ blank \in [Processes -> SUBSET UinputCalls]
    BY Zenon DEF Init
  <2>. QED
    BY <2>0, <2>1, <2>2, <2>3, NoHaptics, Zenon DEF Init, TypeOK
<1>2. SetUpInv /\ FailuresStayLocal
  BY DEF Init, SetUpInv, FailuresStayLocal
<1>3. ForkInv /\ LibraryInv /\ EffectsAreUploaded
  BY DEF Init, ForkInv, LibraryInv, EffectsAreUploaded, EmptyLib, NothingPlayed, NoMotors, NoEffect, Processes
<1>. QED
  BY <1>1, <1>2, <1>3 DEF IndInv

(***************************************************************************)
(* Steps.                                                                  *)
(***************************************************************************)

\* The set-up of a process that does nothing, or is not at its set-up.
LEMMA SetUpElsewhere ==
  ASSUME SetUpInv, FailuresStayLocal, NEW p \in Processes,
         step'[p] = step[p], granted'[p] = granted[p], failed'[p] = failed[p], blank'[p] = blank[p],
         pc'[p] = pc[p] \/ (pc[p] \notin {"setup", "run"} /\ pc'[p] # "run"),
         source'[p] = source[p] \/ source'[p] = "dead" \/ pc[p] \notin {"setup", "run"}
  PROVE  /\ pc'[p] \notin {"setup", "run"} =>
              step'[p] = 1 /\ granted'[p] = {} /\ blank'[p] = {}
         /\ blank'[p] \subseteq CopyABSOutputEvents
         /\ blank'[p] # {} => source'[p] = "dead"
         /\ pc'[p] = "setup" => \A i \in 1 .. step'[p] - 1 : Accounted(p, i)'
         /\ pc'[p] = "run" => \A i \in 1 .. Len(Calls[p]) : Accounted(p, i)'
<1>1. CASE pc[p] \notin {"setup", "run"}
  BY <1>1 DEF SetUpInv
<1>2. CASE pc[p] \in {"setup", "run"}
  <2>1. pc'[p] = pc[p] /\ (source'[p] = source[p] \/ source'[p] = "dead")
    BY <1>2
  <2>2. \A i : Accounted(p, i) => Accounted(p, i)'
    BY <2>1, Zenon DEF Accounted
  <2>. QED
    BY <2>1, <2>2, <1>2, Zenon DEF SetUpInv, FailuresStayLocal
<1>. QED
  BY <1>1, <1>2

LEMMA SetUpKept ==
  ASSUME SetUpInv, FailuresStayLocal, UNCHANGED uinput,
         \A p \in Processes :
           /\ pc'[p] = pc[p] \/ (pc[p] \notin {"setup", "run"} /\ pc'[p] # "run")
           /\ source'[p] = source[p] \/ source'[p] = "dead" \/ pc[p] \notin {"setup", "run"}
  PROVE  SetUpInv' /\ FailuresStayLocal'
BY SetUpElsewhere, Zenon DEF SetUpInv, FailuresStayLocal, uinput

\* A process that exits takes its device with it.
LEMMA ExitPreserves ==
  ASSUME IndInv, NEW p \in Processes, Exit(p), pc[p] # "none", p = "keyboard" => active,
         UNCHANGED world
  PROVE  IndInv'
<1>0. UNCHANGED <<motors, fflib, played>> \/ CloseMotors
  BY DEF Exit, haptics
<1>1. TypeOK'
  <2>1. /\ motors' \in [Motors -> [open : BOOLEAN, taken : SUBSET {0, 1}]]
        /\ fflib' \in [Motors -> {NoEffect, 0, 1}]
        /\ played' \in [Motors -> SUBSET {0, 1}]
    BY <1>0, NoHaptics, Zenon DEF IndInv, TypeOK, CloseMotors
  <2>2. /\ sensor' \in BOOLEAN /\ active' \in BOOLEAN /\ arrivals' \in 0 .. MaxArrivals
        /\ pc' \in [Processes -> {"none", "load", "fork", "haptic", "layout", "source",
                                  "setup", "run", "wait", "exited"}]
        /\ source' \in [Processes -> {"none", "live", "dead"}]
        /\ step' \in [Processes -> Nat]
        /\ \A q \in Processes : step'[q] \in 1 .. Len(Calls[q])
        /\ granted' \in [Processes -> SUBSET UinputCalls]
        /\ failed' \in [Processes -> SUBSET UinputCalls]
        /\ blank' \in [Processes -> SUBSET UinputCalls]
    BY CallsShape DEF IndInv, TypeOK, Exit, Goto, world
  <2>. QED
    BY <2>1, <2>2, Zenon DEF TypeOK
<1>2. SetUpInv' /\ FailuresStayLocal'
  <2>1. /\ pc'[p] = "exited" /\ step'[p] = 1 /\ granted'[p] = {} /\ blank'[p] = {}
        /\ \A q \in Processes \ {p} :
             /\ pc'[q] = pc[q] /\ source'[q] = source[q] /\ step'[q] = step[q]
             /\ granted'[q] = granted[q] /\ failed'[q] = failed[q] /\ blank'[q] = blank[q]
    BY DEF IndInv, TypeOK, Exit, Goto
  <2>2. {} \subseteq CopyABSOutputEvents
    OBVIOUS
  <2>. QED
    BY <2>1, <2>2, SetUpElsewhere, Zenon DEF IndInv, SetUpInv, FailuresStayLocal
<1>3. ForkInv'
  BY DEF IndInv, TypeOK, ForkInv, Exit, Goto, Processes
<1>4. LibraryInv' /\ EffectsAreUploaded'
  <2>1. CASE UNCHANGED <<motors, fflib, played>>
    BY <2>1 DEF IndInv, TypeOK, LibraryInv, EffectsAreUploaded, Exit, Goto, world, Processes
  <2>2. CASE CloseMotors
    BY <2>2 DEF IndInv, TypeOK, LibraryInv, EffectsAreUploaded, Exit, Goto, world, Processes,
                CloseMotors, NoMotors, EmptyLib, NothingPlayed, NoEffect
  <2>. QED
    BY <1>0, <2>1, <2>2
<1>. QED
  BY <1>1, <1>2, <1>3, <1>4 DEF IndInv

\* A process goes on, to a place before its set-up, or to the set-up.
LEMMA GotoPreserves ==
  ASSUME IndInv, NEW p \in Processes, pc[p] \in {"load", "fork", "layout", "source"},
         NEW l \in {"fork", "haptic", "layout", "source", "setup", "wait"},
         Goto(p, l), p = "keyboard" /\ l \in {"fork", "haptic"} =>
           pc["keyboard"] = "load" /\ played = NothingPlayed,
         p = "keyboard" => active,
         source' \in [Processes -> {"none", "live", "dead"}],
         \A q \in Processes : q # p => source'[q] = source[q],
         UNCHANGED <<world, uinput, haptics>>
  PROVE  IndInv'
<1>1. TypeOK'
  BY DEF IndInv, TypeOK, Goto, world, uinput, haptics
<1>2. SetUpInv' /\ FailuresStayLocal'
  <2>1. \A q \in Processes :
          /\ pc'[q] = pc[q] \/ (pc[q] \notin {"setup", "run"} /\ pc'[q] # "run")
          /\ source'[q] = source[q] \/ pc[q] \notin {"setup", "run"}
    BY DEF IndInv, TypeOK, Goto
  <2>. QED
    BY <2>1, SetUpKept DEF IndInv
<1>3. ForkInv' /\ LibraryInv' /\ EffectsAreUploaded'
  BY DEF IndInv, TypeOK, ForkInv, LibraryInv, EffectsAreUploaded, Goto, world, haptics, Processes
<1>. QED
  BY <1>1, <1>2, <1>3 DEF IndInv

LEMMA StopPreserves ==
  ASSUME IndInv, Stop
  PROVE  IndInv'
<1>1. TypeOK'
  <2>1. /\ sensor' \in BOOLEAN /\ active' \in BOOLEAN /\ arrivals' \in 0 .. MaxArrivals
        /\ pc' \in [Processes -> {"none", "load", "fork", "haptic", "layout", "source",
                                  "setup", "run", "wait", "exited"}]
        /\ source' \in [Processes -> {"none", "live", "dead"}]
    BY DEF IndInv, TypeOK, Stop
  <2>2. /\ step' \in [Processes -> Nat]
        /\ \A p \in Processes : step'[p] \in 1 .. Len(Calls[p])
    BY CallsShape DEF Stop
  <2>3. /\ granted' \in [Processes -> SUBSET UinputCalls] /\ failed' \in [Processes -> SUBSET UinputCalls]
        /\ blank' \in [Processes -> SUBSET UinputCalls]
    BY Zenon DEF Stop
  <2>. QED
    BY <2>1, <2>2, <2>3, NoHaptics, Zenon DEF Stop, CloseMotors, TypeOK
<1>2. SetUpInv' /\ FailuresStayLocal'
  BY DEF Stop, SetUpInv, FailuresStayLocal
<1>3. ForkInv' /\ LibraryInv' /\ EffectsAreUploaded'
  BY DEF Stop, CloseMotors, ForkInv, LibraryInv, EffectsAreUploaded, NoMotors, EmptyLib, NothingPlayed,
         NoEffect, Processes
<1>. QED
  BY <1>1, <1>2, <1>3 DEF IndInv

\* What one call leaves behind, whether it succeeds, fails or is not made.
Answered(p, goesOn) ==
  /\ \/ /\ goesOn /\ granted' = [granted EXCEPT ![p] = @ \cup {Calls[p][step[p]]}]
        /\ failed' = failed
        /\ \/ blank' = blank
           \/ /\ blank' = [blank EXCEPT ![p] = @ \cup {Calls[p][step[p]]}]
              /\ source[p] = "dead" /\ Calls[p][step[p]] \in CopyABSOutputEvents
     \/ /\ ~goesOn /\ failed' = [failed EXCEPT ![p] = @ \cup {Calls[p][step[p]]}]
        /\ granted' = granted /\ blank' = blank
     \/ /\ ~goesOn /\ source[p] = "dead" /\ Calls[p][step[p]] \in CopyABSOutputEvents
        /\ UNCHANGED <<granted, failed, blank>>
  /\ SetUpNext(p, goesOn)

LEMMA SetUpAnswers ==
  ASSUME NEW p \in Processes, SetUp(p)
  PROVE  \E goesOn \in BOOLEAN : Answered(p, goesOn)
<1>1. {"EV_ABS", "enable slot", "range slot"} \subseteq CopyABSOutputEvents
  BY DEF CopyABSOutputEvents
<1>2. Answered(p, TRUE) \/ Answered(p, FALSE)
  BY <1>1 DEF SetUp, Answered, NothingToCopy, NoRange
<1>. QED
  BY <1>2

\* What was accounted for stays so.
LEMMA StillAccounted ==
  ASSUME NEW p \in Processes, NEW goesOn \in BOOLEAN, Answered(p, goesOn), TypeOK,
         source' = source, NEW i, Accounted(p, i)
  PROVE  Accounted(p, i)'
<1>1. /\ granted[p] \subseteq granted'[p] /\ failed[p] \subseteq failed'[p]
      /\ \/ blank'[p] = blank[p]
         \/ /\ blank'[p] = blank[p] \cup {Calls[p][step[p]]}
            /\ source[p] = "dead" /\ Calls[p][step[p]] \in CopyABSOutputEvents
  BY DEF Answered, TypeOK
<1>2. CASE Calls[p][i] \in granted[p] \ blank[p]
  BY <1>1, <1>2 DEF Accounted
<1>3. CASE ~(Calls[p][i] \in granted[p] \ blank[p])
  BY <1>1, <1>3 DEF Accounted
<1>. QED
  BY <1>2, <1>3

\* The call itself and those it makes the code skip are accounted for, up to the
\* next one.
LEMMA SkippedAccounted ==
  ASSUME NEW p \in Processes, NEW goesOn \in BOOLEAN, Answered(p, goesOn), TypeOK, SetUpInv,
         source' = source, NEW i \in 1 .. Len(Calls[p]), step[p] <= i,
         i # step[p] => i \notin Following(p, goesOn)
  PROVE  Accounted(p, i)'
<1>0. step[p] \in 1 .. Len(Calls[p]) /\ step[p] \in Int
  BY DEF TypeOK
<1>1. i = step[p] \/ (~goesOn /\ Together(Calls[p][i], Calls[p][step[p]]))
  BY <1>0 DEF Following
<1>2. Together(Calls[p][step[p]], Calls[p][i])
  BY <1>1 DEF Together
<1>3. CASE goesOn
  <2>1. i = step[p] /\ Calls[p][i] \in granted'[p]
    BY <1>1, <1>3 DEF Answered, TypeOK
  <2>2. Calls[p][i] \in blank'[p] => source'[p] = "dead" /\ Calls[p][i] \in CopyABSOutputEvents
    BY <1>3, <2>1 DEF Answered, SetUpInv, TypeOK
  <2>. QED
    BY <2>1, <2>2 DEF Accounted
<1>4. CASE ~goesOn
  <2>1. CASE failed' = [failed EXCEPT ![p] = @ \cup {Calls[p][step[p]]}]
    <3>1. Calls[p][step[p]] \in failed'[p]
      BY <2>1 DEF TypeOK
    <3>2. step[p] \in 1 .. i
      BY <1>0
    <3>. QED
      BY <1>2, <3>1, <3>2, Zenon DEF Accounted
  <2>2. CASE source[p] = "dead" /\ Calls[p][step[p]] \in CopyABSOutputEvents
    <3>1. Calls[p][i] \in CopyABSOutputEvents
      BY <1>2, <2>2 DEF Together, CopyABSOutputEvents, FinalizeUinputCreation
    <3>. QED
      BY <2>2, <3>1 DEF Accounted
  <2>. QED
    BY <1>4, <2>1, <2>2 DEF Answered
<1>. QED
  BY <1>3, <1>4

\* The set-up: call by call, nothing is lost without a reason.
LEMMA SetUpPreserves ==
  ASSUME IndInv, NEW p \in Processes, SetUp(p)
  PROVE  IndInv'
<1>. PICK goesOn \in BOOLEAN : Answered(p, goesOn)
  BY SetUpAnswers
<1>1. /\ pc[p] = "setup" /\ step[p] \in 1 .. Len(Calls[p]) /\ step[p] \in Nat
      /\ Calls[p][step[p]] \in UinputCalls /\ Len(Calls[p]) \in Nat
      /\ TypeOK /\ SetUpInv
  BY CallsShape DEF SetUp, IndInv, TypeOK
<1>2. UNCHANGED <<sensor, arrivals, active, source, motors, fflib, played>>
  BY DEF SetUp, world, haptics
<1>3. \/ /\ Following(p, goesOn) = {}
         /\ pc' = [pc EXCEPT ![p] = "run"] /\ step' = step
      \/ /\ pc' = pc /\ step'[p] \in Following(p, goesOn)
         /\ \A j \in Following(p, goesOn) : step'[p] <= j
         /\ step' = [step EXCEPT ![p] = step'[p]]
  BY <1>1 DEF Answered, SetUpNext, Goto, TypeOK
<1>4. TypeOK'
  <2>1. /\ granted' \in [Processes -> SUBSET UinputCalls] /\ failed' \in [Processes -> SUBSET UinputCalls]
        /\ blank' \in [Processes -> SUBSET UinputCalls]
    <3>1. /\ granted \in [Processes -> SUBSET UinputCalls]
          /\ failed \in [Processes -> SUBSET UinputCalls]
          /\ blank \in [Processes -> SUBSET UinputCalls]
      BY DEF IndInv, TypeOK
    <3>2. /\ granted[p] \cup {Calls[p][step[p]]} \in SUBSET UinputCalls
          /\ failed[p] \cup {Calls[p][step[p]]} \in SUBSET UinputCalls
          /\ blank[p] \cup {Calls[p][step[p]]} \in SUBSET UinputCalls
      BY <1>1, <3>1
    <3>. QED
      BY <3>1, <3>2 DEF Answered
  <2>2. /\ step' \in [Processes -> Nat]
        /\ \A q \in Processes : step'[q] \in 1 .. Len(Calls[q])
    <3>1. Following(p, goesOn) \subseteq 1 .. Len(Calls[p]) /\ 1 .. Len(Calls[p]) \subseteq Nat
      BY DEF Following
    <3>. QED
      BY <1>1, <1>3, <3>1 DEF TypeOK
  <2>3. pc' \in [Processes -> {"none", "load", "fork", "haptic", "layout", "source",
                              "setup", "run", "wait", "exited"}]
    BY <1>1, <1>3 DEF TypeOK
  <2>. QED
    BY <1>1, <1>2, <2>1, <2>2, <2>3, Zenon DEF TypeOK
<1>5. ASSUME NEW q \in Processes, q # p
      PROVE  /\ granted'[q] = granted[q] /\ failed'[q] = failed[q] /\ blank'[q] = blank[q]
             /\ pc'[q] = pc[q] /\ step'[q] = step[q]
             /\ \A i : Accounted(q, i) => Accounted(q, i)'
  <2>1. /\ granted'[q] = granted[q] /\ failed'[q] = failed[q] /\ blank'[q] = blank[q]
    BY <1>1, <1>5 DEF Answered, TypeOK
  <2>2. pc'[q] = pc[q] /\ step'[q] = step[q]
    BY <1>1, <1>3, <1>5 DEF TypeOK
  <2>. QED
    BY <1>2, <2>1, <2>2, Zenon DEF Accounted
<1>6. ASSUME NEW i \in 1 .. Len(Calls[p]),
             i >= step[p] /\ i # step[p] => i \notin Following(p, goesOn)
      PROVE  Accounted(p, i)'
  <2>1. CASE i < step[p]
    <3>1. Accounted(p, i)
      <4>1. i \in 1 .. step[p] - 1
        BY <1>1, <2>1
      <4>. QED
        BY <1>1, <4>1 DEF SetUpInv
    <3>. QED
      BY <1>1, <1>2, <3>1, StillAccounted
  <2>2. CASE step[p] <= i
    BY <1>1, <1>2, <1>6, <2>2, SkippedAccounted
  <2>. QED
    BY <1>1, <2>1, <2>2
<1>7. /\ blank'[p] \subseteq CopyABSOutputEvents
      /\ blank'[p] # {} => source'[p] = "dead"
  BY <1>1, <1>2 DEF Answered, SetUpInv, TypeOK
<1>8. ASSUME Following(p, goesOn) = {}, pc' = [pc EXCEPT ![p] = "run"], step' = step
      PROVE  SetUpInv' /\ FailuresStayLocal'
  <2>1. pc'[p] = "run"
    BY <1>1, <1>8 DEF TypeOK
  <2>2. \A i \in 1 .. Len(Calls[p]) : Accounted(p, i)'
    BY <1>6, <1>8
  <2>3. SetUpInv'
    <3>. SUFFICES ASSUME NEW q \in Processes
                  PROVE  /\ pc'[q] \notin {"setup", "run"} =>
                              step'[q] = 1 /\ granted'[q] = {} /\ blank'[q] = {}
                         /\ blank'[q] \subseteq CopyABSOutputEvents
                         /\ blank'[q] # {} => source'[q] = "dead"
                         /\ pc'[q] = "setup" => \A i \in 1 .. step'[q] - 1 : Accounted(q, i)'
      BY Zenon DEF SetUpInv
    <3>1. CASE q = p
      BY <1>7, <2>1, <3>1
    <3>2. CASE q # p
      BY <1>1, <1>2, <1>5, <3>2, Zenon DEF SetUpInv
    <3>. QED
      BY <3>1, <3>2
  <2>4. FailuresStayLocal'
    <3>. SUFFICES ASSUME NEW q \in Processes, pc'[q] = "run"
                  PROVE  \A i \in 1 .. Len(Calls[q]) : Accounted(q, i)'
      BY Zenon DEF FailuresStayLocal
    <3>1. CASE q = p
      BY <2>2, <3>1
    <3>2. CASE q # p
      BY <1>5, <3>2, Zenon DEF IndInv, FailuresStayLocal
    <3>. QED
      BY <3>1, <3>2
  <2>. QED
    BY <2>3, <2>4
<1>9. ASSUME pc' = pc, step'[p] \in Following(p, goesOn),
             \A j \in Following(p, goesOn) : step'[p] <= j
      PROVE  SetUpInv' /\ FailuresStayLocal'
  <2>1. step'[p] \in 1 .. Len(Calls[p]) /\ step'[p] > step[p]
    BY <1>9 DEF Following
  <2>2. ASSUME NEW i \in 1 .. step'[p] - 1
        PROVE  Accounted(p, i)'
    <3>1. i \in 1 .. Len(Calls[p]) /\ ~(step'[p] <= i)
      BY <1>1, <2>1
    <3>2. i \notin Following(p, goesOn)
      BY <1>9, <3>1
    <3>. QED
      BY <1>6, <3>1, <3>2
  <2>3. SetUpInv'
    <3>. SUFFICES ASSUME NEW q \in Processes
                  PROVE  /\ pc'[q] \notin {"setup", "run"} =>
                              step'[q] = 1 /\ granted'[q] = {} /\ blank'[q] = {}
                         /\ blank'[q] \subseteq CopyABSOutputEvents
                         /\ blank'[q] # {} => source'[q] = "dead"
                         /\ pc'[q] = "setup" => \A i \in 1 .. step'[q] - 1 : Accounted(q, i)'
      BY Zenon DEF SetUpInv
    <3>1. CASE q = p
      BY <1>1, <1>7, <1>9, <2>2, <3>1
    <3>2. CASE q # p
      BY <1>1, <1>2, <1>5, <3>2, Zenon DEF SetUpInv
    <3>. QED
      BY <3>1, <3>2
  <2>4. FailuresStayLocal'
    <3>. SUFFICES ASSUME NEW q \in Processes, pc'[q] = "run"
                  PROVE  \A i \in 1 .. Len(Calls[q]) : Accounted(q, i)'
      BY Zenon DEF FailuresStayLocal
    <3>1. q # p
      BY <1>1, <1>9
    <3>. QED
      BY <1>5, <3>1, Zenon DEF IndInv, FailuresStayLocal
  <2>. QED
    BY <2>3, <2>4
<1>10. SetUpInv' /\ FailuresStayLocal'
  BY <1>3, <1>8, <1>9
<1>11. ForkInv' /\ LibraryInv' /\ EffectsAreUploaded'
  BY <1>1, <1>2, <1>3 DEF IndInv, TypeOK, ForkInv, LibraryInv, EffectsAreUploaded, Processes
<1>. QED
  BY <1>4, <1>10, <1>11 DEF IndInv
\* The haptic manager fills its libraries from what the drivers took.
LEMMA OpenMotorsPreserves ==
  ASSUME IndInv, OpenMotors
  PROVE  IndInv'
<1>0. /\ pc["keyboard"] = "haptic" /\ pc' = [pc EXCEPT !["keyboard"] = "layout"]
      /\ motors' \in [Motors -> [open : BOOLEAN, taken : {{}, {0}, {1}}]]
      /\ fflib' = RegisterFF(motors') /\ played = NothingPlayed
      /\ UNCHANGED <<sensor, arrivals, active, source, step, granted, failed, blank, played>>
  BY DEF OpenMotors, Goto, world, uinput, IndInv, LibraryInv
<1>1. motors' \in [Motors -> [open : BOOLEAN, taken : SUBSET {0, 1}]]
  BY <1>0
<1>2. ASSUME NEW m \in Motors
      PROVE  /\ fflib'[m] \in {NoEffect, 0, 1}
             /\ fflib'[m] # NoEffect => fflib'[m] \in motors'[m].taken
  <2>1. fflib'[m] = Uploaded(motors'[m])
    BY <1>0 DEF RegisterFF
  <2>2. motors'[m].taken \in SUBSET {0, 1}
    BY <1>1
  <2>3. CASE motors'[m].taken = {}
    BY <2>1, <2>3 DEF Uploaded
  <2>4. CASE motors'[m].taken # {}
    <3>1. fflib'[m] \in motors'[m].taken
      BY <2>1, <2>4 DEF Uploaded
    <3>. QED
      BY <2>2, <3>1
  <2>. QED
    BY <2>3, <2>4
<1>3. fflib' \in [Motors -> {NoEffect, 0, 1}]
  <2>1. fflib' = [m \in Motors |-> fflib'[m]]
    BY <1>0 DEF RegisterFF
  <2>. QED
    BY <1>2, <2>1
<1>4. TypeOK'
  <2>1. pc' \in [Processes -> {"none", "load", "fork", "haptic", "layout", "source",
                              "setup", "run", "wait", "exited"}]
    BY <1>0 DEF IndInv, TypeOK
  <2>. QED
    BY <1>0, <1>1, <1>3, <2>1, Zenon DEF IndInv, TypeOK
<1>5. SetUpInv' /\ FailuresStayLocal'
  <2>1. \A q \in Processes : pc'[q] = pc[q] \/ (pc[q] \notin {"setup", "run"} /\ pc'[q] # "run")
    BY <1>0 DEF IndInv, TypeOK
  <2>. QED
    BY <1>0, <2>1, SetUpKept DEF IndInv, uinput
<1>6. ForkInv' /\ LibraryInv' /\ EffectsAreUploaded'
  <2>1. pc'["keyboard"] = "layout"
    BY <1>0 DEF IndInv, TypeOK, Processes
  <2>2. EffectsAreUploaded'
    BY <1>0 DEF EffectsAreUploaded, NothingPlayed
  <2>3. active
    BY <1>0 DEF IndInv, LibraryInv
  <2>. QED
    BY <1>0, <1>2, <2>1, <2>2, <2>3, Zenon DEF ForkInv, LibraryInv
<1>. QED
  BY <1>4, <1>5, <1>6 DEF IndInv

\* What is played was in the library, and so was taken by that motor.
LEMMA PlayPreserves ==
  ASSUME IndInv, NEW m \in Motors, Play(m)
  PROVE  IndInv'
<1>0. /\ pc["keyboard"] = "run" /\ fflib[m] >= 0
      /\ played' = [played EXCEPT ![m] = @ \cup {fflib[m]}]
      /\ UNCHANGED <<sensor, arrivals, active, pc, source, step, granted, failed, blank, motors, fflib>>
  BY DEF Play, world, uinput
<1>1. fflib[m] \in {0, 1} /\ fflib[m] \in motors[m].taken
  BY <1>0 DEF IndInv, TypeOK, LibraryInv, NoEffect
<1>2. /\ played \in [Motors -> SUBSET {0, 1}]
      /\ \A n \in Motors : played[n] \subseteq motors[n].taken
  BY DEF IndInv, TypeOK, EffectsAreUploaded
<1>3. played' \in [Motors -> SUBSET {0, 1}]
  <2>1. played[m] \cup {fflib[m]} \in SUBSET {0, 1}
    BY <1>1, <1>2
  <2>. QED
    BY <1>0, <1>2, <2>1
<1>4. TypeOK'
  BY <1>0, <1>3, Zenon DEF IndInv, TypeOK
<1>5. EffectsAreUploaded'
  BY <1>0, <1>1, <1>2 DEF EffectsAreUploaded
<1>6. SetUpInv' /\ FailuresStayLocal' /\ ForkInv'
  BY <1>0, SetUpKept, Zenon DEF IndInv, uinput, ForkInv
<1>7. LibraryInv'
  BY <1>0 DEF IndInv, LibraryInv
<1>. QED
  BY <1>4, <1>5, <1>6, <1>7 DEF IndInv

LEMMA ForkPreserves ==
  ASSUME IndInv, Fork, pc' = [p \in Processes |-> IF p = "keyboard" THEN "haptic" ELSE "layout"],
         UNCHANGED <<source, uinput, haptics>>
  PROVE  IndInv'
<1>0. /\ pc["keyboard"] = "fork"
      /\ UNCHANGED <<sensor, arrivals, active, source, step, granted, failed, blank, motors, fflib, played>>
  BY DEF Fork, world, uinput, haptics
<1>1. pc["touchpad"] = "none" /\ played = NothingPlayed /\ active
  BY <1>0 DEF IndInv, ForkInv, LibraryInv
<1>2. TypeOK'
  <2>1. pc' \in [Processes -> {"none", "load", "fork", "haptic", "layout", "source",
                              "setup", "run", "wait", "exited"}]
    OBVIOUS
  <2>. QED
    BY <1>0, <2>1, Zenon DEF IndInv, TypeOK
<1>3. SetUpInv' /\ FailuresStayLocal'
  <2>1. \A p \in Processes : pc[p] \notin {"setup", "run"} /\ pc'[p] # "run"
    BY <1>0, <1>1 DEF Processes
  <2>. QED
    BY <1>0, <2>1, SetUpKept, Zenon DEF IndInv, uinput
<1>4. ForkInv' /\ LibraryInv' /\ EffectsAreUploaded'
  BY <1>0, <1>1 DEF IndInv, ForkInv, LibraryInv, EffectsAreUploaded, Processes
<1>. QED
  BY <1>2, <1>3, <1>4 DEF IndInv

LEMMA SensorPreserves ==
  ASSUME IndInv, SensorArrives \/ SensorLeaves
  PROVE  IndInv'
<1>1. CASE SensorLeaves
  <2>0. UNCHANGED <<arrivals, active, pc, step, granted, failed, blank, motors, fflib, played>>
    BY <1>1 DEF SensorLeaves, uinput, haptics
  <2>1. sensor' \in BOOLEAN
    BY <1>1, Zenon DEF SensorLeaves
  <2>2. source' \in [Processes -> {"none", "live", "dead"}]
    BY <1>1 DEF SensorLeaves, IndInv, TypeOK
  <2>3. TypeOK'
    BY <2>0, <2>1, <2>2, Zenon DEF IndInv, TypeOK
  <2>4. \A p \in Processes : source'[p] = source[p] \/ source'[p] = "dead"
    BY <1>1 DEF SensorLeaves
  <2>5. SetUpInv' /\ FailuresStayLocal'
    BY <2>0, <2>4, SetUpKept, Zenon DEF IndInv, uinput
  <2>. QED
    BY <2>0, <2>3, <2>5, Zenon DEF IndInv, ForkInv, LibraryInv, EffectsAreUploaded
<1>2. CASE SensorArrives
  <2>0. /\ arrivals < MaxArrivals /\ sensor' = TRUE /\ arrivals' = arrivals + 1
        /\ active' = TRUE
        /\ pc' = pc \/ (~active /\ pc' = [pc EXCEPT !["keyboard"] = "load"])
        /\ UNCHANGED <<source, step, granted, failed, blank, motors, fflib, played>>
    BY <1>2 DEF SensorArrives, Goto, uinput, haptics
  <2>1. arrivals' \in 0 .. MaxArrivals
    BY <2>0, ArrivalsAssumption DEF IndInv, TypeOK
  <2>2. pc' \in [Processes -> {"none", "load", "fork", "haptic", "layout", "source",
                              "setup", "run", "wait", "exited"}]
    BY <2>0 DEF IndInv, TypeOK
  <2>3. TypeOK'
    BY <2>0, <2>1, <2>2, Zenon DEF IndInv, TypeOK
  <2>4. CASE pc' = pc
    <3>1. SetUpInv' /\ FailuresStayLocal'
      BY <2>0, <2>4, SetUpKept, Zenon DEF IndInv, uinput
    <3>. QED
      BY <2>0, <2>3, <2>4, <3>1, Zenon DEF IndInv, ForkInv, LibraryInv, EffectsAreUploaded
  <2>5. CASE ~active /\ pc' = [pc EXCEPT !["keyboard"] = "load"]
    <3>1. /\ pc["keyboard"] = "none" /\ pc["touchpad"] = "none"
          /\ pc'["keyboard"] = "load" /\ pc'["touchpad"] = "none" /\ played = NothingPlayed
      BY <2>5 DEF IndInv, TypeOK, ForkInv, LibraryInv, Processes
    <3>2. SetUpInv' /\ FailuresStayLocal'
      <4>1. \A p \in Processes : pc[p] \notin {"setup", "run"} /\ pc'[p] # "run"
        BY <3>1 DEF Processes
      <4>. QED
        BY <2>0, <4>1, SetUpKept, Zenon DEF IndInv, uinput
    <3>. QED
      BY <2>0, <2>3, <3>1, <3>2 DEF IndInv, ForkInv, LibraryInv, EffectsAreUploaded
  <2>. QED
    BY <2>0, <2>4, <2>5
<1>. QED
  BY <1>1, <1>2

(***************************************************************************)
(* The theorems.                                                           *)
(***************************************************************************)

LEMMA NextPreserves ==
  ASSUME IndInv, [Next]_vars
  PROVE  IndInv'
<1>0. /\ pc["keyboard"] # "none" => active
      /\ pc["keyboard"] \in {"load", "fork", "haptic"} => played = NothingPlayed
      /\ source \in [Processes -> {"none", "live", "dead"}]
  BY DEF IndInv, TypeOK, LibraryInv
<1>1. CASE SensorArrives \/ SensorLeaves
  BY <1>1, SensorPreserves
<1>2. CASE Stop
  BY <1>2, StopPreserves
<1>3. CASE LoadHWConfig
  <2>. "keyboard" \in Processes
    BY DEF Processes
  <2>1. CASE Exit("keyboard")
    BY <1>0, <1>3, <2>1, ExitPreserves DEF LoadHWConfig
  <2>2. CASE Goto("keyboard", "fork") /\ UNCHANGED <<source, uinput, haptics>>
    BY <1>0, <1>3, <2>2, GotoPreserves DEF LoadHWConfig
  <2>. QED
    BY <1>3, <2>1, <2>2 DEF LoadHWConfig
<1>4. CASE Fork
  <2>. "keyboard" \in Processes
    BY DEF Processes
  <2>1. CASE Exit("keyboard")
    BY <1>0, <1>4, <2>1, ExitPreserves DEF Fork
  <2>2. CASE ~Exit("keyboard")
    BY <1>4, <2>2, ForkPreserves DEF Fork
  <2>. QED
    BY <2>1, <2>2
<1>5. CASE OpenMotors
  BY <1>5, OpenMotorsPreserves
<1>6. CASE Wait
  <2>. "keyboard" \in Processes
    BY DEF Processes
  <2>. QED
    BY <1>0, <1>6, ExitPreserves DEF Wait
<1>7. ASSUME NEW p \in Processes, LoadLayout(p) \/ OpenSource(p) \/ ReadFails(p)
      PROVE  IndInv'
  <2>1. p = "keyboard" => active
    BY <1>0, <1>7 DEF LoadLayout, OpenSource, ReadFails
  <2>2. CASE Exit(p)
    BY <1>7, <2>1, <2>2, ExitPreserves DEF LoadLayout, OpenSource, ReadFails
  <2>3. CASE LoadLayout(p) /\ ~Exit(p)
    BY <1>0, <2>1, <2>3, GotoPreserves DEF LoadLayout
  <2>4. CASE OpenSource(p) /\ ~Exit(p)
    <3>1. CASE Goto(p, "wait") /\ UNCHANGED <<source, uinput, haptics>>
      BY <1>0, <2>1, <2>4, <3>1, GotoPreserves DEF OpenSource
    <3>2. CASE Goto(p, "setup") /\ source' = [source EXCEPT ![p] = "live"] /\ UNCHANGED <<uinput, haptics>>
      <4>1. source' \in [Processes -> {"none", "live", "dead"}]
        BY <1>0, <3>2
      <4>. QED
        BY <2>1, <2>4, <3>2, <4>1, GotoPreserves DEF OpenSource
    <3>. QED
      BY <2>4, <3>1, <3>2 DEF OpenSource
  <2>. QED
    BY <1>7, <2>2, <2>3, <2>4 DEF ReadFails
<1>8. ASSUME NEW p \in Processes, SetUp(p)
      PROVE  IndInv'
  BY <1>8, SetUpPreserves
<1>9. ASSUME NEW m \in Motors, Play(m)
      PROVE  IndInv'
  BY <1>9, PlayPreserves
<1>10. CASE UNCHANGED vars
  <2>1. SetUpInv' /\ FailuresStayLocal'
    BY <1>10, SetUpKept, Zenon DEF IndInv, vars, uinput
  <2>. QED
    BY <1>10, <2>1, Zenon DEF vars, IndInv, TypeOK, ForkInv, LibraryInv, EffectsAreUploaded
<1>. QED
  BY <1>1, <1>2, <1>3, <1>4, <1>5, <1>6, <1>7, <1>8, <1>9, <1>10 DEF Next, Main, Process

LEMMA Invariance == Spec => []IndInv
  BY InitEstablishes, NextPreserves, PTL DEF Spec

\* The variables of the service keep their types, however often the sensor comes.
THEOREM TypeCorrect == Spec => []TypeOK
<1>1. IndInv => TypeOK
  BY DEF IndInv
<1>. QED
  BY <1>1, Invariance, PTL

\* A process in its loop lacks nothing without a reason: a failed call costs the
\* rest of its function and no more, whatever else fails and whenever the sensor
\* goes (Start() of both processes).
THEOREM FailuresAreLocal == Spec => []FailuresStayLocal
<1>1. IndInv => FailuresStayLocal
  BY DEF IndInv
<1>. QED
  BY <1>1, Invariance, PTL

\* No motor is asked to play an effect it has not taken (PlayEffectOfEvent).
THEOREM MotorsPlayTheirOwn == Spec => []EffectsAreUploaded
<1>1. IndInv => EffectsAreUploaded
  BY DEF IndInv
<1>. QED
  BY <1>1, Invariance, PTL

\* The parent exits over a child at work only without its layout or without the
\* sensor, in whatever order the two fail (main()).
THEOREM ChildrenAreWaitedFor == Spec => ChildIsWaitedFor
<1>1. ASSUME IndInv, [Next]_vars, pc["keyboard"] # "exited", pc'["keyboard"] = "exited"
      PROVE  \/ pc["touchpad"] \in {"none", "exited"}
             \/ pc["keyboard"] = "layout" \/ source["keyboard"] = "dead"
  <2>0. /\ pc \in [Processes -> {"none", "load", "fork", "haptic", "layout", "source",
                                 "setup", "run", "wait", "exited"}]
        /\ "keyboard" \in Processes /\ ForkInv
    BY <1>1 DEF IndInv, TypeOK, Processes
  <2>1. CASE LoadHWConfig \/ Fork
    BY <2>0, <2>1 DEF LoadHWConfig, Fork, ForkInv
  <2>2. CASE OpenMotors \/ SensorArrives \/ SensorLeaves \/ Stop \/ UNCHANGED vars
    BY <1>1, <2>0, <2>2 DEF OpenMotors, SensorArrives, SensorLeaves, Stop, Goto, vars
  <2>3. CASE Wait
    BY <2>3 DEF Wait
  <2>4. CASE \E m \in Motors : Play(m)
    BY <1>1, <2>4 DEF Play
  <2>5. ASSUME NEW p \in Processes, Process(p)
        PROVE  pc["keyboard"] = "layout" \/ source["keyboard"] = "dead"
    <3>1. CASE p = "keyboard"
      BY <1>1, <2>0, <2>5, <3>1
         DEF Process, LoadLayout, OpenSource, SetUp, SetUpNext, ReadFails, Goto, Exit
    <3>2. CASE p # "keyboard"
      BY <1>1, <2>0, <2>5, <3>2
         DEF Process, LoadLayout, OpenSource, SetUp, SetUpNext, ReadFails, Goto, Exit
    <3>. QED
      BY <3>1, <3>2
  <2>. QED
    BY <1>1, <2>1, <2>2, <2>3, <2>4, <2>5 DEF Next, Main
<1>. QED
  BY <1>1, Invariance, PTL DEF Spec, ChildIsWaitedFor
=============================================================================
