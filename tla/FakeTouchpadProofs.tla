------------------------- MODULE FakeTouchpadProofs -------------------------
(***************************************************************************)
(* Theorems about FakeTouchpad, for every number of slots and of contacts, *)
(* every region and mounting, and whatever the sensor sends.               *)
(***************************************************************************)
EXTENDS FakeTouchpad, FiniteSetTheorems, SequenceTheorems,
        WellFoundedInduction, TLAPS

(***************************************************************************)
(* Part 1.  The buttons of the virtual touchpad.                           *)
(***************************************************************************)

Tid == "ABS_MT_TRACKING_ID"

Shown(s) == pad[s][Tid] # NoTid

Shapes ==
  /\ running \in BOOLEAN
  /\ DOMAIN slots_ = Slots
  /\ slot_memberships_ \in [Slots -> BOOLEAN]
  /\ DOMAIN pad = Slots /\ \A s \in Slots : DOMAIN pad[s] = Codes

\* The virtual touchpad has no contact in a slot that was outside of the region
\* at the last SYN_REPORT, or of which no tracking id was ever read.
Known ==
  \A s \in Slots :
    Shown(s) => slot_memberships_[s] /\ Tid \in DOMAIN slots_[s]

IndInv == Shapes /\ Known /\ ButtonsCountContacts

\* A step that leaves the virtual touchpad alone.
LEMMA SamePad ==
  ASSUME ButtonsCountContacts, UNCHANGED <<pad, buttons>>
  PROVE  ButtonsCountContacts'
<1>1. ButtonsCountContacts' <=> ButtonsCountContacts
  BY DEF ButtonsCountContacts
<1>. QED
  BY <1>1

\* No event takes anything away from a slot.
LEMMA SlotsOnlyGrow ==
  ASSUME Shapes, NEW ev, AddEvent(ev)
  PROVE  /\ DOMAIN slots_' = Slots
         /\ \A s \in Slots : DOMAIN slots_[s] \subseteq DOMAIN slots_'[s]
         /\ IsSyn(ev) => slots_' = slots_
<1>. DEFINE m == [slot |-> slot_, slots |-> slots_]
            grown == [c \in DOMAIN slots_[slot_] \cup {ev.code} |->
                        IF c = ev.code THEN ev.value ELSE slots_[slot_][c]]
<1>1. slots_' = After(m, ev).slots
  BY DEF AddEvent
<1>2. CASE ev.type = "EV_ABS" /\ ~IsSlot(ev)
  <2>1. slots_' = Stored(m, ev)
    BY <1>1, <1>2 DEF After
  <2>2. Stored(m, ev) = [slots_ EXCEPT ![slot_] = grown]
    BY DEF Stored
  <2>3. DOMAIN grown = DOMAIN slots_[slot_] \cup {ev.code}
    OBVIOUS
  <2>4. ~IsSyn(ev)
    BY <1>2 DEF IsSyn
  <2>. HIDE DEF grown
  <2>. QED
    BY <2>1, <2>2, <2>3, <2>4 DEF Shapes
<1>3. CASE ~(ev.type = "EV_ABS" /\ ~IsSlot(ev))
  <2>1. slots_' = slots_
    BY <1>1, <1>3 DEF After
  <2>. QED
    BY <2>1 DEF Shapes
<1>. QED
  BY <1>2, <1>3

\* The tracking id keeps its code whatever the mounting.
LEMMA TidKeepsItsCode ==
  ASSUME NEW c
  PROVE  OutCode(c) = Tid <=> c = Tid
BY DEF OutCode, Tid

\* SyncTouchEvents shows a contact in the slots it counts, and in no other.
LEMMA ShownAreCounted ==
  ASSUME Shapes, Known, NEW s \in Slots
  PROVE  /\ DOMAIN Synced(s) = Codes
         /\ Synced(s)[Tid] # NoTid <=> s \in Touches
         /\ Synced(s)[Tid] # NoTid => InRegion(slots_[s]) /\ Tid \in DOMAIN slots_[s]
<1>. DEFINE slot == slots_[s]
            sent == {c \in DOMAIN slot : c \in Supported}
<1>1. DOMAIN pad[s] = Codes /\ Tid \in Codes /\ slot_memberships_[s] \in BOOLEAN
  BY DEF Shapes, Codes, Tid
<1>2. s \in Touches <=> InRegion(slot) /\ Tid \in DOMAIN slot /\ slot[Tid] # NoTid
  BY DEF Touches, Tid
<1>3. pad[s][Tid] # NoTid => slot_memberships_[s] /\ Tid \in DOMAIN slot
  BY DEF Known, Shown
<1>4. CASE ~InRegion(slot)
  <2>1. Synced(s) = IF slot_memberships_[s]
                    THEN [pad[s] EXCEPT ![Tid] = NoTid] ELSE pad[s]
    BY <1>4 DEF Synced, Tid
  <2>2. DOMAIN Synced(s) = Codes /\ Synced(s)[Tid] = NoTid
    BY <1>1, <1>3, <2>1
  <2>. QED
    BY <1>2, <1>4, <2>2
<1>5. CASE InRegion(slot)
  <2>1. Synced(s) =
          [c \in DOMAIN pad[s] |->
             IF \E d \in sent : OutCode(d) = c
             THEN OutValue(slot, CHOOSE d \in sent : OutCode(d) = c)
             ELSE IF c = Tid /\ ~slot_memberships_[s]
             THEN FindValueByEvent(slot, Tid) ELSE pad[s][c]]
    BY <1>5 DEF Synced, Tid
  <2>2. DOMAIN Synced(s) = Codes
    BY <1>1, <2>1
  <2>3. Synced(s)[Tid] =
          IF \E d \in sent : OutCode(d) = Tid
          THEN OutValue(slot, CHOOSE d \in sent : OutCode(d) = Tid)
          ELSE IF ~slot_memberships_[s] THEN FindValueByEvent(slot, Tid) ELSE pad[s][Tid]
    BY <1>1, <2>1
  <2>4. CASE Tid \in DOMAIN slot
    <3>1. Tid \in sent
      BY <2>4 DEF Supported, Tid
    <3>2. (CHOOSE d \in sent : OutCode(d) = Tid) = Tid
      BY <3>1, TidKeepsItsCode
    <3>3. OutValue(slot, Tid) = slot[Tid]
      BY TidKeepsItsCode DEF OutValue, Tid
    <3>4. Synced(s)[Tid] = slot[Tid]
      BY <2>3, <3>1, <3>2, <3>3, TidKeepsItsCode
    <3>. QED
      BY <1>2, <1>5, <2>2, <2>4, <3>4
  <2>5. CASE Tid \notin DOMAIN slot
    <3>1. ~\E d \in sent : OutCode(d) = Tid
      BY <2>5, TidKeepsItsCode
    <3>2. FindValueByEvent(slot, Tid) = NoTid
      BY <2>5 DEF FindValueByEvent, kSlotMissingValue, NoTid
    <3>3. Synced(s)[Tid] = NoTid
      BY <1>3, <2>3, <2>5, <3>1, <3>2
    <3>. QED
      BY <1>2, <2>2, <2>5, <3>3
  <2>. QED
    BY <2>4, <2>5
<1>. QED
  BY <1>4, <1>5

\* The buttons that n contacts hold down, and what they have to be.
ButtonsOf(n) ==
  (IF n > 0 THEN {"BTN_TOUCH"} ELSE {})
  \cup (IF n = 1 THEN {"BTN_TOOL_FINGER"} ELSE {})
  \cup (IF n = 2 THEN {"BTN_TOOL_DOUBLETAP"} ELSE {})
  \cup (IF n = 3 THEN {"BTN_TOOL_TRIPLETAP"} ELSE {})
  \cup (IF n = 4 THEN {"BTN_TOOL_QUADTAP"} ELSE {})

Count(down, n) ==
  /\ "BTN_TOUCH" \in down <=> n > 0
  /\ "BTN_TOOL_FINGER" \in down <=> n = 1
  /\ "BTN_TOOL_DOUBLETAP" \in down <=> n = 2
  /\ "BTN_TOOL_TRIPLETAP" \in down <=> n = 3
  /\ "BTN_TOOL_QUADTAP" \in down <=> n = 4

LEMMA ButtonsOfCount == ASSUME NEW n PROVE Count(ButtonsOf(n), n)
BY SMT DEF ButtonsOf, Count

LEMMA NoButtonsOfNone == ButtonsOf(0) = {}
BY SMT DEF ButtonsOf

LEMMA CountIsTheProperty ==
  ButtonsCountContacts <=> Count(buttons, Cardinality({s \in Slots : Shown(s)}))
BY DEF ButtonsCountContacts, Count, Shown, Tid

LEMMA Initially == Start => IndInv
<1>. SUFFICES ASSUME Start PROVE IndInv
  OBVIOUS
<1>1. \A s \in Slots : pad[s] = [c \in Codes |-> IF c = Tid THEN NoTid ELSE 0]
  BY DEF Start, Tid
<1>2. Tid \in Codes
  BY DEF Codes, Tid
<1>3. \A s \in Slots : ~Shown(s)
  BY <1>1, <1>2 DEF Shown
<1>4. Shapes
  BY DEF Start, MachineInit, Shapes
<1>5. ButtonsCountContacts
  <2>1. {s \in Slots : Shown(s)} = {}
    BY <1>3
  <2>2. Cardinality({s \in Slots : Shown(s)}) = 0
    BY <2>1, FS_EmptySet
  <2>3. buttons = ButtonsOf(0)
    BY NoButtonsOfNone DEF Start
  <2>. QED
    BY <2>2, <2>3, ButtonsOfCount, CountIsTheProperty
<1>. QED
  BY <1>3, <1>4, <1>5 DEF IndInv, Known

\* A step that shows, changes and hides nothing keeps the invariant.
LEMMA SameView ==
  ASSUME IndInv, running' = running \/ running' = FALSE,
         UNCHANGED <<pad, buttons, slot_memberships_>>,
         DOMAIN slots_' = Slots,
         \A s \in Slots : DOMAIN slots_[s] \subseteq DOMAIN slots_'[s]
  PROVE  IndInv'
<1>1. Shapes'
  BY DEF IndInv, Shapes
<1>2. Known'
  BY DEF IndInv, Known, Shown
<1>3. ButtonsCountContacts'
  BY SamePad DEF IndInv
<1>. QED
  BY <1>1, <1>2, <1>3 DEF IndInv

\* SyncTouchEvents and SendTouchpadBtnEvents look at the same contacts.
LEMMA ReadSynPreserves == ASSUME IndInv, ReadSyn PROVE IndInv'
<1>1. slots_' = slots_
  BY SlotsOnlyGrow DEF ReadSyn, IndInv
<1>2. pad' = [s \in Slots |-> Synced(s)]
      /\ slot_memberships_' = [s \in Slots |-> InRegion(slots_[s])]
      /\ buttons' = ButtonsDown /\ running' = running
  BY DEF ReadSyn
<1>3. \A s \in Slots : /\ DOMAIN Synced(s) = Codes
                       /\ Synced(s)[Tid] # NoTid <=> s \in Touches
                       /\ Synced(s)[Tid] # NoTid =>
                            InRegion(slots_[s]) /\ Tid \in DOMAIN slots_[s]
  BY ShownAreCounted DEF IndInv
<1>4. \A s \in Slots : InRegion(slots_[s]) \in BOOLEAN
  BY DEF InRegion, PadContains
<1>5. Shapes'
  <2>1. slot_memberships_' \in [Slots -> BOOLEAN]
    BY <1>2, <1>4
  <2>2. DOMAIN pad' = Slots /\ \A s \in Slots : DOMAIN pad'[s] = Codes
    BY <1>2, <1>3
  <2>. QED
    BY <1>1, <1>2, <2>1, <2>2 DEF Shapes, IndInv
<1>6. Known'
  <2>1. ASSUME NEW s \in Slots, Shown(s)'
        PROVE  slot_memberships_'[s] /\ Tid \in DOMAIN slots_'[s]
    <3>1. Synced(s)[Tid] # NoTid
      BY <1>2, <2>1 DEF Shown
    <3>2. InRegion(slots_[s]) /\ Tid \in DOMAIN slots_[s]
      BY <1>3, <3>1
    <3>3. slot_memberships_'[s] = InRegion(slots_[s])
      BY <1>2
    <3>. QED
      BY <1>1, <3>2, <3>3
  <2>. QED
    BY <2>1 DEF Known
<1>7. ButtonsCountContacts'
  <2>1. \A s \in Slots : Shown(s)' <=> s \in Touches
    BY <1>2, <1>3 DEF Shown
  <2>2. Touches \subseteq Slots
    BY DEF Touches
  <2>3. {s \in Slots : Shown(s)'} = Touches
    BY <2>1, <2>2
  <2>4. ButtonsDown = ButtonsOf(Cardinality(Touches))
    BY DEF ButtonsDown, ButtonsOf
  <2>5. Count(buttons', Cardinality({s \in Slots : Shown(s)'}))
    BY <1>2, <2>3, <2>4, ButtonsOfCount
  <2>. QED
    BY <2>5 DEF ButtonsCountContacts, Count, Shown, Tid
<1>. QED
  BY <1>5, <1>6, <1>7 DEF IndInv

\* The contacts go with the process.
LEMMA ReadFailsPreserves == ASSUME IndInv, ReadFails PROVE IndInv'
<1>1. running' = FALSE /\ buttons' = {}
      /\ pad' = [s \in Slots |-> [pad[s] EXCEPT ![Tid] = NoTid]]
      /\ slots_' = slots_ /\ slot_memberships_' = slot_memberships_
  BY DEF ReadFails, Tid, machine
<1>2. \A s \in Slots : DOMAIN pad[s] = Codes
  BY DEF IndInv, Shapes
<1>3. Tid \in Codes
  BY DEF Codes, Tid
<1>4. \A s \in Slots : DOMAIN pad'[s] = Codes /\ ~Shown(s)'
  BY <1>1, <1>2, <1>3 DEF Shown
<1>5. Shapes'
  BY <1>1, <1>4 DEF IndInv, Shapes
<1>6. Known'
  BY <1>4 DEF Known
<1>7. ButtonsCountContacts'
  <2>1. {s \in Slots : Shown(s)'} = {}
    BY <1>4
  <2>2. Cardinality({s \in Slots : Shown(s)'}) = 0
    BY <2>1, FS_EmptySet
  <2>3. Count(buttons', Cardinality({s \in Slots : Shown(s)'}))
    BY <1>1, <2>2, ButtonsOfCount, NoButtonsOfNone
  <2>. QED
    BY <2>3 DEF ButtonsCountContacts, Count, Shown, Tid
<1>. QED
  BY <1>5, <1>6, <1>7 DEF IndInv

LEMMA NextPreserves == IndInv /\ [Next]_vars => IndInv'
<1>. SUFFICES ASSUME IndInv, [Next]_vars PROVE IndInv'
  OBVIOUS
<1>1. CASE SensorFrame
  BY <1>1, SameView DEF SensorFrame, Frame, machine, IndInv, Shapes
<1>2. CASE ReadEvent
  <2>1. DOMAIN slots_' = Slots /\ \A s \in Slots : DOMAIN slots_[s] \subseteq DOMAIN slots_'[s]
    BY <1>2, SlotsOnlyGrow DEF ReadEvent, IndInv
  <2>. QED
    BY <1>2, <2>1, SameView DEF ReadEvent
<1>3. CASE ReadSyn
  BY <1>3, ReadSynPreserves
<1>4. CASE ReadFails
  BY <1>4, ReadFailsPreserves
<1>5. CASE UNCHANGED vars
  BY <1>5, SameView DEF vars, IndInv, Shapes
<1>. QED
  BY <1>1, <1>2, <1>3, <1>4, <1>5 DEF Next, Consume, Gone

\* In every frame of the virtual touchpad the buttons are those of its contacts
\* (SyncTouchEvents counts exactly the contacts it leaves on the device, so that
\* SendTouchpadBtnEvents presses the buttons of their number): for any number of
\* slots and contacts, five and more included, where only BTN_TOUCH is held; for
\* every region and mounting, lost events and a sensor that goes away.
THEOREM ButtonsAreCounted == Spec => []ButtonsCountContacts
<1>1. IndInv => ButtonsCountContacts
  BY DEF IndInv
<1>. QED
  BY Initially, NextPreserves, <1>1, PTL DEF Spec, Init

\* Also of a process that starts while fingers touch, and may show the axes of one
\* finger with the tracking id of another (KnownFingersAreReal): the buttons still
\* go with the contacts it shows.
THEOREM ButtonsAreCountedWhenLate == LateSpec => []ButtonsCountContacts
<1>1. IndInv => ButtonsCountContacts
  BY DEF IndInv
<1>. QED
  BY Initially, NextPreserves, <1>1, PTL DEF LateSpec

(***************************************************************************)
(* Part 2.  The operators the events of a frame are built from.            *)
(***************************************************************************)

\* A nonempty set of naturals has a least element.
LEMMA Least ==
  ASSUME NEW T \in SUBSET Nat, T # {}
  PROVE  \E m \in T : \A x \in T : m <= x
<1>1. PICK m \in T : \A y \in T : ~(<<y, m>> \in OpToRel(<, Nat))
  BY NatLessThanWellFounded, WFMin, Zenon
<1>2. \A y \in T : ~(y < m)
  BY <1>1 DEF OpToRel
<1>. QED
  BY <1>2

\* A set that goes from each number to the next one has them all.
LEMMA UpTo ==
  ASSUME NEW n \in Nat, NEW T, 0 \in T, \A i \in 0 .. n - 1 : i \in T => i + 1 \in T
  PROVE  \A i \in 0 .. n : i \in T
<1>. DEFINE missing == {i \in 0 .. n : i \notin T}
<1>. SUFFICES missing = {}
  OBVIOUS
<1>. SUFFICES ASSUME missing # {} PROVE FALSE
  OBVIOUS
<1>1. PICK m \in missing : \A x \in missing : m <= x
  <2>1. missing \in SUBSET Nat
    OBVIOUS
  <2>. HIDE DEF missing
  <2>. QED
    BY <2>1, Least
<1>2. m \in 1 .. n
  BY <1>1
<1>3. m - 1 \in 0 .. n - 1 /\ m - 1 \notin missing
  BY <1>1, <1>2
<1>. QED
  BY <1>1, <1>2, <1>3

\* The greatest of some slots.
LEMMA GreatestSlot ==
  ASSUME NEW S \in SUBSET Slots, S # {}
  PROVE  Max(S) \in S /\ \A y \in S : Max(S) >= y
<1>1. kNumSlots \in Nat /\ \A s \in S : s \in Nat /\ s < kNumSlots
  BY SlotsAssumption DEF Slots
<1>. DEFINE T == {kNumSlots - s : s \in S}
<1>2. T \in SUBSET Nat /\ T # {}
  BY <1>1
<1>3. PICK m \in T : \A x \in T : m <= x
  <2>. HIDE DEF T
  <2>. QED
    BY <1>2, Least
<1>4. PICK s \in S : m = kNumSlots - s
  BY <1>3
<1>5. \A y \in S : s >= y
  BY <1>1, <1>3, <1>4
<1>. QED
  BY <1>5, Zenon DEF Max

\* SetToSeq lists each element of a finite set once.
LEMMA Listed ==
  ASSUME NEW S, IsFiniteSet(S)
  PROVE  /\ Cardinality(S) \in Nat
         /\ SetToSeq(S) \in [1 .. Cardinality(S) -> S]
         /\ \A x \in S : \E i \in 1 .. Cardinality(S) : SetToSeq(S)[i] = x
         /\ \A i, j \in 1 .. Cardinality(S) : SetToSeq(S)[i] = SetToSeq(S)[j] => i = j
<1>. DEFINE n == Cardinality(S)
<1>1. n \in Nat /\ ExistsBijection(1 .. n, S)
  BY FS_CardinalityType
<1>2. PICK f \in [1 .. n -> S] : IsInjective(f)
  BY <1>1 DEF ExistsBijection, Bijection, Injection, IsInjective
<1>3. SetToSeq(S) \in [1 .. n -> S] /\ IsInjective(SetToSeq(S))
  BY <1>2, Zenon DEF SetToSeq
<1>. DEFINE q == SetToSeq(S)
<1>. HIDE DEF q
<1>4. q \in [1 .. n -> S] /\ \A i, j \in 1 .. n : q[i] = q[j] => i = j
  BY <1>3 DEF IsInjective, q
<1>5. q \in Injection(1 .. n, S)
  BY <1>4 DEF Injection, IsInjective
<1>6. IsFiniteSet(1 .. n) /\ Cardinality(1 .. n) = n
  BY <1>1, FS_Interval
<1>7. q \in Surjection(1 .. n, S)
  BY <1>5, <1>6, FS_Injection
<1>8. \A x \in S : \E i \in 1 .. n : q[i] = x
  BY <1>7 DEF Surjection
<1>. QED
  BY <1>1, <1>4, <1>8 DEF q

\* FlattenSeq joins the parts from the left.
Joined(f, parts, k) ==
  f = [i \in 1 .. k |-> IF i = 1 THEN parts[i] ELSE f[i - 1] \o parts[i]]

LEMMA JoinGrows ==
  ASSUME NEW parts, NEW k \in Nat, NEW f, Joined(f, parts, k)
  PROVE  \E g : Joined(g, parts, k + 1)
<1>. DEFINE g == [i \in 1 .. k + 1 |-> IF i = 1 THEN parts[i] ELSE f[i - 1] \o parts[i]]
<1>1. \A i \in 1 .. k : i \in 1 .. k + 1 /\ g[i] = IF i = 1 THEN parts[i] ELSE f[i - 1] \o parts[i]
  OBVIOUS
<1>2. \A i \in 1 .. k : f[i] = IF i = 1 THEN parts[i] ELSE f[i - 1] \o parts[i]
  BY Zenon DEF Joined
<1>3. \A i \in 1 .. k : g[i] = f[i]
  <2>. HIDE DEF g
  <2>. QED
    BY <1>1, <1>2, Zenon
<1>4. \A i \in 1 .. k + 1 : i # 1 => i - 1 \in 1 .. k
  OBVIOUS
<1>5. \A i \in 1 .. k + 1 : i # 1 => g[i - 1] = f[i - 1]
  <2>. HIDE DEF g
  <2>. QED
    BY <1>3, <1>4, Zenon
<1>6. g = [i \in 1 .. k + 1 |-> IF i = 1 THEN parts[i] ELSE g[i - 1] \o parts[i]]
  BY <1>5
<1>. HIDE DEF g
<1>. QED
  BY <1>6 DEF Joined

LEMMA Flattened ==
  ASSUME NEW parts, Len(parts) \in Nat \ {0}
  PROVE  \E f : /\ FlattenSeq(parts) = f[Len(parts)]
                /\ f[1] = parts[1]
                /\ \A i \in 1 .. Len(parts) - 1 : f[i + 1] = f[i] \o parts[i + 1]
<1>. DEFINE n == Len(parts)
            T == {k \in 0 .. n : \E f : Joined(f, parts, k)}
            f == CHOOSE g : Joined(g, parts, n)
<1>1. 0 \in T
  <2>1. Joined([i \in 1 .. 0 |-> parts], parts, 0)
    BY DEF Joined
  <2>. QED
    BY <2>1
<1>2. ASSUME NEW k \in 0 .. n - 1, k \in T
      PROVE  k + 1 \in T
  <2>1. PICK g : Joined(g, parts, k)
    BY <1>2
  <2>2. \E h : Joined(h, parts, k + 1)
    BY <2>1, JoinGrows
  <2>. QED
    BY <2>2
<1>3. n \in T
  <2>1. n \in Nat /\ n \in 0 .. n
    OBVIOUS
  <2>. HIDE DEF T, n
  <2>. QED
    BY <1>1, <1>2, <2>1, UpTo
<1>4. Joined(f, parts, n)
  BY <1>3
<1>5. FlattenSeq(parts) = f[n]
  BY DEF FlattenSeq, Joined
<1>6. \A i \in 1 .. n : f[i] = IF i = 1 THEN parts[i] ELSE f[i - 1] \o parts[i]
  <2>. HIDE DEF f, n
  <2>. QED
    BY <1>4, Zenon DEF Joined
<1>7. \A i \in 1 .. n - 1 : i + 1 \in 1 .. n /\ i + 1 # 1 /\ (i + 1) - 1 = i
  OBVIOUS
<1>8. 1 \in 1 .. n
  OBVIOUS
<1>. HIDE DEF f, n
<1>. QED
  BY <1>5, <1>6, <1>7, <1>8 DEF n

(***************************************************************************)
(* Part 3.  The types of the sensor, of its events and of the machine.     *)
(***************************************************************************)

\* What a contact, an unread event and a slot of the machine hold.
Values == Tids \cup {NoTid, 0} \cup UNION {AxisValues[a] : a \in Axes}

Contact == [Codes -> Values]

Report == [type : {"EV_ABS"}, code : {"ABS_MT_SLOT"}, value : Slots]
          \cup [type : {"EV_ABS"}, code : Codes, value : Values]
          \cup {Syn("SYN_REPORT"), Syn("SYN_DROPPED")}

SlotValues == UNION {[D -> Values] : D \in SUBSET Codes}

\* Every event is one of these.
LEMMA Reports ==
  ASSUME NEW ev \in Report
  PROVE  \/ IsSlot(ev) /\ ~IsSyn(ev) /\ ev.type = "EV_ABS" /\ ev.value \in Slots
         \/ /\ ~IsSlot(ev) /\ ~IsSyn(ev) /\ ev.type = "EV_ABS"
            /\ ev.code \in Codes /\ ev.value \in Values
         \/ ev = Syn("SYN_REPORT") /\ ~IsSlot(ev) /\ IsSyn(ev) /\ ev.type = "EV_SYN"
         \/ ev = Syn("SYN_DROPPED") /\ ~IsSlot(ev) /\ ~IsSyn(ev) /\ ev.type = "EV_SYN"
<1>1. CASE ev \in [type : {"EV_ABS"}, code : {"ABS_MT_SLOT"}, value : Slots]
  BY <1>1 DEF IsSlot, IsSyn
<1>2. CASE ev \in [type : {"EV_ABS"}, code : Codes, value : Values]
  <2>1. "ABS_MT_SLOT" \notin Codes
    BY AxesAssumption DEF Codes
  <2>. QED
    BY <1>2, <2>1 DEF IsSlot, IsSyn
<1>3. CASE ev \in {Syn("SYN_REPORT"), Syn("SYN_DROPPED")}
  BY <1>3 DEF IsSlot, IsSyn, Syn
<1>. QED
  BY <1>1, <1>2, <1>3, Zenon DEF Report

Machines == [slot : Slots, slots : [Slots -> SlotValues]]

\* A slot of the machine with one more value.
LEMMA WithValue ==
  ASSUME NEW slot \in SlotValues, NEW code \in Codes, NEW v \in Values
  PROVE  [c \in DOMAIN slot \cup {code} |-> IF c = code THEN v ELSE slot[c]] \in SlotValues
<1>1. PICK D \in SUBSET Codes : slot \in [D -> Values]
  BY DEF SlotValues
<1>2. DOMAIN slot = D /\ D \cup {code} \in SUBSET Codes
  BY <1>1
<1>3. [c \in DOMAIN slot \cup {code} |-> IF c = code THEN v ELSE slot[c]] \in [D \cup {code} -> Values]
  BY <1>1, <1>2
<1>. QED
  BY <1>2, <1>3, Zenon DEF SlotValues

\* The machine stores what an event says in the slot it is at.
LEMMA Storing ==
  ASSUME NEW m \in Machines, NEW ev, ev.code \in Codes, ev.value \in Values
  PROVE  /\ Stored(m, ev) \in [Slots -> SlotValues]
         /\ \A s \in Slots : s # m.slot => Stored(m, ev)[s] = m.slots[s]
         /\ DOMAIN Stored(m, ev)[m.slot] = DOMAIN m.slots[m.slot] \cup {ev.code}
         /\ \A c \in DOMAIN m.slots[m.slot] \cup {ev.code} :
              Stored(m, ev)[m.slot][c] = IF c = ev.code THEN ev.value ELSE m.slots[m.slot][c]
<1>1. m.slot \in Slots /\ m.slots \in [Slots -> SlotValues]
  BY DEF Machines
<1>. DEFINE grown == [c \in DOMAIN m.slots[m.slot] \cup {ev.code} |->
                        IF c = ev.code THEN ev.value ELSE m.slots[m.slot][c]]
<1>2. grown \in SlotValues
  <2>1. PICK slot \in SlotValues, code \in Codes, v \in Values :
          slot = m.slots[m.slot] /\ code = ev.code /\ v = ev.value
    BY <1>1
  <2>2. [c \in DOMAIN slot \cup {code} |-> IF c = code THEN v ELSE slot[c]] \in SlotValues
    BY WithValue
  <2>. QED
    BY <2>1, <2>2, Zenon
<1>3. Stored(m, ev) = [m.slots EXCEPT ![m.slot] = grown]
  BY <1>1 DEF Stored
<1>4. /\ DOMAIN grown = DOMAIN m.slots[m.slot] \cup {ev.code}
      /\ \A c \in DOMAIN m.slots[m.slot] \cup {ev.code} :
           grown[c] = IF c = ev.code THEN ev.value ELSE m.slots[m.slot][c]
  OBVIOUS
<1>. HIDE DEF grown
<1>. QED
  BY <1>1, <1>2, <1>3, <1>4

LEMMA Machining ==
  ASSUME NEW m \in Machines, NEW ev \in Report
  PROVE  /\ After(m, ev) \in Machines
         /\ IsSlot(ev) => After(m, ev).slot = ev.value /\ After(m, ev).slots = m.slots
         /\ ev.type = "EV_SYN" => After(m, ev) = m
         /\ ev.type = "EV_ABS" /\ ~IsSlot(ev) =>
              After(m, ev).slot = m.slot /\ After(m, ev).slots = Stored(m, ev)
<1>1. CASE IsSlot(ev)
  <2>1. ev.value \in Slots /\ ev.type = "EV_ABS"
    BY <1>1, Reports DEF Syn
  <2>2. After(m, ev) = [m EXCEPT !.slot = ev.value]
    BY <1>1 DEF After
  <2>. QED
    BY <1>1, <2>1, <2>2 DEF Machines
<1>2. CASE ev.type = "EV_ABS" /\ ~IsSlot(ev)
  <2>1. ev.code \in Codes /\ ev.value \in Values
    BY <1>2, Reports DEF Syn
  <2>2. After(m, ev) = [m EXCEPT !.slots = Stored(m, ev)]
    BY <1>2 DEF After
  <2>3. Stored(m, ev) \in [Slots -> SlotValues]
    BY <2>1, Storing
  <2>. QED
    BY <1>2, <2>2, <2>3 DEF Machines
<1>3. CASE ev.type = "EV_SYN"
  <2>1. After(m, ev) = m
    BY <1>3 DEF After, IsSlot
  <2>. QED
    BY <1>3, <2>1 DEF IsSlot
<1>4. ev.type = "EV_SYN" \/ ev.type = "EV_ABS"
  BY Reports
<1>. QED
  BY <1>1, <1>2, <1>3, <1>4

\* The events of a frame, slot by slot.
ChangedSlots(new) == {s \in Slots : new[s] # contacts[s]}

Announced(new, s) ==
  IF {r \in ChangedSlots(new) : r < s} = {} THEN kslot
  ELSE Max({r \in ChangedSlots(new) : r < s})

Part(new, s) == SlotEvents(s, new[s], Announced(new, s))

LEMMA SlotReports ==
  ASSUME NEW s \in Slots, NEW c \in Contact, NEW announced
  PROVE  SlotEvents(s, c, announced) \in Seq(Report)
<1>. DEFINE S == {a \in Codes : c[a] # contacts[s][a]}
            q == SetToSeq(S)
            n == Cardinality(S)
            vals == [i \in DOMAIN q |-> Abs(q[i], c[q[i]])]
            head == IF announced = s THEN <<>> ELSE <<Abs("ABS_MT_SLOT", s)>>
<1>1. IsFiniteSet(S)
  <2>1. IsFiniteSet(Codes)
    BY AxesAssumption, FS_AddElement DEF Codes
  <2>. QED
    BY <2>1, FS_Subset
<1>2. n \in Nat /\ q \in [1 .. n -> S]
  BY <1>1, Listed
<1>3. \A a \in Codes : Abs(a, c[a]) \in Report
  BY DEF Contact, Abs, Report
<1>4. Abs("ABS_MT_SLOT", s) \in Report
  BY DEF Abs, Report
<1>5. vals \in Seq(Report)
  <2>1. vals \in [1 .. n -> Report]
    BY <1>2, <1>3
  <2>. QED
    BY <1>2, <2>1
<1>6. head \in Seq(Report)
  BY <1>4
<1>7. head \o vals \in Seq(Report)
  BY <1>5, <1>6
<1>8. SlotEvents(s, c, announced) = IF q = <<>> THEN <<>> ELSE head \o vals
  BY DEF SlotEvents
<1>. HIDE DEF head, vals, q
<1>. QED
  BY <1>7, <1>8

LEMMA FrameIsJoined ==
  ASSUME NEW new \in [Slots -> Contact]
  PROVE  \E f : /\ FrameEvents(new) = f[kNumSlots] \o <<Syn("SYN_REPORT")>>
                /\ f[1] = Part(new, 0)
                /\ \A i \in 1 .. kNumSlots - 1 : f[i + 1] = f[i] \o Part(new, i)
                /\ \A i \in 1 .. kNumSlots : f[i] \in Seq(Report)
<1>. DEFINE parts == [i \in 1 .. kNumSlots |-> Part(new, i - 1)]
<1>0. kNumSlots \in Nat \ {0}
  BY SlotsAssumption
<1>1. FrameEvents(new) = FlattenSeq(parts) \o <<Syn("SYN_REPORT")>>
  <2>1. \A i \in 1 .. kNumSlots : i - 1 \in Slots
    BY <1>0 DEF Slots
  <2>. QED
    BY <2>1 DEF FrameEvents, Part, Announced, ChangedSlots
<1>2. Len(parts) = kNumSlots
  BY <1>0
<1>3. PICK f : /\ FlattenSeq(parts) = f[kNumSlots]
               /\ f[1] = parts[1]
               /\ \A i \in 1 .. kNumSlots - 1 : f[i + 1] = f[i] \o parts[i + 1]
  <2>. HIDE DEF parts
  <2>. QED
    BY <1>0, <1>2, Flattened
<1>4. parts[1] = Part(new, 0) /\ \A i \in 1 .. kNumSlots - 1 : parts[i + 1] = Part(new, i)
  <2>1. \A i \in 1 .. kNumSlots - 1 : i + 1 \in 1 .. kNumSlots /\ (i + 1) - 1 = i
    BY <1>0
  <2>2. 1 \in 1 .. kNumSlots /\ 1 - 1 = 0
    BY <1>0
  <2>. QED
    BY <2>1, <2>2
<1>5. \A s \in Slots : Part(new, s) \in Seq(Report)
  BY SlotReports DEF Part
<1>6. \A i \in 1 .. kNumSlots : f[i] \in Seq(Report)
  <2>. DEFINE T == {i \in 0 .. kNumSlots - 1 : f[i + 1] \in Seq(Report)}
  <2>1. 0 \in T
    <3>1. 0 \in Slots
      BY <1>0 DEF Slots
    <3>. QED
      BY <1>0, <1>3, <1>4, <1>5, <3>1
  <2>2. ASSUME NEW i \in 0 .. (kNumSlots - 1) - 1, i \in T
        PROVE  i + 1 \in T
    <3>1. i + 1 \in 1 .. kNumSlots - 1 /\ i + 1 \in Slots
      BY <1>0 DEF Slots
    <3>2. f[(i + 1) + 1] = f[i + 1] \o Part(new, i + 1)
      BY <1>3, <1>4, <3>1
    <3>3. f[i + 1] \in Seq(Report) /\ Part(new, i + 1) \in Seq(Report)
      BY <1>5, <2>2, <3>1
    <3>4. f[(i + 1) + 1] \in Seq(Report)
      BY <3>2, <3>3, ConcatProperties
    <3>. QED
      BY <3>1, <3>4
  <2>3. \A i \in 0 .. kNumSlots - 1 : i \in T
    <3>1. kNumSlots - 1 \in Nat
      BY <1>0
    <3>. HIDE DEF T
    <3>. QED
      BY <2>1, <2>2, <3>1, UpTo
  <2>4. \A i \in 1 .. kNumSlots : i - 1 \in 0 .. kNumSlots - 1 /\ (i - 1) + 1 = i
    BY <1>0
  <2>. QED
    BY <2>3, <2>4
<1>. HIDE DEF parts
<1>. QED
  BY <1>1, <1>3, <1>4, <1>6

LEMMA FrameReports ==
  ASSUME NEW new \in [Slots -> Contact]
  PROVE  FrameEvents(new) \in Seq(Report) /\ FrameEvents(new) # <<>>
<1>1. PICK f : /\ FrameEvents(new) = f[kNumSlots] \o <<Syn("SYN_REPORT")>>
               /\ \A i \in 1 .. kNumSlots : f[i] \in Seq(Report)
  BY FrameIsJoined
<1>2. f[kNumSlots] \in Seq(Report)
  BY <1>1, SlotsAssumption
<1>3. <<Syn("SYN_REPORT")>> \in Seq(Report)
  BY DEF Report
<1>. QED
  BY <1>1, <1>2, <1>3
(***************************************************************************)
(* Part 4.  Type correctness, whatever the sensor sends and is lost.       *)
(***************************************************************************)

TypeInv ==
  /\ Shapes
  /\ contacts \in [Slots -> Contact] /\ kslot \in Slots
  /\ events \in Seq(Report)
  /\ slot_ \in Slots /\ slots_ \in [Slots -> SlotValues]
  /\ buttons \subseteq Buttons

LEMMA Contacts ==
  ASSUME NEW tids \in SUBSET (Tids \cup {NoTid}), NEW d \in WithTids(tids)
  PROVE  /\ d \in Contact
         /\ d["ABS_MT_TRACKING_ID"] \in tids
         /\ \A a \in Axes : d[a] \in AxisValues[a]
BY DEF WithTids, Contact, Values

\* A contact keeps its place when it lifts: the other codes stay.
LEMMA NextContactTypes ==
  ASSUME TypeInv, NEW s \in Slots, NEW d \in NextContact(s)
  PROVE  d \in Contact
<1>1. contacts[s] \in Contact
  BY DEF TypeInv
<1>. DEFINE free == Tids \ {contacts[r]["ABS_MT_TRACKING_ID"] : r \in Slots}
            c == contacts[s]
<1>2. CASE d = c
  BY <1>1, <1>2
<1>3. CASE d \in WithTids(free)
  <2>1. free \in SUBSET (Tids \cup {NoTid})
    OBVIOUS
  <2>. QED
    BY <1>3, <2>1, Contacts
<1>4. CASE Touching(s) /\ d \in WithTids({c["ABS_MT_TRACKING_ID"]})
  <2>1. CASE c["ABS_MT_TRACKING_ID"] \in Tids
    BY <1>4, <2>1, Contacts
  <2>2. CASE c["ABS_MT_TRACKING_ID"] \notin Tids
    <3>1. c["ABS_MT_TRACKING_ID"] \in Values
      BY <1>1 DEF Contact, Codes
    <3>2. d \in [Codes -> {c["ABS_MT_TRACKING_ID"]} \cup UNION {AxisValues[a] : a \in Axes}]
      BY <1>4 DEF WithTids
    <3>3. {c["ABS_MT_TRACKING_ID"]} \cup UNION {AxisValues[a] : a \in Axes} \subseteq Values
      BY <3>1 DEF Values
    <3>. QED
      BY <3>2, <3>3 DEF Contact
  <2>. QED
    BY <2>1, <2>2
<1>5. CASE d = [c EXCEPT !["ABS_MT_TRACKING_ID"] = NoTid]
  BY <1>1, <1>5 DEF Contact, Values
<1>. QED
  BY <1>2, <1>3, <1>4, <1>5 DEF NextContact

\* A frame of the sensor.
LEMMA FrameFacts ==
  ASSUME TypeInv, Frame
  PROVE  \E new \in [Slots -> Contact] :
           /\ contacts' = new /\ new # contacts
           /\ \A s \in Slots : new[s] \in NextContact(s)
           /\ \A s, r \in Slots :
                s # r /\ new[s]["ABS_MT_TRACKING_ID"] # NoTid =>
                  new[s]["ABS_MT_TRACKING_ID"] # new[r]["ABS_MT_TRACKING_ID"]
           /\ ChangedSlots(new) # {} /\ kslot' = Max(ChangedSlots(new))
           /\ kslot' \in Slots
           /\ events' = Buffered(FrameEvents(new))
           /\ slot_' = slot_ /\ slots_' = slots_
<1>1. PICK new \in {f \in [Slots -> UNION {NextContact(s) : s \in Slots}] :
                      /\ \A s \in Slots : f[s] \in NextContact(s)
                      /\ \A s, r \in Slots :
                           s # r /\ f[s]["ABS_MT_TRACKING_ID"] # NoTid =>
                             f[s]["ABS_MT_TRACKING_ID"] # f[r]["ABS_MT_TRACKING_ID"]} :
           /\ new # contacts
           /\ contacts' = new
           /\ kslot' = Max({s \in Slots : new[s] # contacts[s]})
           /\ events' = Buffered(FrameEvents(new))
  BY Zenon DEF Frame
<1>2. /\ \A s \in Slots : new[s] \in NextContact(s)
      /\ \A s, r \in Slots :
           s # r /\ new[s]["ABS_MT_TRACKING_ID"] # NoTid =>
             new[s]["ABS_MT_TRACKING_ID"] # new[r]["ABS_MT_TRACKING_ID"]
      /\ new = [s \in Slots |-> new[s]]
  BY <1>1
<1>3. new \in [Slots -> Contact]
  <2>1. \A s \in Slots : new[s] \in Contact
    BY <1>2, NextContactTypes
  <2>. QED
    BY <1>2, <2>1
<1>4. contacts = [s \in Slots |-> contacts[s]]
  BY DEF TypeInv
<1>5. ChangedSlots(new) # {}
  <2>1. SUFFICES ASSUME \A s \in Slots : new[s] = contacts[s] PROVE FALSE
    BY DEF ChangedSlots
  <2>2. new = contacts
    BY <1>2, <1>4, <2>1
  <2>. QED
    BY <1>1, <2>2
<1>6. ChangedSlots(new) \in SUBSET Slots /\ kslot' = Max(ChangedSlots(new))
  BY <1>1 DEF ChangedSlots
<1>7. kslot' \in Slots
  BY <1>5, <1>6, GreatestSlot
<1>8. slot_' = slot_ /\ slots_' = slots_
  BY DEF Frame, machine
<1>. QED
  BY <1>1, <1>2, <1>3, <1>5, <1>6, <1>7, <1>8

LEMMA BufferedTypes ==
  ASSUME events \in Seq(Report), Len(events) <= MaxBacklog, NEW evs \in Seq(Report)
  PROVE  Buffered(evs) \in Seq(Report)
<1>. DEFINE room == BufferSize - 1 - Len(events)
<1>0. room \in Int /\ Len(evs) \in Nat
  BY BufferAssumption
<1>1. CASE Len(evs) <= room
  <2>1. events \o evs \in Seq(Report)
    BY ConcatProperties
  <2>. QED
    BY <1>1, <2>1 DEF Buffered
<1>2. CASE ~(Len(evs) <= room)
  <2>1. room >= 0
    BY BufferAssumption
  <2>2. \A i \in room + 1 .. Len(evs) : i \in 1 .. Len(evs)
    BY <1>0, <2>1
  <2>3. \A i \in room + 1 .. Len(evs) : evs[i] \in Report
    BY <2>2, ElementOfSeq
  <2>4. SubSeq(evs, room + 1, Len(evs)) \in Seq(Report)
    <3>1. room + 1 \in Int /\ Len(evs) \in Int
      BY <1>0
    <3>. HIDE DEF room
    <3>. QED
      BY <2>3, <3>1, SubSeqProperties
  <2>5. <<Syn("SYN_DROPPED")>> \in Seq(Report)
    BY DEF Report
  <2>6. <<Syn("SYN_DROPPED")>> \o SubSeq(evs, room + 1, Len(evs)) \in Seq(Report)
    BY <2>4, <2>5, ConcatProperties
  <2>. QED
    BY <1>2, <2>6 DEF Buffered
<1>. QED
  BY <1>1, <1>2

LEMMA TypeInit ==
  ASSUME Start, contacts \in [Slots -> Contact], kslot \in Slots
  PROVE  TypeInv
<1>1. Shapes
  BY Initially DEF IndInv
<1>2. events = <<>> /\ slot_ = 0 /\ slots_ = [s \in Slots |-> <<>>] /\ buttons = {}
  BY DEF Start, MachineInit
<1>3. 0 \in Slots
  BY SlotsAssumption DEF Slots
<1>4. <<>> \in SlotValues
  <2>1. <<>> \in [{} -> Values]
    OBVIOUS
  <2>. QED
    BY <2>1 DEF SlotValues
<1>. QED
  BY <1>1, <1>2, <1>3, <1>4 DEF TypeInv

LEMMA UntouchedTypes == Untouched => contacts \in [Slots -> Contact] /\ kslot \in Slots
BY SlotsAssumption DEF Untouched, Contact, Values, Slots

LEMMA InUseTypes == InUse => contacts \in [Slots -> Contact] /\ kslot \in Slots
<1>. SUFFICES ASSUME InUse PROVE contacts \in [Slots -> Contact] /\ kslot \in Slots
  OBVIOUS
<1>1. WithTids(Tids \cup {NoTid}) \subseteq Contact
  BY Contacts
<1>. QED
  BY <1>1 DEF InUse

LEMMA TypeFrame ==
  ASSUME TypeInv, SensorFrame, Shapes'
  PROVE  TypeInv'
<1>1. PICK new \in [Slots -> Contact] :
        /\ contacts' = new
        /\ kslot' \in Slots
        /\ events' = Buffered(FrameEvents(new))
        /\ slot_' = slot_ /\ slots_' = slots_
  BY FrameFacts DEF SensorFrame
<1>2. Len(events) <= MaxBacklog /\ buttons' = buttons
  BY DEF SensorFrame, Frame
<1>3. FrameEvents(new) \in Seq(Report)
  BY FrameReports
<1>4. events' \in Seq(Report)
  BY <1>1, <1>2, <1>3, BufferedTypes DEF TypeInv
<1>. QED
  BY <1>1, <1>2, <1>4 DEF TypeInv

\* What reading the next event does to the machine and to the buffer.
LEMMA ReadFacts ==
  ASSUME TypeInv, events # <<>>, AddEvent(Head(events)), events' = Tail(events)
  PROVE  /\ Head(events) \in Report /\ events' \in Seq(Report)
         /\ [slot |-> slot_, slots |-> slots_] \in Machines
         /\ [slot |-> slot_, slots |-> slots_]' = After([slot |-> slot_, slots |-> slots_], Head(events))
         /\ slot_' \in Slots /\ slots_' \in [Slots -> SlotValues]
<1>1. Head(events) \in Report /\ events' \in Seq(Report)
  BY HeadTailProperties DEF TypeInv
<1>. DEFINE m == [slot |-> slot_, slots |-> slots_]
<1>2. m \in Machines
  BY DEF TypeInv, Machines
<1>3. After(m, Head(events)) \in Machines
  BY <1>1, <1>2, Machining
<1>4. slot_' = After(m, Head(events)).slot /\ slots_' = After(m, Head(events)).slots
  BY DEF AddEvent
<1>5. [slot |-> slot_', slots |-> slots_'] = After(m, Head(events))
  BY <1>3, <1>4 DEF Machines
<1>. QED
  BY <1>1, <1>2, <1>3, <1>4, <1>5 DEF Machines

LEMMA TypeRead ==
  ASSUME TypeInv, Consume, Shapes'
  PROVE  TypeInv'
<1>1. events # <<>> /\ AddEvent(Head(events)) /\ events' = Tail(events) /\ UNCHANGED sensor
  BY DEF Consume, ReadEvent, ReadSyn
<1>2. events' \in Seq(Report) /\ slot_' \in Slots /\ slots_' \in [Slots -> SlotValues]
  BY <1>1, ReadFacts
<1>3. buttons' \subseteq Buttons
  <2>1. CASE ReadEvent
    BY <2>1 DEF ReadEvent, TypeInv
  <2>2. CASE ReadSyn
    BY <2>2 DEF ReadSyn, ButtonsDown, Buttons
  <2>. QED
    BY <2>1, <2>2 DEF Consume
<1>4. contacts' \in [Slots -> Contact] /\ kslot' \in Slots
  BY <1>1 DEF TypeInv, sensor
<1>. QED
  BY <1>2, <1>3, <1>4 DEF TypeInv

LEMMA TypeStep == TypeInv /\ IndInv /\ [Next]_vars => TypeInv'
<1>. SUFFICES ASSUME TypeInv, IndInv, [Next]_vars PROVE TypeInv'
  OBVIOUS
<1>0. Shapes'
  BY NextPreserves DEF IndInv
<1>1. CASE SensorFrame
  BY <1>0, <1>1, TypeFrame
<1>2. CASE Consume
  BY <1>0, <1>2, TypeRead
<1>3. CASE ReadFails
  BY <1>0, <1>3 DEF ReadFails, TypeInv, sensor, machine
<1>4. CASE UNCHANGED vars
  BY <1>0, <1>4 DEF vars, TypeInv
<1>. QED
  BY <1>1, <1>2, <1>3, <1>4 DEF Next, Gone

LEMMA TypeInvImplies == TypeInv => TypeOK
<1>. SUFFICES ASSUME TypeInv PROVE TypeOK
  OBVIOUS
<1>1. \A s \in Slots : DOMAIN slots_[s] \subseteq Codes
  BY DEF TypeInv, SlotValues
<1>2. \A s \in Slots : DOMAIN contacts[s] = Codes
  BY DEF TypeInv, Contact
<1>. QED
  BY <1>1, <1>2 DEF TypeInv, TypeOK, Shapes

\* The machine never leaves its slots (slots_[slot_] in MtStateMachine::AddEvent
\* is always one of the kNumSlots it has), and holds the codes of the sensor's
\* axes and no other: for every sensor, also when its buffer overflows and events
\* are lost between a slot's announcement and its values.
THEOREM TypeCorrect == Spec => []TypeOK
<1>1. Init => TypeInv /\ IndInv
  BY TypeInit, UntouchedTypes, Initially DEF Init
<1>2. (TypeInv /\ IndInv) /\ [Next]_vars => (TypeInv /\ IndInv)'
  BY TypeStep, NextPreserves
<1>3. TypeInv /\ IndInv => TypeOK
  BY TypeInvImplies
<1>. QED
  BY <1>1, <1>2, <1>3, PTL DEF Spec

\* Also of a process that starts while fingers touch.
THEOREM TypeCorrectWhenLate == LateSpec => []TypeOK
<1>1. InUse /\ Start => TypeInv /\ IndInv
  BY TypeInit, InUseTypes, Initially
<1>2. (TypeInv /\ IndInv) /\ [Next]_vars => (TypeInv /\ IndInv)'
  BY TypeStep, NextPreserves
<1>3. TypeInv /\ IndInv => TypeOK
  BY TypeInvImplies
<1>. QED
  BY <1>1, <1>2, <1>3, PTL DEF LateSpec
=============================================================================
