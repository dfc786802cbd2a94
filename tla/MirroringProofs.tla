-------------------------- MODULE MirroringProofs --------------------------
(***************************************************************************)
(* Theorems about FakeTouchpad and its state machine as a whole: what they *)
(* make of the events that are still unread.  For every number of slots,   *)
(* every set of contacts and axes, every region and mounting, and however  *)
(* many frames pile up in front of the process, as long as its buffer does *)
(* not overflow.                                                           *)
(***************************************************************************)
EXTENDS Mirroring, FakeTouchpadProofs

(***************************************************************************)
(* Part 1.  Reading events one after the other.                            *)
(***************************************************************************)

\* What reading makes of an event: the machine takes it in, and a SYN_REPORT
\* adds a view to those before.
Step(p, ev) ==
  IF IsSyn(ev) THEN [p EXCEPT !.views = Append(@, SlotsView(p.machine.slots))]
  ELSE [p EXCEPT !.machine = After(@, ev)]

Run(p, q) ==
  LET after[i \in 0 .. Len(q)] == IF i = 0 THEN p ELSE Step(after[i - 1], q[i])
  IN  after

Final(p, q) == Run(p, q)[Len(q)]

Now == [machine |-> [slot |-> slot_, slots |-> slots_], views |-> <<>>]

LEMMA UnreadIsFinal == Unread = Final(Now, events).views
BY DEF Unread, Final, Run, Step, Now

\* The first k steps of a run.
Law(f, p, q, k) == f = [i \in 0 .. k |-> IF i = 0 THEN p ELSE Step(f[i - 1], q[i])]

LEMMA LawGrows ==
  ASSUME NEW p, NEW q, NEW k \in Nat, NEW f, Law(f, p, q, k)
  PROVE  \E g : Law(g, p, q, k + 1)
<1>. DEFINE g == [i \in 0 .. k + 1 |-> IF i = 0 THEN p ELSE Step(f[i - 1], q[i])]
<1>1. \A i \in 0 .. k : i \in 0 .. k + 1 /\ g[i] = IF i = 0 THEN p ELSE Step(f[i - 1], q[i])
  OBVIOUS
<1>2. \A i \in 0 .. k : f[i] = IF i = 0 THEN p ELSE Step(f[i - 1], q[i])
  BY Zenon DEF Law
<1>3. \A i \in 0 .. k : g[i] = f[i]
  <2>. HIDE DEF g
  <2>. QED
    BY <1>1, <1>2, Zenon
<1>4. \A i \in 0 .. k + 1 : i # 0 => i - 1 \in 0 .. k
  OBVIOUS
<1>5. \A i \in 0 .. k + 1 : i # 0 => g[i - 1] = f[i - 1]
  <2>. HIDE DEF g
  <2>. QED
    BY <1>3, <1>4, Zenon
<1>6. g = [i \in 0 .. k + 1 |-> IF i = 0 THEN p ELSE Step(g[i - 1], q[i])]
  BY <1>5
<1>. HIDE DEF g
<1>. QED
  BY <1>6 DEF Law

LEMMA RunSteps ==
  ASSUME NEW p, NEW q, Len(q) \in Nat
  PROVE  /\ Run(p, q)[0] = p
         /\ \A i \in 0 .. Len(q) - 1 : Run(p, q)[i + 1] = Step(Run(p, q)[i], q[i + 1])
<1>. DEFINE n == Len(q)
            T == {k \in 0 .. n : \E f : Law(f, p, q, k)}
<1>1. 0 \in T
  <2>1. Law([i \in 0 .. 0 |-> p], p, q, 0)
    BY DEF Law
  <2>. QED
    BY <2>1
<1>2. ASSUME NEW k \in 0 .. n - 1, k \in T
      PROVE  k + 1 \in T
  <2>1. PICK f : Law(f, p, q, k)
    BY <1>2
  <2>2. \E g : Law(g, p, q, k + 1)
    BY <2>1, LawGrows
  <2>. QED
    BY <2>2
<1>3. n \in T
  <2>1. n \in Nat /\ n \in 0 .. n
    OBVIOUS
  <2>. HIDE DEF T, n
  <2>. QED
    BY <1>1, <1>2, <2>1, UpTo
<1>4. \E f : Law(f, p, q, n)
  BY <1>3
<1>5. Law(Run(p, q), p, q, n)
  BY <1>4 DEF Run, Law
<1>6. \A i \in 0 .. n :
        Run(p, q)[i] = IF i = 0 THEN p ELSE Step(Run(p, q)[i - 1], q[i])
  BY <1>5, Zenon DEF Law
<1>7. \A i \in 0 .. n - 1 : i + 1 \in 0 .. n /\ i + 1 # 0 /\ (i + 1) - 1 = i
  OBVIOUS
<1>8. 0 \in 0 .. n
  OBVIOUS
<1>. HIDE DEF n
<1>. QED
  BY <1>6, <1>7, <1>8 DEF n
\* What a slot of a view shows, and a run up to some event.
Sights ==
  {[tid |-> NoTid]}
  \cup {[tid |-> t, at |-> PadPosition(hw, region, x, y)] : t \in Values, x \in Values, y \in Values}

Views == [Slots -> Sights]

Progress == [machine : Machines, views : Seq(Views)]

LEMMA FoundValues ==
  ASSUME NEW slot \in SlotValues, NEW c
  PROVE  FindValueByEvent(slot, c) \in Values
BY DEF SlotValues, FindValueByEvent, Values, kSlotMissingValue, NoTid

LEMMA SightTypes ==
  ASSUME NEW t \in Values, NEW x \in Values, NEW y \in Values
  PROVE  Seen(t, x, y) \in Sights
<1>1. [tid |-> NoTid] \in Sights
  BY DEF Sights
<1>2. [tid |-> t, at |-> PadPosition(hw, region, x, y)] \in Sights
  <2>1. \A at : at = PadPosition(hw, region, x, y) => [tid |-> t, at |-> at] \in Sights
    BY DEF Sights
  <2>. QED
    BY <2>1
<1>. QED
  BY <1>1, <1>2, Zenon DEF Seen

LEMMA SlotsViewTypes ==
  ASSUME NEW slots \in [Slots -> SlotValues]
  PROVE  /\ SlotsView(slots) \in Views
         /\ \A s \in Slots : SlotsView(slots)[s] =
              Seen(FindValueByEvent(slots[s], "ABS_MT_TRACKING_ID"),
                   FindValueByEvent(slots[s], "ABS_MT_POSITION_X"),
                   FindValueByEvent(slots[s], "ABS_MT_POSITION_Y"))
<1>1. SlotsView(slots) =
        [s \in Slots |-> Seen(FindValueByEvent(slots[s], "ABS_MT_TRACKING_ID"),
                              FindValueByEvent(slots[s], "ABS_MT_POSITION_X"),
                              FindValueByEvent(slots[s], "ABS_MT_POSITION_Y"))]
  BY DEF SlotsView, View
<1>2. \A s \in Slots : slots[s] \in SlotValues
  OBVIOUS
<1>3. \A s \in Slots : Seen(FindValueByEvent(slots[s], "ABS_MT_TRACKING_ID"),
                            FindValueByEvent(slots[s], "ABS_MT_POSITION_X"),
                            FindValueByEvent(slots[s], "ABS_MT_POSITION_Y")) \in Sights
  BY <1>2, FoundValues, SightTypes
<1>. QED
  BY <1>1, <1>3 DEF Views

LEMMA StepFacts ==
  ASSUME NEW p \in Progress, NEW ev \in Report
  PROVE  /\ Step(p, ev) \in Progress
         /\ IsSyn(ev) => /\ Step(p, ev).machine = p.machine
                         /\ Step(p, ev).views = Append(p.views, SlotsView(p.machine.slots))
         /\ ~IsSyn(ev) => /\ Step(p, ev).machine = After(p.machine, ev)
                          /\ Step(p, ev).views = p.views
<1>1. p.machine \in Machines /\ p.views \in Seq(Views)
  BY DEF Progress
<1>2. CASE IsSyn(ev)
  <2>1. SlotsView(p.machine.slots) \in Views
    BY <1>1, SlotsViewTypes DEF Machines
  <2>2. Append(p.views, SlotsView(p.machine.slots)) \in Seq(Views)
    BY <1>1, <2>1
  <2>3. Step(p, ev) = [p EXCEPT !.views = Append(p.views, SlotsView(p.machine.slots))]
    BY <1>2 DEF Step
  <2>. QED
    BY <1>1, <1>2, <2>2, <2>3 DEF Progress
<1>3. CASE ~IsSyn(ev)
  <2>1. After(p.machine, ev) \in Machines
    BY <1>1, Machining
  <2>2. Step(p, ev) = [p EXCEPT !.machine = After(p.machine, ev)]
    BY <1>3 DEF Step
  <2>. QED
    BY <1>1, <1>3, <2>1, <2>2 DEF Progress
<1>. QED
  BY <1>2, <1>3

LEMMA RunTypes ==
  ASSUME NEW p \in Progress, NEW q \in Seq(Report)
  PROVE  /\ \A i \in 0 .. Len(q) : Run(p, q)[i] \in Progress
         /\ Final(p, q) \in Progress
<1>. DEFINE T == {i \in 0 .. Len(q) : Run(p, q)[i] \in Progress}
<1>0. Len(q) \in Nat /\ \A i \in 1 .. Len(q) : q[i] \in Report
  OBVIOUS
<1>1. 0 \in T
  BY <1>0, RunSteps
<1>2. ASSUME NEW i \in 0 .. Len(q) - 1, i \in T
      PROVE  i + 1 \in T
  <2>1. Run(p, q)[i + 1] = Step(Run(p, q)[i], q[i + 1]) /\ i + 1 \in 1 .. Len(q)
    BY <1>0, RunSteps
  <2>2. q[i + 1] \in Report
    BY <1>0, <2>1
  <2>. QED
    BY <1>2, <2>1, <2>2, StepFacts
<1>3. \A i \in 0 .. Len(q) : i \in T
  <2>. HIDE DEF T
  <2>. QED
    BY <1>0, <1>1, <1>2, UpTo
<1>. QED
  BY <1>0, <1>3 DEF Final

\* Reading what comes later starts where reading what comes first has ended.
LEMMA FinalOfConcat ==
  ASSUME NEW p, NEW q \in Seq(Report), NEW e \in Seq(Report)
  PROVE  Final(p, q \o e) = Final(Final(p, q), e)
<1>. DEFINE n == Len(q)
            k == Len(e)
            w == q \o e
            S == {i \in 0 .. n : Run(p, w)[i] = Run(p, q)[i]}
            T == {i \in 0 .. k : Run(p, w)[n + i] = Run(Final(p, q), e)[i]}
<1>0. /\ n \in Nat /\ k \in Nat /\ Len(w) = n + k
      /\ \A i \in 1 .. n : w[i] = q[i]
      /\ \A i \in 1 .. k : w[n + i] = e[i]
  BY ConcatProperties
<1>. HIDE DEF w
<1>1. /\ Run(p, w)[0] = p
      /\ \A i \in 0 .. n + k - 1 : Run(p, w)[i + 1] = Step(Run(p, w)[i], w[i + 1])
  BY <1>0, RunSteps
<1>2. /\ Run(p, q)[0] = p
      /\ \A i \in 0 .. n - 1 : Run(p, q)[i + 1] = Step(Run(p, q)[i], q[i + 1])
  BY <1>0, RunSteps
<1>3. /\ Run(Final(p, q), e)[0] = Final(p, q)
      /\ \A i \in 0 .. k - 1 :
           Run(Final(p, q), e)[i + 1] = Step(Run(Final(p, q), e)[i], e[i + 1])
  BY <1>0, RunSteps
<1>4. \A i \in 0 .. n : i \in S
  <2>1. 0 \in S
    BY <1>0, <1>1, <1>2
  <2>2. ASSUME NEW i \in 0 .. n - 1, i \in S
        PROVE  i + 1 \in S
    <3>1. i \in 0 .. n + k - 1 /\ i + 1 \in 1 .. n
      BY <1>0
    <3>. QED
      BY <1>0, <1>1, <1>2, <2>2, <3>1
  <2>. HIDE DEF S
  <2>. QED
    BY <1>0, <2>1, <2>2, UpTo
<1>5. Run(p, w)[n] = Final(p, q)
  BY <1>0, <1>4 DEF Final
<1>6. \A i \in 0 .. k : i \in T
  <2>1. 0 \in T
    BY <1>0, <1>3, <1>5
  <2>2. ASSUME NEW i \in 0 .. k - 1, i \in T
        PROVE  i + 1 \in T
    <3>1. n + i \in 0 .. n + k - 1 /\ i + 1 \in 1 .. k /\ (n + i) + 1 = n + (i + 1)
      BY <1>0
    <3>2. Run(p, w)[n + (i + 1)] = Step(Run(p, w)[n + i], w[n + (i + 1)])
      BY <1>1, <3>1
    <3>. QED
      BY <1>0, <1>3, <2>2, <3>1, <3>2
  <2>. HIDE DEF T
  <2>. QED
    BY <1>0, <2>1, <2>2, UpTo
<1>. QED
  BY <1>0, <1>6 DEF Final, w

LEMMA FirstStep ==
  ASSUME NEW p, NEW q, Len(q) \in Nat \ {0}
  PROVE  Run(p, q)[1] = Step(p, q[1])
<1>1. Len(q) \in Nat
  OBVIOUS
<1>2. Run(p, q)[0] = p /\ \A i \in 0 .. Len(q) - 1 : Run(p, q)[i + 1] = Step(Run(p, q)[i], q[i + 1])
  BY <1>1, RunSteps
<1>3. 0 \in 0 .. Len(q) - 1 /\ 0 + 1 = 1
  OBVIOUS
<1>. QED
  BY <1>2, <1>3

LEMMA FinalOfOne ==
  ASSUME NEW p, NEW ev, NEW q, q = <<ev>>
  PROVE  Final(p, q) = Step(p, ev)
<1>1. Len(q) = 1 /\ q[1] = ev
  OBVIOUS
<1>2. Run(p, q)[1] = Step(p, ev)
  BY <1>1, FirstStep
<1>. QED
  BY <1>1, <1>2 DEF Final

LEMMA FinalOfNone == ASSUME NEW p PROVE Final(p, <<>>) = p
<1>1. Len(<<>>) = 0
  OBVIOUS
<1>. QED
  BY <1>1, RunSteps DEF Final

\* The views there were before stay in front of those that are added.
LEMMA ViewsAreKept ==
  ASSUME NEW p \in Progress, NEW r \in Progress, NEW vs \in Seq(Views),
         p.machine = r.machine, p.views = vs \o r.views, NEW q \in Seq(Report)
  PROVE  /\ Final(p, q).machine = Final(r, q).machine
         /\ Final(p, q).views = vs \o Final(r, q).views
<1>. DEFINE n == Len(q)
            T == {i \in 0 .. n : /\ Run(p, q)[i].machine = Run(r, q)[i].machine
                                 /\ Run(p, q)[i].views = vs \o Run(r, q)[i].views}
<1>0. n \in Nat /\ \A i \in 1 .. n : q[i] \in Report
  OBVIOUS
<1>1. /\ Run(p, q)[0] = p
      /\ \A i \in 0 .. n - 1 : Run(p, q)[i + 1] = Step(Run(p, q)[i], q[i + 1])
  BY <1>0, RunSteps
<1>2. /\ Run(r, q)[0] = r
      /\ \A i \in 0 .. n - 1 : Run(r, q)[i + 1] = Step(Run(r, q)[i], q[i + 1])
  BY <1>0, RunSteps
<1>3. \A i \in 0 .. n : Run(p, q)[i] \in Progress /\ Run(r, q)[i] \in Progress
  BY RunTypes
<1>4. ASSUME NEW a \in Progress, NEW b \in Progress, NEW ev \in Report,
             a.machine = b.machine, a.views = vs \o b.views
      PROVE  /\ Step(a, ev).machine = Step(b, ev).machine
             /\ Step(a, ev).views = vs \o Step(b, ev).views
  <2>1. CASE ~IsSyn(ev)
    <3>1. /\ Step(a, ev).machine = After(a.machine, ev) /\ Step(a, ev).views = a.views
          /\ Step(b, ev).machine = After(b.machine, ev) /\ Step(b, ev).views = b.views
      BY <2>1, StepFacts
    <3>. QED
      BY <1>4, <3>1, Zenon
  <2>2. CASE IsSyn(ev)
    <3>. DEFINE v == SlotsView(b.machine.slots)
    <3>1. v \in Views /\ b.views \in Seq(Views)
      BY SlotsViewTypes DEF Progress, Machines
    <3>2. Append(vs \o b.views, v) = vs \o Append(b.views, v)
      <4>. HIDE DEF v
      <4>1. PICK one : one = <<v>>
        OBVIOUS
      <4>2. one \in Seq(Views) /\ Append(b.views, v) = b.views \o one
        BY <3>1, <4>1, AppendIsConcat
      <4>3. Append(vs \o b.views, v) = (vs \o b.views) \o one
        BY <3>1, <4>1, ConcatProperties, AppendIsConcat
      <4>4. PICK ws \in Seq(Views) : ws = b.views
        BY <3>1
      <4>5. (vs \o ws) \o one = vs \o (ws \o one)
        BY <4>2, ConcatAssociative
      <4>. QED
        BY <4>2, <4>3, <4>4, <4>5
    <3>3. /\ Step(a, ev).machine = a.machine
          /\ Step(a, ev).views = Append(a.views, SlotsView(a.machine.slots))
          /\ Step(b, ev).machine = b.machine /\ Step(b, ev).views = Append(b.views, v)
      BY <2>2, StepFacts
    <3>. QED
      BY <1>4, <3>2, <3>3, Zenon
  <2>. QED
    BY <2>1, <2>2
<1>5. 0 \in T
  <2>1. Run(p, q)[0] = p /\ Run(r, q)[0] = r /\ 0 \in 0 .. n
    BY <1>0, <1>1, <1>2
  <2>. QED
    BY <2>1, Zenon
<1>6. ASSUME NEW i \in 0 .. n - 1, i \in T
      PROVE  i + 1 \in T
  <2>1. i \in 0 .. n /\ i + 1 \in 0 .. n /\ i + 1 \in 1 .. n
    BY <1>0
  <2>2. q[i + 1] \in Report /\ Run(p, q)[i] \in Progress /\ Run(r, q)[i] \in Progress
    BY <1>0, <1>3, <2>1
  <2>3. /\ Step(Run(p, q)[i], q[i + 1]).machine = Step(Run(r, q)[i], q[i + 1]).machine
        /\ Step(Run(p, q)[i], q[i + 1]).views = vs \o Step(Run(r, q)[i], q[i + 1]).views
    BY <1>4, <1>6, <2>2
  <2>. QED
    BY <1>1, <1>2, <2>1, <2>3
<1>7. \A i \in 0 .. n : i \in T
  <2>. HIDE DEF T
  <2>. QED
    BY <1>0, <1>5, <1>6, UpTo
<1>. QED
  BY <1>0, <1>7 DEF Final
(***************************************************************************)
(* Part 2.  Reading the events of a frame.                                 *)
(***************************************************************************)

\* The machine's slot holds the kernel's values; of a code it has not read the
\* kernel still has the value it began with.
Unset(a) == IF a = Tid THEN NoTid ELSE 0

Mirrors(slot, c) ==
  \A a \in Codes : IF a \in DOMAIN slot THEN slot[a] = c[a] ELSE c[a] = Unset(a)

Agrees(m, k, cs) == m.slot = k /\ \A s \in Slots : Mirrors(m.slots[s], cs[s])

\* What r is after the first j codes of q were read at slot s, p before.
ReadSoFar(p, r, s, c, q, j) ==
  /\ r \in Progress /\ r.views = p.views /\ r.machine.slot = s
  /\ \A o \in Slots : o # s => r.machine.slots[o] = p.machine.slots[o]
  /\ \A a \in Codes :
       IF \E i \in 1 .. j : q[i] = a
       THEN a \in DOMAIN r.machine.slots[s] /\ r.machine.slots[s][a] = c[a]
       ELSE /\ a \in DOMAIN r.machine.slots[s] <=> a \in DOMAIN p.machine.slots[s]
            /\ a \in DOMAIN p.machine.slots[s] =>
                 r.machine.slots[s][a] = p.machine.slots[s][a]

LEMMA ReadOne ==
  ASSUME NEW p \in Progress, NEW r, NEW s \in Slots, NEW c \in Contact, NEW n \in Nat,
         NEW q \in [1 .. n -> Codes], NEW j \in 0 .. n - 1, ReadSoFar(p, r, s, c, q, j)
  PROVE  ReadSoFar(p, Step(r, Abs(q[j + 1], c[q[j + 1]])), s, c, q, j + 1)
<1>. DEFINE a == q[j + 1]
<1>0. a \in Codes /\ c[a] \in Values /\ j + 1 \in 1 .. n
  BY DEF Contact
<1>. HIDE DEF a
<1>1. PICK ev : ev = Abs(a, c[a])
  OBVIOUS
<1>2. /\ ev \in Report /\ ev.type = "EV_ABS" /\ ~IsSlot(ev) /\ ~IsSyn(ev)
      /\ ev.code = a /\ ev.value = c[a]
  <2>1. "ABS_MT_SLOT" \notin Codes
    BY AxesAssumption DEF Codes
  <2>. QED
    BY <1>0, <1>1, <2>1 DEF Abs, Report, IsSlot, IsSyn
<1>3. PICK t : t = Step(r, ev)
  OBVIOUS
<1>4. r \in Progress /\ r.machine \in Machines /\ r.machine.slot = s
  BY DEF ReadSoFar, Progress
<1>5. /\ t \in Progress /\ t.views = r.views /\ t.machine = After(r.machine, ev)
  BY <1>2, <1>3, <1>4, StepFacts
<1>6. t.machine.slot = s /\ t.machine.slots = Stored(r.machine, ev)
  BY <1>2, <1>4, <1>5, Machining
<1>7. /\ \A o \in Slots : o # s => t.machine.slots[o] = r.machine.slots[o]
      /\ DOMAIN t.machine.slots[s] = DOMAIN r.machine.slots[s] \cup {a}
      /\ \A b \in DOMAIN r.machine.slots[s] \cup {a} :
           t.machine.slots[s][b] = IF b = a THEN c[a] ELSE r.machine.slots[s][b]
  BY <1>0, <1>2, <1>4, <1>6, Storing
<1>8. \A b \in Codes : (\E i \in 1 .. j + 1 : q[i] = b) <=> b = a \/ \E i \in 1 .. j : q[i] = b
  BY DEF a
<1>9. ASSUME NEW b \in Codes
      PROVE  IF \E i \in 1 .. j + 1 : q[i] = b
             THEN b \in DOMAIN t.machine.slots[s] /\ t.machine.slots[s][b] = c[b]
             ELSE /\ b \in DOMAIN t.machine.slots[s] <=> b \in DOMAIN p.machine.slots[s]
                  /\ b \in DOMAIN p.machine.slots[s] =>
                       t.machine.slots[s][b] = p.machine.slots[s][b]
  <2>1. CASE b = a
    BY <1>7, <1>8, <2>1
  <2>2. CASE b # a
    <3>1. b \in DOMAIN t.machine.slots[s] <=> b \in DOMAIN r.machine.slots[s]
      BY <1>7, <2>2
    <3>2. b \in DOMAIN r.machine.slots[s] => t.machine.slots[s][b] = r.machine.slots[s][b]
      BY <1>7, <2>2
    <3>. QED
      BY <1>8, <2>2, <3>1, <3>2 DEF ReadSoFar
  <2>. QED
    BY <2>1, <2>2
<1>10. /\ t.views = p.views
       /\ \A o \in Slots : o # s => t.machine.slots[o] = p.machine.slots[o]
  BY <1>5, <1>7 DEF ReadSoFar
<1>11. ReadSoFar(p, t, s, c, q, j + 1)
  BY <1>5, <1>6, <1>9, <1>10, Zenon DEF ReadSoFar
<1>. QED
  BY <1>1, <1>3, <1>11 DEF a

LEMMA ReadChanges ==
  ASSUME NEW p \in Progress, NEW s \in Slots, p.machine.slot = s, NEW c \in Contact,
         NEW n \in Nat, NEW q \in [1 .. n -> Codes],
         NEW e \in Seq(Report), e = [i \in 1 .. n |-> Abs(q[i], c[q[i]])]
  PROVE  ReadSoFar(p, Final(p, e), s, c, q, n)
<1>0. Len(e) = n /\ \A i \in 1 .. n : e[i] = Abs(q[i], c[q[i]])
  OBVIOUS
<1>. DEFINE T == {j \in 0 .. n : ReadSoFar(p, Run(p, e)[j], s, c, q, j)}
<1>1. /\ Run(p, e)[0] = p
      /\ \A i \in 0 .. n - 1 : Run(p, e)[i + 1] = Step(Run(p, e)[i], e[i + 1])
  BY <1>0, RunSteps
<1>2. 0 \in T
  <2>1. ~\E i \in 1 .. 0 : TRUE
    OBVIOUS
  <2>2. ReadSoFar(p, p, s, c, q, 0)
    BY <2>1 DEF ReadSoFar
  <2>. QED
    BY <1>1, <2>2
<1>3. ASSUME NEW j \in 0 .. n - 1, j \in T
      PROVE  j + 1 \in T
  <2>1. j + 1 \in 1 .. n /\ j + 1 \in 0 .. n
    OBVIOUS
  <2>2. Run(p, e)[j + 1] = Step(Run(p, e)[j], Abs(q[j + 1], c[q[j + 1]]))
    BY <1>0, <1>1, <2>1
  <2>3. ReadSoFar(p, Step(Run(p, e)[j], Abs(q[j + 1], c[q[j + 1]])), s, c, q, j + 1)
    BY <1>3, ReadOne
  <2>. QED
    BY <2>1, <2>2, <2>3
<1>4. n \in T
  <2>1. n \in 0 .. n
    OBVIOUS
  <2>. HIDE DEF T
  <2>. QED
    BY <1>2, <1>3, <2>1, UpTo
<1>. QED
  BY <1>0, <1>4 DEF Final

\* The events of one slot bring the machine's slot from the old values to the new
\* ones, and leave every other slot alone.
LEMMA ReadSlot ==
  ASSUME NEW p \in Progress, NEW s \in Slots, NEW c \in Contact, NEW announced,
         p.machine.slot = announced, contacts[s] \in Contact,
         Mirrors(p.machine.slots[s], contacts[s])
  PROVE  LET r == Final(p, SlotEvents(s, c, announced))
         IN  /\ r \in Progress /\ r.views = p.views
             /\ r.machine.slot = IF c # contacts[s] THEN s ELSE announced
             /\ \A o \in Slots : o # s => r.machine.slots[o] = p.machine.slots[o]
             /\ Mirrors(r.machine.slots[s], c)
<1>. DEFINE S == {a \in Codes : c[a] # contacts[s][a]}
            n == Cardinality(S)
            head == IF announced = s THEN <<>> ELSE <<Abs("ABS_MT_SLOT", s)>>
<1>1. PICK q : q = SetToSeq(S)
  OBVIOUS
<1>2. IsFiniteSet(S)
  <2>1. IsFiniteSet(Codes)
    BY AxesAssumption, FS_AddElement DEF Codes
  <2>. QED
    BY <2>1, FS_Subset
<1>3. /\ n \in Nat /\ q \in [1 .. n -> S]
      /\ \A a \in S : \E i \in 1 .. n : q[i] = a
  BY <1>1, <1>2, Listed
<1>4. PICK vals : vals = [i \in 1 .. n |-> Abs(q[i], c[q[i]])]
  OBVIOUS
<1>5. SlotEvents(s, c, announced) = IF q = <<>> THEN <<>> ELSE head \o vals
  <2>1. DOMAIN q = 1 .. n
    BY <1>3
  <2>. QED
    BY <1>1, <1>4, <2>1 DEF SlotEvents
<1>6. q \in [1 .. n -> Codes]
  BY <1>3
<1>. HIDE DEF n
<1>7. CASE c = contacts[s]
  <2>1. S = {} /\ q = <<>>
    <3>1. S = {}
      BY <1>7
    <3>2. n = 0
      BY <3>1, FS_EmptySet DEF n
    <3>. QED
      BY <1>3, <3>1, <3>2
  <2>2. SlotEvents(s, c, announced) = <<>>
    BY <1>5, <2>1
  <2>3. Final(p, SlotEvents(s, c, announced)) = p
    BY <2>2, FinalOfNone
  <2>. QED
    BY <1>7, <2>3
<1>8. CASE c # contacts[s]
  <2>1. PICK a \in Codes : a \in S
    <3>1. c = [a \in Codes |-> c[a]] /\ contacts[s] = [a \in Codes |-> contacts[s][a]]
      BY DEF Contact
    <3>2. \E a \in Codes : c[a] # contacts[s][a]
      BY <1>8, <3>1
    <3>. QED
      BY <3>2
  <2>2. q # <<>>
    BY <1>3, <2>1
  <2>3. \A b \in Codes : Abs(b, c[b]) \in Report
    BY DEF Contact, Abs, Report
  <2>4. vals \in Seq(Report)
    <3>1. vals \in [1 .. n -> Report]
      BY <1>4, <1>6, <2>3
    <3>. QED
      BY <1>3, <3>1
  <2>5. PICK slotev : slotev = Abs("ABS_MT_SLOT", s)
    OBVIOUS
  <2>6. slotev \in Report /\ IsSlot(slotev) /\ ~IsSyn(slotev) /\ slotev.value = s
    BY <2>5 DEF Abs, Report, IsSlot, IsSyn
  <2>7. PICK h : h = head
    OBVIOUS
  <2>8. h \in Seq(Report)
    BY <2>5, <2>6, <2>7
  <2>9. PICK t : t = Final(p, h)
    OBVIOUS
  <2>10. /\ t \in Progress /\ t.views = p.views /\ t.machine.slot = s
         /\ t.machine.slots = p.machine.slots
    <3>1. CASE announced = s
      <4>1. h = <<>>
        BY <2>7, <3>1
      <4>2. t = p
        BY <2>9, <4>1, FinalOfNone
      <4>. QED
        BY <3>1, <4>2
    <3>2. CASE announced # s
      <4>1. h = <<slotev>>
        BY <2>5, <2>7, <3>2
      <4>2. t = Step(p, slotev)
        BY <2>9, <4>1, FinalOfOne
      <4>3. /\ t \in Progress /\ t.views = p.views /\ t.machine = After(p.machine, slotev)
        BY <2>6, <4>2, StepFacts
      <4>4. p.machine \in Machines
        BY DEF Progress
      <4>. QED
        BY <2>6, <4>3, <4>4, Machining
    <3>. QED
      BY <3>1, <3>2
  <2>11. PICK r : r = Final(t, vals)
    OBVIOUS
  <2>12. ReadSoFar(t, r, s, c, q, n)
    BY <1>3, <1>4, <1>6, <2>4, <2>10, <2>11, ReadChanges
  <2>13. Final(p, SlotEvents(s, c, announced)) = r
    <3>1. SlotEvents(s, c, announced) = h \o vals
      BY <1>5, <2>2, <2>7
    <3>2. Final(p, h \o vals) = Final(Final(p, h), vals)
      BY <2>4, <2>8, FinalOfConcat
    <3>. QED
      BY <2>9, <2>11, <3>1, <3>2
  <2>14. /\ r \in Progress /\ r.views = p.views /\ r.machine.slot = s
         /\ \A o \in Slots : o # s => r.machine.slots[o] = p.machine.slots[o]
    BY <2>10, <2>12 DEF ReadSoFar
  <2>15. ASSUME NEW b \in Codes
         PROVE  IF b \in DOMAIN r.machine.slots[s] THEN r.machine.slots[s][b] = c[b]
                ELSE c[b] = Unset(b)
    <3>1. (\E i \in 1 .. n : q[i] = b) <=> c[b] # contacts[s][b]
      BY <1>3
    <3>2. IF b \in DOMAIN p.machine.slots[s] THEN p.machine.slots[s][b] = contacts[s][b]
          ELSE contacts[s][b] = Unset(b)
      BY DEF Mirrors
    <3>3. IF \E i \in 1 .. n : q[i] = b
          THEN b \in DOMAIN r.machine.slots[s] /\ r.machine.slots[s][b] = c[b]
          ELSE /\ b \in DOMAIN r.machine.slots[s] <=> b \in DOMAIN p.machine.slots[s]
               /\ b \in DOMAIN p.machine.slots[s] =>
                    r.machine.slots[s][b] = p.machine.slots[s][b]
      BY <2>10, <2>12 DEF ReadSoFar
    <3>. QED
      BY <3>1, <3>2, <3>3
  <2>16. Mirrors(r.machine.slots[s], c)
    BY <2>15 DEF Mirrors
  <2>. QED
    BY <1>8, <2>13, <2>14, <2>16
<1>. QED
  BY <1>7, <1>8

\* What r is after the events of the slots below n, p before.
ReadUpTo(p, r, new, n) ==
  /\ r \in Progress /\ r.views = p.views /\ r.machine.slot = Announced(new, n)
  /\ \A s \in Slots : Mirrors(r.machine.slots[s], IF s < n THEN new[s] ELSE contacts[s])

LEMMA AnnouncedNext ==
  ASSUME NEW new, NEW n \in Slots
  PROVE  Announced(new, n + 1) = IF new[n] # contacts[n] THEN n ELSE Announced(new, n)
<1>. DEFINE below(m) == {r \in ChangedSlots(new) : r < m}
<1>0. n \in Nat /\ \A r \in ChangedSlots(new) : r \in Nat
  BY SlotsAssumption DEF Slots, ChangedSlots
<1>1. CASE new[n] # contacts[n]
  <2>1. n \in below(n + 1) /\ \A r \in below(n + 1) : r <= n
    BY <1>0, <1>1 DEF ChangedSlots
  <2>2. below(n + 1) \in SUBSET Slots /\ below(n + 1) # {}
    BY <2>1 DEF ChangedSlots
  <2>3. PICK S : S = below(n + 1)
    OBVIOUS
  <2>4. Max(S) \in S /\ \A y \in S : Max(S) >= y
    BY <2>2, <2>3, GreatestSlot
  <2>5. Max(S) = n
    BY <1>0, <2>1, <2>3, <2>4
  <2>. QED
    BY <1>1, <2>2, <2>3, <2>5 DEF Announced
<1>2. CASE new[n] = contacts[n]
  <2>1. below(n + 1) = below(n)
    BY <1>0, <1>2 DEF ChangedSlots
  <2>. QED
    BY <1>2, <2>1 DEF Announced
<1>. QED
  BY <1>1, <1>2

LEMMA ReadNextSlot ==
  ASSUME contacts \in [Slots -> Contact], NEW new \in [Slots -> Contact],
         NEW p \in Progress, NEW r, NEW n \in Slots, ReadUpTo(p, r, new, n)
  PROVE  ReadUpTo(p, Final(r, Part(new, n)), new, n + 1)
<1>0. n \in Nat /\ \A s \in Slots : s \in Nat
  BY SlotsAssumption DEF Slots
<1>1. PICK t : t = Final(r, Part(new, n))
  OBVIOUS
<1>2. /\ r \in Progress /\ r.machine.slot = Announced(new, n)
      /\ Mirrors(r.machine.slots[n], contacts[n])
  BY <1>0 DEF ReadUpTo
<1>3. /\ t \in Progress /\ t.views = r.views
      /\ t.machine.slot = IF new[n] # contacts[n] THEN n ELSE Announced(new, n)
      /\ \A o \in Slots : o # n => t.machine.slots[o] = r.machine.slots[o]
      /\ Mirrors(t.machine.slots[n], new[n])
  BY <1>1, <1>2, ReadSlot DEF Part
<1>4. t.machine.slot = Announced(new, n + 1)
  BY <1>3, AnnouncedNext
<1>5. ASSUME NEW s \in Slots
      PROVE  Mirrors(t.machine.slots[s], IF s < n + 1 THEN new[s] ELSE contacts[s])
  <2>1. CASE s = n
    BY <1>0, <1>3, <2>1
  <2>2. CASE s # n
    <3>1. (s < n + 1) <=> (s < n)
      BY <1>0, <2>2
    <3>2. Mirrors(r.machine.slots[s], IF s < n THEN new[s] ELSE contacts[s])
      BY DEF ReadUpTo
    <3>. QED
      BY <1>3, <2>2, <3>1, <3>2
  <2>. QED
    BY <2>1, <2>2
<1>. QED
  BY <1>1, <1>3, <1>4, <1>5 DEF ReadUpTo

\* Whoever agrees with the sensor before a frame does so after reading it.
LEMMA ReadFrame ==
  ASSUME contacts \in [Slots -> Contact], NEW new \in [Slots -> Contact],
         ChangedSlots(new) # {},
         NEW p \in Progress, Agrees(p.machine, kslot, contacts)
  PROVE  LET r == Final(p, FrameEvents(new))
         IN  /\ r \in Progress
             /\ Agrees(r.machine, Max(ChangedSlots(new)), new)
             /\ r.views = Append(p.views, SlotsView(r.machine.slots))
<1>0. kNumSlots \in Nat \ {0} /\ Slots = 0 .. kNumSlots - 1
  BY SlotsAssumption DEF Slots
<1>1. PICK f : /\ FrameEvents(new) = f[kNumSlots] \o <<Syn("SYN_REPORT")>>
               /\ f[1] = Part(new, 0)
               /\ \A i \in 1 .. kNumSlots - 1 : f[i + 1] = f[i] \o Part(new, i)
               /\ \A i \in 1 .. kNumSlots : f[i] \in Seq(Report)
  BY FrameIsJoined
<1>2. \A s \in Slots : Part(new, s) \in Seq(Report)
  BY SlotReports DEF Part
<1>3. ReadUpTo(p, p, new, 0)
  <2>1. Announced(new, 0) = kslot
    <3>1. {r \in ChangedSlots(new) : r < 0} = {}
      BY <1>0 DEF ChangedSlots
    <3>. QED
      BY <3>1 DEF Announced
  <2>2. \A s \in Slots : ~(s < 0)
    BY <1>0
  <2>. QED
    BY <2>1, <2>2 DEF ReadUpTo, Agrees
<1>. DEFINE T == {i \in 0 .. kNumSlots - 1 : ReadUpTo(p, Final(p, f[i + 1]), new, i + 1)}
<1>4. 0 \in T
  <2>1. ReadUpTo(p, Final(p, f[1]), new, 0 + 1)
    BY <1>0, <1>1, <1>3, ReadNextSlot
  <2>. QED
    BY <1>0, <2>1
<1>5. ASSUME NEW i \in 0 .. (kNumSlots - 1) - 1, i \in T
      PROVE  i + 1 \in T
  <2>1. i + 1 \in 1 .. kNumSlots - 1 /\ i + 1 \in 1 .. kNumSlots /\ i + 1 \in Slots
    BY <1>0
  <2>2. f[(i + 1) + 1] = f[i + 1] \o Part(new, i + 1)
    BY <1>1, <2>1
  <2>3. Final(p, f[(i + 1) + 1]) = Final(Final(p, f[i + 1]), Part(new, i + 1))
    <3>1. f[i + 1] \in Seq(Report) /\ Part(new, i + 1) \in Seq(Report)
      BY <1>1, <1>2, <2>1
    <3>. QED
      BY <2>2, <3>1, FinalOfConcat
  <2>4. ReadUpTo(p, Final(Final(p, f[i + 1]), Part(new, i + 1)), new, (i + 1) + 1)
    <3>1. ReadUpTo(p, Final(p, f[i + 1]), new, i + 1)
      BY <1>5
    <3>. QED
      BY <2>1, <3>1, ReadNextSlot
  <2>. QED
    BY <2>1, <2>3, <2>4
<1>6. kNumSlots - 1 \in T
  <2>1. kNumSlots - 1 \in Nat /\ kNumSlots - 1 \in 0 .. kNumSlots - 1
    BY <1>0
  <2>. HIDE DEF T
  <2>. QED
    BY <1>4, <1>5, <2>1, UpTo
<1>7. PICK t : t = Final(p, f[kNumSlots])
  OBVIOUS
<1>8. ReadUpTo(p, t, new, kNumSlots)
  <2>1. (kNumSlots - 1) + 1 = kNumSlots
    BY <1>0
  <2>. QED
    BY <1>6, <1>7, <2>1
<1>9. PICK syn : syn = Syn("SYN_REPORT")
  OBVIOUS
<1>10. syn \in Report /\ IsSyn(syn)
  BY <1>9 DEF Syn, Report, IsSyn
<1>11. Final(p, FrameEvents(new)) = Step(t, syn)
  <2>1. f[kNumSlots] \in Seq(Report)
    BY <1>0, <1>1
  <2>2. PICK one : one = <<syn>>
    OBVIOUS
  <2>3. one \in Seq(Report)
    BY <1>10, <2>2
  <2>4. Final(p, f[kNumSlots] \o one) = Final(t, one)
    BY <1>7, <2>1, <2>3, FinalOfConcat
  <2>5. Final(t, one) = Step(t, syn)
    BY <2>2, FinalOfOne
  <2>. QED
    BY <1>1, <1>9, <2>2, <2>4, <2>5
<1>12. PICK r : r = Step(t, syn)
  OBVIOUS
<1>13. /\ r \in Progress /\ r.machine = t.machine
       /\ r.views = Append(t.views, SlotsView(t.machine.slots))
  BY <1>8, <1>10, <1>12, StepFacts DEF ReadUpTo
<1>14. t.views = p.views
  BY <1>8 DEF ReadUpTo
<1>15. Agrees(t.machine, Max(ChangedSlots(new)), new)
  <2>1. {s \in ChangedSlots(new) : s < kNumSlots} = ChangedSlots(new)
    BY <1>0 DEF ChangedSlots
  <2>2. t.machine.slot = Max(ChangedSlots(new))
    BY <1>8, <2>1 DEF ReadUpTo, Announced
  <2>3. \A s \in Slots : s < kNumSlots
    BY <1>0
  <2>4. \A s \in Slots : Mirrors(t.machine.slots[s], new[s])
    BY <1>8, <2>3 DEF ReadUpTo
  <2>. QED
    BY <2>2, <2>4 DEF Agrees
<1>. QED
  BY <1>11, <1>12, <1>13, <1>14, <1>15

(***************************************************************************)
(* Part 3.  What the views of the machine, of the sensor and of the        *)
(* virtual touchpad have to do with one another.                           *)
(***************************************************************************)

\* The region does not begin at the edge of the sensor.  A contact that lands at
\* position 0 of an axis that nobody has moved yet is not news to the kernel, so
\* the machine never reads of it and has -1 instead.
AwayFromEdge == region.x1 > 0 /\ region.y1 > 0

LEMMA RegionTypes ==
  region.x1 \in Nat /\ region.x2 \in Nat /\ region.y1 \in Nat /\ region.y2 \in Nat
BY RegionAssumption

LEMMA PositionCodes ==
  /\ "ABS_MT_TRACKING_ID" \in Codes /\ "ABS_MT_POSITION_X" \in Codes
  /\ "ABS_MT_POSITION_Y" \in Codes
BY PositionAssumption DEF Codes

\* A machine that agrees with the sensor shows what the sensor shows.
LEMMA AgreeingSight ==
  ASSUME AwayFromEdge, NEW slot \in SlotValues, NEW c \in Contact, Mirrors(slot, c)
  PROVE  Seen(FindValueByEvent(slot, "ABS_MT_TRACKING_ID"),
              FindValueByEvent(slot, "ABS_MT_POSITION_X"),
              FindValueByEvent(slot, "ABS_MT_POSITION_Y"))
         = Seen(c["ABS_MT_TRACKING_ID"], c["ABS_MT_POSITION_X"], c["ABS_MT_POSITION_Y"])
<1>. DEFINE t == FindValueByEvent(slot, "ABS_MT_TRACKING_ID")
            x == FindValueByEvent(slot, "ABS_MT_POSITION_X")
            y == FindValueByEvent(slot, "ABS_MT_POSITION_Y")
<1>1. t = c["ABS_MT_TRACKING_ID"]
  BY PositionCodes DEF Mirrors, FindValueByEvent, Unset, kSlotMissingValue, NoTid, Tid
<1>2. x = c["ABS_MT_POSITION_X"] \/ (x = -1 /\ c["ABS_MT_POSITION_X"] = 0)
  BY PositionCodes DEF Mirrors, FindValueByEvent, Unset, kSlotMissingValue, Tid
<1>3. y = c["ABS_MT_POSITION_Y"] \/ (y = -1 /\ c["ABS_MT_POSITION_Y"] = 0)
  BY PositionCodes DEF Mirrors, FindValueByEvent, Unset, kSlotMissingValue, Tid
<1>. HIDE DEF t, x, y
<1>4. CASE x = c["ABS_MT_POSITION_X"] /\ y = c["ABS_MT_POSITION_Y"]
  BY <1>1, <1>4 DEF t, x, y
<1>5. CASE (x = -1 /\ c["ABS_MT_POSITION_X"] = 0) \/ (y = -1 /\ c["ABS_MT_POSITION_Y"] = 0)
  <2>1. ~PadContains(region, x, y)
    BY <1>5, RegionTypes DEF AwayFromEdge, PadContains
  <2>2. ~PadContains(region, c["ABS_MT_POSITION_X"], c["ABS_MT_POSITION_Y"])
    BY <1>5, RegionTypes DEF AwayFromEdge, PadContains
  <2>3. Seen(t, x, y) = [tid |-> NoTid]
    BY <2>1 DEF Seen
  <2>4. Seen(c["ABS_MT_TRACKING_ID"], c["ABS_MT_POSITION_X"], c["ABS_MT_POSITION_Y"])
          = [tid |-> NoTid]
    BY <2>2 DEF Seen
  <2>. QED
    BY <2>3, <2>4 DEF t, x, y
<1>. QED
  BY <1>2, <1>3, <1>4, <1>5

SightOf(c) == Seen(c["ABS_MT_TRACKING_ID"], c["ABS_MT_POSITION_X"], c["ABS_MT_POSITION_Y"])

LEMMA AgreeingViews ==
  ASSUME AwayFromEdge, NEW m \in Machines, NEW cs \in [Slots -> Contact], NEW k, Agrees(m, k, cs)
  PROVE  SlotsView(m.slots) = [s \in Slots |-> SightOf(cs[s])]
<1>1. m.slots \in [Slots -> SlotValues]
  BY DEF Machines
<1>2. \A s \in Slots : SlotsView(m.slots)[s] = SightOf(cs[s])
  <2>1. SUFFICES ASSUME NEW s \in Slots PROVE SlotsView(m.slots)[s] = SightOf(cs[s])
    OBVIOUS
  <2>2. SlotsView(m.slots)[s] =
          Seen(FindValueByEvent(m.slots[s], "ABS_MT_TRACKING_ID"),
               FindValueByEvent(m.slots[s], "ABS_MT_POSITION_X"),
               FindValueByEvent(m.slots[s], "ABS_MT_POSITION_Y"))
    BY <1>1, SlotsViewTypes
  <2>3. m.slots[s] \in SlotValues /\ cs[s] \in Contact /\ Mirrors(m.slots[s], cs[s])
    BY <1>1 DEF Agrees
  <2>. QED
    BY <2>2, <2>3, AgreeingSight DEF SightOf
<1>3. SlotsView(m.slots) \in [Slots -> Sights]
  BY <1>1, SlotsViewTypes DEF Views
<1>. QED
  BY <1>2, <1>3

LEMMA SensorViewIs == SensorView = [s \in Slots |-> SightOf(contacts[s])]
BY DEF SensorView, View, SightOf

\* What SyncTouchEvents writes for a contact in the region.
LEMMA SyncedContact ==
  ASSUME Shapes, NEW s \in Slots, InRegion(slots_[s])
  PROVE  LET at == PadPosition(hw, region,
                     FindValueByEvent(slots_[s], "ABS_MT_POSITION_X"),
                     FindValueByEvent(slots_[s], "ABS_MT_POSITION_Y"))
         IN  /\ Tid \in DOMAIN slots_[s] => Synced(s)[Tid] = slots_[s][Tid]
             /\ Synced(s)["ABS_MT_POSITION_X"] = at.x
             /\ Synced(s)["ABS_MT_POSITION_Y"] = at.y
<1>. DEFINE slot == slots_[s]
            sent == {c \in DOMAIN slot : c \in Supported}
            at == PadPosition(hw, region, FindValueByEvent(slot, "ABS_MT_POSITION_X"),
                                          FindValueByEvent(slot, "ABS_MT_POSITION_Y"))
<1>1. DOMAIN pad[s] = Codes
  BY DEF Shapes
<1>2. Synced(s) =
        [c \in Codes |->
           IF \E d \in sent : OutCode(d) = c
           THEN OutValue(slot, CHOOSE d \in sent : OutCode(d) = c)
           ELSE IF c = Tid /\ ~slot_memberships_[s]
           THEN FindValueByEvent(slot, Tid) ELSE pad[s][c]]
  BY <1>1 DEF Synced, Tid
<1>3. ASSUME NEW c \in Codes, \E d \in sent : OutCode(d) = c
      PROVE  \E d \in sent : OutCode(d) = c /\ Synced(s)[c] = OutValue(slot, d)
  <2>1. PICK d : d = CHOOSE e \in sent : OutCode(e) = c
    OBVIOUS
  <2>2. d \in sent /\ OutCode(d) = c
    BY <1>3, <2>1
  <2>3. Synced(s)[c] = OutValue(slot, d)
    BY <1>2, <1>3, <2>1
  <2>. QED
    BY <2>2, <2>3
<1>4. "ABS_MT_POSITION_X" \in sent /\ "ABS_MT_POSITION_Y" \in sent
  <2>1. PadContains(region, FindValueByEvent(slot, "ABS_MT_POSITION_X"),
                            FindValueByEvent(slot, "ABS_MT_POSITION_Y"))
    BY DEF InRegion
  <2>2. FindValueByEvent(slot, "ABS_MT_POSITION_X") # -1
        /\ FindValueByEvent(slot, "ABS_MT_POSITION_Y") # -1
    BY <2>1, RegionTypes DEF PadContains
  <2>. QED
    BY <2>2 DEF FindValueByEvent, kSlotMissingValue, Supported
<1>5. /\ \E d \in sent : OutCode(d) = "ABS_MT_POSITION_X"
      /\ \E d \in sent : OutCode(d) = "ABS_MT_POSITION_Y"
  <2>1. CASE hw.rotation \in {0, 180}
    BY <1>4, <2>1 DEF OutCode
  <2>2. CASE hw.rotation \notin {0, 180}
    BY <1>4, <2>2 DEF OutCode
  <2>. QED
    BY <2>1, <2>2
<1>. HIDE DEF sent
<1>6. Synced(s)["ABS_MT_POSITION_X"] = at.x
  <2>1. PICK d \in sent : /\ OutCode(d) = "ABS_MT_POSITION_X"
                          /\ Synced(s)["ABS_MT_POSITION_X"] = OutValue(slot, d)
    BY <1>3, <1>5, PositionCodes
  <2>. QED
    BY <2>1 DEF OutValue
<1>7. Synced(s)["ABS_MT_POSITION_Y"] = at.y
  <2>1. PICK d \in sent : /\ OutCode(d) = "ABS_MT_POSITION_Y"
                          /\ Synced(s)["ABS_MT_POSITION_Y"] = OutValue(slot, d)
    BY <1>3, <1>5, PositionCodes
  <2>. QED
    BY <2>1 DEF OutValue
<1>8. Tid \in DOMAIN slot => Synced(s)[Tid] = slot[Tid]
  <2>1. SUFFICES ASSUME Tid \in DOMAIN slot PROVE Synced(s)[Tid] = slot[Tid]
    OBVIOUS
  <2>2. Tid \in sent /\ OutCode(Tid) = Tid
    BY <2>1, TidKeepsItsCode DEF sent, Supported, Tid
  <2>3. PICK d \in sent : OutCode(d) = Tid /\ Synced(s)[Tid] = OutValue(slot, d)
    BY <1>3, <2>2, PositionCodes DEF Tid
  <2>4. d = Tid
    BY <2>3, TidKeepsItsCode
  <2>. QED
    BY <2>2, <2>3, <2>4 DEF OutValue, Tid
<1>. QED
  BY <1>6, <1>7, <1>8

\* After a SYN_REPORT the virtual touchpad shows what the machine shows.
LEMMA ShowsMachine ==
  ASSUME TypeInv, IndInv, ReadSyn
  PROVE  PadView' = SlotsView(slots_)
<1>. DEFINE seen(s) == Seen(FindValueByEvent(slots_[s], "ABS_MT_TRACKING_ID"),
                            FindValueByEvent(slots_[s], "ABS_MT_POSITION_X"),
                            FindValueByEvent(slots_[s], "ABS_MT_POSITION_Y"))
            shows(p) == IF p["ABS_MT_TRACKING_ID"] = NoTid THEN [tid |-> NoTid]
                        ELSE [tid |-> p["ABS_MT_TRACKING_ID"],
                              at  |-> [x |-> p["ABS_MT_POSITION_X"], y |-> p["ABS_MT_POSITION_Y"]]]
<1>1. SlotsView(slots_) = [s \in Slots |-> seen(s)]
  BY DEF SlotsView, View
<1>2. PadView' = [s \in Slots |-> shows(pad'[s])]
  BY DEF PadView
<1>3. ASSUME NEW s \in Slots
      PROVE  shows(Synced(s)) = seen(s)
  <2>. DEFINE slot == slots_[s]
  <2>1. /\ Synced(s)[Tid] # NoTid <=> s \in Touches
    BY ShownAreCounted DEF IndInv
  <2>2. s \in Touches <=> InRegion(slot) /\ Tid \in DOMAIN slot /\ slot[Tid] # NoTid
    BY DEF Touches, Tid
  <2>3. InRegion(slot) <=> PadContains(region, FindValueByEvent(slot, "ABS_MT_POSITION_X"),
                                               FindValueByEvent(slot, "ABS_MT_POSITION_Y"))
    BY DEF InRegion
  <2>4. CASE s \notin Touches
    <3>1. ~(FindValueByEvent(slot, Tid) # NoTid /\ InRegion(slot))
      BY <2>2, <2>4 DEF FindValueByEvent, kSlotMissingValue, NoTid
    <3>2. seen(s) = [tid |-> NoTid]
      BY <2>3, <3>1 DEF Seen, Tid
    <3>. QED
      BY <2>1, <2>4, <3>2 DEF Tid
  <2>5. CASE s \in Touches
    <3>1. PICK at : at = PadPosition(hw, region, FindValueByEvent(slot, "ABS_MT_POSITION_X"),
                                                 FindValueByEvent(slot, "ABS_MT_POSITION_Y"))
      OBVIOUS
    <3>2. /\ Synced(s)[Tid] = slot[Tid]
          /\ Synced(s)["ABS_MT_POSITION_X"] = at.x /\ Synced(s)["ABS_MT_POSITION_Y"] = at.y
      BY <2>2, <2>5, <3>1, SyncedContact DEF IndInv
    <3>3. FindValueByEvent(slot, Tid) = slot[Tid]
      BY <2>2, <2>5 DEF FindValueByEvent
    <3>4. seen(s) = [tid |-> slot[Tid], at |-> at]
      BY <2>2, <2>3, <2>5, <3>1, <3>3 DEF Seen, Tid
    <3>5. at = [x |-> at.x, y |-> at.y]
      BY <3>1, RegionAssumption DEF PadPosition
    <3>6. shows(Synced(s)) = [tid |-> slot[Tid], at |-> [x |-> at.x, y |-> at.y]]
      BY <2>2, <2>5, <3>2 DEF Tid
    <3>. QED
      BY <3>4, <3>5, <3>6
  <2>. QED
    BY <2>4, <2>5
<1>4. pad' = [s \in Slots |-> Synced(s)]
  BY DEF ReadSyn
<1>. HIDE DEF seen, shows
<1>. QED
  BY <1>1, <1>2, <1>3, <1>4

(***************************************************************************)
(* Part 4.  The invariant: whoever reads the unread events to their end    *)
(* agrees with the sensor, and the last view on the way is the sensor's.   *)
(***************************************************************************)

\* No event was lost: the buffer did not overflow.
NothingDropped == \A i \in DOMAIN events : events[i] # Syn("SYN_DROPPED")

Ahead == Agrees(Final(Now, events).machine, kslot, contacts)

Newest == IF Unread = <<>> THEN PadView ELSE Unread[Len(Unread)]

UpToDate == running => Newest = SensorView

OneSlotPerContact ==
  \A s, r \in Slots : s # r /\ Touching(s) =>
    contacts[s]["ABS_MT_TRACKING_ID"] # contacts[r]["ABS_MT_TRACKING_ID"]

AheadInv == TypeInv /\ IndInv /\ OneSlotPerContact /\ Ahead

MirrorInv == AheadInv /\ UpToDate

LEMMA NowTypes ==
  ASSUME TypeInv
  PROVE  /\ Now \in Progress /\ Now.views = <<>>
         /\ Now.machine = [slot |-> slot_, slots |-> slots_]
         /\ Final(Now, events) \in Progress /\ Unread \in Seq(Views)
<1>1. [slot |-> slot_, slots |-> slots_] \in Machines
  BY DEF TypeInv, Machines
<1>2. Now \in Progress
  BY <1>1 DEF Now, Progress
<1>3. events \in Seq(Report)
  BY DEF TypeInv
<1>4. Final(Now, events) \in Progress
  BY <1>2, <1>3, RunTypes
<1>5. Unread \in Seq(Views)
  BY <1>4, UnreadIsFinal DEF Progress
<1>. QED
  BY <1>2, <1>4, <1>5 DEF Now

LEMMA UnreadNext == Unread' = Final(Now', events').views
BY DEF Unread, Final, Run, Step, Now

\* The same machine with the same events has the same views before it.
LEMMA SameUnread ==
  ASSUME slot_' = slot_, slots_' = slots_, events' = events
  PROVE  Now' = Now /\ Unread' = Unread
<1>1. Now' = Now
  BY DEF Now
<1>. QED
  BY <1>1, UnreadNext, UnreadIsFinal

\* Reading the head of the buffer and then its tail is reading the buffer.
LEMMA HeadFirst ==
  ASSUME TypeInv, events # <<>>, NEW p
  PROVE  Final(p, events) = Final(Step(p, Head(events)), Tail(events))
<1>1. PICK one : one = <<Head(events)>>
  OBVIOUS
<1>2. events \in Seq(Report) /\ Head(events) \in Report /\ Tail(events) \in Seq(Report)
  BY HeadTailProperties DEF TypeInv
<1>3. one \in Seq(Report)
  BY <1>1, <1>2
<1>4. events = one \o Tail(events)
  BY <1>1, <1>2
<1>5. Final(p, one \o Tail(events)) = Final(Final(p, one), Tail(events))
  BY <1>2, <1>3, FinalOfConcat
<1>. QED
  BY <1>1, <1>4, <1>5, FinalOfOne

LEMMA UnreadAfterEvent ==
  ASSUME TypeInv, ReadEvent
  PROVE  Final(Now', events') = Final(Now, events) /\ Unread' = Unread
<1>1. /\ events # <<>> /\ ~IsSyn(Head(events)) /\ AddEvent(Head(events))
      /\ events' = Tail(events)
  BY DEF ReadEvent
<1>2. /\ Head(events) \in Report
      /\ [slot |-> slot_', slots |-> slots_'] = After([slot |-> slot_, slots |-> slots_], Head(events))
  BY <1>1, ReadFacts
<1>3. Step(Now, Head(events)) = Now'
  BY <1>1, <1>2 DEF Step, Now
<1>4. Final(Now', events') = Final(Now, events)
  BY <1>1, <1>3, HeadFirst
<1>. QED
  BY <1>4, UnreadNext, UnreadIsFinal

LEMMA UnreadAfterSyn ==
  ASSUME TypeInv, ReadSyn
  PROVE  /\ Final(Now', events').machine = Final(Now, events).machine
         /\ Unread = <<SlotsView(slots_)>> \o Unread'
         /\ Unread' \in Seq(Views) /\ SlotsView(slots_) \in Views
<1>1. /\ events # <<>> /\ IsSyn(Head(events)) /\ AddEvent(Head(events))
      /\ events' = Tail(events)
  BY DEF ReadSyn
<1>2. /\ Head(events) \in Report /\ events' \in Seq(Report)
      /\ [slot |-> slot_', slots |-> slots_'] = After([slot |-> slot_, slots |-> slots_], Head(events))
      /\ [slot |-> slot_, slots |-> slots_] \in Machines
  BY <1>1, ReadFacts
<1>3. [slot |-> slot_', slots |-> slots_'] = [slot |-> slot_, slots |-> slots_]
  BY <1>1, <1>2, Machining DEF IsSyn
<1>4. Now' = Now
  BY <1>3 DEF Now
<1>5. PICK v : v = SlotsView(slots_)
  OBVIOUS
<1>6. v \in Views
  BY <1>5, SlotsViewTypes DEF TypeInv
<1>7. PICK p : p = Step(Now, Head(events))
  OBVIOUS
<1>8. PICK vs : vs = <<v>>
  OBVIOUS
<1>9. Now \in Progress /\ Now.views = <<>> /\ vs \in Seq(Views)
  BY <1>6, <1>8, NowTypes
<1>10. p \in Progress /\ p.machine = Now.machine /\ p.views = vs \o Now.views
  <2>1. p \in Progress /\ p.machine = Now.machine /\ p.views = Append(Now.views, SlotsView(Now.machine.slots))
    BY <1>1, <1>2, <1>7, <1>9, StepFacts
  <2>2. Now.machine.slots = slots_
    BY DEF Now
  <2>3. Append(<<>>, v) = vs /\ vs \o <<>> = vs
    BY <1>8, <1>9
  <2>. QED
    BY <1>5, <1>9, <2>1, <2>2, <2>3
<1>11. /\ Final(p, events').machine = Final(Now, events').machine
       /\ Final(p, events').views = vs \o Final(Now, events').views
  BY <1>2, <1>9, <1>10, ViewsAreKept
<1>12. Final(Now, events) = Final(p, events')
  BY <1>1, <1>7, HeadFirst
<1>13. Unread' = Final(Now, events').views
  BY <1>4, UnreadNext
<1>14. Final(Now, events') \in Progress
  BY <1>2, <1>9, RunTypes
<1>15. Unread' \in Seq(Views)
  BY <1>13, <1>14 DEF Progress
<1>. QED
  BY <1>4, <1>5, <1>6, <1>8, <1>11, <1>12, <1>13, <1>15, UnreadIsFinal

LEMMA UnreadAfterFrame ==
  ASSUME TypeInv, Ahead, Frame, NothingDropped'
  PROVE  /\ Ahead' /\ OneSlotPerContact'
         /\ AwayFromEdge => SensorView' \in Views /\ Unread' = Append(Unread, SensorView')
<1>1. PICK new \in [Slots -> Contact] :
        /\ contacts' = new
        /\ \A s, r \in Slots :
             s # r /\ new[s]["ABS_MT_TRACKING_ID"] # NoTid =>
               new[s]["ABS_MT_TRACKING_ID"] # new[r]["ABS_MT_TRACKING_ID"]
        /\ ChangedSlots(new) # {} /\ kslot' = Max(ChangedSlots(new))
        /\ events' = Buffered(FrameEvents(new))
        /\ slot_' = slot_ /\ slots_' = slots_
  BY FrameFacts
<1>2. PICK evs : evs = FrameEvents(new)
  OBVIOUS
<1>3. evs \in Seq(Report) /\ events \in Seq(Report)
  BY <1>2, FrameReports DEF TypeInv
<1>4. events' = events \o evs
  <2>1. CASE Len(evs) <= BufferSize - 1 - Len(events)
    BY <1>1, <1>2, <2>1 DEF Buffered
  <2>2. CASE ~(Len(evs) <= BufferSize - 1 - Len(events))
    <3>1. PICK rest : rest = SubSeq(evs, BufferSize - 1 - Len(events) + 1, Len(evs))
      OBVIOUS
    <3>2. PICK lost : lost = Syn("SYN_DROPPED")
      OBVIOUS
    <3>3. events' = <<lost>> \o rest
      BY <1>1, <1>2, <2>2, <3>1, <3>2 DEF Buffered
    <3>4. events' \in Seq(Report)
      <4>1. Len(events) <= MaxBacklog
        BY DEF Frame
      <4>. QED
        BY <1>1, <1>2, <1>3, <4>1, BufferedTypes
    <3>5. rest \in Seq(Report)
      <4>1. Len(events) <= MaxBacklog
        BY DEF Frame
      <4>2. BufferSize - 1 - Len(events) \in Nat /\ Len(evs) \in Nat
        BY <1>3, <4>1, BufferAssumption
      <4>3. \A i \in BufferSize - 1 - Len(events) + 1 .. Len(evs) : i \in 1 .. Len(evs)
        BY <4>2
      <4>4. \A i \in BufferSize - 1 - Len(events) + 1 .. Len(evs) : evs[i] \in Report
        BY <1>3, <4>3, ElementOfSeq
      <4>. QED
        BY <3>1, <4>2, <4>4, SubSeqProperties
    <3>6. 1 \in DOMAIN events' /\ events'[1] = lost
      BY <3>3, <3>5
    <3>. QED
      BY <3>2, <3>6 DEF NothingDropped, Syn
  <2>. QED
    BY <2>1, <2>2
<1>5. PICK p : p = Final(Now, events)
  OBVIOUS
<1>6. p \in Progress /\ Agrees(p.machine, kslot, contacts) /\ Unread = p.views
  BY <1>5, NowTypes, UnreadIsFinal DEF Ahead
<1>7. PICK r : r = Final(p, evs)
  OBVIOUS
<1>8. /\ r \in Progress /\ Agrees(r.machine, Max(ChangedSlots(new)), new)
      /\ r.views = Append(p.views, SlotsView(r.machine.slots))
  <2>1. contacts \in [Slots -> Contact]
    BY DEF TypeInv
  <2>. QED
    BY <1>1, <1>2, <1>6, <1>7, <2>1, ReadFrame
<1>9. Now' = Now
  BY <1>1 DEF Now
<1>10. Final(Now', events') = r
  BY <1>3, <1>4, <1>5, <1>7, <1>9, FinalOfConcat
<1>11. Ahead'
  <2>1. Ahead' <=> Agrees(Final(Now', events').machine, kslot', contacts')
    BY DEF Ahead, Final, Run, Step, Agrees, Mirrors
  <2>. QED
    BY <1>1, <1>8, <1>10, <2>1
<1>12. ASSUME AwayFromEdge
       PROVE  SensorView' \in Views /\ Unread' = Append(Unread, SensorView')
  <2>1. SensorView' = [s \in Slots |-> SightOf(new[s])]
    BY <1>1 DEF SensorView, View, SightOf
  <2>2. r.machine \in Machines
    BY <1>8 DEF Progress
  <2>3. SlotsView(r.machine.slots) = SensorView'
    BY <1>8, <1>12, <2>1, <2>2, AgreeingViews
  <2>4. r.machine.slots \in [Slots -> SlotValues]
    BY <2>2 DEF Machines
  <2>5. SensorView' \in Views
    BY <2>3, <2>4, SlotsViewTypes
  <2>. QED
    BY <1>6, <1>8, <1>10, <2>3, <2>5, UnreadNext
<1>15. OneSlotPerContact'
  BY <1>1 DEF OneSlotPerContact, Touching
<1>. QED
  BY <1>11, <1>12, <1>15

(***************************************************************************)
(* Part 5.  Every step keeps the invariant and is a step of Mirror.        *)
(***************************************************************************)

LEMMA NothingShown == TypeInv /\ (\A s \in Slots : ~Shown(s)) =>
  PadView = [s \in Slots |-> [tid |-> NoTid]]
BY DEF PadView, Shown, Tid

LEMMA MirrorInit == Init => MirrorInv /\ Abstract!Init
<1>. SUFFICES ASSUME Init PROVE MirrorInv /\ Abstract!Init
  OBVIOUS
<1>1. TypeInv /\ IndInv
  BY TypeInit, UntouchedTypes, Initially DEF Init
<1>2. \A s \in Slots : contacts[s] = [c \in Codes |-> IF c = "ABS_MT_TRACKING_ID" THEN NoTid ELSE 0]
  BY DEF Init, Untouched
<1>3. \A s \in Slots : contacts[s]["ABS_MT_TRACKING_ID"] = NoTid
  BY <1>2, PositionCodes
<1>4. events = <<>> /\ slot_ = 0 /\ slots_ = [s \in Slots |-> <<>>] /\ kslot = 0 /\ running = TRUE
  BY DEF Init, Untouched, Start, MachineInit
<1>5. Final(Now, events) = Now
  BY <1>4, FinalOfNone
<1>6. Unread = <<>>
  BY <1>5, UnreadIsFinal DEF Now
<1>7. Ahead
  <2>1. \A s \in Slots : DOMAIN slots_[s] = {}
    BY <1>4
  <2>2. \A s \in Slots : Mirrors(slots_[s], contacts[s])
    BY <1>2, <2>1 DEF Mirrors, Unset, Tid
  <2>3. Now.machine = [slot |-> slot_, slots |-> slots_]
    BY DEF Now
  <2>. QED
    BY <1>4, <1>5, <2>2, <2>3 DEF Ahead, Agrees
<1>8. SensorView = [s \in Slots |-> [tid |-> NoTid]]
  BY <1>3, SensorViewIs DEF SightOf, Seen
<1>9. PadView = [s \in Slots |-> [tid |-> NoTid]]
  <2>1. pad = [s \in Slots |-> [c \in Codes |-> IF c = "ABS_MT_TRACKING_ID" THEN NoTid ELSE 0]]
    BY DEF Init, Start
  <2>2. \A s \in Slots : ~Shown(s)
    BY <2>1, PositionCodes DEF Shown, Tid
  <2>. QED
    BY <1>1, <2>2, NothingShown
<1>10. OneSlotPerContact
  BY <1>3 DEF OneSlotPerContact, Touching
<1>11. UpToDate
  BY <1>6, <1>8, <1>9 DEF UpToDate, Newest
<1>12. Abstract!Init
  BY <1>4, <1>6, <1>8, <1>9 DEF Abstract!Init
<1>. QED
  BY <1>1, <1>7, <1>10, <1>11, <1>12 DEF MirrorInv, AheadInv

MirrorStep == Abstract!Next \/ UNCHANGED Abstract!vars

LEMMA FrameMirrors ==
  ASSUME AwayFromEdge, MirrorInv, running, SensorFrame, NothingDropped'
  PROVE  UpToDate' /\ MirrorStep
<1>1. TypeInv /\ Ahead /\ Frame /\ running' = running /\ pad' = pad
  BY DEF MirrorInv, AheadInv, SensorFrame
<1>2. /\ SensorView' \in Views
      /\ Unread' = Append(Unread, SensorView')
  BY <1>1, UnreadAfterFrame
<1>3. Unread \in Seq(Views)
  BY <1>1, NowTypes
<1>4. UpToDate'
  <2>1. PICK v \in Views : v = SensorView'
    BY <1>2
  <2>2. PICK q \in Seq(Views) : q = Unread
    BY <1>3
  <2>3. Append(q, v) # <<>> /\ Append(q, v)[Len(Append(q, v))] = v
    OBVIOUS
  <2>4. Unread' = Append(q, v)
    BY <1>2, <2>1, <2>2
  <2>. QED
    BY <2>1, <2>3, <2>4 DEF UpToDate, Newest
<1>5. PadView' = PadView
  BY <1>1 DEF PadView
<1>6. Abstract!Touch
  BY <1>1, <1>2, <1>5 DEF Abstract!Touch
<1>. QED
  BY <1>1, <1>4, <1>6 DEF MirrorStep, Abstract!Next

LEMMA SameSensorView == ASSUME UNCHANGED sensor PROVE SensorView' = SensorView
BY DEF sensor, SensorView, View

LEMMA SamePadView == ASSUME UNCHANGED pad PROVE PadView' = PadView
BY DEF PadView

LEMMA AheadNext == Ahead' <=> Agrees(Final(Now', events').machine, kslot', contacts')
BY DEF Ahead, Final, Run, Step, Agrees, Mirrors

LEMMA SameContacts ==
  ASSUME AheadInv, UNCHANGED sensor
  PROVE  /\ OneSlotPerContact'
         /\ Final(Now', events').machine = Final(Now, events).machine => Ahead'
<1>1. contacts' = contacts /\ kslot' = kslot
  BY DEF sensor
<1>2. OneSlotPerContact'
  BY <1>1 DEF AheadInv, OneSlotPerContact, Touching
<1>. QED
  BY <1>1, <1>2, AheadNext DEF AheadInv, Ahead

\* The machine stays ahead of the sensor wherever the region is.
LEMMA EveryStepAgrees ==
  AheadInv /\ [Next]_vars /\ NothingDropped' => AheadInv'
<1>. SUFFICES ASSUME AheadInv, [Next]_vars, NothingDropped' PROVE AheadInv'
  OBVIOUS
<1>1. TypeInv' /\ IndInv'
  BY TypeStep, NextPreserves DEF AheadInv
<1>2. CASE SensorFrame
  BY <1>1, <1>2, UnreadAfterFrame DEF AheadInv, SensorFrame
<1>3. CASE ReadEvent
  <2>1. UNCHANGED sensor /\ Final(Now', events') = Final(Now, events)
    BY <1>3, UnreadAfterEvent DEF AheadInv, ReadEvent
  <2>. QED
    BY <1>1, <2>1, SameContacts DEF AheadInv
<1>4. CASE ReadSyn
  <2>1. UNCHANGED sensor /\ Final(Now', events').machine = Final(Now, events).machine
    BY <1>4, UnreadAfterSyn DEF AheadInv, ReadSyn
  <2>. QED
    BY <1>1, <2>1, SameContacts DEF AheadInv
<1>5. CASE ReadFails \/ UNCHANGED vars
  <2>1. /\ UNCHANGED sensor /\ slot_' = slot_ /\ slots_' = slots_ /\ events' = events
    BY <1>5 DEF ReadFails, vars, sensor, machine
  <2>2. Now' = Now
    BY <2>1, SameUnread
  <2>. QED
    BY <1>1, <2>1, <2>2, SameContacts DEF AheadInv
<1>. QED
  BY <1>2, <1>3, <1>4, <1>5 DEF Next, Consume, Gone

LEMMA EventMirrors ==
  ASSUME MirrorInv, ReadEvent
  PROVE  UpToDate' /\ MirrorStep
<1>1. TypeInv /\ running' = running /\ pad' = pad /\ UNCHANGED sensor
  BY DEF MirrorInv, AheadInv, ReadEvent
<1>2. Final(Now', events') = Final(Now, events) /\ Unread' = Unread
  BY <1>1, UnreadAfterEvent
<1>3. SensorView' = SensorView /\ PadView' = PadView
  BY <1>1, SameSensorView, SamePadView
<1>4. UpToDate'
  BY <1>1, <1>2, <1>3 DEF MirrorInv, AheadInv, UpToDate, Newest
<1>5. UNCHANGED Abstract!vars
  BY <1>1, <1>2, <1>3 DEF Abstract!vars
<1>. QED
  BY <1>4, <1>5 DEF MirrorStep

LEMMA SynMirrors ==
  ASSUME MirrorInv, ReadSyn
  PROVE  UpToDate' /\ MirrorStep
<1>1. TypeInv /\ IndInv /\ running /\ running' = running /\ UNCHANGED sensor
  BY DEF MirrorInv, AheadInv, ReadSyn
<1>2. /\ Final(Now', events').machine = Final(Now, events).machine
      /\ Unread = <<SlotsView(slots_)>> \o Unread'
      /\ Unread' \in Seq(Views) /\ SlotsView(slots_) \in Views
  BY <1>1, UnreadAfterSyn
<1>3. PadView' = SlotsView(slots_)
  BY <1>1, ShowsMachine
<1>4. SensorView' = SensorView
  BY <1>1, SameSensorView
<1>5. PICK v \in Views : v = SlotsView(slots_)
  BY <1>2
<1>6. PICK q \in Seq(Views) : q = Unread'
  BY <1>2
<1>7. Unread = <<v>> \o q
  BY <1>2, <1>5, <1>6
<1>8. /\ <<v>> \o q # <<>> /\ Head(<<v>> \o q) = v /\ Tail(<<v>> \o q) = q
      /\ Len(<<v>> \o q) = Len(q) + 1
      /\ (<<v>> \o q)[Len(q) + 1] = IF q = <<>> THEN v ELSE q[Len(q)]
  <2>1. \A i \in 1 .. 1 + Len(q) : (<<v>> \o q)[i] = IF i <= 1 THEN v ELSE q[i - 1]
    OBVIOUS
  <2>2. Len(q) \in Nat /\ (q = <<>> <=> Len(q) = 0)
    OBVIOUS
  <2>. QED
    BY <2>1, <2>2
<1>9. UpToDate'
  <2>1. (<<v>> \o q)[Len(<<v>> \o q)] = SensorView
    BY <1>1, <1>7, <1>8 DEF MirrorInv, AheadInv, UpToDate, Newest
  <2>2. (IF q = <<>> THEN v ELSE q[Len(q)]) = SensorView
    BY <1>8, <2>1
  <2>. QED
    BY <1>3, <1>4, <1>5, <1>6, <2>2 DEF UpToDate, Newest
<1>10. Abstract!Show
  BY <1>1, <1>3, <1>4, <1>5, <1>6, <1>7, <1>8 DEF Abstract!Show
<1>. QED
  BY <1>1, <1>9, <1>10 DEF MirrorStep, Abstract!Next

LEMMA ReadFailsMirrors ==
  ASSUME MirrorInv, ReadFails
  PROVE  UpToDate' /\ MirrorStep
<1>1. /\ TypeInv /\ running /\ running' = FALSE /\ UNCHANGED sensor
      /\ slot_' = slot_ /\ slots_' = slots_ /\ events' = events
  BY DEF MirrorInv, AheadInv, ReadFails, machine
<1>3. PadView' = [s \in Slots |-> [tid |-> NoTid]]
  <2>1. \A s \in Slots : pad'[s]["ABS_MT_TRACKING_ID"] = NoTid
    BY PositionCodes DEF ReadFails, MirrorInv, AheadInv, TypeInv, Shapes
  <2>. QED
    BY <2>1 DEF PadView
<1>4. SensorView' = SensorView
  BY <1>1, SameSensorView
<1>5. UpToDate'
  BY <1>1 DEF UpToDate
<1>6. Abstract!Close
  BY <1>1, <1>3, <1>4 DEF Abstract!Close
<1>. QED
  BY <1>1, <1>5, <1>6 DEF MirrorStep, Abstract!Next

LEMMA StutterMirrors ==
  ASSUME MirrorInv, UNCHANGED vars
  PROVE  UpToDate' /\ MirrorStep
<1>1. /\ running' = running /\ UNCHANGED sensor /\ UNCHANGED pad
      /\ slot_' = slot_ /\ slots_' = slots_ /\ events' = events
  BY DEF vars, sensor
<1>2. Now' = Now /\ Unread' = Unread
  BY <1>1, SameUnread
<1>3. SensorView' = SensorView /\ PadView' = PadView
  BY <1>1, SameSensorView, SamePadView
<1>4. UpToDate'
  BY <1>1, <1>2, <1>3 DEF MirrorInv, AheadInv, UpToDate, Newest
<1>5. UNCHANGED Abstract!vars
  BY <1>1, <1>2, <1>3 DEF Abstract!vars
<1>. QED
  BY <1>4, <1>5 DEF MirrorStep

LEMMA EveryStepMirrors ==
  ASSUME AwayFromEdge
  PROVE  MirrorInv /\ [Next]_vars /\ NothingDropped' => MirrorInv' /\ [Abstract!Next]_(Abstract!vars)
<1>. SUFFICES ASSUME MirrorInv, [Next]_vars, NothingDropped'
              PROVE  MirrorInv' /\ MirrorStep
  BY DEF MirrorStep
<1>1. AheadInv'
  BY EveryStepAgrees DEF MirrorInv
<1>2. CASE running /\ SensorFrame
  BY <1>1, <1>2, FrameMirrors DEF MirrorInv
<1>3. CASE ReadEvent
  BY <1>1, <1>3, EventMirrors DEF MirrorInv
<1>4. CASE ReadSyn
  BY <1>1, <1>4, SynMirrors DEF MirrorInv
<1>5. CASE ReadFails
  BY <1>1, <1>5, ReadFailsMirrors DEF MirrorInv
<1>6. CASE UNCHANGED vars
  BY <1>1, <1>6, StutterMirrors DEF MirrorInv
<1>. QED
  BY <1>2, <1>3, <1>4, <1>5, <1>6 DEF Next, Consume, Gone

(***************************************************************************)
(* Part 6.  The theorems.                                                  *)
(***************************************************************************)

LEMMA AgreesBetweenFrames ==
  ASSUME AheadInv, events = <<>>, NEW s \in Slots
  PROVE  Mirrors(slots_[s], contacts[s])
<1>1. Final(Now, events) = Now
  BY FinalOfNone
<1>2. Now.machine.slots = slots_
  BY DEF Now
<1>. QED
  BY <1>1, <1>2 DEF AheadInv, Ahead, Agrees

LEMMA SnapshotOfContact ==
  ASSUME AheadInv, events = <<>>
  PROVE  SnapshotIsSensor
<1>. DEFINE tid(s) == FindValueByEvent(slots_[s], "ABS_MT_TRACKING_ID")
            live == {s \in Slots : tid(s) # kSlotMissingValue}
            holder(t) == Max({r \in live : tid(r) = t})
<1>1. \A s \in Slots : tid(s) = contacts[s]["ABS_MT_TRACKING_ID"]
  BY AgreesBetweenFrames, PositionCodes
     DEF Mirrors, FindValueByEvent, Unset, kSlotMissingValue, NoTid, Tid
<1>2. \A s \in Slots : s \in live <=> Touching(s)
  BY <1>1 DEF Touching, NoTid, kSlotMissingValue
<1>3. Snapshot = [t \in {tid(s) : s \in live} |->
                    [a \in Axes |-> FindValueByEvent(slots_[holder(t)], a)]]
  BY DEF Snapshot
<1>4. ASSUME NEW s \in Slots, Touching(s)
      PROVE  holder(contacts[s]["ABS_MT_TRACKING_ID"]) = s
  <2>1. {r \in live : tid(r) = contacts[s]["ABS_MT_TRACKING_ID"]} = {s}
    BY <1>1, <1>2, <1>4 DEF AheadInv, OneSlotPerContact
  <2>2. Max({s}) = s
    BY GreatestSlot
  <2>. QED
    BY <2>1, <2>2
<1>. HIDE DEF tid, live, holder
<1>5. {tid(s) : s \in live} = {contacts[s]["ABS_MT_TRACKING_ID"] : s \in {r \in Slots : Touching(r)}}
  <2>1. live = {r \in Slots : Touching(r)}
    BY <1>2 DEF live
  <2>2. \A s \in live : tid(s) = contacts[s]["ABS_MT_TRACKING_ID"]
    BY <1>1, <2>1
  <2>. QED
    BY <2>1, <2>2
<1>6. ASSUME NEW s \in Slots, Touching(s), NEW a \in Axes
      PROVE  LET v == Snapshot[contacts[s]["ABS_MT_TRACKING_ID"]][a]
             IN  v = contacts[s][a] \/ (v = kSlotMissingValue /\ contacts[s][a] = 0)
  <2>1. contacts[s]["ABS_MT_TRACKING_ID"] \in {tid(r) : r \in live}
    BY <1>5, <1>6
  <2>2. Snapshot[contacts[s]["ABS_MT_TRACKING_ID"]] =
          [b \in Axes |-> FindValueByEvent(slots_[s], b)]
    BY <1>3, <1>4, <1>6, <2>1
  <2>3. Snapshot[contacts[s]["ABS_MT_TRACKING_ID"]][a] = FindValueByEvent(slots_[s], a)
    BY <2>2
  <2>4. a \in Codes /\ a # "ABS_MT_TRACKING_ID"
    BY AxesAssumption DEF Codes
  <2>5. Mirrors(slots_[s], contacts[s])
    BY AgreesBetweenFrames
  <2>. QED
    BY <2>3, <2>4, <2>5 DEF Mirrors, FindValueByEvent, Unset, Tid
<1>7. DOMAIN Snapshot = {tid(s) : s \in live}
  BY <1>3
<1>. QED
  BY <1>5, <1>6, <1>7, Zenon DEF SnapshotIsSensor

\* Between frames the state machine holds the sensor's contacts, whatever the
\* kernel left out of the frames because it had not changed (slot numbers and
\* values alike), for every number of slots and axes and however many frames
\* pile up - as long as none of their events is lost, which is where the code
\* ("mimicking the kernel's state machine") and the kernel part.
THEOREM MachineFollowsSensor == Spec /\ []NothingDropped => []SnapshotIsSensor
<1>1. Init => AheadInv
  BY MirrorInit DEF MirrorInv
<1>2. AheadInv /\ [Next]_vars /\ NothingDropped' => AheadInv'
  BY EveryStepAgrees
<1>3. AheadInv => SnapshotIsSensor
  BY SnapshotOfContact DEF SnapshotIsSensor
<1>. QED
  BY <1>1, <1>2, <1>3, PTL DEF Spec

LEMMA ShowsContacts ==
  ASSUME MirrorInv
  PROVE  PadShowsContacts
<1>. SUFFICES ASSUME running, events = <<>>, NEW s \in Slots
              PROVE  /\ pad[s]["ABS_MT_TRACKING_ID"] =
                          IF OnPad(s) THEN contacts[s]["ABS_MT_TRACKING_ID"] ELSE NoTid
                     /\ OnPad(s) =>
                          LET at == PadPosition(hw, region, contacts[s]["ABS_MT_POSITION_X"],
                                                            contacts[s]["ABS_MT_POSITION_Y"])
                          IN  /\ pad[s]["ABS_MT_POSITION_X"] = at.x
                              /\ pad[s]["ABS_MT_POSITION_Y"] = at.y
  BY Zenon DEF PadShowsContacts
<1>1. Unread = <<>>
  <2>1. Final(Now, events) = Now
    BY FinalOfNone
  <2>. QED
    BY <2>1, UnreadIsFinal DEF Now
<1>2. PadView = SensorView
  BY <1>1 DEF MirrorInv, UpToDate, Newest
<1>3. PadView[s] = SightOf(contacts[s])
  BY <1>2, SensorViewIs
<1>4. PadView[s] =
        IF pad[s]["ABS_MT_TRACKING_ID"] = NoTid THEN [tid |-> NoTid]
        ELSE [tid |-> pad[s]["ABS_MT_TRACKING_ID"],
              at  |-> [x |-> pad[s]["ABS_MT_POSITION_X"], y |-> pad[s]["ABS_MT_POSITION_Y"]]]
  BY DEF PadView
<1>5. CASE ~OnPad(s)
  <2>1. PadView[s] = [tid |-> NoTid]
    BY <1>3, <1>5 DEF OnPad, Touching, SightOf, Seen
  <2>2. PadView[s].tid = NoTid
    BY <2>1
  <2>3. pad[s]["ABS_MT_TRACKING_ID"] = NoTid
    BY <1>4, <2>2
  <2>. QED
    BY <1>5, <2>3
<1>6. CASE OnPad(s)
  <2>1. PICK at : at = PadPosition(hw, region, contacts[s]["ABS_MT_POSITION_X"],
                                               contacts[s]["ABS_MT_POSITION_Y"])
    OBVIOUS
  <2>2. /\ PadView[s] = [tid |-> contacts[s]["ABS_MT_TRACKING_ID"], at |-> at]
        /\ contacts[s]["ABS_MT_TRACKING_ID"] # NoTid
    BY <1>3, <1>6, <2>1 DEF OnPad, Touching, SightOf, Seen
  <2>3. PadView[s].tid = contacts[s]["ABS_MT_TRACKING_ID"] /\ PadView[s].at = at
    BY <2>2
  <2>4. pad[s]["ABS_MT_TRACKING_ID"] # NoTid
    BY <1>4, <2>2, <2>3
  <2>5. PadView[s] = [tid |-> pad[s]["ABS_MT_TRACKING_ID"],
              at  |-> [x |-> pad[s]["ABS_MT_POSITION_X"], y |-> pad[s]["ABS_MT_POSITION_Y"]]]
    BY <1>4, <2>4
  <2>6. /\ pad[s]["ABS_MT_TRACKING_ID"] = contacts[s]["ABS_MT_TRACKING_ID"]
        /\ at = [x |-> pad[s]["ABS_MT_POSITION_X"], y |-> pad[s]["ABS_MT_POSITION_Y"]]
    BY <2>3, <2>5
  <2>. QED
    BY <1>6, <2>1, <2>6
<1>. QED
  BY <1>5, <1>6

\* Between frames the virtual touchpad shows the contacts inside the region, at
\* their places, and no others: SyncTouchEvents, which only looks at the machine's
\* slots and at which of them were inside before, brings the kernel's copy of the
\* virtual touchpad back to the sensor after whatever mixture of frames.
THEOREM TouchpadShowsContacts ==
  ASSUME AwayFromEdge
  PROVE  Spec /\ []NothingDropped => []PadShowsContacts
<1>1. Init => MirrorInv
  BY MirrorInit
<1>2. MirrorInv /\ [Next]_vars /\ NothingDropped' => MirrorInv'
  BY EveryStepMirrors
<1>3. MirrorInv => PadShowsContacts
  BY ShowsContacts
<1>. QED
  BY <1>1, <1>2, <1>3, PTL DEF Spec

\* FakeTouchpad implements Mirror: the readers of the virtual touchpad see every
\* frame of the region, as a whole, once and in order, however late the process
\* is; and none is left when it exits.
THEOREM ImplementsMirror ==
  ASSUME AwayFromEdge
  PROVE  Spec /\ []NothingDropped => MirrorsRegion
<1>1. Init => MirrorInv /\ Abstract!Init
  BY MirrorInit
<1>2. MirrorInv /\ [Next]_vars /\ NothingDropped' => MirrorInv' /\ [Abstract!Next]_(Abstract!vars)
  BY EveryStepMirrors
<1>. QED
  BY <1>1, <1>2, PTL DEF Spec, MirrorsRegion, Abstract!Spec
(***************************************************************************)
(* Part 6.  A buffer in which no event is lost.                            *)
(***************************************************************************)

\* The buffer holds the largest frame behind the largest backlog.
RoomForFrames == MaxBacklog + kNumSlots * (Cardinality(Codes) + 1) + 1 < BufferSize

Sent == Report \ {Syn("SYN_DROPPED")}

LEMMA CodesAreFinite == IsFiniteSet(Codes) /\ Cardinality(Codes) \in Nat
<1>1. IsFiniteSet(Codes)
  BY AxesAssumption, FS_AddElement DEF Codes
<1>. QED
  BY <1>1, FS_CardinalityType

LEMMA SlotSends ==
  ASSUME NEW s \in Slots, NEW c \in Contact, NEW announced
  PROVE  /\ SlotEvents(s, c, announced) \in Seq(Sent)
         /\ Len(SlotEvents(s, c, announced)) <= Cardinality(Codes) + 1
<1>. DEFINE S == {a \in Codes : c[a] # contacts[s][a]}
            q == SetToSeq(S)
            n == Cardinality(S)
            vals == [i \in DOMAIN q |-> Abs(q[i], c[q[i]])]
            head == IF announced = s THEN <<>> ELSE <<Abs("ABS_MT_SLOT", s)>>
<1>1. IsFiniteSet(S) /\ n <= Cardinality(Codes)
  BY CodesAreFinite, FS_Subset
<1>2. n \in Nat /\ q \in [1 .. n -> S]
  BY <1>1, Listed
<1>3. \A a \in Codes : Abs(a, c[a]) \in Sent
  BY DEF Contact, Abs, Report, Sent, Syn
<1>4. Abs("ABS_MT_SLOT", s) \in Sent
  BY DEF Abs, Report, Sent, Syn
<1>5. vals \in Seq(Sent) /\ Len(vals) = n
  <2>1. vals \in [1 .. n -> Sent]
    BY <1>2, <1>3
  <2>. QED
    BY <1>2, <2>1
<1>6. head \in Seq(Sent) /\ Len(head) <= 1
  BY <1>4
<1>7. SlotEvents(s, c, announced) = IF q = <<>> THEN <<>> ELSE head \o vals
  BY DEF SlotEvents
<1>8. Cardinality(Codes) \in Nat
  BY CodesAreFinite
<1>. HIDE DEF head, vals, q, n
<1>9. head \o vals \in Seq(Sent) /\ Len(head \o vals) = Len(head) + Len(vals)
  BY <1>5, <1>6, ConcatProperties
<1>10. Len(head) \in Nat
  BY <1>6
<1>11. CASE q = <<>>
  <2>1. SlotEvents(s, c, announced) = <<>>
    BY <1>7, <1>11
  <2>. QED
    BY <1>8, <2>1
<1>12. CASE q # <<>>
  <2>1. SlotEvents(s, c, announced) = head \o vals
    BY <1>7, <1>12
  <2>. QED
    BY <1>1, <1>2, <1>5, <1>6, <1>8, <1>9, <1>10, <2>1
<1>. QED
  BY <1>11, <1>12

LEMMA FrameFits ==
  ASSUME NEW new \in [Slots -> Contact]
  PROVE  /\ FrameEvents(new) \in Seq(Sent)
         /\ Len(FrameEvents(new)) <= kNumSlots * (Cardinality(Codes) + 1) + 1
<1>. DEFINE most == Cardinality(Codes) + 1
<1>0. kNumSlots \in Nat \ {0} /\ most \in Nat
  BY SlotsAssumption, CodesAreFinite
<1>1. PICK f : /\ FrameEvents(new) = f[kNumSlots] \o <<Syn("SYN_REPORT")>>
               /\ f[1] = Part(new, 0)
               /\ \A i \in 1 .. kNumSlots - 1 : f[i + 1] = f[i] \o Part(new, i)
  BY FrameIsJoined
<1>2. \A s \in Slots : Part(new, s) \in Seq(Sent) /\ Len(Part(new, s)) <= most
  BY SlotSends DEF Part
<1>. HIDE DEF most
<1>. DEFINE T == {i \in 0 .. kNumSlots - 1 :
                    f[i + 1] \in Seq(Sent) /\ Len(f[i + 1]) <= (i + 1) * most}
<1>3. 0 \in T
  <2>1. 0 \in Slots
    BY <1>0 DEF Slots
  <2>2. f[1] \in Seq(Sent) /\ Len(f[1]) <= most
    BY <1>1, <1>2, <2>1
  <2>3. 0 + 1 = 1 /\ 1 * most = most
    BY <1>0
  <2>. QED
    BY <1>0, <2>2, <2>3
<1>4. ASSUME NEW i \in 0 .. (kNumSlots - 1) - 1, i \in T
      PROVE  i + 1 \in T
  <2>1. i + 1 \in 1 .. kNumSlots - 1 /\ i + 1 \in Slots
    BY <1>0 DEF Slots
  <2>2. PICK a, b : a = f[i + 1] /\ b = Part(new, i + 1)
    OBVIOUS
  <2>3. f[(i + 1) + 1] = a \o b
    BY <1>1, <2>1, <2>2
  <2>4. a \in Seq(Sent) /\ b \in Seq(Sent) /\ Len(a) <= (i + 1) * most /\ Len(b) <= most
    BY <1>2, <1>4, <2>1, <2>2
  <2>5. a \o b \in Seq(Sent) /\ Len(a \o b) = Len(a) + Len(b)
    BY <2>4, ConcatProperties
  <2>6. Len(a) \in Nat /\ Len(b) \in Nat
    BY <2>4
  <2>7. ((i + 1) + 1) * most = (i + 1) * most + most
    BY <1>0
  <2>8. (i + 1) * most \in Nat
    BY <1>0
  <2>9. Len(f[(i + 1) + 1]) <= ((i + 1) + 1) * most
    BY <1>0, <2>3, <2>4, <2>5, <2>6, <2>7, <2>8
  <2>10. f[(i + 1) + 1] \in Seq(Sent)
    BY <2>3, <2>5
  <2>11. i + 1 \in 0 .. kNumSlots - 1
    BY <1>0, <2>1
  <2>. QED
    BY <2>9, <2>10, <2>11
<1>5. kNumSlots - 1 \in T
  <2>1. kNumSlots - 1 \in Nat /\ kNumSlots - 1 \in 0 .. kNumSlots - 1
    BY <1>0
  <2>. HIDE DEF T
  <2>. QED
    BY <1>3, <1>4, <2>1, UpTo
<1>6. PICK last : last = f[kNumSlots]
  OBVIOUS
<1>7. last \in Seq(Sent) /\ Len(last) <= kNumSlots * most
  <2>1. (kNumSlots - 1) + 1 = kNumSlots
    BY <1>0
  <2>. QED
    BY <1>5, <1>6, <2>1
<1>8. PICK syn : syn = <<Syn("SYN_REPORT")>>
  OBVIOUS
<1>9. syn \in Seq(Sent) /\ Len(syn) = 1
  BY <1>8 DEF Report, Sent, Syn
<1>10. last \o syn \in Seq(Sent) /\ Len(last \o syn) = Len(last) + Len(syn)
  BY <1>7, <1>9, ConcatProperties
<1>11. FrameEvents(new) = last \o syn
  BY <1>1, <1>6, <1>8
<1>12. Len(last) \in Nat /\ kNumSlots * most \in Nat
  BY <1>0, <1>7
<1>. QED
  BY <1>7, <1>9, <1>10, <1>11, <1>12 DEF most

LEMMA NothingIsDropped ==
  ASSUME RoomForFrames, TypeInv, NothingDropped, [Next]_vars
  PROVE  NothingDropped'
<1>1. CASE SensorFrame
  <2>1. PICK new \in [Slots -> Contact] : events' = Buffered(FrameEvents(new))
    BY <1>1, FrameFacts DEF SensorFrame
  <2>2. PICK evs : evs = FrameEvents(new)
    OBVIOUS
  <2>3. evs \in Seq(Sent) /\ Len(evs) <= kNumSlots * (Cardinality(Codes) + 1) + 1
    BY <2>2, FrameFits
  <2>4. Len(events) <= MaxBacklog /\ Len(events) \in Nat
    BY <1>1 DEF SensorFrame, Frame, TypeInv
  <2>5. Len(evs) <= BufferSize - 1 - Len(events)
    <3>1. PICK most : most = kNumSlots * (Cardinality(Codes) + 1)
      OBVIOUS
    <3>2. most \in Nat
      BY <3>1, SlotsAssumption, CodesAreFinite
    <3>. QED
      BY <2>3, <2>4, <3>1, <3>2, BufferAssumption DEF RoomForFrames
  <2>6. events' = events \o evs
    BY <2>1, <2>2, <2>5 DEF Buffered
  <2>7. events \in Seq(Sent)
    <3>1. events \in Seq(Report)
      BY DEF TypeInv
    <3>2. \A i \in 1 .. Len(events) : events[i] \in Sent
      BY <3>1, ElementOfSeq DEF NothingDropped, Sent
    <3>. QED
      BY <3>1, <3>2
  <2>8. events' \in Seq(Sent)
    BY <2>3, <2>6, <2>7, ConcatProperties
  <2>9. PICK next : next = events'
    OBVIOUS
  <2>10. \A i \in DOMAIN next : next[i] # Syn("SYN_DROPPED")
    BY <2>8, <2>9 DEF Sent
  <2>. QED
    BY <2>9, <2>10 DEF NothingDropped, Syn
<1>2. CASE Consume
  <2>1. events' = Tail(events) /\ events # <<>> /\ events \in Seq(Report)
    BY <1>2 DEF Consume, ReadEvent, ReadSyn, TypeInv
  <2>2. \A i \in 1 .. Len(events) - 1 : Tail(events)[i] = events[i + 1] /\ i + 1 \in 1 .. Len(events)
    BY <2>1
  <2>3. DOMAIN Tail(events) = 1 .. Len(events) - 1
    BY <2>1
  <2>. QED
    BY <2>1, <2>2, <2>3 DEF NothingDropped, Syn
<1>3. CASE UNCHANGED events
  BY <1>3 DEF NothingDropped, Syn
<1>. QED
  BY <1>1, <1>2, <1>3 DEF Next, Gone, vars, ReadFails

\* The kernel empties a client's buffer only when it is full: one that holds the
\* largest frame behind the largest backlog never loses an event.  (evdev gives
\* a client at least 64 events and several packets of the device's own estimate.)
THEOREM LargeBufferLosesNothing ==
  ASSUME RoomForFrames
  PROVE  Spec => []NothingDropped
<1>1. Init => TypeInv /\ IndInv /\ NothingDropped
  BY MirrorInit DEF MirrorInv, AheadInv, Init, Start, MachineInit, NothingDropped
<1>2. TypeInv /\ IndInv /\ NothingDropped /\ [Next]_vars
        => (TypeInv /\ IndInv /\ NothingDropped)'
  BY NothingIsDropped, TypeStep, NextPreserves
<1>. QED
  BY <1>1, <1>2, PTL DEF Spec

\* So with such a buffer the machine follows the sensor, and the virtual touchpad
\* shows its contacts and mirrors its frames, without a condition on the run.
THEOREM LargeBufferKeepsFaith ==
  ASSUME RoomForFrames, AwayFromEdge
  PROVE  Spec => []SnapshotIsSensor /\ []PadShowsContacts /\ MirrorsRegion
BY LargeBufferLosesNothing, MachineFollowsSensor, TouchpadShowsContacts, ImplementsMirror, PTL
=============================================================================
