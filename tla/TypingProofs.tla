---------------------------- MODULE TypingProofs -----------------------------
(***************************************************************************)
(* FakeKeyboard implements Keystrokes, and a key stays down under its      *)
(* finger: for any set of tracking ids, any layout, any delay, and any     *)
(* scheduling latency.                                                     *)
(***************************************************************************)
EXTENDS SharedKeys, FakeKeyboardProofs

(***************************************************************************)
(* Part 1.  Counting what is owed.                                         *)
(***************************************************************************)

\* The taps and the key-ups of c in the queue q from position i on, when the
\* fingers in L are on the sensor.
TapsIn(q, L, c, i) ==
  {j \in DOMAIN q : q[j].is_down /\ q[j].ev_code = c /\ q[j].tid \notin L /\ j >= i}
UpsIn(q, c, i) == {j \in DOMAIN q : ~q[j].is_down /\ q[j].ev_code = c /\ j >= i}

\* No release overtakes its tap: from any position on, the queue holds as many
\* key-ups of a code as taps, or more.  (QuickTapReleased finds a key-up behind
\* every tap, but would be content with one for all of them.)
Balance(q, L) ==
  \A c \in Codes : \A i \in 1 .. Len(q) + 1 :
    Cardinality(TapsIn(q, L, c, i)) <= Cardinality(UpsIn(q, c, i))

Balanced == Balance(pending_events, DOMAIN finger_data)

LEMMA Positions ==
  ASSUME NEW q \in Seq(Event)
  PROVE  /\ Len(q) \in Nat /\ DOMAIN q = 1 .. Len(q)
         /\ \A T : T \subseteq DOMAIN q => IsFiniteSet(T) /\ Cardinality(T) \in Nat
<1>1. Len(q) \in Nat /\ DOMAIN q = 1 .. Len(q)
  OBVIOUS
<1>2. IsFiniteSet(DOMAIN q)
  BY <1>1, FS_Interval
<1>. QED
  BY <1>1, <1>2, FS_Subset, FS_CardinalityType

\* T is S, in a numbering that keeps the order.
Renumbers(T, m, S, n, pos) ==
  /\ pos \in [1 .. m -> 1 .. n] /\ \A j, k \in 1 .. m : j < k => pos[j] < pos[k]
  /\ S \subseteq 1 .. n /\ T \subseteq 1 .. m
  /\ \A j \in 1 .. m : j \in T <=> pos[j] \in S
  /\ \A s \in S : \E j \in 1 .. m : pos[j] = s

LEMMA Renumbered ==
  ASSUME NEW n \in Nat, NEW m \in Nat, NEW pos, NEW S, NEW T, Renumbers(T, m, S, n, pos)
  PROVE  Cardinality(T) = Cardinality(S)
<1>. USE DEF Renumbers
<1>. DEFINE f == [j \in T |-> pos[j]]
<1>1. f \in [T -> S]
  OBVIOUS
<1>2. \A j, k \in T : f[j] = f[k] => j = k
  <2>. SUFFICES ASSUME NEW j \in T, NEW k \in T, j # k PROVE pos[j] # pos[k]
    OBVIOUS
  <2>1. j \in 1 .. m /\ k \in 1 .. m /\ pos[j] \in Int /\ pos[k] \in Int
    OBVIOUS
  <2>2. j < k \/ k < j
    BY <2>1
  <2>. QED
    BY <2>1, <2>2
<1>3. \A s \in S : \E j \in T : f[j] = s
  OBVIOUS
<1>4. f \in Bijection(T, S)
  BY <1>1, <1>2, <1>3 DEF Bijection, Injection, Surjection, IsInjective
<1>5. IsFiniteSet(T)
  <2>1. IsFiniteSet(1 .. m)
    BY FS_Interval
  <2>. QED
    BY <2>1, FS_Subset
<1>. HIDE DEF f
<1>. QED
  BY <1>4, <1>5, FS_Bijection DEF ExistsBijection

\* The queue r is what is left of q: pos tells from where.  Attributes that
\* change (the deadline, the mark) play no part.
LeftOf(r, q, pos) ==
  /\ pos \in [DOMAIN r -> DOMAIN q]
  /\ \A j, k \in DOMAIN r : j < k => pos[j] < pos[k]
  /\ \A j \in DOMAIN r : /\ r[j].ev_code = q[pos[j]].ev_code
                         /\ r[j].is_down = q[pos[j]].is_down
                         /\ r[j].tid = q[pos[j]].tid

SameOwners(r, L, M) ==
  \A j \in DOMAIN r : r[j].is_down => (r[j].tid \in M <=> r[j].tid \in L)

NoneLost(r, a, q, b, pos, L, c) ==
  /\ \A j \in DOMAIN r : j >= a <=> pos[j] >= b
  /\ \A i \in TapsIn(q, L, c, b) \cup UpsIn(q, c, b) : \E j \in DOMAIN r : pos[j] = i

\* If no tap and no key-up is lost from position b of q on, and b is where r
\* begins at a, they are counted alike.
LEMMA SameCounts ==
  ASSUME NEW q \in Seq(Event), NEW r \in Seq(Event), NEW pos, LeftOf(r, q, pos),
         NEW L, NEW M, SameOwners(r, L, M), NEW c, NEW a \in Nat, NEW b \in Nat,
         NoneLost(r, a, q, b, pos, L, c)
  PROVE  /\ Cardinality(TapsIn(r, M, c, a)) = Cardinality(TapsIn(q, L, c, b))
         /\ Cardinality(UpsIn(r, c, a)) = Cardinality(UpsIn(q, c, b))
<1>1. /\ Len(q) \in Nat /\ DOMAIN q = 1 .. Len(q)
      /\ Len(r) \in Nat /\ DOMAIN r = 1 .. Len(r)
  BY Positions
<1>2. \A j \in 1 .. Len(r) : j \in TapsIn(r, M, c, a) <=> pos[j] \in TapsIn(q, L, c, b)
  BY <1>1 DEF LeftOf, TapsIn, SameOwners, NoneLost
<1>3. \A j \in 1 .. Len(r) : j \in UpsIn(r, c, a) <=> pos[j] \in UpsIn(q, c, b)
  BY <1>1 DEF LeftOf, UpsIn, NoneLost
<1>4. /\ TapsIn(r, M, c, a) \subseteq 1 .. Len(r) /\ UpsIn(r, c, a) \subseteq 1 .. Len(r)
      /\ TapsIn(q, L, c, b) \subseteq 1 .. Len(q) /\ UpsIn(q, c, b) \subseteq 1 .. Len(q)
  BY <1>1 DEF TapsIn, UpsIn
<1>5. /\ \A s \in TapsIn(q, L, c, b) : \E j \in 1 .. Len(r) : pos[j] = s
      /\ \A s \in UpsIn(q, c, b) : \E j \in 1 .. Len(r) : pos[j] = s
  BY <1>1 DEF NoneLost
<1>6. /\ Renumbers(TapsIn(r, M, c, a), Len(r), TapsIn(q, L, c, b), Len(q), pos)
      /\ Renumbers(UpsIn(r, c, a), Len(r), UpsIn(q, c, b), Len(q), pos)
  BY <1>1, <1>2, <1>3, <1>4, <1>5, Zenon DEF LeftOf, Renumbers
<1>. QED
  BY <1>1, <1>6, Renumbered

\* Nothing is counted behind the end of the queue.
LEMMA NothingBeyond ==
  ASSUME NEW q \in Seq(Event), NEW L, NEW c
  PROVE  Cardinality(TapsIn(q, L, c, Len(q) + 1)) <= Cardinality(UpsIn(q, c, Len(q) + 1))
<1>1. \A j \in DOMAIN q : ~(j >= Len(q) + 1)
  BY Positions
<1>2. TapsIn(q, L, c, Len(q) + 1) = {} /\ UpsIn(q, c, Len(q) + 1) = {}
  BY <1>1 DEF TapsIn, UpsIn
<1>3. Cardinality({}) <= Cardinality({})
  BY FS_EmptySet
<1>. QED
  BY <1>2, <1>3

\* If nothing that counts is lost behind the head of r, r is balanced with q.
LEMMA StaysBalanced ==
  ASSUME NEW q \in Seq(Event), NEW r \in Seq(Event), NEW pos, LeftOf(r, q, pos),
         NEW L, NEW M, Balance(q, L), SameOwners(r, L, M),
         \A c \in Codes : \A i \in TapsIn(q, L, c, 1) \cup UpsIn(q, c, 1) :
           (\E j \in DOMAIN r : pos[j] = i) \/ (\A j \in DOMAIN r : pos[j] > i)
  PROVE  Balance(r, M)
<1>. SUFFICES ASSUME NEW c \in Codes, NEW a \in 1 .. Len(r) + 1
              PROVE  Cardinality(TapsIn(r, M, c, a)) <= Cardinality(UpsIn(r, c, a))
  BY DEF Balance
<1>1. /\ Len(q) \in Nat /\ DOMAIN q = 1 .. Len(q)
      /\ Len(r) \in Nat /\ DOMAIN r = 1 .. Len(r)
  BY Positions
<1>2. CASE a = Len(r) + 1
  BY <1>2, NothingBeyond
<1>3. CASE a # Len(r) + 1
  <2>. DEFINE b == pos[a]
  <2>1. a \in DOMAIN r /\ b \in 1 .. Len(q)
    BY <1>1, <1>3 DEF LeftOf
  <2>2. \A j \in DOMAIN r : pos[j] \in 1 .. Len(q)
    BY <1>1 DEF LeftOf
  <2>3. \A j \in DOMAIN r : j >= a <=> pos[j] >= b
    <3>. SUFFICES ASSUME NEW j \in DOMAIN r PROVE j >= a <=> pos[j] >= b
      OBVIOUS
    <3>1. j < a \/ j = a \/ j > a
      BY <1>1, <2>1
    <3>2. j < a => pos[j] < pos[a]
      BY <2>1 DEF LeftOf
    <3>3. j > a => pos[a] < pos[j]
      BY <2>1 DEF LeftOf
    <3>. QED
      BY <1>1, <2>1, <2>2, <3>1, <3>2, <3>3
  <2>4. \A i \in TapsIn(q, L, c, b) \cup UpsIn(q, c, b) :
          \E j \in DOMAIN r : pos[j] = i
    <3>. SUFFICES ASSUME NEW i \in TapsIn(q, L, c, b) \cup UpsIn(q, c, b)
                  PROVE  \E j \in DOMAIN r : pos[j] = i
      OBVIOUS
    <3>1. i \in DOMAIN q /\ i >= b
      BY DEF TapsIn, UpsIn
    <3>2. i \in TapsIn(q, L, c, 1) \cup UpsIn(q, c, 1)
      BY <1>1, <3>1 DEF TapsIn, UpsIn
    <3>3. ~(pos[a] > i)
      BY <1>1, <2>1, <3>1
    <3>. QED
      BY <2>1, <3>2, <3>3
  <2>5. a \in Nat /\ b \in Nat /\ b \in 1 .. Len(q) + 1
    BY <1>1, <2>1
  <2>7. NoneLost(r, a, q, b, pos, L, c)
    BY <2>3, <2>4 DEF NoneLost
  <2>. HIDE DEF b
  <2>6. /\ Cardinality(TapsIn(r, M, c, a)) = Cardinality(TapsIn(q, L, c, b))
        /\ Cardinality(UpsIn(r, c, a)) = Cardinality(UpsIn(q, c, b))
    BY <2>5, <2>7, SameCounts
  <2>. QED
    BY <2>5, <2>6 DEF Balance
<1>. QED
  BY <1>2, <1>3

(***************************************************************************)
(* Part 2.  The steps of Keystrokes, seen through the mapping.             *)
(***************************************************************************)

contacts == [tid \in Tids |-> Contact(tid)]
taps == [c \in Codes |-> Cardinality(TapsOf(c))]
releases == [c \in Codes |-> Cardinality(UpsOf(c))]

\* What one finger does to its own contact.
Becomes(tid, what) == contacts' = [contacts EXCEPT ![tid] = what]

\* What a step adds to the debts for c.
Owes(debts, next, c, n) == next = [debts EXCEPT ![c] = @ + n]

LEMMA StutterStep ==
  ASSUME (pc' = "exited") <=> (pc = "exited"), UNCHANGED <<contacts, taps, releases, keys>>
  PROVE  UNCHANGED Abstract!vars
BY DEF Abstract!vars, contacts, taps, releases

LEMMA QuitStep ==
  ASSUME pc # "exited", pc' = "exited", keys' = {}, UNCHANGED <<contacts, taps, releases>>
  PROVE  Abstract!Next
BY DEF Abstract!Next, Abstract!Quit, contacts, taps, releases

\* The keyboard stays, and one of the other actions happens.
LEMMA ActStep ==
  ASSUME pc # "exited", pc' # "exited", Abstract!Act
  PROVE  Abstract!Next
BY DEF Abstract!Next

LEMMA LandStep ==
  ASSUME pc # "exited", pc' # "exited", NEW tid \in Tids, NEW c \in Codes,
         contacts[tid] = Abstract!Away, Becomes(tid, Abstract!At("undecided", c)),
         UNCHANGED <<taps, releases, keys>>
  PROVE  Abstract!Next
<1>1. Abstract!Land(tid, c)
  BY DEF Abstract!Land, Abstract!Become, Becomes, contacts, taps, releases
<1>2. Abstract!Act
  BY <1>1 DEF Abstract!Act, Abstract!Touch
<1>. QED
  BY <1>2, ActStep
LEMMA LandBesideStep ==
  ASSUME pc # "exited", pc' # "exited", NEW tid \in Tids,
         contacts[tid] = Abstract!Away, Becomes(tid, Abstract!Ignored),
         UNCHANGED <<taps, releases, keys>>
  PROVE  Abstract!Next
<1>1. Abstract!LandBesideKeys(tid)
  BY DEF Abstract!LandBesideKeys, Abstract!Become, Becomes, contacts, taps, releases
<1>2. Abstract!Act
  BY <1>1 DEF Abstract!Act, Abstract!Touch
<1>. QED
  BY <1>2, ActStep

LEMMA PressStep ==
  ASSUME pc # "exited", pc' # "exited", NEW tid \in Tids, NEW c \in Codes,
         contacts[tid] = Abstract!At("undecided", c), Becomes(tid, Abstract!At("pressed", c)),
         keys' = keys \cup {c}, UNCHANGED <<taps, releases>>
  PROVE  Abstract!Next
<1>1. Abstract!Press(tid, c)
  BY DEF Abstract!Press, Abstract!Become, Becomes, contacts, taps, releases
<1>2. Abstract!Act
  BY <1>1 DEF Abstract!Act, Abstract!Touch
<1>. QED
  BY <1>2, ActStep

LEMMA DropStep ==
  ASSUME pc # "exited", pc' # "exited", NEW tid \in Tids, NEW c \in Codes,
         contacts[tid] = Abstract!At("undecided", c), Becomes(tid, Abstract!At("dropped", c)),
         UNCHANGED <<taps, releases, keys>>
  PROVE  Abstract!Next
<1>1. Abstract!Drop(tid, c)
  BY DEF Abstract!Drop, Abstract!Become, Becomes, contacts, taps, releases
<1>2. Abstract!Act
  BY <1>1 DEF Abstract!Act, Abstract!Touch
<1>. QED
  BY <1>2, ActStep

LEMMA SlideOffStep ==
  ASSUME pc # "exited", pc' # "exited", NEW tid \in Tids, NEW c \in Codes,
         NEW stage \in Abstract!Stages, contacts[tid] = Abstract!At(stage, c),
         Becomes(tid, Abstract!Ignored),
         IF stage = "pressed" THEN Owes(releases, releases', c, 1) ELSE UNCHANGED releases,
         UNCHANGED <<taps, keys>>
  PROVE  Abstract!Next
<1>1. contacts[tid].stage = stage
  BY DEF Abstract!At
<1>2. Abstract!SlideOff(tid, c)
  BY <1>1 DEF Abstract!SlideOff, Abstract!Become, Abstract!Add, Becomes, Owes, contacts, taps, releases
<1>3. Abstract!Act
  BY <1>2 DEF Abstract!Act, Abstract!Touch
<1>. QED
  BY <1>3, ActStep

LEMMA LiftStep ==
  ASSUME pc # "exited", pc' # "exited", NEW tid \in Tids, NEW c \in Codes,
         NEW stage \in Abstract!Stages, contacts[tid] = Abstract!At(stage, c),
         Becomes(tid, Abstract!Away),
         IF stage = "undecided" THEN Owes(taps, taps', c, 1) ELSE UNCHANGED taps,
         Owes(releases, releases', c, 1), UNCHANGED keys
  PROVE  Abstract!Next
<1>1. contacts[tid].stage = stage
  BY DEF Abstract!At
<1>2. Abstract!Lift(tid, c)
  BY <1>1 DEF Abstract!Lift, Abstract!Become, Abstract!Add, Becomes, Owes, contacts, taps, releases
<1>3. Abstract!Act
  BY <1>2 DEF Abstract!Act, Abstract!Touch
<1>. QED
  BY <1>3, ActStep

LEMMA LiftIgnoredStep ==
  ASSUME pc # "exited", pc' # "exited", NEW tid \in Tids,
         contacts[tid] = Abstract!Ignored, Becomes(tid, Abstract!Away),
         UNCHANGED <<taps, releases, keys>>
  PROVE  Abstract!Next
<1>1. Abstract!LiftIgnored(tid)
  BY DEF Abstract!LiftIgnored, Abstract!Become, Becomes, contacts, taps, releases
<1>2. Abstract!Act
  BY <1>1 DEF Abstract!Act, Abstract!Touch
<1>. QED
  BY <1>2, ActStep

LEMMA TapStep ==
  ASSUME pc # "exited", pc' # "exited", NEW c \in Codes, taps[c] > 0,
         Owes(taps, taps', c, -1), keys' = keys \cup {c}, UNCHANGED <<contacts, releases>>
  PROVE  Abstract!Next
<1>1. Abstract!Tap(c)
  BY DEF Abstract!Tap, Abstract!Add, Owes, contacts, taps, releases
<1>2. Abstract!Act
  BY <1>1 DEF Abstract!Act
<1>. QED
  BY <1>2, ActStep

LEMMA ReleaseStep ==
  ASSUME pc # "exited", pc' # "exited", NEW c \in Codes, releases[c] > taps[c],
         Owes(releases, releases', c, -1), keys' = keys \ {c}, UNCHANGED <<contacts, taps>>
  PROVE  Abstract!Next
<1>1. Abstract!Release(c)
  BY DEF Abstract!Release, Abstract!Add, Owes, contacts, taps, releases
<1>2. Abstract!Act
  BY <1>1 DEF Abstract!Act
<1>. QED
  BY <1>2, ActStep
(***************************************************************************)
(* Part 3.  What the operations on the queue do to the debts.              *)
(***************************************************************************)

\* A queue of the same events.
LEMMA SameQueue ==
  ASSUME NEW q \in Seq(Event), NEW r \in Seq(Event), DOMAIN r = DOMAIN q,
         \A i \in DOMAIN q : /\ r[i].ev_code = q[i].ev_code
                             /\ r[i].is_down = q[i].is_down
                             /\ r[i].tid = q[i].tid,
         NEW L
  PROVE  /\ \A c : \A i : /\ TapsIn(r, L, c, i) = TapsIn(q, L, c, i)
                          /\ UpsIn(r, c, i) = UpsIn(q, c, i)
         /\ Balance(q, L) => Balance(r, L)
<1>1. \A c : \A i : /\ TapsIn(r, L, c, i) = TapsIn(q, L, c, i)
                    /\ UpsIn(r, c, i) = UpsIn(q, c, i)
  BY DEF TapsIn, UpsIn
<1>2. Len(r) = Len(q)
  BY Positions
<1>. QED
  BY <1>1, <1>2 DEF Balance

\* Fingers of whom no key-down is pending come and go without a debt.
LEMMA SameFingers ==
  ASSUME NEW q \in Seq(Event), NEW L, NEW M, SameOwners(q, L, M)
  PROVE  /\ \A c : \A i : TapsIn(q, M, c, i) = TapsIn(q, L, c, i)
         /\ Balance(q, L) => Balance(q, M)
<1>1. \A c : \A i : TapsIn(q, M, c, i) = TapsIn(q, L, c, i)
  BY DEF TapsIn, SameOwners
<1>. QED
  BY <1>1 DEF Balance

\* The key-down of a finger on the sensor is no tap yet.
LEMMA DownAppended ==
  ASSUME NEW q \in Seq(Event), NEW ev \in Event, NEW L, ev.is_down, ev.tid \in L
  PROVE  /\ \A c : \A i : /\ TapsIn(Append(q, ev), L, c, i) = TapsIn(q, L, c, i)
                          /\ UpsIn(Append(q, ev), c, i) = UpsIn(q, c, i)
         /\ Balance(q, L) => Balance(Append(q, ev), L)
<1>. DEFINE r == Append(q, ev)
            n == Len(q) + 1
<1>1. /\ Len(q) \in Nat /\ DOMAIN q = 1 .. Len(q) /\ DOMAIN r = DOMAIN q \cup {n}
      /\ r[n] = ev /\ \A i \in DOMAIN q : r[i] = q[i]
  BY AppendShape
<1>2. r \in Seq(Event) /\ Len(r) = n
  OBVIOUS
<1>. HIDE DEF r, n
<1>3. \A c : \A i : /\ TapsIn(r, L, c, i) = TapsIn(q, L, c, i)
                    /\ UpsIn(r, c, i) = UpsIn(q, c, i)
  BY <1>1 DEF TapsIn, UpsIn
<1>4. ASSUME Balance(q, L), NEW c \in Codes, NEW i \in 1 .. Len(r) + 1
      PROVE  Cardinality(TapsIn(r, L, c, i)) <= Cardinality(UpsIn(r, c, i))
  <2>1. CASE i \in 1 .. Len(q) + 1
    BY <1>3, <1>4, <2>1 DEF Balance
  <2>2. CASE i = Len(r) + 1
    BY <1>2, <2>2, NothingBeyond
  <2>3. i \in 1 .. Len(q) + 1 \/ i = Len(r) + 1
    BY <1>1, <1>2 DEF n
  <2>. QED
    BY <2>1, <2>2, <2>3
<1>. QED
  BY <1>3, <1>4 DEF r, Balance

\* A key-up is owed from wherever one counts.
LEMMA UpAppended ==
  ASSUME NEW q \in Seq(Event), NEW ev \in Event, NEW L, ~ev.is_down
  PROVE  /\ \A c : \A i : TapsIn(Append(q, ev), L, c, i) = TapsIn(q, L, c, i)
         /\ \A c : \A i \in 1 .. Len(q) + 1 :
              Cardinality(UpsIn(Append(q, ev), c, i)) =
                Cardinality(UpsIn(q, c, i)) + (IF c = ev.ev_code THEN 1 ELSE 0)
<1>. DEFINE r == Append(q, ev)
            n == Len(q) + 1
<1>1. /\ Len(q) \in Nat /\ DOMAIN q = 1 .. Len(q) /\ DOMAIN r = DOMAIN q \cup {n}
      /\ r[n] = ev /\ \A i \in DOMAIN q : r[i] = q[i]
  BY AppendShape
<1>2. n \notin DOMAIN q
  BY <1>1
<1>. HIDE DEF r
<1>3. \A c : \A i : TapsIn(r, L, c, i) = TapsIn(q, L, c, i)
  BY <1>1, <1>2 DEF TapsIn
<1>4. ASSUME NEW c, NEW i \in 1 .. n
      PROVE  Cardinality(UpsIn(r, c, i)) =
               Cardinality(UpsIn(q, c, i)) + (IF c = ev.ev_code THEN 1 ELSE 0)
  <2>1. UpsIn(q, c, i) \subseteq DOMAIN q /\ n >= i
    BY <1>1 DEF UpsIn
  <2>2. IsFiniteSet(UpsIn(q, c, i)) /\ Cardinality(UpsIn(q, c, i)) \in Nat
    BY <2>1, Positions
  <2>3. CASE c = ev.ev_code
    <3>1. UpsIn(r, c, i) = UpsIn(q, c, i) \cup {n}
      BY <1>1, <2>1, <2>3 DEF UpsIn
    <3>2. PICK u : u = UpsIn(q, c, i)
      OBVIOUS
    <3>3. n \notin u /\ IsFiniteSet(u) /\ Cardinality(u) \in Nat
      BY <1>2, <2>1, <2>2, <3>2
    <3>4. Cardinality(u \cup {n}) = Cardinality(u) + 1
      BY <3>3, FS_AddElement
    <3>. QED
      BY <2>3, <3>1, <3>2, <3>4
  <2>4. CASE c # ev.ev_code
    <3>1. UpsIn(r, c, i) = UpsIn(q, c, i)
      BY <1>1, <2>4 DEF UpsIn
    <3>. QED
      BY <2>2, <2>4, <3>1
  <2>. QED
    BY <2>3, <2>4
<1>. QED
  BY <1>3, <1>4 DEF r

AtMostOne(S) == \A j, k \in S : j = k

\* A finger leaves: its key-down, if one is pending, becomes a tap.
LEMMA TapLeftBehind ==
  ASSUME NEW q \in Seq(Event), NEW L, NEW tid \in L, NEW code,
         \A j \in EventsOf(q, tid) : q[j].is_down /\ q[j].ev_code = code,
         AtMostOne(EventsOf(q, tid))
  PROVE  /\ \A c : \A i : c # code => TapsIn(q, L \ {tid}, c, i) = TapsIn(q, L, c, i)
         /\ \A i : \/ Cardinality(TapsIn(q, L \ {tid}, code, i)) = Cardinality(TapsIn(q, L, code, i))
                   \/ Cardinality(TapsIn(q, L \ {tid}, code, i)) =
                        Cardinality(TapsIn(q, L, code, i)) + 1
         /\ Cardinality(TapsIn(q, L \ {tid}, code, 1)) =
              Cardinality(TapsIn(q, L, code, 1)) + (IF EventsOf(q, tid) # {} THEN 1 ELSE 0)
<1>1. ASSUME NEW c, NEW i
      PROVE  TapsIn(q, L \ {tid}, c, i) =
               TapsIn(q, L, c, i) \cup {j \in EventsOf(q, tid) : c = code /\ j >= i}
  <2>1. ASSUME NEW j \in DOMAIN q
        PROVE  j \in TapsIn(q, L \ {tid}, c, i) <=>
                 j \in TapsIn(q, L, c, i) \/ (j \in EventsOf(q, tid) /\ c = code /\ j >= i)
    BY DEF TapsIn, EventsOf
  <2>. QED
    BY <2>1 DEF TapsIn, EventsOf
<1>2. \A c : \A i : IsFiniteSet(TapsIn(q, L, c, i)) /\ Cardinality(TapsIn(q, L, c, i)) \in Nat
  <2>1. \A c : \A i : TapsIn(q, L, c, i) \subseteq DOMAIN q
    BY DEF TapsIn
  <2>. QED
    BY <2>1, Positions
<1>3. ASSUME NEW c, NEW i, c # code
      PROVE  TapsIn(q, L \ {tid}, c, i) = TapsIn(q, L, c, i)
  <2>1. TapsIn(q, L \ {tid}, c, i) =
          TapsIn(q, L, c, i) \cup {j \in EventsOf(q, tid) : c = code /\ j >= i}
    BY <1>1, Zenon
  <2>2. {j \in EventsOf(q, tid) : c = code /\ j >= i} = {}
    BY <1>3
  <2>. QED
    BY <2>1, <2>2
<1>4. ASSUME NEW i, NEW p \in EventsOf(q, tid), p >= i
      PROVE  Cardinality(TapsIn(q, L \ {tid}, code, i)) = Cardinality(TapsIn(q, L, code, i)) + 1
  <2>0. \A j \in EventsOf(q, tid) : j = p
    BY Zenon DEF AtMostOne
  <2>1. {j \in EventsOf(q, tid) : code = code /\ j >= i} = {p}
    BY <1>4, <2>0
  <2>2. p \notin TapsIn(q, L, code, i)
    BY DEF TapsIn, EventsOf
  <2>3. TapsIn(q, L \ {tid}, code, i) = TapsIn(q, L, code, i) \cup {p}
    BY <1>1, <2>1
  <2>4. PICK u : u = TapsIn(q, L, code, i)
    OBVIOUS
  <2>5. IsFiniteSet(u) /\ Cardinality(u) \in Nat /\ p \notin u
    BY <1>2, <2>2, <2>4
  <2>6. Cardinality(u \cup {p}) = Cardinality(u) + 1
    BY <2>5, FS_AddElement
  <2>7. TapsIn(q, L \ {tid}, code, i) = u \cup {p}
    BY <2>3, <2>4
  <2>. QED
    BY <2>4, <2>6, <2>7
<1>5. ASSUME NEW i, ~\E p \in EventsOf(q, tid) : p >= i
      PROVE  TapsIn(q, L \ {tid}, code, i) = TapsIn(q, L, code, i)
  BY <1>1, <1>5
<1>6. Cardinality(TapsIn(q, L \ {tid}, code, 1)) =
        Cardinality(TapsIn(q, L, code, 1)) + (IF EventsOf(q, tid) # {} THEN 1 ELSE 0)
  <2>1. \A p \in EventsOf(q, tid) : p >= 1
    BY Positions DEF EventsOf
  <2>2. CASE EventsOf(q, tid) = {}
    <3>1. TapsIn(q, L \ {tid}, code, 1) = TapsIn(q, L, code, 1)
      BY <1>5, <2>2
    <3>2. Cardinality(TapsIn(q, L, code, 1)) \in Nat
      BY <1>2
    <3>. QED
      BY <2>2, <3>1, <3>2
  <2>3. CASE EventsOf(q, tid) # {}
    BY <1>4, <2>1, <2>3
  <2>. QED
    BY <2>2, <2>3
<1>7. ASSUME NEW i
      PROVE  \/ Cardinality(TapsIn(q, L \ {tid}, code, i)) = Cardinality(TapsIn(q, L, code, i))
             \/ Cardinality(TapsIn(q, L \ {tid}, code, i)) =
                  Cardinality(TapsIn(q, L, code, i)) + 1
  BY <1>4, <1>5
<1>. QED
  BY <1>3, <1>6, <1>7

\* What EraseTid leaves of q, and where it was.
Erased(r, q, tid, pos) ==
  /\ pos \in [DOMAIN r -> DOMAIN q]
  /\ \A j \in DOMAIN r : r[j] = q[pos[j]] /\ q[pos[j]].tid # tid
  /\ \A j, k \in DOMAIN r : j < k => pos[j] < pos[k]
  /\ \A i \in DOMAIN q : q[i].tid # tid => \E j \in DOMAIN r : pos[j] = i

LEMMA EraseLeaves ==
  ASSUME NEW q \in Seq(Event), NEW tid
  PROVE  EraseTid(q, tid) \in Seq(Event) /\ \E pos : Erased(EraseTid(q, tid), q, tid, pos)
<1>1. EraseTid(q, tid) \in Seq(Event)
  BY EraseKeeps
<1>2. \E pos \in [DOMAIN EraseTid(q, tid) -> DOMAIN q] :
        /\ \A j \in DOMAIN EraseTid(q, tid) :
             EraseTid(q, tid)[j] = q[pos[j]] /\ q[pos[j]].tid # tid
        /\ \A j, k \in DOMAIN EraseTid(q, tid) : j < k => pos[j] < pos[k]
        /\ \A i \in DOMAIN q :
             q[i].tid # tid => \E j \in DOMAIN EraseTid(q, tid) : pos[j] = i
  BY EraseKeeps, Zenon
<1>. QED
  BY <1>1, <1>2, Zenon DEF Erased

\* The scan of RejectFinger erases no debt: the events of a finger that is on the
\* sensor are neither taps nor key-ups.
LEMMA ErasedOwesTheSame ==
  ASSUME NEW q \in Seq(Event), NEW L, NEW tid \in L,
         \A j \in EventsOf(q, tid) : q[j].is_down
  PROVE  LET r == EraseTid(q, tid)
         IN  /\ r \in Seq(Event)
             /\ \A c : /\ Cardinality(TapsIn(r, L, c, 1)) = Cardinality(TapsIn(q, L, c, 1))
                       /\ Cardinality(UpsIn(r, c, 1)) = Cardinality(UpsIn(q, c, 1))
             /\ Balance(q, L) => Balance(r, L)
<1>. DEFINE r == EraseTid(q, tid)
<1>0. r \in Seq(Event)
  BY EraseLeaves
<1>. HIDE DEF r
<1>1. PICK pos : Erased(r, q, tid, pos)
  BY EraseLeaves DEF r
<1>2. LeftOf(r, q, pos)
  BY <1>1 DEF LeftOf, Erased
<1>3. SameOwners(r, L, L)
  BY DEF SameOwners
<1>4. ASSUME NEW c, NEW i \in TapsIn(q, L, c, 1) \cup UpsIn(q, c, 1)
      PROVE  \E j \in DOMAIN r : pos[j] = i
  <2>1. i \in DOMAIN q /\ q[i].tid # tid
    BY DEF TapsIn, UpsIn, EventsOf
  <2>. QED
    BY <1>1, <2>1 DEF Erased
<1>5. \A j \in DOMAIN r : j >= 1 <=> pos[j] >= 1
  BY <1>0, <1>1, Positions DEF Erased
<1>6. \A c : NoneLost(r, 1, q, 1, pos, L, c)
  BY <1>4, <1>5 DEF NoneLost
<1>7. \A c : /\ Cardinality(TapsIn(r, L, c, 1)) = Cardinality(TapsIn(q, L, c, 1))
             /\ Cardinality(UpsIn(r, c, 1)) = Cardinality(UpsIn(q, c, 1))
  BY <1>0, <1>2, <1>3, <1>6, SameCounts
<1>8. Balance(q, L) => Balance(r, L)
  BY <1>0, <1>2, <1>3, <1>4, StaysBalanced
<1>. QED
  BY <1>0, <1>7, <1>8 DEF r

\* The head of the queue goes.
LEMMA HeadGone ==
  ASSUME NEW q \in Seq(Event), q # <<>>, NEW L
  PROVE  /\ \A c : Cardinality(TapsIn(q, L, c, 1)) =
                     Cardinality(TapsIn(Tail(q), L, c, 1)) +
                       (IF q[1].is_down /\ q[1].ev_code = c /\ q[1].tid \notin L THEN 1 ELSE 0)
         /\ \A c : Cardinality(UpsIn(q, c, 1)) =
                     Cardinality(UpsIn(Tail(q), c, 1)) +
                       (IF ~q[1].is_down /\ q[1].ev_code = c THEN 1 ELSE 0)
         /\ \A c : Cardinality(TapsIn(Tail(q), L, c, 1)) \in Nat /\ Cardinality(UpsIn(Tail(q), c, 1)) \in Nat
         /\ Balance(q, L) => Balance(Tail(q), L)
<1>. DEFINE r == Tail(q)
            pos == [j \in DOMAIN r |-> j + 1]
<1>1. /\ r \in Seq(Event) /\ Len(q) \in Nat \ {0} /\ Len(r) = Len(q) - 1
      /\ DOMAIN q = 1 .. Len(q) /\ DOMAIN r = 1 .. Len(q) - 1
      /\ \A i \in DOMAIN r : r[i] = q[i + 1]
  BY HeadAndTail, Positions
<1>. HIDE DEF r
<1>2. LeftOf(r, q, pos)
  <2>1. pos \in [DOMAIN r -> DOMAIN q] /\ \A j, k \in DOMAIN r : j < k => pos[j] < pos[k]
    BY <1>1
  <2>. QED
    BY <1>1, <2>1 DEF LeftOf
<1>3. SameOwners(r, L, L)
  BY DEF SameOwners
<1>4. ASSUME NEW i \in DOMAIN q, i # 1
      PROVE  \E j \in DOMAIN r : pos[j] = i
  <2>1. i - 1 \in DOMAIN r /\ pos[i - 1] = i
    BY <1>1, <1>4
  <2>. QED
    BY <2>1
<1>5. \A j \in DOMAIN r : pos[j] > 1 /\ (j >= 1 <=> pos[j] >= 2)
  BY <1>1
<1>. HIDE DEF pos
<1>6. ASSUME NEW c
      PROVE  NoneLost(r, 1, q, 2, pos, L, c)
  <2>1. \A i \in TapsIn(q, L, c, 2) \cup UpsIn(q, c, 2) : i \in DOMAIN q /\ i # 1
    BY <1>1 DEF TapsIn, UpsIn
  <2>. QED
    BY <1>4, <1>5, <2>1 DEF NoneLost
<1>7. \A c : /\ Cardinality(TapsIn(r, L, c, 1)) = Cardinality(TapsIn(q, L, c, 2))
             /\ Cardinality(UpsIn(r, c, 1)) = Cardinality(UpsIn(q, c, 2))
  BY <1>1, <1>2, <1>3, <1>6, SameCounts
<1>8. \A c : /\ IsFiniteSet(TapsIn(q, L, c, 2)) /\ Cardinality(TapsIn(q, L, c, 2)) \in Nat
             /\ IsFiniteSet(UpsIn(q, c, 2)) /\ Cardinality(UpsIn(q, c, 2)) \in Nat
  <2>1. \A c : TapsIn(q, L, c, 2) \subseteq DOMAIN q /\ UpsIn(q, c, 2) \subseteq DOMAIN q
    BY DEF TapsIn, UpsIn
  <2>. QED
    BY <2>1, Positions
<1>9. ASSUME NEW c
      PROVE  /\ Cardinality(TapsIn(q, L, c, 1)) = Cardinality(TapsIn(q, L, c, 2)) +
                  (IF q[1].is_down /\ q[1].ev_code = c /\ q[1].tid \notin L THEN 1 ELSE 0)
             /\ Cardinality(UpsIn(q, c, 1)) = Cardinality(UpsIn(q, c, 2)) +
                  (IF ~q[1].is_down /\ q[1].ev_code = c THEN 1 ELSE 0)
  <2>1. 1 \in DOMAIN q /\ \A i \in DOMAIN q : i >= 1 /\ (i >= 2 <=> i # 1)
    BY <1>1
  <2>2. TapsIn(q, L, c, 1) = IF q[1].is_down /\ q[1].ev_code = c /\ q[1].tid \notin L
                             THEN TapsIn(q, L, c, 2) \cup {1} ELSE TapsIn(q, L, c, 2)
    BY <2>1 DEF TapsIn
  <2>3. UpsIn(q, c, 1) = IF ~q[1].is_down /\ q[1].ev_code = c
                         THEN UpsIn(q, c, 2) \cup {1} ELSE UpsIn(q, c, 2)
    BY <2>1 DEF UpsIn
  <2>4. 1 \notin TapsIn(q, L, c, 2) /\ 1 \notin UpsIn(q, c, 2)
    BY DEF TapsIn, UpsIn
  <2>. QED
    BY <1>8, <2>2, <2>3, <2>4, FS_AddElement
<1>10. Balance(q, L) => Balance(r, L)
  <2>1. \A c \in Codes : \A i \in TapsIn(q, L, c, 1) \cup UpsIn(q, c, 1) :
          (\E j \in DOMAIN r : pos[j] = i) \/ (\A j \in DOMAIN r : pos[j] > i)
    <3>. SUFFICES ASSUME NEW c \in Codes, NEW i \in TapsIn(q, L, c, 1) \cup UpsIn(q, c, 1), i # 1
                  PROVE  \E j \in DOMAIN r : pos[j] = i
      BY <1>5
    <3>1. i \in DOMAIN q
      BY DEF TapsIn, UpsIn
    <3>. QED
      BY <1>4, <3>1
  <2>. QED
    BY <1>1, <1>2, <1>3, <2>1, StaysBalanced
<1>. QED
  BY <1>7, <1>8, <1>9, <1>10 DEF r
(***************************************************************************)
(* Part 4.  The steps of FakeKeyboard.                                     *)
(***************************************************************************)

\* A step of Keystrokes, or none.
Implements == Abstract!Next \/ UNCHANGED Abstract!vars

\* The debts, told from the queue and the fingers on the sensor.
LEMMA Debts ==
  ASSUME TypeInv, TypeInv'
  PROVE  /\ taps = [c \in Codes |-> Cardinality(TapsIn(pending_events, DOMAIN finger_data, c, 1))]
         /\ taps' = [c \in Codes |-> Cardinality(TapsIn(pending_events', DOMAIN finger_data', c, 1))]
         /\ releases = [c \in Codes |-> Cardinality(UpsIn(pending_events, c, 1))]
         /\ releases' = [c \in Codes |-> Cardinality(UpsIn(pending_events', c, 1))]
<1>1. /\ \A i \in DOMAIN pending_events : i >= 1
      /\ \A i \in DOMAIN pending_events' : i >= 1
  BY DEF TypeInv, TypeOK
<1>2. \A c : /\ TapsOf(c) = TapsIn(pending_events, DOMAIN finger_data, c, 1)
             /\ UpsOf(c) = UpsIn(pending_events, c, 1)
  BY <1>1 DEF TapsOf, TapsIn, UpsOf, UpsIn, IsUp, Live
<1>3. \A c : /\ TapsOf(c)' = TapsIn(pending_events', DOMAIN finger_data', c, 1)
             /\ UpsOf(c)' = UpsIn(pending_events', c, 1)
  BY <1>1 DEF TapsOf, TapsIn, UpsOf, UpsIn, IsUp, Live
<1>. QED
  BY <1>2, <1>3 DEF taps, releases

LEMMA SameTaps ==
  ASSUME TypeInv, TypeInv',
         \A c : Cardinality(TapsIn(pending_events', DOMAIN finger_data', c, 1)) =
                  Cardinality(TapsIn(pending_events, DOMAIN finger_data, c, 1))
  PROVE  UNCHANGED taps
BY Debts

LEMMA SameReleases ==
  ASSUME TypeInv, TypeInv',
         \A c : Cardinality(UpsIn(pending_events', c, 1)) = Cardinality(UpsIn(pending_events, c, 1))
  PROVE  UNCHANGED releases
BY Debts

\* One debt changes.
LEMMA TapOwed ==
  ASSUME TypeInv, TypeInv', NEW code \in Codes, NEW n,
         \A c : c # code => Cardinality(TapsIn(pending_events', DOMAIN finger_data', c, 1)) =
                              Cardinality(TapsIn(pending_events, DOMAIN finger_data, c, 1)),
         Cardinality(TapsIn(pending_events', DOMAIN finger_data', code, 1)) =
           Cardinality(TapsIn(pending_events, DOMAIN finger_data, code, 1)) + n
  PROVE  Owes(taps, taps', code, n)
BY Debts DEF Owes

LEMMA ReleaseOwed ==
  ASSUME TypeInv, TypeInv', NEW code \in Codes, NEW n,
         \A c : c # code => Cardinality(UpsIn(pending_events', c, 1)) =
                              Cardinality(UpsIn(pending_events, c, 1)),
         Cardinality(UpsIn(pending_events', code, 1)) =
           Cardinality(UpsIn(pending_events, code, 1)) + n
  PROVE  Owes(releases, releases', code, n)
BY Debts DEF Owes

\* What the step leaves of a finger that it is not about.
Keeps(t) ==
  /\ t \in DOMAIN finger_data' <=> t \in DOMAIN finger_data
  /\ t \in DOMAIN finger_data =>
       /\ finger_data'[t].event_code = finger_data[t].event_code
       /\ finger_data'[t].down_sent = finger_data[t].down_sent
       /\ finger_data'[t].rejection_status = finger_data[t].rejection_status
  /\ EventsOf(pending_events', t) = {} <=> EventsOf(pending_events, t) = {}

LEMMA KeptContact ==
  ASSUME NEW t, Keeps(t)
  PROVE  Contact(t)' = Contact(t)
BY DEF Keeps, Contact, Live, Rejected, EventsOf

LEMMA KeptContacts ==
  ASSUME \A t \in Tids : Keeps(t)
  PROVE  UNCHANGED contacts
BY KeptContact DEF contacts

LEMMA NewContact ==
  ASSUME NEW tid \in Tids, NEW what, Contact(tid)' = what,
         \A t \in Tids : t # tid => Keeps(t)
  PROVE  Becomes(tid, what)
BY KeptContact DEF contacts, Becomes
\* Steps that leave the fingers, the queue and the keys alone.
LEMMA ControlImplements ==
  ASSUME IndInv, Balanced,
         \/ LoopTop \/ SelectTimeout \/ ReadFirst \/ ReadNext \/ ReadSyn
         \/ EndSnapshot \/ EndFiring \/ Exited \/ UNCHANGED vars
         \/ \E tid \in Tids : SkipRejected(tid)
  PROVE  Balanced' /\ Implements
<1>1. /\ UNCHANGED <<queue, keys>>
      /\ pc' = "exited" <=> pc = "exited"
  BY DEF LoopTop, SelectTimeout, ReadFirst, ReadNext, ReadSyn, EndSnapshot, EndFiring,
     Exited, SkipRejected, InWait, vars, queue, frame, output
<1>2. Balanced'
  BY <1>1 DEF Balanced, queue
<1>3. UNCHANGED <<contacts, taps, releases>>
  BY <1>1 DEF queue, contacts, taps, releases, Contact, TapsOf, UpsOf, IsUp, Live, Rejected
<1>. QED
  BY <1>1, <1>2, <1>3, StutterStep DEF Implements

LEMMA ReadFailsImplements ==
  ASSUME IndInv, Balanced, ReadFails
  PROVE  Balanced' /\ Implements
<1>1. UNCHANGED queue /\ keys' = {} /\ pc' = "exited" /\ pc # "exited"
  BY DEF ReadFails, InWait
<1>2. Balanced'
  BY <1>1 DEF Balanced, queue
<1>3. UNCHANGED <<contacts, taps, releases>>
  BY <1>1 DEF queue, contacts, taps, releases, Contact, TapsOf, UpsOf, IsUp, Live, Rejected
<1>. QED
  BY <1>1, <1>2, <1>3, QuitStep DEF Implements

LEMMA TickImplements ==
  ASSUME IndInv, IndInv', Balanced, Tick
  PROVE  Balanced' /\ Implements
<1>1. /\ pending_events' = AgeEvents(pending_events)
      /\ UNCHANGED <<pc, finger_data, keys>>
  BY DEF Tick, output
<1>2. /\ pending_events \in Seq(Event) /\ pending_events' \in Seq(Event)
      /\ TypeInv /\ TypeInv'
  BY DEF IndInv, TypeInv, TypeOK
<1>3. /\ DOMAIN pending_events' = DOMAIN pending_events
      /\ \A i \in DOMAIN pending_events :
           /\ pending_events'[i].ev_code = pending_events[i].ev_code
           /\ pending_events'[i].is_down = pending_events[i].is_down
           /\ pending_events'[i].tid = pending_events[i].tid
  BY <1>1, <1>2, AgedQueue
<1>. DEFINE L == DOMAIN finger_data
<1>. HIDE DEF L
<1>4. /\ \A c : \A i : /\ TapsIn(pending_events', L, c, i) = TapsIn(pending_events, L, c, i)
                       /\ UpsIn(pending_events', c, i) = UpsIn(pending_events, c, i)
      /\ Balance(pending_events, L) => Balance(pending_events', L)
  BY <1>2, <1>3, SameQueue
<1>5. Balanced'
  BY <1>1, <1>4 DEF Balanced, L
<1>6. UNCHANGED <<taps, releases>>
  BY <1>1, <1>2, <1>4, SameTaps, SameReleases DEF L
<1>7. \A t \in Tids : Keeps(t)
  BY <1>1, <1>3 DEF Keeps, EventsOf
<1>. QED
  BY <1>1, <1>5, <1>6, <1>7, KeptContacts, StutterStep DEF Implements

LEMMA TrackImplements ==
  ASSUME IndInv, IndInv', Balanced, NEW tid \in Tids, TrackFinger(tid)
  PROVE  Balanced' /\ Implements
<1>. DEFINE d == Updated(tid, "kNotRejectedYet")
<1>1. /\ tid \in todo /\ Live(tid) /\ ~Rejected(tid)
      /\ finger_data' = SetFinger(tid, d)
      /\ UNCHANGED <<pc, pending_events, keys>>
  BY DEF TrackFinger, output
<1>2. /\ d \in FingerData
      /\ d.event_code = finger_data[tid].event_code
      /\ d.down_sent = finger_data[tid].down_sent
      /\ d.rejection_status = "kNotRejectedYet"
  BY <1>1, UpdatedType, RejectionTypes DEF IndInv, TypeInv
<1>. HIDE DEF d
<1>3. /\ DOMAIN finger_data' = DOMAIN finger_data
      /\ finger_data'[tid] = d
      /\ \A t \in DOMAIN finger_data : t # tid => finger_data'[t] = finger_data[t]
  <2>1. DOMAIN finger_data \cup {tid} = DOMAIN finger_data
    BY <1>1 DEF Live
  <2>. QED
    BY <1>1, <1>2, <2>1, SetFingerType DEF IndInv, TypeInv
<1>4. Balanced'
  BY <1>1, <1>3 DEF Balanced
<1>5. \A t \in Tids : Keeps(t)
  BY <1>1, <1>2, <1>3 DEF Keeps, Rejected
<1>6. UNCHANGED <<taps, releases>>
  BY <1>1, <1>3, SameTaps, SameReleases DEF IndInv
<1>. QED
  BY <1>1, <1>4, <1>5, <1>6, KeptContacts, StutterStep DEF Implements

LEMMA ForgetImplements ==
  ASSUME IndInv, IndInv', Balanced, NEW tid \in Tids, ForgetRejected(tid)
  PROVE  Balanced' /\ Implements
<1>. DEFINE L == DOMAIN finger_data
            M == DOMAIN finger_data'
<1>1. /\ pc = "process" /\ Rejected(tid) /\ Live(tid)
      /\ finger_data' = Restrict(finger_data, DOMAIN finger_data \ {tid})
      /\ UNCHANGED <<pc, pending_events, keys>>
  BY DEF ForgetRejected, Leaving, Live, output
<1>2. /\ M = L \ {tid}
      /\ \A t \in M : finger_data'[t] = finger_data[t]
  BY <1>1, RestrictType DEF IndInv
<1>3. pending_events \in Seq(Event) /\ TypeInv /\ TypeInv'
  BY DEF IndInv, TypeInv, TypeOK
<1>4. \A i \in DOMAIN pending_events : pending_events[i].tid # tid
  BY <1>1 DEF IndInv, QueueInv, LiveEvents
<1>5. SameOwners(pending_events, L, M)
  BY <1>2, <1>4 DEF SameOwners
<1>. HIDE DEF L, M
<1>6. /\ \A c : \A i : TapsIn(pending_events, M, c, i) = TapsIn(pending_events, L, c, i)
      /\ Balance(pending_events, L) => Balance(pending_events, M)
  BY <1>3, <1>5, SameFingers
<1>7. Balanced'
  BY <1>1, <1>6 DEF Balanced, L, M
<1>8. UNCHANGED <<taps, releases>>
  BY <1>1, <1>3, <1>6, SameTaps, SameReleases DEF L, M
<1>9. \A t \in Tids : t # tid => Keeps(t)
  BY <1>1, <1>2 DEF Keeps, L, M
<1>10. Contact(tid)' = Abstract!Away
  BY <1>2 DEF Contact, Live, Abstract!Away, M
<1>11. Becomes(tid, Abstract!Away)
  BY <1>9, <1>10, NewContact
<1>12. contacts[tid] = Abstract!Ignored
  BY <1>1 DEF contacts, Contact, Abstract!Ignored
<1>. QED
  BY <1>1, <1>7, <1>8, <1>11, <1>12, LiftIgnoredStep DEF Implements

LEMMA ArriveImplements ==
  ASSUME IndInv, IndInv', Balanced, NEW tid \in Tids, ArriveFinger(tid)
  PROVE  Balanced' /\ Implements
<1>. DEFINE key == KeyAt(snap[tid].pos)
            code == IF key = kNoKey THEN 0 ELSE CodeFor(key)
            status == IF key = kNoKey THEN "kRejectTouchdownOffKey"
                      ELSE "kNotRejectedYet"
            d == [max_pressure |-> snap[tid].p,
                  max_touch_major |-> snap[tid].touch_major,
                  starting_key_number |-> key, event_code |-> code,
                  down_sent |-> FALSE, rejection_status |-> status]
            ev == DownEvent(code, tid)
            q == pending_events
            L == DOMAIN finger_data
            M == DOMAIN finger_data'
<1>1. /\ pc = "process" /\ tid \in todo /\ ~Live(tid)
      /\ UNCHANGED <<pc, keys>>
      /\ finger_data' = SetFinger(tid, d)
      /\ pending_events' = IF key = kNoKey THEN q ELSE EnqueueEvent(q, ev)
  BY DEF ArriveFinger, output
<1>2. /\ key \in Keys \cup {kNoKey} /\ code \in Codes \cup {0}
      /\ key # kNoKey => code \in Codes
  BY LayoutFacts
<1>3. /\ status \in RejectionStatus
      /\ status = "kNotRejectedYet" <=> key # kNoKey
  BY RejectionTypes
<1>4. snap[tid].p \in Int /\ snap[tid].touch_major \in Int
  BY <1>1, SnapFacts DEF IndInv, TypeInv
<1>. HIDE DEF key, code, status
<1>5. d \in FingerData
  BY <1>2, <1>3, <1>4 DEF FingerData
<1>6. d.rejection_status = status /\ d.event_code = code /\ ~d.down_sent
  OBVIOUS
<1>7. ev.is_down /\ ev.tid = tid /\ ev.ev_code = code /\ ev.due = kEventDelay
  BY DEF DownEvent
<1>71. key # kNoKey => ev \in Event
  BY <1>2, NewEvents
<1>. HIDE DEF d, ev
<1>8. /\ M = L \cup {tid}
      /\ finger_data'[tid] = d
      /\ \A t \in L : t # tid => finger_data'[t] = finger_data[t]
  BY <1>1, <1>5, SetFingerType DEF IndInv, TypeInv
<1>9. q \in Seq(Event) /\ TypeInv /\ TypeInv'
  BY DEF IndInv, TypeInv, TypeOK
<1>10. \A i \in DOMAIN q : q[i].tid # tid
  BY <1>1 DEF IndInv, QueueInv, ArrivalsAreFresh
<1>11. SameOwners(q, L, M)
  BY <1>8, <1>10 DEF SameOwners
<1>12. contacts[tid] = Abstract!Away
  BY <1>1 DEF contacts, Contact, Abstract!Away
<1>13. tid \notin L /\ Balance(q, L)
  BY <1>1 DEF Live, Balanced
<1>. HIDE DEF L, M
<1>14. /\ \A c : \A i : TapsIn(q, M, c, i) = TapsIn(q, L, c, i)
       /\ Balance(q, M)
  BY <1>9, <1>11, <1>13, SameFingers
<1>15. CASE key = kNoKey
  <2>1. pending_events' = q
    BY <1>1, <1>15
  <2>2. Balanced'
    BY <1>14, <2>1 DEF Balanced, M
  <2>3. UNCHANGED <<taps, releases>>
    BY <1>9, <1>14, <2>1, SameTaps, SameReleases DEF L, M
  <2>4. \A t \in Tids : t # tid => Keeps(t)
    BY <1>8, <2>1 DEF Keeps, L, M
  <2>5. Contact(tid)' = Abstract!Ignored
    BY <1>3, <1>6, <1>8, <1>15 DEF Contact, Live, Rejected, Abstract!Ignored, M
  <2>. QED
    BY <1>1, <1>12, <2>2, <2>3, <2>4, <2>5, NewContact, LandBesideStep DEF Implements
<1>16. CASE key # kNoKey
  <2>1. pending_events' = Append(q, ev) /\ ev \in Event
    BY <1>1, <1>7, <1>71, <1>9, <1>16, EnqueueAppends
  <2>2. /\ \A c : \A i : /\ TapsIn(pending_events', M, c, i) = TapsIn(q, M, c, i)
                         /\ UpsIn(pending_events', c, i) = UpsIn(q, c, i)
        /\ Balance(pending_events', M)
    <3>1. ev.is_down /\ ev.tid \in M
      BY <1>7, <1>8
    <3>. QED
      BY <1>9, <1>14, <2>1, <3>1, DownAppended
  <2>3. Balanced'
    BY <2>2 DEF Balanced, M
  <2>4. UNCHANGED <<taps, releases>>
    BY <1>9, <1>14, <2>2, SameTaps, SameReleases DEF L, M
  <2>5. /\ DOMAIN pending_events' = DOMAIN q \cup {Len(q) + 1}
        /\ pending_events'[Len(q) + 1] = ev
        /\ \A i \in DOMAIN q : pending_events'[i] = q[i]
    BY <1>9, <2>1, AppendShape
  <2>6. \A t \in Tids : t # tid => Keeps(t)
    BY <1>7, <1>8, <2>5 DEF Keeps, EventsOf, L, M
  <2>7. Contact(tid)' = Abstract!At("undecided", code)
    <3>1. EventsOf(pending_events', tid) # {}
      BY <1>7, <2>5 DEF EventsOf
    <3>. QED
      BY <1>3, <1>6, <1>8, <1>16, <3>1 DEF Contact, Live, Rejected, Abstract!At, M, EventsOf
  <2>8. Becomes(tid, Abstract!At("undecided", code))
    BY <2>6, <2>7, NewContact
  <2>. QED
    BY <1>1, <1>2, <1>12, <1>16, <2>3, <2>4, <2>8, LandStep DEF Implements
<1>. QED
  BY <1>15, <1>16
\* One key-up more covers one tap more.
LEMMA UpBalances ==
  ASSUME NEW q \in Seq(Event), NEW ev \in Event, ~ev.is_down, NEW L, NEW M, Balance(q, L),
         \A c : \A i : c # ev.ev_code => TapsIn(q, M, c, i) = TapsIn(q, L, c, i),
         \A i : \/ Cardinality(TapsIn(q, M, ev.ev_code, i)) = Cardinality(TapsIn(q, L, ev.ev_code, i))
                \/ Cardinality(TapsIn(q, M, ev.ev_code, i)) =
                     Cardinality(TapsIn(q, L, ev.ev_code, i)) + 1
  PROVE  Balance(Append(q, ev), M)
<1>. DEFINE r == Append(q, ev)
<1>1. r \in Seq(Event) /\ Len(r) = Len(q) + 1 /\ Len(q) \in Nat
  OBVIOUS
<1>2. /\ \A c : \A i : TapsIn(r, M, c, i) = TapsIn(q, M, c, i)
      /\ \A c : \A i \in 1 .. Len(q) + 1 :
           Cardinality(UpsIn(r, c, i)) =
             Cardinality(UpsIn(q, c, i)) + (IF c = ev.ev_code THEN 1 ELSE 0)
  BY UpAppended
<1>. HIDE DEF r
<1>. SUFFICES ASSUME NEW c \in Codes, NEW i \in 1 .. Len(r) + 1
              PROVE  Cardinality(TapsIn(r, M, c, i)) <= Cardinality(UpsIn(r, c, i))
  BY DEF r, Balance
<1>3. CASE i = Len(r) + 1
  BY <1>1, <1>3, NothingBeyond
<1>4. CASE i # Len(r) + 1
  <2>1. i \in 1 .. Len(q) + 1
    BY <1>1, <1>4
  <2>2. Cardinality(TapsIn(q, L, c, i)) <= Cardinality(UpsIn(q, c, i))
    BY <2>1 DEF Balance
  <2>3. Cardinality(TapsIn(q, L, c, i)) \in Nat /\ Cardinality(UpsIn(q, c, i)) \in Nat
    <3>1. TapsIn(q, L, c, i) \subseteq DOMAIN q /\ UpsIn(q, c, i) \subseteq DOMAIN q
      BY DEF TapsIn, UpsIn
    <3>. QED
      BY <3>1, Positions
  <2>4. /\ TapsIn(r, M, c, i) = TapsIn(q, M, c, i)
        /\ Cardinality(UpsIn(r, c, i)) =
             Cardinality(UpsIn(q, c, i)) + (IF c = ev.ev_code THEN 1 ELSE 0)
    BY <1>2, <2>1
  <2>5. CASE c = ev.ev_code
    <3>1. \/ Cardinality(TapsIn(q, M, c, i)) = Cardinality(TapsIn(q, L, c, i))
          \/ Cardinality(TapsIn(q, M, c, i)) = Cardinality(TapsIn(q, L, c, i)) + 1
      BY <2>5
    <3>. QED
      BY <2>2, <2>3, <2>4, <2>5, <3>1
  <2>6. CASE c # ev.ev_code
    <3>1. TapsIn(q, M, c, i) = TapsIn(q, L, c, i)
      BY <2>6
    <3>. QED
      BY <2>2, <2>3, <2>4, <2>6, <3>1
  <2>. QED
    BY <2>5, <2>6
<1>. QED
  BY <1>3, <1>4

\* What a finger that stands for a key is to Keystrokes.
StageOf(tid) == IF finger_data[tid].down_sent THEN "pressed"
                ELSE IF EventsOf(pending_events, tid) # {} THEN "undecided" ELSE "dropped"

LEMMA StandingContact ==
  ASSUME NEW tid \in Tids, Live(tid), ~Rejected(tid)
  PROVE  /\ contacts[tid] = Abstract!At(StageOf(tid), finger_data[tid].event_code)
         /\ StageOf(tid) \in Abstract!Stages
<1>1. Contact(tid) = Abstract!At(StageOf(tid), finger_data[tid].event_code)
  BY DEF Contact, StageOf, Abstract!At
<1>2. StageOf(tid) \in Abstract!Stages
  BY DEF StageOf, Abstract!Stages
<1>. QED
  BY <1>1, <1>2 DEF contacts

\* A finger on its key has no event but the key-down it waits for, and none once
\* that was sent.
LEMMA StandingEvents ==
  ASSUME IndInv, NEW tid \in Tids, Live(tid), ~Rejected(tid)
  PROVE  /\ finger_data[tid].event_code \in Codes
         /\ \A j \in EventsOf(pending_events, tid) :
              /\ pending_events[j].is_down /\ ~finger_data[tid].down_sent
              /\ pending_events[j].ev_code = finger_data[tid].event_code
         /\ \A j, k \in EventsOf(pending_events, tid) : j = k
<1>1. finger_data[tid].event_code \in Codes
  BY DEF IndInv, TypeInv, FingersOnKeys, Live
<1>2. \A j \in EventsOf(pending_events, tid) :
        /\ pending_events[j].is_down /\ ~finger_data[tid].down_sent
        /\ pending_events[j].ev_code = finger_data[tid].event_code
  BY TidsAssumption DEF IndInv, QueueInv, OwnersKnown, LiveEvents, EventsOf
<1>3. \A j, k \in EventsOf(pending_events, tid) : j = k
  BY TidsAssumption DEF IndInv, QueueInv, OneEventPerFinger, EventsOf
<1>. QED
  BY <1>1, <1>2, <1>3

LEMMA MoveOffImplements ==
  ASSUME IndInv, IndInv', Balanced, NEW tid \in Tids, MoveOffKey(tid)
  PROVE  Balanced' /\ Implements
<1>. DEFINE old == finger_data[tid]
            d == Updated(tid, "kRejectMovedOffKey")
            q == pending_events
            left == EraseTid(q, tid)
            up == UpEvent(old.event_code)
            L == DOMAIN finger_data
<1>1. /\ pc = "process" /\ tid \in todo /\ Live(tid) /\ ~Rejected(tid)
      /\ finger_data' = SetFinger(tid, d)
      /\ UNCHANGED <<pc, keys>>
      /\ pending_events' = IF old.down_sent THEN EnqueueEvent(left, up) ELSE left
  BY DEF MoveOffKey, output
<1>2. q \in Seq(Event) /\ TypeInv /\ TypeInv'
  BY DEF IndInv, TypeInv, TypeOK
<1>3. d \in FingerData /\ d.rejection_status = "kRejectMovedOffKey"
  BY <1>1, UpdatedType, RejectionTypes DEF IndInv, TypeInv
<1>. HIDE DEF d
<1>4. /\ DOMAIN finger_data' = L /\ tid \in L
      /\ finger_data'[tid] = d
      /\ \A t \in L : t # tid => finger_data'[t] = finger_data[t]
  <2>1. L \cup {tid} = L /\ tid \in L
    BY <1>1 DEF Live
  <2>. QED
    BY <1>1, <1>3, <2>1, SetFingerType DEF IndInv, TypeInv
<1>5. /\ old.event_code \in Codes
      /\ \A j \in EventsOf(q, tid) : q[j].is_down /\ ~old.down_sent
  BY <1>1, StandingEvents
<1>6. /\ ~up.is_down /\ up.tid = kOldTID /\ up.ev_code = old.event_code /\ up \in Event
  BY <1>5, NewEvents DEF UpEvent
<1>. DEFINE stage == StageOf(tid)
<1>7. /\ contacts[tid] = Abstract!At(stage, old.event_code)
      /\ stage \in Abstract!Stages /\ (stage = "pressed" <=> old.down_sent)
  BY <1>1, StandingContact DEF StageOf
<1>8. Contact(tid)' = Abstract!Ignored
  BY <1>3, <1>4 DEF Contact, Live, Rejected, Abstract!Ignored
<1>9. Balance(q, L)
  BY DEF Balanced
<1>. HIDE DEF L, stage
<1>10. /\ left \in Seq(Event)
       /\ \A c : /\ Cardinality(TapsIn(left, L, c, 1)) = Cardinality(TapsIn(q, L, c, 1))
                 /\ Cardinality(UpsIn(left, c, 1)) = Cardinality(UpsIn(q, c, 1))
       /\ Balance(left, L)
  BY <1>2, <1>4, <1>5, <1>9, ErasedOwesTheSame
<1>11. PICK pos \in [DOMAIN left -> DOMAIN q] :
         /\ \A j \in DOMAIN left : left[j] = q[pos[j]] /\ q[pos[j]].tid # tid
         /\ \A j, k \in DOMAIN left : j < k => pos[j] < pos[k]
         /\ \A i \in DOMAIN q : q[i].tid # tid => \E j \in DOMAIN left : pos[j] = i
  BY <1>2, EraseKeeps
<1>12. \A t : t # tid => (EventsOf(left, t) = {} <=> EventsOf(q, t) = {})
  BY <1>11 DEF EventsOf
<1>. HIDE DEF left, up, old
<1>13. CASE ~old.down_sent
  <2>1. pending_events' = left
    BY <1>1, <1>13
  <2>2. Balanced'
    BY <1>4, <1>10, <2>1 DEF Balanced
  <2>3. UNCHANGED <<taps, releases>>
    BY <1>2, <1>4, <1>10, <2>1, SameTaps, SameReleases DEF L
  <2>4. \A t \in Tids : t # tid => Keeps(t)
    BY <1>4, <1>12, <2>1 DEF Keeps, L
  <2>5. Becomes(tid, Abstract!Ignored)
    BY <1>8, <2>4, NewContact
  <2>. QED
    BY <1>1, <1>5, <1>7, <1>13, <2>2, <2>3, <2>5, SlideOffStep DEF Implements
<1>14. CASE old.down_sent
  <2>1. pending_events' = Append(left, up)
    BY <1>1, <1>5, <1>10, <1>14, EnqueueUp DEF up
  <2>2. /\ \A c : \A i : TapsIn(pending_events', L, c, i) = TapsIn(left, L, c, i)
        /\ \A c : \A i \in 1 .. Len(left) + 1 :
             Cardinality(UpsIn(pending_events', c, i)) =
               Cardinality(UpsIn(left, c, i)) + (IF c = up.ev_code THEN 1 ELSE 0)
    BY <1>6, <1>10, <2>1, UpAppended
  <2>3. Balanced'
    <3>1. Balance(Append(left, up), L)
      BY <1>6, <1>10, UpBalances
    <3>. QED
      BY <1>4, <2>1, <3>1 DEF Balanced
  <2>4. 1 \in 1 .. Len(left) + 1
    BY <1>10
  <2>5. UNCHANGED taps
    BY <1>2, <1>4, <1>10, <2>2, SameTaps DEF L
  <2>6. \A c : Cardinality(UpsIn(q, c, 1)) \in Nat
    <3>1. \A c : UpsIn(q, c, 1) \subseteq DOMAIN q
      BY DEF UpsIn
    <3>. QED
      BY <1>2, <3>1, Positions
  <2>7. \A c : Cardinality(UpsIn(pending_events', c, 1)) =
                 Cardinality(UpsIn(q, c, 1)) + (IF c = old.event_code THEN 1 ELSE 0)
    BY <1>6, <1>10, <2>2, <2>4
  <2>8. Owes(releases, releases', old.event_code, 1)
    <3>1. \A c : c # old.event_code => Cardinality(UpsIn(pending_events', c, 1)) =
                                         Cardinality(UpsIn(q, c, 1))
      BY <2>6, <2>7
    <3>2. Cardinality(UpsIn(pending_events', old.event_code, 1)) =
            Cardinality(UpsIn(q, old.event_code, 1)) + 1
      BY <2>7
    <3>. QED
      BY <1>2, <1>5, <3>1, <3>2, ReleaseOwed
  <2>9. /\ \A i \in DOMAIN left : i \in DOMAIN pending_events' /\ pending_events'[i] = left[i]
        /\ \A i \in DOMAIN pending_events' : i \in DOMAIN left \/ pending_events'[i] = up
    BY <1>10, <2>1, AppendShape
  <2>10. ASSUME NEW t \in Tids, t # tid
         PROVE  Keeps(t)
    <3>1. up.tid # t
      BY <1>6, TidsAssumption
    <3>2. EventsOf(pending_events', t) = {} <=> EventsOf(left, t) = {}
      BY <2>9, <3>1 DEF EventsOf
    <3>. QED
      BY <1>4, <1>12, <2>10, <3>2 DEF Keeps, L
  <2>11. Becomes(tid, Abstract!Ignored)
    BY <1>8, <2>10, NewContact
  <2>. QED
    BY <1>1, <1>5, <1>7, <1>14, <2>3, <2>5, <2>8, <2>11, SlideOffStep DEF Implements
<1>. QED
  BY <1>13, <1>14
LEMMA LeaveImplements ==
  ASSUME IndInv, IndInv', Balanced, NEW tid \in Tids, LeaveFinger(tid)
  PROVE  Balanced' /\ Implements
<1>. DEFINE d == finger_data[tid]
            q == pending_events
            marked == IF d.down_sent THEN q ELSE MarkGuaranteed(q, tid)
            up == UpEvent(d.event_code)
            L == DOMAIN finger_data
            M == DOMAIN finger_data'
<1>1. /\ pc = "process" /\ Live(tid) /\ ~Rejected(tid)
      /\ finger_data' = Restrict(finger_data, DOMAIN finger_data \ {tid})
      /\ UNCHANGED <<pc, keys>>
  BY DEF LeaveFinger, Leaving, Live, output
<1>2. q \in Seq(Event) /\ TypeInv /\ TypeInv'
  BY DEF IndInv, TypeInv, TypeOK
<1>3. /\ d.event_code \in Codes
      /\ \A j \in EventsOf(q, tid) : q[j].is_down /\ ~d.down_sent /\ q[j].ev_code = d.event_code
      /\ \A j, k \in EventsOf(q, tid) : j = k
  BY <1>1, StandingEvents
<1>4. pending_events' = EnqueueEvent(marked, up)
  BY <1>3 DEF LeaveFinger
<1>5. /\ marked \in Seq(Event) /\ DOMAIN marked = DOMAIN q
      /\ \A i \in DOMAIN q : /\ marked[i].ev_code = q[i].ev_code
                             /\ marked[i].is_down = q[i].is_down
                             /\ marked[i].tid = q[i].tid
  BY <1>2, MarkedQueue
<1>6. /\ ~up.is_down /\ up.tid = kOldTID /\ up.ev_code = d.event_code /\ up \in Event
  BY <1>3, NewEvents DEF UpEvent
<1>7. /\ M = L \ {tid} /\ tid \in L
      /\ \A t \in M : finger_data'[t] = finger_data[t]
  BY <1>1, RestrictType DEF IndInv, Live
<1>. DEFINE stage == StageOf(tid)
<1>8. /\ contacts[tid] = Abstract!At(stage, d.event_code)
      /\ stage \in Abstract!Stages
      /\ stage = "undecided" <=> EventsOf(q, tid) # {}
  BY <1>1, <1>3, StandingContact DEF StageOf
<1>9. Contact(tid)' = Abstract!Away
  BY <1>7 DEF Contact, Live, Abstract!Away
<1>10. Balance(q, L)
  BY DEF Balanced
<1>. HIDE DEF L, M, stage, marked
<1>11. pending_events' = Append(marked, up)
  BY <1>3, <1>4, <1>5, EnqueueUp
<1>. HIDE DEF up, d
\* The mark is not counted, and the departure is before the key-up is.
<1>12. /\ \A c : \A i : c # d.event_code => TapsIn(q, M, c, i) = TapsIn(q, L, c, i)
       /\ \A i : \/ Cardinality(TapsIn(q, M, d.event_code, i)) =
                      Cardinality(TapsIn(q, L, d.event_code, i))
                 \/ Cardinality(TapsIn(q, M, d.event_code, i)) =
                      Cardinality(TapsIn(q, L, d.event_code, i)) + 1
       /\ Cardinality(TapsIn(q, M, d.event_code, 1)) =
            Cardinality(TapsIn(q, L, d.event_code, 1)) + (IF EventsOf(q, tid) # {} THEN 1 ELSE 0)
  <2>1. /\ \A j \in EventsOf(q, tid) : q[j].is_down /\ q[j].ev_code = d.event_code
        /\ AtMostOne(EventsOf(q, tid))
    BY <1>3 DEF AtMostOne
  <2>2. /\ \A c : \A i : c # d.event_code => TapsIn(q, L \ {tid}, c, i) = TapsIn(q, L, c, i)
        /\ \A i : \/ Cardinality(TapsIn(q, L \ {tid}, d.event_code, i)) =
                       Cardinality(TapsIn(q, L, d.event_code, i))
                  \/ Cardinality(TapsIn(q, L \ {tid}, d.event_code, i)) =
                       Cardinality(TapsIn(q, L, d.event_code, i)) + 1
        /\ Cardinality(TapsIn(q, L \ {tid}, d.event_code, 1)) =
             Cardinality(TapsIn(q, L, d.event_code, 1)) + (IF EventsOf(q, tid) # {} THEN 1 ELSE 0)
    BY <1>2, <1>7, <2>1, TapLeftBehind, Zenon
  <2>. QED
    BY <1>7, <2>2
<1>13. \A K : /\ \A c : \A i : /\ TapsIn(marked, K, c, i) = TapsIn(q, K, c, i)
                               /\ UpsIn(marked, c, i) = UpsIn(q, c, i)
              /\ Balance(q, K) => Balance(marked, K)
  BY <1>2, <1>5, SameQueue
<1>14. Balanced'
  <2>1. /\ \A c : \A i : c # up.ev_code => TapsIn(marked, M, c, i) = TapsIn(marked, L, c, i)
        /\ \A i : \/ Cardinality(TapsIn(marked, M, up.ev_code, i)) =
                       Cardinality(TapsIn(marked, L, up.ev_code, i))
                  \/ Cardinality(TapsIn(marked, M, up.ev_code, i)) =
                       Cardinality(TapsIn(marked, L, up.ev_code, i)) + 1
    BY <1>6, <1>12, <1>13
  <2>2. Balance(marked, L)
    BY <1>10, <1>13
  <2>3. Balance(Append(marked, up), M)
    BY <1>5, <1>6, <2>1, <2>2, UpBalances
  <2>. QED
    BY <1>11, <2>3 DEF Balanced, M
<1>15. /\ \A c : \A i : TapsIn(pending_events', M, c, i) = TapsIn(q, M, c, i)
       /\ \A c : Cardinality(UpsIn(pending_events', c, 1)) =
                   Cardinality(UpsIn(q, c, 1)) + (IF c = up.ev_code THEN 1 ELSE 0)
  <2>1. /\ \A c : \A i : TapsIn(pending_events', M, c, i) = TapsIn(marked, M, c, i)
        /\ \A c : \A i \in 1 .. Len(marked) + 1 :
             Cardinality(UpsIn(pending_events', c, i)) =
               Cardinality(UpsIn(marked, c, i)) + (IF c = up.ev_code THEN 1 ELSE 0)
    BY <1>5, <1>6, <1>11, UpAppended
  <2>2. 1 \in 1 .. Len(marked) + 1
    BY <1>5
  <2>. QED
    BY <1>13, <2>1, <2>2
<1>16. \A c : Cardinality(UpsIn(q, c, 1)) \in Nat /\ Cardinality(TapsIn(q, L, c, 1)) \in Nat
  <2>1. \A c : UpsIn(q, c, 1) \subseteq DOMAIN q /\ TapsIn(q, L, c, 1) \subseteq DOMAIN q
    BY DEF UpsIn, TapsIn
  <2>. QED
    BY <1>2, <2>1, Positions
<1>17. Owes(releases, releases', d.event_code, 1)
  <2>1. \A c : c # d.event_code => Cardinality(UpsIn(pending_events', c, 1)) =
                                     Cardinality(UpsIn(q, c, 1))
    BY <1>6, <1>15, <1>16
  <2>2. Cardinality(UpsIn(pending_events', d.event_code, 1)) =
          Cardinality(UpsIn(q, d.event_code, 1)) + 1
    BY <1>6, <1>15
  <2>. QED
    BY <1>2, <1>3, <2>1, <2>2, ReleaseOwed
<1>18. IF stage = "undecided" THEN Owes(taps, taps', d.event_code, 1) ELSE UNCHANGED taps
  <2>1. \A c : c # d.event_code =>
                 Cardinality(TapsIn(pending_events', DOMAIN finger_data', c, 1)) =
                   Cardinality(TapsIn(q, DOMAIN finger_data, c, 1))
    BY <1>12, <1>15 DEF L, M
  <2>2. Cardinality(TapsIn(pending_events', DOMAIN finger_data', d.event_code, 1)) =
          Cardinality(TapsIn(q, DOMAIN finger_data, d.event_code, 1)) +
            (IF EventsOf(q, tid) # {} THEN 1 ELSE 0)
    BY <1>12, <1>15 DEF L, M
  <2>3. CASE EventsOf(q, tid) # {}
    BY <1>2, <1>3, <1>8, <2>1, <2>2, <2>3, TapOwed
  <2>4. CASE EventsOf(q, tid) = {}
    <3>1. Cardinality(TapsIn(pending_events', DOMAIN finger_data', d.event_code, 1)) =
            Cardinality(TapsIn(q, DOMAIN finger_data, d.event_code, 1))
      BY <1>16, <2>2, <2>4 DEF L
    <3>2. UNCHANGED taps
      BY <1>2, <2>1, <3>1, SameTaps
    <3>. QED
      BY <1>8, <2>4, <3>2
  <2>. QED
    BY <2>3, <2>4
<1>19. /\ \A i \in DOMAIN q : i \in DOMAIN pending_events' /\ pending_events'[i] = marked[i]
       /\ \A i \in DOMAIN pending_events' : i \in DOMAIN q \/ pending_events'[i] = up
  BY <1>5, <1>11, AppendShape
<1>20. ASSUME NEW t \in Tids, t # tid
       PROVE  Keeps(t)
  <2>1. up.tid # t
    BY <1>6, TidsAssumption
  <2>2. EventsOf(pending_events', t) = {} <=> EventsOf(q, t) = {}
    BY <1>5, <1>19, <2>1 DEF EventsOf
  <2>. QED
    BY <1>7, <1>20, <2>2 DEF Keeps, L, M
<1>21. Becomes(tid, Abstract!Away)
  BY <1>9, <1>20, NewContact
<1>. QED
  BY <1>1, <1>3, <1>8, <1>14, <1>17, <1>18, <1>21, LiftStep DEF Implements
\* The head of the queue goes, for a drop or for the sending of a key.
LEMMA FiredHead ==
  ASSUME IndInv, Balanced, pending_events # <<>>, pending_events' = Tail(pending_events),
         NEW ev, ev = pending_events[1]
  PROVE  LET q == pending_events
             L == DOMAIN finger_data
         IN  /\ ev = NextEvent /\ ev.ev_code \in Codes /\ ev.is_down \in BOOLEAN
             /\ ev.is_down => ev.tid \in Tids
             /\ ev.tid \in Tids => /\ ev.is_down
                                   /\ EventsOf(q, ev.tid) # {} /\ EventsOf(q', ev.tid) = {}
             /\ ev.tid \in L =>
                  /\ ~Rejected(ev.tid) /\ ~finger_data[ev.tid].down_sent
                  /\ finger_data[ev.tid].event_code = ev.ev_code
             /\ \A t : t # ev.tid => (EventsOf(q', t) = {} <=> EventsOf(q, t) = {})
             /\ \A c : Cardinality(TapsIn(q, L, c, 1)) =
                         Cardinality(TapsIn(q', L, c, 1)) +
                           (IF ev.is_down /\ ev.ev_code = c /\ ev.tid \notin L THEN 1 ELSE 0)
             /\ \A c : Cardinality(UpsIn(q, c, 1)) =
                         Cardinality(UpsIn(q', c, 1)) +
                           (IF ~ev.is_down /\ ev.ev_code = c THEN 1 ELSE 0)
             /\ \A c : /\ Cardinality(TapsIn(q', L, c, 1)) \in Nat
                       /\ Cardinality(UpsIn(q', c, 1)) \in Nat
             /\ Balance(q', L)
<1>. DEFINE q == pending_events
            r == Tail(q)
            L == DOMAIN finger_data
<1>1. q \in Seq(Event) /\ Balance(q, L) /\ L \subseteq Tids
  BY DEF IndInv, TypeInv, TypeOK, Balanced
<1>2. /\ ev = NextEvent /\ 1 \in DOMAIN q /\ ev \in Event
      /\ DOMAIN q = 1 .. Len(q) /\ DOMAIN r = 1 .. Len(q) - 1 /\ Len(q) \in Nat
      /\ \A i \in DOMAIN r : r[i] = q[i + 1]
  BY <1>1, HeadAndTail DEF NextEvent
<1>3. ev.ev_code \in Codes /\ ev.is_down \in BOOLEAN
  BY <1>2 DEF Event
<1>4. /\ ev.is_down => ev.tid \in Tids
      /\ ev.tid \in Tids => ev.is_down
  BY <1>2, TidsAssumption DEF IndInv, QueueInv, OwnersKnown
<1>5. ev.tid \in L => /\ ~Rejected(ev.tid) /\ ~finger_data[ev.tid].down_sent
                      /\ finger_data[ev.tid].event_code = ev.ev_code
  BY <1>2 DEF IndInv, QueueInv, LiveEvents, Live
<1>6. /\ \A j \in DOMAIN r : j + 1 \in DOMAIN q /\ j + 1 # 1
      /\ \A j \in DOMAIN q : j # 1 => j - 1 \in DOMAIN r /\ r[j - 1] = q[j]
  <2>1. \A j \in DOMAIN q : j # 1 => j - 1 \in DOMAIN r /\ (j - 1) + 1 = j
    BY <1>2
  <2>. QED
    BY <1>2, <2>1
<1>7. ASSUME ev.tid \in Tids
      PROVE  EventsOf(q, ev.tid) # {} /\ EventsOf(r, ev.tid) = {}
  <2>1. \A j \in DOMAIN q : j # 1 => q[j].tid # ev.tid
    BY <1>2, <1>7, TidsAssumption DEF IndInv, QueueInv, OneEventPerFinger
  <2>2. 1 \in EventsOf(q, ev.tid)
    BY <1>2 DEF EventsOf
  <2>. QED
    BY <1>2, <1>6, <2>1, <2>2 DEF EventsOf
<1>8. ASSUME NEW t, t # ev.tid
      PROVE  EventsOf(r, t) = {} <=> EventsOf(q, t) = {}
  <2>1. ASSUME NEW j \in EventsOf(q, t)
        PROVE  j - 1 \in EventsOf(r, t)
    <3>1. j \in DOMAIN q /\ q[j].tid = t /\ j # 1
      BY <1>8 DEF EventsOf
    <3>2. j - 1 \in DOMAIN r /\ r[j - 1] = q[j]
      BY <1>6, <3>1
    <3>. QED
      BY <3>1, <3>2 DEF EventsOf
  <2>2. ASSUME NEW j \in EventsOf(r, t)
        PROVE  j + 1 \in EventsOf(q, t)
    <3>1. j \in DOMAIN r /\ r[j].tid = t
      BY DEF EventsOf
    <3>2. j + 1 \in DOMAIN q /\ q[j + 1] = r[j]
      BY <1>2, <1>6, <3>1
    <3>. QED
      BY <3>1, <3>2 DEF EventsOf
  <2>. QED
    BY <2>1, <2>2
<1>9. /\ \A c : Cardinality(TapsIn(q, L, c, 1)) =
                  Cardinality(TapsIn(r, L, c, 1)) +
                    (IF q[1].is_down /\ q[1].ev_code = c /\ q[1].tid \notin L THEN 1 ELSE 0)
      /\ \A c : Cardinality(UpsIn(q, c, 1)) =
                  Cardinality(UpsIn(r, c, 1)) +
                    (IF ~q[1].is_down /\ q[1].ev_code = c THEN 1 ELSE 0)
      /\ \A c : Cardinality(TapsIn(r, L, c, 1)) \in Nat /\ Cardinality(UpsIn(r, c, 1)) \in Nat
      /\ Balance(r, L)
  <2>. HIDE DEF L
  <2>. QED
    BY <1>1, HeadGone
<1>. HIDE DEF L
<1>. QED
  BY <1>2, <1>3, <1>4, <1>5, <1>7, <1>8, <1>9 DEF L

LEMMA DropImplements ==
  ASSUME IndInv, IndInv', Balanced, DropTap
  PROVE  Balanced' /\ Implements
<1>0. PICK ev : ev = pending_events[1]
  OBVIOUS
<1>. DEFINE q == pending_events
            L == DOMAIN finger_data
<1>1. /\ pc = "fire" /\ q # <<>> /\ q' = Tail(q)
      /\ UNCHANGED <<pc, finger_data, keys>>
      /\ Live(NextEvent.tid)
  BY DEF DropTap, ReadyToFire, output
<1>2. /\ ev = NextEvent /\ ev.ev_code \in Codes
      /\ ev.tid \in Tids => /\ ev.is_down
                            /\ EventsOf(q, ev.tid) # {} /\ EventsOf(q', ev.tid) = {}
      /\ ev.tid \in L =>
           /\ ~Rejected(ev.tid) /\ ~finger_data[ev.tid].down_sent
           /\ finger_data[ev.tid].event_code = ev.ev_code
      /\ \A t : t # ev.tid => (EventsOf(q', t) = {} <=> EventsOf(q, t) = {})
      /\ \A c : Cardinality(TapsIn(q, L, c, 1)) =
                  Cardinality(TapsIn(q', L, c, 1)) +
                    (IF ev.is_down /\ ev.ev_code = c /\ ev.tid \notin L THEN 1 ELSE 0)
      /\ \A c : Cardinality(UpsIn(q, c, 1)) =
                  Cardinality(UpsIn(q', c, 1)) +
                    (IF ~ev.is_down /\ ev.ev_code = c THEN 1 ELSE 0)
      /\ \A c : /\ Cardinality(TapsIn(q', L, c, 1)) \in Nat
                /\ Cardinality(UpsIn(q', c, 1)) \in Nat
      /\ Balance(q', L)
  BY <1>0, <1>1, FiredHead
<1>3. PICK tid : tid = ev.tid
  OBVIOUS
<1>4. tid \in Tids /\ tid \in DOMAIN finger_data /\ TypeInv /\ TypeInv'
  BY <1>1, <1>2, <1>3 DEF Live, IndInv, TypeInv, TypeOK
<1>5. /\ ~Rejected(tid) /\ ~finger_data[tid].down_sent /\ ev.is_down
      /\ finger_data[tid].event_code = ev.ev_code
      /\ EventsOf(q, tid) # {} /\ EventsOf(q', tid) = {}
  BY <1>2, <1>3, <1>4
<1>6. \A c : /\ Cardinality(TapsIn(q', L, c, 1)) = Cardinality(TapsIn(q, L, c, 1))
             /\ Cardinality(UpsIn(q', c, 1)) = Cardinality(UpsIn(q, c, 1))
  BY <1>2, <1>3, <1>4, <1>5
<1>7. Balanced' /\ UNCHANGED <<taps, releases>>
  BY <1>1, <1>2, <1>4, <1>6, SameTaps, SameReleases DEF Balanced
<1>8. \A t \in Tids : t # tid => Keeps(t)
  BY <1>1, <1>2, <1>3 DEF Keeps
<1>9. Contact(tid)' = Abstract!At("dropped", ev.ev_code)
  BY <1>1, <1>4, <1>5 DEF Contact, Live, Rejected, Abstract!At, EventsOf
<1>10. contacts[tid] = Abstract!At("undecided", ev.ev_code)
  BY <1>4, <1>5 DEF contacts, Contact, Live, Abstract!At
<1>11. Becomes(tid, Abstract!At("dropped", ev.ev_code))
  BY <1>4, <1>8, <1>9, NewContact
<1>. QED
  BY <1>1, <1>2, <1>4, <1>7, <1>10, <1>11, DropStep DEF Implements

LEMMA SendImplements ==
  ASSUME IndInv, IndInv', Balanced, SendKey
  PROVE  Balanced' /\ Implements
<1>0. PICK ev : ev = pending_events[1]
  OBVIOUS
<1>. DEFINE q == pending_events
            L == DOMAIN finger_data
<1>1. /\ pc = "fire" /\ q # <<>> /\ q' = Tail(q) /\ UNCHANGED pc
      /\ keys' = IF NextEvent.is_down THEN keys \cup {NextEvent.ev_code}
                 ELSE keys \ {NextEvent.ev_code}
  BY DEF SendKey, ReadyToFire
<1>2. /\ ev = NextEvent /\ ev.ev_code \in Codes
      /\ ev.is_down => ev.tid \in Tids
      /\ ev.tid \in Tids => /\ ev.is_down
                            /\ EventsOf(q, ev.tid) # {} /\ EventsOf(q', ev.tid) = {}
      /\ ev.tid \in L =>
           /\ ~Rejected(ev.tid) /\ ~finger_data[ev.tid].down_sent
           /\ finger_data[ev.tid].event_code = ev.ev_code
      /\ \A t : t # ev.tid => (EventsOf(q', t) = {} <=> EventsOf(q, t) = {})
      /\ \A c : Cardinality(TapsIn(q, L, c, 1)) =
                  Cardinality(TapsIn(q', L, c, 1)) +
                    (IF ev.is_down /\ ev.ev_code = c /\ ev.tid \notin L THEN 1 ELSE 0)
      /\ \A c : Cardinality(UpsIn(q, c, 1)) =
                  Cardinality(UpsIn(q', c, 1)) +
                    (IF ~ev.is_down /\ ev.ev_code = c THEN 1 ELSE 0)
      /\ \A c : /\ Cardinality(TapsIn(q', L, c, 1)) \in Nat
                /\ Cardinality(UpsIn(q', c, 1)) \in Nat
      /\ Balance(q', L)
  BY <1>0, <1>1, FiredHead
<1>3. PICK tid : tid = ev.tid
  OBVIOUS
<1>4. /\ DOMAIN finger_data' = L
      /\ \A t \in L : /\ finger_data'[t].event_code = finger_data[t].event_code
                      /\ finger_data'[t].rejection_status = finger_data[t].rejection_status
                      /\ IF ev.is_down /\ t = tid
                         THEN finger_data'[t].down_sent = TRUE
                         ELSE finger_data'[t] = finger_data[t]
  BY <1>2, <1>3, SentFinger DEF IndInv
<1>5. TypeInv /\ TypeInv' /\ L \subseteq Tids
  BY DEF IndInv, TypeInv, TypeOK
<1>6. Balanced'
  BY <1>2, <1>4 DEF Balanced
<1>7. \A t \in Tids : t # tid => Keeps(t)
  BY <1>2, <1>3, <1>4 DEF Keeps
<1>8. CASE ev.is_down /\ tid \in L
  <2>1. /\ tid \in Tids /\ ~Rejected(tid) /\ ~finger_data[tid].down_sent
        /\ finger_data[tid].event_code = ev.ev_code /\ EventsOf(q, tid) # {}
    BY <1>2, <1>3, <1>8
  <2>2. Contact(tid)' = Abstract!At("pressed", ev.ev_code)
    BY <1>4, <1>8, <2>1 DEF Contact, Live, Rejected, Abstract!At
  <2>3. contacts[tid] = Abstract!At("undecided", ev.ev_code)
    BY <1>8, <2>1 DEF contacts, Contact, Live, Abstract!At
  <2>4. \A c : /\ Cardinality(TapsIn(q', L, c, 1)) = Cardinality(TapsIn(q, L, c, 1))
               /\ Cardinality(UpsIn(q', c, 1)) = Cardinality(UpsIn(q, c, 1))
    BY <1>2, <1>3, <1>8
  <2>5. UNCHANGED <<taps, releases>>
    BY <1>4, <1>5, <2>4, SameTaps, SameReleases
  <2>6. Becomes(tid, Abstract!At("pressed", ev.ev_code))
    BY <1>7, <2>1, <2>2, NewContact
  <2>7. keys' = keys \cup {ev.ev_code}
    BY <1>1, <1>2, <1>8
  <2>. QED
    BY <1>1, <1>2, <1>6, <2>1, <2>3, <2>5, <2>6, <2>7, PressStep DEF Implements
<1>9. CASE ~(ev.is_down /\ tid \in L)
  <2>1. tid \notin L
    BY <1>2, <1>3, <1>5, <1>9
  <2>2. \A t \in Tids : t = tid => Contact(t)' = Contact(t)
    BY <1>4, <2>1 DEF Contact, Live
  <2>3. UNCHANGED contacts
    BY <1>7, <2>2, KeptContact DEF contacts
  <2>4. CASE ev.is_down
    <3>1. /\ \A c : c # ev.ev_code => Cardinality(TapsIn(q', L, c, 1)) = Cardinality(TapsIn(q, L, c, 1))
          /\ Cardinality(TapsIn(q, L, ev.ev_code, 1)) =
               Cardinality(TapsIn(q', L, ev.ev_code, 1)) + 1
          /\ \A c : Cardinality(UpsIn(q', c, 1)) = Cardinality(UpsIn(q, c, 1))
      BY <1>2, <1>3, <2>1, <2>4
    <3>2. /\ Cardinality(TapsIn(q', L, ev.ev_code, 1)) =
               Cardinality(TapsIn(q, L, ev.ev_code, 1)) + (-1)
          /\ Cardinality(TapsIn(q, L, ev.ev_code, 1)) > 0
      BY <1>2, <3>1
    <3>3. Owes(taps, taps', ev.ev_code, -1)
      BY <1>2, <1>4, <1>5, <3>1, <3>2, TapOwed
    <3>4. UNCHANGED releases
      BY <1>5, <3>1, SameReleases
    <3>5. taps[ev.ev_code] > 0
      BY <1>2, <1>5, <3>2, Debts
    <3>6. keys' = keys \cup {ev.ev_code}
      BY <1>1, <1>2, <2>4
    <3>. QED
      BY <1>1, <1>2, <1>6, <2>3, <3>3, <3>4, <3>5, <3>6, TapStep DEF Implements
  <2>5. CASE ~ev.is_down
    <3>1. /\ \A c : c # ev.ev_code => Cardinality(UpsIn(q', c, 1)) = Cardinality(UpsIn(q, c, 1))
          /\ Cardinality(UpsIn(q, ev.ev_code, 1)) = Cardinality(UpsIn(q', ev.ev_code, 1)) + 1
          /\ \A c : Cardinality(TapsIn(q', L, c, 1)) = Cardinality(TapsIn(q, L, c, 1))
      BY <1>2, <2>5
    <3>2. Cardinality(UpsIn(q', ev.ev_code, 1)) = Cardinality(UpsIn(q, ev.ev_code, 1)) + (-1)
      BY <1>2, <3>1
    <3>3. Owes(releases, releases', ev.ev_code, -1)
      BY <1>2, <1>5, <3>1, <3>2, ReleaseOwed
    <3>4. UNCHANGED taps
      BY <1>4, <1>5, <3>1, SameTaps
    \* The rest of the queue is balanced by itself, so the head is owed to no tap.
    <3>5. releases[ev.ev_code] > taps[ev.ev_code]
      <4>1. 1 \in 1 .. Len(q') + 1
        BY <1>5 DEF TypeInv, TypeOK
      <4>2. Cardinality(TapsIn(q', L, ev.ev_code, 1)) <= Cardinality(UpsIn(q', ev.ev_code, 1))
        BY <1>2, <4>1 DEF Balance
      <4>3. Cardinality(TapsIn(q, L, ev.ev_code, 1)) < Cardinality(UpsIn(q, ev.ev_code, 1))
        BY <1>2, <3>1, <4>2
      <4>. QED
        BY <1>2, <1>5, <4>3, Debts
    <3>6. keys' = keys \ {ev.ev_code}
      BY <1>1, <1>2, <2>5
    <3>. QED
      BY <1>1, <1>2, <1>6, <2>3, <3>3, <3>4, <3>5, <3>6, ReleaseStep DEF Implements
  <2>. QED
    BY <2>4, <2>5
<1>. QED
  BY <1>8, <1>9
LEMMA ImplementsInit == Init => Balanced /\ Abstract!Init
<1>. SUFFICES ASSUME Init
              PROVE  Balanced /\ Abstract!Init
  OBVIOUS
<1>1. /\ pending_events = <<>> /\ finger_data = NoFingers /\ pc = "top" /\ keys = {}
  BY DEF Init
<1>2. \A L : \A c : \A i : TapsIn(<<>>, L, c, i) = {} /\ UpsIn(<<>>, c, i) = {}
  BY DEF TapsIn, UpsIn
<1>3. Cardinality({}) = 0
  BY FS_EmptySet
<1>4. Balanced
  <2>1. ASSUME NEW L, NEW c, NEW i
        PROVE  Cardinality(TapsIn(<<>>, L, c, i)) <= Cardinality(UpsIn(<<>>, c, i))
    <3>1. TapsIn(<<>>, L, c, i) = {} /\ UpsIn(<<>>, c, i) = {}
      BY <1>2
    <3>2. Cardinality({}) <= Cardinality({})
      BY <1>3
    <3>. QED
      BY <3>1, <3>2
  <2>. QED
    BY <1>1, <2>1 DEF Balanced, Balance
<1>5. \A c : TapsOf(c) = {} /\ UpsOf(c) = {}
  BY <1>1 DEF TapsOf, UpsOf
<1>6. \A t : Contact(t) = Abstract!Away
  BY <1>1 DEF Contact, Live, NoFingers, Abstract!Away
<1>. QED
  BY <1>1, <1>3, <1>4, <1>5, <1>6 DEF Abstract!Init

LEMMA ImplementsStep ==
  ASSUME IndInv, IndInv', Balanced, [Next]_vars
  PROVE  Balanced' /\ Implements
<1>1. ASSUME NEW tid \in Tids, ProcessFinger(tid)
      PROVE  Balanced' /\ Implements
  BY <1>1, ArriveImplements, ControlImplements, TrackImplements, MoveOffImplements,
     ForgetImplements, LeaveImplements DEF ProcessFinger
<1>. QED
  BY <1>1, ControlImplements, ReadFailsImplements, TickImplements, DropImplements,
     SendImplements DEF Next, Handle

\* The implementation is faithful to the abstract specification, whatever the order
\* of the touches, the frames and the timeouts: every contact is decided once,
\* what was pressed is released once, a dropped tap is released when its finger
\* lifts, and a release of HandleLeavingFinger never goes out before the tap it
\* belongs to.
THEOREM ImplementsKeystrokes == Spec => TypesKeystrokes
<1>1. IndInv /\ IndInv' /\ Balanced /\ [Next]_vars => Balanced' /\ [Abstract!Next]_(Abstract!vars)
  BY ImplementsStep DEF Implements
<1>2. Init => Balanced /\ Abstract!Init
  BY ImplementsInit
<1>. QED
  BY <1>1, <1>2, Inductive, PTL DEF Spec, TypesKeystrokes, Abstract!Spec

(***************************************************************************)
(* Part 5.  What the promises of Keystrokes come to.                       *)
(***************************************************************************)

\* The debts are numbers, so that an inequality between them means something.
Accounts ==
  /\ \A c \in Codes : taps[c] \in Nat /\ releases[c] \in Nat
  /\ DOMAIN taps = Codes /\ DOMAIN releases = Codes /\ DOMAIN contacts = Tids
  /\ taps = [c \in Codes |-> taps[c]] /\ releases = [c \in Codes |-> releases[c]]

LEMMA AccountsHold ==
  ASSUME TypeInv, TypeInv'
  PROVE  Accounts /\ Accounts'
<1>1. \A c : /\ Cardinality(TapsOf(c)) \in Nat /\ Cardinality(UpsOf(c)) \in Nat
             /\ Cardinality(TapsOf(c)') \in Nat /\ Cardinality(UpsOf(c)') \in Nat
  <2>1. \A c : /\ TapsOf(c) \subseteq DOMAIN pending_events
               /\ UpsOf(c) \subseteq DOMAIN pending_events
               /\ TapsOf(c)' \subseteq DOMAIN pending_events'
               /\ UpsOf(c)' \subseteq DOMAIN pending_events'
    BY DEF TapsOf, UpsOf
  <2>2. pending_events \in Seq(Event) /\ pending_events' \in Seq(Event)
    BY DEF TypeInv, TypeOK
  <2>. QED
    BY <2>1, <2>2, Positions
<1>. QED
  BY <1>1 DEF Accounts, taps, releases, contacts

\* One code's part of the promise.
Settled(c) ==
  /\ taps[c] <= releases[c]
  /\ c \in keys =>
       \/ releases[c] > taps[c]
       \/ \E t \in Tids : contacts[t] = Abstract!At("pressed", c)

AllSettled == \A c \in Codes : Settled(c)

LEMMA SettledByCode == Abstract!NothingSticks <=> \A c \in Codes : Settled(c)
BY DEF Abstract!NothingSticks, Settled, taps, releases, contacts

LEMMA StagesDiffer ==
  ASSUME NEW c, NEW d
  PROVE  /\ Abstract!Away # Abstract!At("pressed", d)
         /\ Abstract!Ignored # Abstract!At("pressed", d)
         /\ \A stage : stage # "pressed" \/ c # d => Abstract!At(stage, c) # Abstract!At("pressed", d)
         /\ \A stage : Abstract!At(stage, c).stage = stage
BY DEF Abstract!Away, Abstract!Ignored, Abstract!At

\* A contact that changes was not what keeps this key down.
LEMMA OthersKeepPressed ==
  ASSUME NEW t \in Tids, NEW what, NEW pressed, DOMAIN contacts = Tids,
         contacts' = [contacts EXCEPT ![t] = what], contacts[t] # pressed
  PROVE  (\E u \in Tids : contacts[u] = pressed) => \E u \in Tids : contacts'[u] = pressed
OBVIOUS

LEMMA Added ==
  ASSUME NEW debts, NEW C, DOMAIN debts = C, NEW c \in C, NEW n
  PROVE  /\ Abstract!Add(debts, c, n)[c] = debts[c] + n
         /\ \A d \in C : d # c => Abstract!Add(debts, c, n)[d] = debts[d]
BY DEF Abstract!Add

\* A step of a contact.
LEMMA TouchSettles ==
  ASSUME Accounts, Accounts', NEW d \in Codes, Settled(d), NEW t \in Tids, Abstract!Touch(t)
  PROVE  Settled(d)'
<1>. DEFINE pressed == Abstract!At("pressed", d)
<1>1. /\ DOMAIN contacts = Tids /\ DOMAIN taps = Codes /\ DOMAIN releases = Codes
      /\ taps[d] \in Nat /\ releases[d] \in Nat
      /\ taps[d] <= releases[d]
      /\ d \in keys => releases[d] > taps[d] \/ \E u \in Tids : contacts[u] = pressed
  BY DEF Accounts, Settled
<1>2. ASSUME NEW what, contacts' = [contacts EXCEPT ![t] = what], contacts[t] # pressed,
             taps'[d] = taps[d], releases'[d] = releases[d], d \in keys' => d \in keys
      PROVE  Settled(d)'
  <2>1. (\E u \in Tids : contacts[u] = pressed) => \E u \in Tids : contacts'[u] = pressed
    <3>. HIDE DEF pressed
    <3>. QED
      BY <1>1, <1>2, OthersKeepPressed
  <2>. QED
    BY <1>1, <1>2, <2>1 DEF Settled
<1>3. ASSUME releases'[d] > taps'[d] PROVE Settled(d)'
  <2>1. taps'[d] <= releases'[d]
    BY <1>3 DEF Accounts
  <2>. QED
    BY <1>3, <2>1 DEF Settled
<1>4. CASE Abstract!LandBesideKeys(t) \/ Abstract!LiftIgnored(t)
  <2>1. /\ contacts[t] # pressed
        /\ \E what : contacts' = [contacts EXCEPT ![t] = what]
        /\ taps' = taps /\ releases' = releases /\ keys' = keys
    BY <1>4, StagesDiffer
       DEF Abstract!LandBesideKeys, Abstract!LiftIgnored, Abstract!Become, contacts, taps, releases
  <2>. QED
    BY <1>2, <2>1
<1>5. ASSUME NEW c \in Codes, Abstract!Land(t, c) \/ Abstract!Drop(t, c) PROVE Settled(d)'
  <2>1. /\ contacts[t] # pressed
        /\ \E what : contacts' = [contacts EXCEPT ![t] = what]
        /\ taps' = taps /\ releases' = releases /\ keys' = keys
    BY <1>5, StagesDiffer
       DEF Abstract!Land, Abstract!Drop, Abstract!Become, contacts, taps, releases
  <2>. QED
    BY <1>2, <2>1
<1>6. ASSUME NEW c \in Codes, Abstract!Press(t, c) PROVE Settled(d)'
  <2>1. /\ contacts[t] # pressed
        /\ contacts' = [contacts EXCEPT ![t] = Abstract!At("pressed", c)]
        /\ taps' = taps /\ releases' = releases /\ keys' = keys \cup {c}
    BY <1>6, StagesDiffer DEF Abstract!Press, Abstract!Become, contacts, taps, releases
  <2>2. CASE c = d
    <3>1. contacts'[t] = pressed
      BY <1>1, <2>1, <2>2
    <3>. QED
      BY <1>1, <2>1, <3>1 DEF Settled
  <2>3. CASE c # d
    BY <1>2, <2>1, <2>3
  <2>. QED
    BY <2>2, <2>3
<1>7. ASSUME NEW c \in Codes, Abstract!SlideOff(t, c) PROVE Settled(d)'
  <2>1. PICK stage : contacts[t] = Abstract!At(stage, c)
    BY <1>7 DEF Abstract!SlideOff, contacts
  <2>2. contacts[t].stage = stage
    BY <2>1, StagesDiffer
  <2>3. /\ contacts' = [contacts EXCEPT ![t] = Abstract!Ignored]
        /\ releases' = IF stage = "pressed" THEN Abstract!Add(releases, c, 1) ELSE releases
        /\ taps' = taps /\ keys' = keys
    BY <1>7, <2>2 DEF Abstract!SlideOff, Abstract!Become, contacts, taps, releases
  <2>4. CASE stage = "pressed" /\ c = d
    <3>1. releases'[d] = releases[d] + 1
      BY <1>1, <2>3, <2>4, Added
    <3>. QED
      BY <1>1, <1>3, <2>3, <3>1
  <2>5. CASE stage # "pressed" \/ c # d
    <3>1. contacts[t] # pressed
      BY <2>1, <2>5, StagesDiffer
    <3>2. releases'[d] = releases[d]
      BY <1>1, <2>3, <2>5, Added
    <3>. QED
      BY <1>2, <2>3, <3>1, <3>2
  <2>. QED
    BY <2>4, <2>5
<1>8. ASSUME NEW c \in Codes, Abstract!Lift(t, c) PROVE Settled(d)'
  <2>1. PICK stage : contacts[t] = Abstract!At(stage, c)
    BY <1>8 DEF Abstract!Lift, contacts
  <2>2. contacts[t].stage = stage
    BY <2>1, StagesDiffer
  <2>3. /\ contacts' = [contacts EXCEPT ![t] = Abstract!Away]
        /\ taps' = IF stage = "undecided" THEN Abstract!Add(taps, c, 1) ELSE taps
        /\ releases' = Abstract!Add(releases, c, 1) /\ keys' = keys
    BY <1>8, <2>2 DEF Abstract!Lift, Abstract!Become, contacts, taps, releases
  <2>4. CASE c # d
    <3>1. contacts[t] # pressed
      BY <2>1, <2>4, StagesDiffer
    <3>2. releases'[d] = releases[d] /\ taps'[d] = taps[d]
      BY <1>1, <2>3, <2>4, Added
    <3>. QED
      BY <1>2, <2>3, <3>1, <3>2
  <2>5. CASE c = d /\ stage = "undecided"
    <3>1. contacts[t] # pressed
      BY <2>1, <2>5, StagesDiffer
    <3>2. releases'[d] = releases[d] + 1 /\ taps'[d] = taps[d] + 1
      BY <1>1, <2>3, <2>5, Added
    <3>3. (\E u \in Tids : contacts[u] = pressed) => \E u \in Tids : contacts'[u] = pressed
      <4>. HIDE DEF pressed
      <4>. QED
        BY <1>1, <2>3, <3>1, OthersKeepPressed
    <3>. QED
      BY <1>1, <2>3, <3>2, <3>3 DEF Settled
  <2>6. CASE c = d /\ stage # "undecided"
    <3>1. releases'[d] = releases[d] + 1 /\ taps'[d] = taps[d]
      BY <1>1, <2>3, <2>6, Added
    <3>. QED
      BY <1>1, <1>3, <3>1
  <2>. QED
    BY <2>4, <2>5, <2>6
<1>. QED
  BY <1>4, <1>5, <1>6, <1>7, <1>8 DEF Abstract!Touch

LEMMA ActSettles ==
  ASSUME Accounts, Accounts', NEW d \in Codes, Settled(d), [Abstract!Next]_(Abstract!vars)
  PROVE  Settled(d)'
<1>1. /\ DOMAIN taps = Codes /\ DOMAIN releases = Codes
      /\ taps[d] \in Nat /\ releases[d] \in Nat
  BY DEF Accounts
<1>2. ASSUME NEW c \in Codes, Abstract!Tap(c) PROVE Settled(d)'
  <2>1. /\ taps' = Abstract!Add(taps, c, -1) /\ releases' = releases
        /\ contacts' = contacts /\ keys' = keys \cup {c}
    BY <1>2 DEF Abstract!Tap, contacts, taps, releases
  <2>2. IF c = d THEN taps'[d] = taps[d] - 1 ELSE taps'[d] = taps[d]
    BY <1>1, <2>1, Added
  <2>. QED
    BY <1>1, <2>1, <2>2 DEF Settled
<1>3. ASSUME NEW c \in Codes, Abstract!Release(c) PROVE Settled(d)'
  <2>1. /\ releases[c] > taps[c]
        /\ releases' = Abstract!Add(releases, c, -1) /\ taps' = taps
        /\ contacts' = contacts /\ keys' = keys \ {c}
    BY <1>3 DEF Abstract!Release, contacts, taps, releases
  <2>2. IF c = d THEN releases'[d] = releases[d] - 1 ELSE releases'[d] = releases[d]
    BY <1>1, <2>1, Added
  <2>. QED
    BY <1>1, <2>1, <2>2 DEF Settled
<1>4. CASE Abstract!Quit
  BY <1>4 DEF Abstract!Quit, Settled, contacts, taps, releases
<1>5. CASE UNCHANGED Abstract!vars
  BY <1>5 DEF Abstract!vars, Settled, contacts, taps, releases
<1>. QED
  BY <1>2, <1>3, <1>4, <1>5, TouchSettles DEF Abstract!Next, Abstract!Act

\* Nothing sticks, by what Keystrokes promises alone: a key the process sent down is
\* under the finger that pressed it, or the queue has a key-up of it that does
\* not belong to a tap still waiting there.  NoStuckKey would be content with
\* the key-up of a tap that comes later.
THEOREM KeystrokesSettle == Spec => []Abstract!NothingSticks
<1>1. Init => AllSettled
  <2>1. Abstract!Init => \A c \in Codes : taps[c] = 0 /\ releases[c] = 0 /\ c \notin keys
    BY DEF Abstract!Init, taps, releases
  <2>. QED
    BY <2>1, ImplementsInit DEF AllSettled, Settled
<1>2. IndInv /\ IndInv' /\ AllSettled /\ [Abstract!Next]_(Abstract!vars) => AllSettled'
  <2>1. IndInv /\ IndInv' => Accounts /\ Accounts'
    BY AccountsHold DEF IndInv
  <2>. QED
    BY <2>1, ActSettles DEF AllSettled
<1>3. AllSettled => Abstract!NothingSticks
  BY SettledByCode DEF AllSettled
<1>. QED
  BY <1>1, <1>2, <1>3, Inductive, ImplementsKeystrokes, PTL DEF TypesKeystrokes, Abstract!Spec, Spec

(***************************************************************************)
(* Part 6.  A key stays down under its finger.                             *)
(*                                                                         *)
(* KeyStaysUnderFinger is not inductive: that no key-up hits a finger whose *)
(* key-down was sent follows from where the key-ups stood while it waited. *)
(***************************************************************************)

\* Two fingers never stand for a code that is not shared.
OneClaim == \A c \in Codes \ shared : \A s, t \in Claims(c) : s = t

\* What is still to be released is released before the finger's own key goes down.
UpsBefore ==
  \A c \in Codes \ shared : \A tid \in Claims(c) :
    \A i, j \in DOMAIN pending_events :
      IsUp(i, c) /\ pending_events[j].tid = tid => i < j

\* Once it went down, nothing is left that would release it.
HeldKeys ==
  \A c \in Codes \ shared : \A tid \in Claims(c) :
    finger_data[tid].down_sent => /\ ~UpPending(c)
                                  /\ pc # "exited" => c \in keys

SharingInv == OneClaim /\ UpsBefore /\ HeldKeys

\* The queue r is q, in its order, with some events gone and perhaps one more at
\* the end, at n.
Follows(r, q, pos, n) ==
  /\ \A i \in DOMAIN r : i # n => /\ pos[i] \in DOMAIN q
                                  /\ r[i].ev_code = q[pos[i]].ev_code
                                  /\ r[i].is_down = q[pos[i]].is_down
                                  /\ r[i].tid = q[pos[i]].tid
  /\ \A i, j \in DOMAIN r : i # n /\ j # n /\ pos[i] < pos[j] => i < j
  /\ \A i \in DOMAIN r : i # n /\ n \in DOMAIN r => i < n

\* A new key-up comes from a finger that gives up its claim.
UpsAreOwed(n) ==
  \A c : n \in DOMAIN pending_events' /\ IsUp(n, c)' =>
           \E tid \in Tids : tid \in Claims(c) /\ tid \notin Claims(c)'

\* A new claim comes with the first key-down of a finger.
ClaimsAreNew(n) ==
  \A c : \A tid \in Claims(c)' : tid \notin Claims(c) =>
    /\ n \in DOMAIN pending_events' /\ pending_events'[n].is_down
    /\ \A i \in DOMAIN pending_events : pending_events[i].tid # tid
    /\ ~finger_data'[tid].down_sent

\* A claim that stays was sent before, or is now and without a key-up behind it.
ClaimsAreSent ==
  \A c \in Codes \ shared : \A tid \in Claims(c)' :
    tid \in Claims(c) /\ finger_data'[tid].down_sent =>
      \/ finger_data[tid].down_sent
      \/ c \in keys' /\ ~UpPending(c)'

\* Keys come up for key-ups, and at the end.
KeysAreReleased ==
  /\ \A c \in keys : pc' # "exited" /\ c \notin keys' => UpPending(c)
  /\ pc = "exited" => pc' = "exited"

LEMMA SharingStep ==
  ASSUME IndInv', SharingInv, Share, NEW pos, NEW n,
         Follows(pending_events', pending_events, pos, n),
         UpsAreOwed(n), ClaimsAreNew(n), ClaimsAreSent, KeysAreReleased
  PROVE  SharingInv'
<1>1. ASSUME NEW c \in Codes, c \notin shared', NEW s \in Claims(c)', NEW t \in Claims(c)'
      PROVE  s = t
  <2>1. Claims(c)' \subseteq Tids /\ IsFiniteSet(Tids)
    BY TidsAssumption DEF Claims
  <2>2. IsFiniteSet(Claims(c)') /\ Cardinality(Claims(c)') \in Nat
    BY <2>1, FS_Subset, FS_CardinalityType
  <2>3. ~(Cardinality(Claims(c)') > 1)
    BY <1>1 DEF Share
  <2>4. {s, t} \subseteq Claims(c)'
    OBVIOUS
  <2>5. Cardinality({s, t}) <= Cardinality(Claims(c)')
    BY <2>2, <2>4, FS_Subset
  <2>6. s # t => Cardinality({s, t}) = 2
    <3>1. IsFiniteSet({s}) /\ Cardinality({s}) = 1 /\ {s, t} = {s} \cup {t}
      BY FS_Singleton
    <3>2. t \notin {s} => Cardinality({s} \cup {t}) = 1 + 1
      BY <3>1, FS_AddElement
    <3>. QED
      BY <3>1, <3>2
  <2>. QED
    BY <2>2, <2>3, <2>5, <2>6
<1>2. ASSUME NEW c \in Codes, c \notin shared', NEW tid \in Claims(c)'
      PROVE  /\ c \notin shared
             /\ \A i, j \in DOMAIN pending_events' :
                  IsUp(i, c)' /\ pending_events'[j].tid = tid => i < j
             /\ finger_data'[tid].down_sent => /\ ~UpPending(c)'
                                               /\ pc' # "exited" => c \in keys'
  <2>1. c \notin shared
    BY <1>2 DEF Share
  <2>2. ASSUME NEW s \in Claims(c), NEW t \in Claims(c)
        PROVE  s = t
    BY <2>1 DEF SharingInv, OneClaim
  <2>3. tid \in Claims(c) \/
          /\ n \in DOMAIN pending_events' /\ pending_events'[n].is_down
          /\ \A i \in DOMAIN pending_events : pending_events[i].tid # tid
          /\ ~finger_data'[tid].down_sent
    BY DEF ClaimsAreNew
  <2>4. ASSUME NEW i \in DOMAIN pending_events', IsUp(i, c)'
        PROVE  i # n /\ pos[i] \in DOMAIN pending_events /\ IsUp(pos[i], c)
    <3>1. i # n
      <4>1. ~pending_events'[i].is_down /\ pending_events'[i].ev_code = c
        BY <2>4 DEF IsUp
      <4>2. ASSUME i = n
            PROVE  FALSE
        <5>1. PICK f \in Tids : f \in Claims(c) /\ f \notin Claims(c)'
          BY <2>4, <4>2 DEF UpsAreOwed
        <5>2. tid \in Claims(c)
          BY <2>3, <4>1, <4>2
        <5>3. f = tid
          BY <2>2, <5>1, <5>2
        <5>. QED
          BY <5>1, <5>3
      <4>. QED
        BY <4>2
    <3>. QED
      BY <2>4, <3>1 DEF Follows, IsUp
  <2>5. ASSUME NEW i \in DOMAIN pending_events', NEW j \in DOMAIN pending_events',
               IsUp(i, c)', pending_events'[j].tid = tid
        PROVE  i < j
    <3>1. i # n /\ pos[i] \in DOMAIN pending_events /\ IsUp(pos[i], c)
      BY <2>4, <2>5
    <3>2. CASE j = n
      BY <3>1, <3>2 DEF Follows
    <3>3. CASE j # n
      <4>1. pos[j] \in DOMAIN pending_events /\ pending_events[pos[j]].tid = tid
        BY <2>5, <3>3 DEF Follows
      <4>2. tid \in Claims(c)
        BY <2>3, <4>1
      <4>3. pos[i] < pos[j]
        BY <2>1, <3>1, <4>1, <4>2 DEF SharingInv, UpsBefore
      <4>. QED
        BY <3>1, <3>3, <4>3 DEF Follows
    <3>. QED
      BY <3>2, <3>3
  <2>6. ASSUME finger_data'[tid].down_sent
        PROVE  ~UpPending(c)' /\ (pc' # "exited" => c \in keys')
    <3>1. tid \in Claims(c)
      BY <2>3, <2>6
    <3>2. CASE finger_data[tid].down_sent
      <4>1. ~UpPending(c) /\ (pc # "exited" => c \in keys)
        BY <2>1, <3>1, <3>2 DEF SharingInv, HeldKeys
      <4>2. \A i \in DOMAIN pending_events' : ~IsUp(i, c)'
        BY <2>4, <4>1 DEF UpPending
      <4>3. ~UpPending(c)'
        BY <4>2 DEF UpPending, IsUp
      <4>. QED
        BY <4>1, <4>3 DEF KeysAreReleased
    <3>3. CASE ~finger_data[tid].down_sent
      BY <2>1, <2>6, <3>1, <3>3 DEF ClaimsAreSent
    <3>. QED
      BY <3>2, <3>3
  <2>. QED
    BY <2>1, <2>5, <2>6
<1>3. OneClaim'
  BY <1>1 DEF OneClaim, Codes
<1>4. UpsBefore'
  BY <1>2 DEF UpsBefore, Codes
<1>5. HeldKeys'
  BY <1>2 DEF HeldKeys, Codes
<1>. QED
  BY <1>3, <1>4, <1>5 DEF SharingInv
Evolves(pos, n) ==
  /\ Follows(pending_events', pending_events, pos, n)
  /\ UpsAreOwed(n) /\ ClaimsAreNew(n) /\ ClaimsAreSent /\ KeysAreReleased

\* What most steps do to the claims.
ClaimsKept ==
  \A c : \A t \in Claims(c)' :
    t \in Claims(c) /\ finger_data'[t].down_sent = finger_data[t].down_sent

LEMMA KeptClaims ==
  ASSUME \A t \in Tids : t \in DOMAIN finger_data' /\ ~Rejected(t)' => Keeps(t)
  PROVE  ClaimsKept
BY DEF Keeps, ClaimsKept, Claims, Live, Rejected

LEMMA SameQueueEvolves ==
  ASSUME pending_events \in Seq(Event), DOMAIN pending_events' = DOMAIN pending_events,
         \A i \in DOMAIN pending_events :
           /\ pending_events'[i].ev_code = pending_events[i].ev_code
           /\ pending_events'[i].is_down = pending_events[i].is_down
           /\ pending_events'[i].tid = pending_events[i].tid,
         ClaimsKept, KeysAreReleased
  PROVE  \E pos, n : Evolves(pos, n)
<1>. DEFINE pos == [i \in DOMAIN pending_events |-> i]
<1>1. \A i \in DOMAIN pending_events : i \in Int /\ i # 0 /\ pos[i] = i
  OBVIOUS
<1>2. Follows(pending_events', pending_events, pos, 0)
  BY <1>1 DEF Follows
<1>3. UpsAreOwed(0) /\ ClaimsAreNew(0) /\ ClaimsAreSent
  BY <1>1 DEF UpsAreOwed, ClaimsAreNew, ClaimsAreSent, ClaimsKept
<1>4. Evolves(pos, 0)
  BY <1>2, <1>3 DEF Evolves
<1>. QED
  BY <1>4

\* Steps of anything but the fingers, the queue and the keys; and the end.
LEMMA ControlEvolves ==
  ASSUME IndInv,
         \/ LoopTop \/ SelectTimeout \/ ReadFirst \/ ReadNext \/ ReadSyn \/ ReadFails
         \/ EndSnapshot \/ EndFiring \/ Exited \/ UNCHANGED vars
         \/ \E tid \in Tids : SkipRejected(tid)
  PROVE  \E pos, n : Evolves(pos, n)
<1>1. /\ UNCHANGED queue
      /\ pc = "exited" => pc' = "exited"
      /\ keys' = keys \/ pc' = "exited"
  BY DEF LoopTop, SelectTimeout, ReadFirst, ReadNext, ReadSyn, ReadFails, EndSnapshot,
     EndFiring, Exited, SkipRejected, InWait, vars, queue, frame, output
<1>2. \A t \in Tids : Keeps(t)
  BY <1>1 DEF Keeps, queue, EventsOf
<1>3. KeysAreReleased
  BY <1>1 DEF KeysAreReleased
<1>4. pending_events \in Seq(Event) /\ pending_events' = pending_events
  BY <1>1 DEF IndInv, TypeInv, TypeOK, queue
<1>. QED
  BY <1>2, <1>3, <1>4, KeptClaims, SameQueueEvolves

LEMMA TickEvolves ==
  ASSUME IndInv, Tick
  PROVE  \E pos, n : Evolves(pos, n)
<1>1. /\ pending_events' = AgeEvents(pending_events)
      /\ UNCHANGED <<pc, finger_data, keys>>
  BY DEF Tick, output
<1>2. pending_events \in Seq(Event)
  BY DEF IndInv, TypeInv, TypeOK
<1>3. /\ DOMAIN pending_events' = DOMAIN pending_events
      /\ \A i \in DOMAIN pending_events :
           /\ pending_events'[i].ev_code = pending_events[i].ev_code
           /\ pending_events'[i].is_down = pending_events[i].is_down
           /\ pending_events'[i].tid = pending_events[i].tid
  BY <1>1, <1>2, AgedQueue
<1>4. \A t \in Tids : Keeps(t)
  BY <1>1, <1>3 DEF Keeps, EventsOf
<1>5. KeysAreReleased
  BY <1>1 DEF KeysAreReleased
<1>. QED
  BY <1>2, <1>3, <1>4, <1>5, KeptClaims, SameQueueEvolves

LEMMA TrackEvolves ==
  ASSUME IndInv, NEW tid \in Tids, TrackFinger(tid)
  PROVE  \E pos, n : Evolves(pos, n)
<1>. DEFINE d == Updated(tid, "kNotRejectedYet")
<1>1. /\ tid \in todo /\ Live(tid) /\ ~Rejected(tid)
      /\ finger_data' = SetFinger(tid, d)
      /\ UNCHANGED <<pc, pending_events, keys>>
  BY DEF TrackFinger, output
<1>2. /\ d \in FingerData
      /\ d.event_code = finger_data[tid].event_code
      /\ d.down_sent = finger_data[tid].down_sent
      /\ d.rejection_status = "kNotRejectedYet"
  BY <1>1, UpdatedType, RejectionTypes DEF IndInv, TypeInv
<1>. HIDE DEF d
<1>3. /\ DOMAIN finger_data' = DOMAIN finger_data
      /\ finger_data'[tid] = d
      /\ \A t \in DOMAIN finger_data : t # tid => finger_data'[t] = finger_data[t]
  <2>1. DOMAIN finger_data \cup {tid} = DOMAIN finger_data
    BY <1>1 DEF Live
  <2>. QED
    BY <1>1, <1>2, <2>1, SetFingerType DEF IndInv, TypeInv
<1>4. \A t \in Tids : Keeps(t)
  BY <1>1, <1>2, <1>3 DEF Keeps, Rejected
<1>5. KeysAreReleased /\ pending_events \in Seq(Event)
  BY <1>1 DEF KeysAreReleased, IndInv, TypeInv, TypeOK
<1>. QED
  BY <1>1, <1>4, <1>5, KeptClaims, SameQueueEvolves

LEMMA ForgetEvolves ==
  ASSUME IndInv, NEW tid \in Tids, ForgetRejected(tid)
  PROVE  \E pos, n : Evolves(pos, n)
<1>1. /\ finger_data' = Restrict(finger_data, DOMAIN finger_data \ {tid})
      /\ UNCHANGED <<pc, pending_events, keys>>
  BY DEF ForgetRejected, output
<1>2. /\ DOMAIN finger_data' = DOMAIN finger_data \ {tid}
      /\ \A t \in DOMAIN finger_data' : finger_data'[t] = finger_data[t]
  BY <1>1, RestrictType DEF IndInv
<1>3. \A t \in Tids : t \in DOMAIN finger_data' => Keeps(t)
  BY <1>1, <1>2 DEF Keeps
<1>4. KeysAreReleased /\ pending_events \in Seq(Event)
  BY <1>1 DEF KeysAreReleased, IndInv, TypeInv, TypeOK
<1>. QED
  BY <1>1, <1>3, <1>4, KeptClaims, SameQueueEvolves

LEMMA ArriveEvolves ==
  ASSUME IndInv, NEW tid \in Tids, ArriveFinger(tid)
  PROVE  \E pos, n : Evolves(pos, n)
<1>. DEFINE key == KeyAt(snap[tid].pos)
            code == IF key = kNoKey THEN 0 ELSE CodeFor(key)
            status == IF key = kNoKey THEN "kRejectTouchdownOffKey"
                      ELSE "kNotRejectedYet"
            d == [max_pressure |-> snap[tid].p,
                  max_touch_major |-> snap[tid].touch_major,
                  starting_key_number |-> key, event_code |-> code,
                  down_sent |-> FALSE, rejection_status |-> status]
            ev == DownEvent(code, tid)
            q == pending_events
<1>1. /\ tid \in todo /\ ~Live(tid)
      /\ UNCHANGED <<pc, keys>>
      /\ finger_data' = SetFinger(tid, d)
      /\ pending_events' = IF key = kNoKey THEN q ELSE EnqueueEvent(q, ev)
  BY DEF ArriveFinger, output
<1>2. key \in Keys \cup {kNoKey} /\ code \in Codes \cup {0}
  BY LayoutFacts
<1>3. /\ status \in RejectionStatus
      /\ status = "kNotRejectedYet" <=> key # kNoKey
  BY RejectionTypes
<1>4. snap[tid].p \in Int /\ snap[tid].touch_major \in Int
  BY <1>1, SnapFacts DEF IndInv, TypeInv
<1>. HIDE DEF key, code, status
<1>5. d \in FingerData
  BY <1>2, <1>3, <1>4 DEF FingerData
<1>6. d.rejection_status = status /\ ~d.down_sent
  OBVIOUS
<1>7. ev.is_down /\ ev.tid = tid /\ ev.due = kEventDelay
  BY DEF DownEvent
<1>. HIDE DEF d, ev
<1>8. /\ DOMAIN finger_data' = DOMAIN finger_data \cup {tid}
      /\ finger_data'[tid] = d
      /\ \A t \in DOMAIN finger_data : t # tid => finger_data'[t] = finger_data[t]
  BY <1>1, <1>5, SetFingerType DEF IndInv, TypeInv
<1>9. q \in Seq(Event)
  BY DEF IndInv, TypeInv, TypeOK
<1>10. \A i \in DOMAIN q : q[i].tid # tid
  BY <1>1 DEF IndInv, QueueInv, ArrivalsAreFresh
<1>11. KeysAreReleased
  BY <1>1 DEF KeysAreReleased
<1>12. CASE key = kNoKey
  <2>1. pending_events' = q
    BY <1>1, <1>12
  <2>2. \A t \in Tids : t \in DOMAIN finger_data' /\ ~Rejected(t)' => Keeps(t)
    BY <1>3, <1>6, <1>8, <1>12, <2>1 DEF Keeps, Rejected
  <2>. QED
    BY <1>9, <1>11, <2>1, <2>2, KeptClaims, SameQueueEvolves
<1>13. CASE key # kNoKey
  <2>. DEFINE n == Len(q) + 1
              pos == [i \in DOMAIN q |-> i]
  <2>1. pending_events' = Append(q, ev)
    BY <1>1, <1>7, <1>9, <1>13, EnqueueAppends
  <2>2. /\ DOMAIN pending_events' = DOMAIN q \cup {n} /\ n \notin DOMAIN q
        /\ pending_events'[n] = ev
        /\ \A i \in DOMAIN q : pending_events'[i] = q[i] /\ i < n
    BY <1>9, <2>1, AppendShape
  <2>0. PICK m : m = n
    OBVIOUS
  <2>. HIDE DEF n
  <2>3. Follows(pending_events', q, pos, m)
    BY <2>0, <2>2 DEF Follows
  <2>4. UpsAreOwed(m)
    BY <1>7, <2>0, <2>2 DEF UpsAreOwed, IsUp
  <2>5. \A c : \A t \in Claims(c)' : \/ t \in Claims(c) /\ t # tid /\
                                          finger_data'[t].down_sent = finger_data[t].down_sent
                                     \/ t = tid
    BY <1>8 DEF Claims, Live, Rejected
  <2>6. ClaimsAreNew(m)
    BY <1>6, <1>7, <1>8, <1>10, <2>0, <2>2, <2>5 DEF ClaimsAreNew
  <2>7. ClaimsAreSent
    BY <1>6, <1>8, <2>5 DEF ClaimsAreSent
  <2>8. Evolves(pos, m)
    BY <1>11, <2>3, <2>4, <2>6, <2>7 DEF Evolves
  <2>. QED
    BY <2>8
<1>. QED
  BY <1>12, <1>13
LEMMA MoveOffEvolves ==
  ASSUME IndInv, NEW tid \in Tids, MoveOffKey(tid)
  PROVE  \E pos, n : Evolves(pos, n)
<1>. DEFINE old == finger_data[tid]
            d == Updated(tid, "kRejectMovedOffKey")
            q == pending_events
            left == EraseTid(q, tid)
            up == UpEvent(old.event_code)
<1>1. /\ tid \in todo /\ Live(tid) /\ ~Rejected(tid)
      /\ finger_data' = SetFinger(tid, d)
      /\ UNCHANGED <<pc, keys>>
      /\ pending_events' = IF old.down_sent THEN EnqueueEvent(left, up) ELSE left
  BY DEF MoveOffKey, output
<1>2. q \in Seq(Event)
  BY DEF IndInv, TypeInv, TypeOK
<1>3. d \in FingerData /\ d.rejection_status = "kRejectMovedOffKey"
  BY <1>1, UpdatedType, RejectionTypes DEF IndInv, TypeInv
<1>. HIDE DEF d
<1>4. /\ DOMAIN finger_data' = DOMAIN finger_data
      /\ finger_data'[tid] = d
      /\ \A t \in DOMAIN finger_data : t # tid => finger_data'[t] = finger_data[t]
  <2>1. DOMAIN finger_data \cup {tid} = DOMAIN finger_data
    BY <1>1 DEF Live
  <2>. QED
    BY <1>1, <1>3, <2>1, SetFingerType DEF IndInv, TypeInv
<1>5. old.event_code \in Codes
  BY <1>1, StandingEvents
<1>6. ~up.is_down /\ up.ev_code = old.event_code
  BY DEF UpEvent
<1>7. left \in Seq(Event)
  BY <1>2, EraseKeeps
<1>8. PICK pos \in [DOMAIN left -> DOMAIN q] :
         /\ \A j \in DOMAIN left : left[j] = q[pos[j]] /\ q[pos[j]].tid # tid
         /\ \A j, k \in DOMAIN left : j < k => pos[j] < pos[k]
         /\ \A i \in DOMAIN q : q[i].tid # tid => \E j \in DOMAIN left : pos[j] = i
  BY <1>2, EraseKeeps
<1>9. PICK n : n = Len(left) + 1
  OBVIOUS
<1>10. old.down_sent => pending_events' = Append(left, up)
  BY <1>1, <1>5, <1>7, EnqueueUp
<1>. HIDE DEF left, up, old
<1>11. /\ DOMAIN Append(left, up) = DOMAIN left \cup {n} /\ n \notin DOMAIN left
       /\ Append(left, up)[n] = up
       /\ \A i \in DOMAIN left : Append(left, up)[i] = left[i] /\ i < n
  BY <1>7, <1>9, AppendShape
<1>12. /\ \A i \in DOMAIN pending_events' : i # n => i \in DOMAIN left /\ pending_events'[i] = left[i] /\ i < n
       /\ n \in DOMAIN pending_events' => old.down_sent /\ pending_events'[n] = up
  BY <1>1, <1>10, <1>11
<1>13. ASSUME NEW i \in DOMAIN left, NEW j \in DOMAIN left, pos[i] < pos[j]
       PROVE  i < j
  <2>1. /\ i \in Int /\ j \in Int /\ pos[i] \in Int /\ pos[j] \in Int
    BY <1>2, <1>7, <1>8
  <2>2. j < i => pos[j] < pos[i]
    BY <1>8
  <2>. QED
    BY <1>13, <2>1, <2>2
<1>14. Follows(pending_events', q, pos, n)
  BY <1>8, <1>12, <1>13 DEF Follows
\* The finger gives up the claim that its key-up is owed for.
<1>15. tid \in Claims(old.event_code) /\ \A c : tid \notin Claims(c)'
  BY <1>1, <1>3, <1>4 DEF Claims, Live, Rejected, old
<1>16. UpsAreOwed(n)
  BY <1>6, <1>12, <1>15 DEF UpsAreOwed, IsUp
<1>17. ClaimsKept
  BY <1>3, <1>4 DEF ClaimsKept, Claims, Live, Rejected
<1>18. ClaimsAreNew(n) /\ ClaimsAreSent /\ KeysAreReleased
  BY <1>1, <1>17 DEF ClaimsAreNew, ClaimsAreSent, ClaimsKept, KeysAreReleased
<1>19. Evolves(pos, n)
  BY <1>14, <1>16, <1>18 DEF Evolves
<1>. QED
  BY <1>19

LEMMA LeaveEvolves ==
  ASSUME IndInv, NEW tid \in Tids, LeaveFinger(tid)
  PROVE  \E pos, n : Evolves(pos, n)
<1>. DEFINE d == finger_data[tid]
            q == pending_events
            marked == IF d.down_sent THEN q ELSE MarkGuaranteed(q, tid)
            up == UpEvent(d.event_code)
            pos == [i \in DOMAIN q |-> i]
<1>1. /\ Live(tid) /\ ~Rejected(tid)
      /\ finger_data' = Restrict(finger_data, DOMAIN finger_data \ {tid})
      /\ UNCHANGED <<pc, keys>>
  BY DEF LeaveFinger, Leaving, Live, output
<1>2. q \in Seq(Event)
  BY DEF IndInv, TypeInv, TypeOK
<1>3. /\ d.event_code \in Codes
      /\ \A j \in EventsOf(q, tid) : q[j].is_down
  BY <1>1, StandingEvents
<1>4. pending_events' = EnqueueEvent(marked, up)
  BY <1>3 DEF LeaveFinger
<1>5. /\ marked \in Seq(Event) /\ DOMAIN marked = DOMAIN q
      /\ \A i \in DOMAIN q : /\ marked[i].ev_code = q[i].ev_code
                             /\ marked[i].is_down = q[i].is_down
                             /\ marked[i].tid = q[i].tid
  BY <1>2, MarkedQueue
<1>6. ~up.is_down /\ up.ev_code = d.event_code
  BY DEF UpEvent
<1>7. /\ DOMAIN finger_data' = DOMAIN finger_data \ {tid}
      /\ \A t \in DOMAIN finger_data' : finger_data'[t] = finger_data[t]
  BY <1>1, RestrictType DEF IndInv
<1>8. PICK n : n = Len(marked) + 1
  OBVIOUS
<1>. HIDE DEF marked
<1>9. pending_events' = Append(marked, up)
  BY <1>3, <1>4, <1>5, EnqueueUp
<1>. HIDE DEF up, d
<1>10. /\ DOMAIN pending_events' = DOMAIN q \cup {n} /\ n \notin DOMAIN q
       /\ pending_events'[n] = up
       /\ \A i \in DOMAIN q : pending_events'[i] = marked[i] /\ i < n
  <2>1. /\ DOMAIN Append(marked, up) = DOMAIN marked \cup {n} /\ n \notin DOMAIN marked
        /\ Append(marked, up)[n] = up
        /\ \A i \in DOMAIN marked : Append(marked, up)[i] = marked[i] /\ i < n
    BY <1>5, <1>8, AppendShape
  <2>. QED
    BY <1>5, <1>9, <2>1
<1>11. Follows(pending_events', q, pos, n)
  BY <1>5, <1>10 DEF Follows
<1>12. tid \in Claims(d.event_code) /\ \A c : tid \notin Claims(c)'
  BY <1>1, <1>7 DEF Claims, Live, d
<1>13. UpsAreOwed(n)
  BY <1>6, <1>10, <1>12 DEF UpsAreOwed, IsUp
<1>14. ClaimsKept
  BY <1>7 DEF ClaimsKept, Claims, Live, Rejected
<1>15. ClaimsAreNew(n) /\ ClaimsAreSent /\ KeysAreReleased
  BY <1>1, <1>14 DEF ClaimsAreNew, ClaimsAreSent, ClaimsKept, KeysAreReleased
<1>16. Evolves(pos, n)
  BY <1>11, <1>13, <1>15 DEF Evolves
<1>. QED
  BY <1>16

LEMMA HeadFollows ==
  ASSUME pending_events \in Seq(Event), pending_events # <<>>,
         pending_events' = Tail(pending_events)
  PROVE  /\ Follows(pending_events', pending_events, [i \in DOMAIN pending_events' |-> i + 1], 0)
         /\ UpsAreOwed(0)
         /\ 1 \in DOMAIN pending_events /\ NextEvent = pending_events[1]
         /\ \A i \in DOMAIN pending_events' :
              /\ i + 1 \in DOMAIN pending_events /\ i + 1 > 1
              /\ pending_events'[i] = pending_events[i + 1]
<1>. DEFINE pos == [i \in DOMAIN pending_events' |-> i + 1]
<1>1. /\ Len(pending_events) \in Nat \ {0} /\ NextEvent = pending_events[1]
      /\ DOMAIN pending_events = 1 .. Len(pending_events)
      /\ DOMAIN pending_events' = 1 .. Len(pending_events) - 1
      /\ \A i \in DOMAIN pending_events' : pending_events'[i] = pending_events[i + 1]
  BY HeadAndTail DEF NextEvent
<1>2. /\ \A i \in DOMAIN pending_events' : /\ i \in Int /\ i # 0 /\ pos[i] = i + 1
                                           /\ i + 1 \in DOMAIN pending_events /\ i + 1 > 1
      /\ 1 \in DOMAIN pending_events
  BY <1>1
<1>3. Follows(pending_events', pending_events, pos, 0)
  BY <1>1, <1>2 DEF Follows
<1>4. UpsAreOwed(0)
  BY <1>2 DEF UpsAreOwed
<1>. QED
  BY <1>1, <1>2, <1>3, <1>4

LEMMA DropEvolves ==
  ASSUME IndInv, DropTap
  PROVE  \E pos, n : Evolves(pos, n)
<1>1. /\ pending_events # <<>> /\ pending_events' = Tail(pending_events)
      /\ UNCHANGED <<pc, finger_data, keys>> /\ pending_events \in Seq(Event)
  BY DEF DropTap, ReadyToFire, output, IndInv, TypeInv, TypeOK
<1>2. /\ Follows(pending_events', pending_events, [i \in DOMAIN pending_events' |-> i + 1], 0)
      /\ UpsAreOwed(0)
  BY <1>1, HeadFollows
<1>3. ClaimsKept
  BY <1>1 DEF ClaimsKept, Claims, Live, Rejected
<1>4. ClaimsAreNew(0) /\ ClaimsAreSent /\ KeysAreReleased
  BY <1>1, <1>3 DEF ClaimsAreNew, ClaimsAreSent, ClaimsKept, KeysAreReleased
<1>. QED
  BY <1>2, <1>4 DEF Evolves

\* A finger's key-down goes out with no key-up of its code left behind it.
LEMMA SendEvolves ==
  ASSUME IndInv, SharingInv, SendKey
  PROVE  \E pos, n : Evolves(pos, n)
<1>1. /\ pc = "fire" /\ pending_events # <<>> /\ pending_events' = Tail(pending_events)
      /\ UNCHANGED pc /\ pending_events \in Seq(Event)
      /\ keys' = IF NextEvent.is_down THEN keys \cup {NextEvent.ev_code}
                 ELSE keys \ {NextEvent.ev_code}
  BY DEF SendKey, ReadyToFire, IndInv, TypeInv, TypeOK
<1>2. /\ Follows(pending_events', pending_events, [i \in DOMAIN pending_events' |-> i + 1], 0)
      /\ UpsAreOwed(0)
      /\ 1 \in DOMAIN pending_events /\ NextEvent = pending_events[1]
      /\ \A i \in DOMAIN pending_events' :
              /\ i + 1 \in DOMAIN pending_events /\ i + 1 > 1
              /\ pending_events'[i] = pending_events[i + 1]
  BY <1>1, HeadFollows
<1>3. /\ DOMAIN finger_data' = DOMAIN finger_data
      /\ \A t \in DOMAIN finger_data :
           /\ finger_data'[t].event_code = finger_data[t].event_code
           /\ finger_data'[t].rejection_status = finger_data[t].rejection_status
           /\ IF NextEvent.is_down /\ t = NextEvent.tid
              THEN finger_data'[t].down_sent = TRUE
              ELSE finger_data'[t] = finger_data[t]
  BY SentFinger DEF IndInv
<1>4. \A c : \A t \in Claims(c)' :
        /\ t \in Claims(c)
        /\ \/ finger_data'[t].down_sent = finger_data[t].down_sent
           \/ NextEvent.is_down /\ t = NextEvent.tid
  BY <1>3 DEF Claims, Live, Rejected
<1>5. ClaimsAreNew(0)
  BY <1>4 DEF ClaimsAreNew
<1>6. ASSUME NEW c \in Codes, c \notin shared, NEW t \in Claims(c), NextEvent.is_down,
             t = NextEvent.tid
      PROVE  c \in keys' /\ ~UpPending(c)'
  <2>1. \A i \in DOMAIN pending_events : IsUp(i, c) => i < 1
    BY <1>2, <1>6 DEF SharingInv, UpsBefore
  <2>2. \A i \in DOMAIN pending_events' : ~IsUp(i, c)'
    <3>. SUFFICES ASSUME NEW i \in DOMAIN pending_events', IsUp(i, c)'
                  PROVE  FALSE
      OBVIOUS
    <3>1. i + 1 \in DOMAIN pending_events /\ i + 1 > 1 /\ pending_events'[i] = pending_events[i + 1]
      BY <1>2
    <3>2. IsUp(i + 1, c)
      BY <3>1 DEF IsUp
    <3>3. i + 1 < 1
      BY <2>1, <3>1, <3>2
    <3>4. i + 1 \in Int
      BY <1>1, <3>1
    <3>. QED
      BY <3>1, <3>3, <3>4
  <2>3. NextEvent.ev_code = c
    <3>1. Live(NextEvent.tid) /\ finger_data[NextEvent.tid].event_code = c
      BY <1>6 DEF Claims
    <3>. QED
      BY <1>2, <3>1 DEF IndInv, QueueInv, LiveEvents
  <2>. QED
    BY <1>1, <1>6, <2>2, <2>3 DEF UpPending, IsUp
<1>7. ClaimsAreSent
  BY <1>4, <1>6 DEF ClaimsAreSent
<1>8. KeysAreReleased
  BY <1>1, <1>2 DEF KeysAreReleased, UpPending, IsUp
<1>. QED
  BY <1>2, <1>5, <1>7, <1>8 DEF Evolves

LEMMA EveryStepEvolves ==
  ASSUME IndInv, SharingInv, [Next]_vars
  PROVE  \E pos, n : Evolves(pos, n)
<1>1. ASSUME NEW tid \in Tids, ProcessFinger(tid)
      PROVE  \E pos, n : Evolves(pos, n)
  BY <1>1, ArriveEvolves, ControlEvolves, TrackEvolves, MoveOffEvolves, ForgetEvolves,
     LeaveEvolves DEF ProcessFinger
<1>. QED
  BY <1>1, ControlEvolves, TickEvolves, DropEvolves, SendEvolves DEF Next, Handle

\* A key of a finger that shares it with nobody is down for as long as the finger
\* is on it: the key-ups of earlier contacts, and of contacts on other keys, which
\* carry no tracking id, never release it.
THEOREM KeysStayUnderFingers == SharingSpec => []KeyStaysUnderFinger
<1>1. Init /\ shared = {} => IndInv /\ SharingInv
  <2>1. Init => \A c : Claims(c) = {}
    BY DEF Init, NoFingers, Claims, Live
  <2>2. Init => SharingInv
    BY <2>1 DEF SharingInv, OneClaim, UpsBefore, HeldKeys
  <2>. QED
    BY <2>2, IndInit
<1>2. IndInv /\ SharingInv /\ [Next /\ Share]_<<vars, shared>> => IndInv' /\ SharingInv'
  <2>. SUFFICES ASSUME IndInv, SharingInv, [Next /\ Share]_<<vars, shared>>
                PROVE  IndInv' /\ SharingInv'
    OBVIOUS
  <2>1. [Next]_vars
    OBVIOUS
  <2>2. IndInv'
    BY <2>1, IndStep
  <2>3. CASE Share
    <3>1. PICK pos, n : Evolves(pos, n)
      BY <2>1, EveryStepEvolves
    <3>. QED
      BY <2>2, <2>3, <3>1, SharingStep DEF Evolves
  <2>4. CASE UNCHANGED <<vars, shared>>
    BY <2>2, <2>4 DEF vars, SharingInv, OneClaim, UpsBefore, HeldKeys, Claims, Live,
       Rejected, IsUp, UpPending
  <2>. QED
    BY <2>3, <2>4
<1>3. SharingInv => KeyStaysUnderFinger
  BY DEF SharingInv, HeldKeys, KeyStaysUnderFinger, Holds, Claims
<1>. QED
  BY <1>1, <1>2, <1>3, PTL DEF SharingSpec
=============================================================================
