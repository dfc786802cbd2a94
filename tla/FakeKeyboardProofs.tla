------------------------- MODULE FakeKeyboardProofs -------------------------
(***************************************************************************)
(* Theorems about FakeKeyboard, for any set of tracking ids, any layout,   *)
(* any delay, and any scheduling latency.                                  *)
(***************************************************************************)
EXTENDS FakeKeyboard, FiniteSetTheorems, SequenceTheorems,
        WellFoundedInduction, TLAPS

(***************************************************************************)
(* Part 1.  What the operations on the queue do.                           *)
(***************************************************************************)

\* A nonempty set of naturals has a least element.
LEMMA LeastNat ==
  ASSUME NEW T \in SUBSET Nat, T # {}
  PROVE  \E m \in T : \A x \in T : m <= x
<1>1. PICK m \in T : \A y \in T : ~(<<y, m>> \in OpToRel(<, Nat))
  BY NatLessThanWellFounded, WFMin, Zenon
<1>2. \A y \in T : ~(y < m)
  BY <1>1 DEF OpToRel
<1>. QED
  BY <1>2

\* The elements of a set of positions, ranked by how many of them come up to
\* each: every rank is taken, and ranks grow with the positions.  (EraseTid
\* numbers the events it keeps in this way.)
LEMMA Ranks ==
  ASSUME NEW n \in Nat, NEW K \in SUBSET (1 .. n)
  PROVE  /\ Cardinality(K) \in Nat
         /\ \A j \in 1 .. Cardinality(K) :
              \E i \in K : Cardinality({k \in K : k <= i}) = j
         /\ \A i \in K : Cardinality({k \in K : k <= i}) \in 1 .. Cardinality(K)
         /\ \A i, j \in K :
              i < j => Cardinality({k \in K : k <= i})
                         < Cardinality({k \in K : k <= j})
<1>. DEFINE upTo(i) == {k \in K : k <= i}
            rank(i) == Cardinality(upTo(i))
<1>0. \A k \in K : k \in Int /\ 1 <= k /\ k <= n
  OBVIOUS
<1>1. IsFiniteSet(K)
  <2>1. IsFiniteSet(1 .. n)
    BY FS_Interval
  <2>. QED
    BY <2>1, FS_Subset
<1>2. \A i \in Int : IsFiniteSet(upTo(i)) /\ rank(i) \in Nat
                      /\ rank(i) <= Cardinality(K)
  BY <1>1, FS_Subset, FS_CardinalityType
<1>3. \A i \in Nat : rank(i + 1) = IF i + 1 \in K THEN rank(i) + 1 ELSE rank(i)
  <2>. SUFFICES ASSUME NEW i \in Nat
                PROVE  rank(i + 1) = IF i + 1 \in K THEN rank(i) + 1 ELSE rank(i)
    OBVIOUS
  <2>1. CASE i + 1 \in K
    <3>0. \A k \in K : k <= i + 1 <=> (k <= i \/ k = i + 1)
      BY <1>0
    <3>1. upTo(i + 1) = upTo(i) \cup {i + 1}
      BY <2>1, <3>0, Zenon
    <3>2. i + 1 \notin upTo(i)
      OBVIOUS
    <3>. QED
      BY <2>1, <3>1, <3>2, <1>2, FS_AddElement
  <2>2. CASE i + 1 \notin K
    <3>0. \A k \in K : k <= i + 1 <=> k <= i
      BY <2>2, <1>0
    <3>1. upTo(i + 1) = upTo(i)
      BY <3>0, Zenon
    <3>. QED
      BY <2>2, <3>1
  <2>. QED
    BY <2>1, <2>2
<1>4. rank(0) = 0
  <2>0. \A k \in K : ~(k <= 0)
    BY <1>0
  <2>1. upTo(0) = {}
    BY <2>0, Zenon
  <2>. QED
    BY <2>1, FS_EmptySet
<1>5. rank(n) = Cardinality(K)
  <2>1. upTo(n) = K
    BY <1>0
  <2>. QED
    BY <2>1
<1>. HIDE DEF rank, upTo
<1>6. ASSUME NEW j \in 1 .. Cardinality(K)
      PROVE  \E i \in K : rank(i) = j
  <2>. DEFINE T == {i \in 0 .. n : rank(i) >= j}
  <2>1. n \in T /\ T \in SUBSET Nat
    BY <1>5, <1>2
  <2>2. PICK m \in T : \A x \in T : m <= x
    BY <2>1, LeastNat
  <2>3. m # 0
    BY <1>4
  <2>4. m - 1 \in Nat /\ m - 1 \in 0 .. n /\ m - 1 \notin T
    BY <2>2, <2>3
  <2>5. rank(m - 1) < j /\ rank(m) >= j
    BY <2>4, <1>2
  <2>6. rank(m) = IF m \in K THEN rank(m - 1) + 1 ELSE rank(m - 1)
    <3>1. (m - 1) + 1 = m
      OBVIOUS
    <3>. QED
      BY <3>1, <2>4, <1>3
  <2>. QED
    BY <2>4, <2>5, <2>6, <1>2
<1>7. ASSUME NEW i \in K
      PROVE  rank(i) \in 1 .. Cardinality(K)
  <2>1. i - 1 \in Nat /\ (i - 1) + 1 = i
    OBVIOUS
  <2>2. rank(i) = rank(i - 1) + 1
    BY <2>1, <1>3
  <2>. QED
    BY <2>1, <2>2, <1>2
<1>8. ASSUME NEW i \in K, NEW j \in K, i < j
      PROVE  rank(i) < rank(j)
  <2>1. j - 1 \in Nat /\ (j - 1) + 1 = j
    OBVIOUS
  <2>2. rank(j) = rank(j - 1) + 1
    BY <2>1, <1>3
  <2>0. \A k \in K : k <= i => k <= j - 1
    BY <1>8, <1>0
  <2>3. upTo(i) \subseteq upTo(j - 1)
    BY <2>0, Zenon DEF upTo
  <2>4. rank(i) <= rank(j - 1)
    BY <2>1, <2>3, <1>2, FS_Subset DEF rank
  <2>. QED
    BY <2>1, <2>2, <2>4, <1>2
<1>9. Cardinality(K) \in Nat
  BY <1>1, FS_CardinalityType
<1>. QED
  BY <1>6, <1>7, <1>8, <1>9 DEF rank, upTo

\* Deadlines are never more than kEventDelay away, so an event that is enqueued
\* with that delay belongs at the end of the queue: EnqueueEvent's search never
\* stops early.
LEMMA EnqueueAppends ==
  ASSUME NEW q \in Seq(Event), NEW ev, ev.due = kEventDelay
  PROVE  EnqueueEvent(q, ev) = Append(q, ev)
<1>1. \A i \in DOMAIN q : ~(q[i].due > ev.due)
  <2>. SUFFICES ASSUME NEW i \in DOMAIN q
                PROVE  ~(q[i].due > ev.due)
    OBVIOUS
  <2>1. q[i] \in Event
    OBVIOUS
  <2>2. q[i].due \in -Horizon .. kEventDelay
    BY <2>1 DEF Event
  <2>3. Horizon \in Nat /\ kEventDelay \in Nat
    BY TimeAssumption DEF Horizon
  <2>. QED
    BY <2>2, <2>3
<1>. QED
  BY <1>1, Zenon DEF EnqueueEvent

LEMMA NewEvents ==
  ASSUME NEW code \in Codes
  PROVE  /\ \A tid \in Tids : DownEvent(code, tid) \in Event
         /\ UpEvent(code) \in Event
  BY TimeAssumption DEF DownEvent, UpEvent, Event, Horizon

\* EraseTid leaves the events of the other fingers, all of them, in their order:
\* there is an increasing map from the new positions onto the kept old ones.
LEMMA EraseKeeps ==
  ASSUME NEW q \in Seq(Event), NEW tid
  PROVE  /\ EraseTid(q, tid) \in Seq(Event)
         /\ \E pos \in [DOMAIN EraseTid(q, tid) -> DOMAIN q] :
              /\ \A j \in DOMAIN EraseTid(q, tid) :
                   /\ EraseTid(q, tid)[j] = q[pos[j]]
                   /\ q[pos[j]].tid # tid
              /\ \A j, k \in DOMAIN EraseTid(q, tid) : j < k => pos[j] < pos[k]
              /\ \A i \in DOMAIN q :
                   q[i].tid # tid => \E j \in DOMAIN EraseTid(q, tid) : pos[j] = i
<1>. DEFINE keep == DOMAIN q \ EventsOf(q, tid)
            rank(i) == Cardinality({k \in keep : k <= i})
            n == Cardinality(keep)
            at(j) == CHOOSE i \in keep : rank(i) = j
            r == [j \in 1 .. n |-> q[at(j)]]
            p == [j \in 1 .. n |-> at(j)]
<1>1. EraseTid(q, tid) = r
  BY DEF EraseTid
<1>2. /\ n \in Nat
      /\ \A j \in 1 .. n : \E i \in keep : rank(i) = j
      /\ \A i \in keep : rank(i) \in 1 .. n
      /\ \A i, j \in keep : i < j => rank(i) < rank(j)
  <2>1. Len(q) \in Nat /\ keep \in SUBSET (1 .. Len(q))
    OBVIOUS
  <2>. QED
    BY <2>1, Ranks, Zenon
<1>3. keep \subseteq DOMAIN q /\ \A i \in DOMAIN q : i \in keep <=> q[i].tid # tid
  BY DEF EventsOf
<1>4. \A i \in keep : i \in Int
  BY <1>3
<1>. HIDE DEF keep, rank, n
<1>5. \A j \in 1 .. n : at(j) \in keep /\ rank(at(j)) = j
  BY <1>2, Zenon
<1>6. \A i \in keep : at(rank(i)) = i
  <2>. SUFFICES ASSUME NEW i \in keep
                PROVE  at(rank(i)) = i
    OBVIOUS
  <2>1. rank(i) \in 1 .. n
    BY <1>2
  <2>2. at(rank(i)) \in keep /\ rank(at(rank(i))) = rank(i)
    BY <2>1, <1>5, Zenon
  <2>3. PICK m : m = at(rank(i))
    OBVIOUS
  <2>4. m \in keep /\ rank(m) = rank(i)
    BY <2>2, <2>3
  <2>5. ~(m < i) /\ ~(i < m)
    BY <2>1, <2>4, <1>2
  <2>. QED
    BY <2>3, <2>4, <2>5, <1>4
<1>. HIDE DEF at
<1>7. ASSUME NEW j \in 1 .. n, NEW k \in 1 .. n, j < k
      PROVE  at(j) < at(k)
  <2>1. /\ at(j) \in keep /\ at(k) \in keep
        /\ rank(at(j)) = j /\ rank(at(k)) = k
    BY <1>5
  <2>2. at(j) # at(k) /\ ~(at(k) < at(j))
    BY <2>1, <1>2, <1>7
  <2>. QED
    BY <2>1, <2>2, <1>4
<1>8. DOMAIN r = 1 .. n /\ p \in [1 .. n -> DOMAIN q] /\ r \in [1 .. n -> Event]
  BY <1>5, <1>3
<1>9. r \in Seq(Event)
  BY <1>8, <1>2, SeqDef
<1>10. \A j \in DOMAIN r : r[j] = q[p[j]] /\ q[p[j]].tid # tid
  BY <1>8, <1>5, <1>3
<1>11. \A j, k \in DOMAIN r : j < k => p[j] < p[k]
  BY <1>8, <1>7
<1>12. \A i \in DOMAIN q : q[i].tid # tid => \E j \in DOMAIN r : p[j] = i
  <2>. SUFFICES ASSUME NEW i \in DOMAIN q, q[i].tid # tid
                PROVE  \E j \in DOMAIN r : p[j] = i
    OBVIOUS
  <2>1. i \in keep
    BY <1>3
  <2>2. rank(i) \in DOMAIN r /\ p[rank(i)] = i
    BY <2>1, <1>2, <1>6, <1>8
  <2>. QED
    BY <2>2
<1>13. p \in [DOMAIN r -> DOMAIN q]
  BY <1>8
<1>. HIDE DEF r, p
<1>. QED
  BY <1>1, <1>9, <1>10, <1>11, <1>12, <1>13, Zenon

\* MarkGuaranteed changes nothing but is_guaranteed, which it sets for the first
\* event of tid.
LEMMA MarkedQueue ==
  ASSUME NEW q \in Seq(Event), NEW tid
  PROVE  /\ MarkGuaranteed(q, tid) \in Seq(Event)
         /\ DOMAIN MarkGuaranteed(q, tid) = DOMAIN q
         /\ \A i \in DOMAIN q :
              /\ MarkGuaranteed(q, tid)[i].ev_code = q[i].ev_code
              /\ MarkGuaranteed(q, tid)[i].is_down = q[i].is_down
              /\ MarkGuaranteed(q, tid)[i].tid = q[i].tid
              /\ MarkGuaranteed(q, tid)[i].due = q[i].due
              /\ q[i].is_guaranteed => MarkGuaranteed(q, tid)[i].is_guaranteed
         /\ \A i \in EventsOf(q, tid) :
              (\A j \in EventsOf(q, tid) : i <= j)
                => MarkGuaranteed(q, tid)[i].is_guaranteed
<1>. DEFINE m == MarkGuaranteed(q, tid)
            g(i) == \/ q[i].is_guaranteed
                    \/ /\ q[i].tid = tid
                       /\ \A j \in EventsOf(q, tid) : i <= j
<1>1. \A i \in DOMAIN q :
        m[i] = [ev_code |-> q[i].ev_code, is_down |-> q[i].is_down,
                tid |-> q[i].tid, is_guaranteed |-> g(i), due |-> q[i].due]
  BY DEF MarkGuaranteed
<1>2. DOMAIN m = DOMAIN q /\ DOMAIN q = 1 .. Len(q) /\ Len(q) \in Nat
  BY DEF MarkGuaranteed
<1>0. /\ \A i : g(i) \in BOOLEAN
      /\ \A i : q[i].is_guaranteed => g(i)
      /\ \A i \in EventsOf(q, tid) :
           (\A j \in EventsOf(q, tid) : i <= j) => g(i)
  BY Zenon DEF EventsOf
<1>. HIDE DEF m, g
<1>3. \A i \in DOMAIN q : q[i] \in Event
  OBVIOUS
<1>4. ASSUME NEW i \in DOMAIN q
      PROVE  /\ m[i] \in Event
             /\ m[i].ev_code = q[i].ev_code /\ m[i].is_down = q[i].is_down
             /\ m[i].tid = q[i].tid /\ m[i].due = q[i].due
             /\ m[i].is_guaranteed = g(i)
  <2>1. m[i] = [ev_code |-> q[i].ev_code, is_down |-> q[i].is_down,
                tid |-> q[i].tid, is_guaranteed |-> g(i), due |-> q[i].due]
    BY <1>1
  <2>2. PICK b \in BOOLEAN : b = g(i)
    BY <1>0
  <2>3. m[i] = [ev_code |-> q[i].ev_code, is_down |-> q[i].is_down,
                tid |-> q[i].tid, is_guaranteed |-> b, due |-> q[i].due]
    BY <2>1, <2>2
  <2>4. q[i] \in Event
    BY <1>3
  <2>. QED
    BY <2>2, <2>3, <2>4 DEF Event
<1>5. m = [i \in 1 .. Len(q) |-> m[i]]
  BY <1>2 DEF m, MarkGuaranteed
<1>6. m \in [1 .. Len(q) -> Event]
  BY <1>2, <1>4, <1>5
<1>7. m \in Seq(Event)
  BY <1>2, <1>6, SeqDef
<1>8. \A i \in EventsOf(q, tid) :
        (\A j \in EventsOf(q, tid) : i <= j) => m[i].is_guaranteed
  <2>1. EventsOf(q, tid) \subseteq DOMAIN q
    BY DEF EventsOf
  <2>. QED
    BY <2>1, <1>0, <1>4
<1>9. \A i \in DOMAIN q : q[i].is_guaranteed => m[i].is_guaranteed
  BY <1>0, <1>4
<1>. QED
  BY <1>2, <1>4, <1>7, <1>8, <1>9 DEF m

\* A tick changes nothing but the deadlines, which come nearer but keep their
\* order.
LEMMA AgedQueue ==
  ASSUME NEW q \in Seq(Event)
  PROVE  /\ AgeEvents(q) \in Seq(Event)
         /\ DOMAIN AgeEvents(q) = DOMAIN q
         /\ \A i \in DOMAIN q :
              /\ AgeEvents(q)[i].ev_code = q[i].ev_code
              /\ AgeEvents(q)[i].is_down = q[i].is_down
              /\ AgeEvents(q)[i].tid = q[i].tid
              /\ AgeEvents(q)[i].is_guaranteed = q[i].is_guaranteed
              /\ AgeEvents(q)[i].due = Age(q[i].due)
<1>. DEFINE m == AgeEvents(q)
<1>1. \A i \in DOMAIN q :
        m[i] = [ev_code |-> q[i].ev_code, is_down |-> q[i].is_down,
                tid |-> q[i].tid, is_guaranteed |-> q[i].is_guaranteed,
                due |-> Age(q[i].due)]
  BY DEF AgeEvents
<1>2. DOMAIN m = DOMAIN q /\ DOMAIN q = 1 .. Len(q) /\ Len(q) \in Nat
  BY DEF AgeEvents
<1>3. \A d \in -Horizon .. kEventDelay : Age(d) \in -Horizon .. kEventDelay
  BY TimeAssumption DEF Age, Horizon
<1>4. m = [i \in 1 .. Len(q) |-> m[i]]
  BY <1>2 DEF AgeEvents
<1>. HIDE DEF m
<1>5. \A i \in DOMAIN q : q[i] \in Event
  OBVIOUS
<1>6. \A i \in DOMAIN q : m[i] \in Event
  <2>. SUFFICES ASSUME NEW i \in DOMAIN q
                PROVE  m[i] \in Event
    OBVIOUS
  <2>1. /\ q[i].ev_code \in Codes /\ q[i].is_down \in BOOLEAN
        /\ q[i].tid \in Tids \cup {kOldTID}
        /\ q[i].is_guaranteed \in BOOLEAN
        /\ Age(q[i].due) \in -Horizon .. kEventDelay
    BY <1>3, <1>5 DEF Event
  <2>2. m[i] = [ev_code |-> q[i].ev_code, is_down |-> q[i].is_down,
                tid |-> q[i].tid, is_guaranteed |-> q[i].is_guaranteed,
                due |-> Age(q[i].due)]
    BY <1>1
  <2>. QED
    BY <2>1, <2>2 DEF Event
<1>7. m \in [1 .. Len(q) -> Event]
  BY <1>2, <1>4, <1>6
<1>8. m \in Seq(Event)
  BY <1>2, <1>7, SeqDef
<1>9. \A i \in DOMAIN q :
        /\ m[i].ev_code = q[i].ev_code /\ m[i].is_down = q[i].is_down
        /\ m[i].tid = q[i].tid /\ m[i].is_guaranteed = q[i].is_guaranteed
        /\ m[i].due = Age(q[i].due)
  <2>. SUFFICES ASSUME NEW i \in DOMAIN q
                PROVE  /\ m[i].ev_code = q[i].ev_code
                       /\ m[i].is_down = q[i].is_down
                       /\ m[i].tid = q[i].tid
                       /\ m[i].is_guaranteed = q[i].is_guaranteed
                       /\ m[i].due = Age(q[i].due)
    OBVIOUS
  <2>1. m[i] = [ev_code |-> q[i].ev_code, is_down |-> q[i].is_down,
                tid |-> q[i].tid, is_guaranteed |-> q[i].is_guaranteed,
                due |-> Age(q[i].due)]
    BY <1>1
  <2>. QED
    BY <2>1
<1>. QED
  BY <1>2, <1>8, <1>9 DEF m

(***************************************************************************)
(* Part 2.  Type correctness.                                              *)
(***************************************************************************)

\* A finger that was not rejected landed on a key and types one of its codes.
\* (TypeOK needs it: the key-up of a leaving finger takes its code from there.)
FingersOnKeys ==
  \A tid \in DOMAIN finger_data :
    ~Rejected(tid) => /\ finger_data[tid].starting_key_number \in Keys
                      /\ finger_data[tid].event_code \in Codes

TypeInv == TypeOK /\ FingersOnKeys

LEMMA LayoutFacts ==
  /\ Len(Layout) \in Nat
  /\ \A pos : KeyAt(pos) \in Keys \cup {kNoKey}
  /\ \A pos : KeyAt(pos) # kNoKey => KeyAt(pos) \in Keys
  /\ kNoKey \notin Keys
  /\ \A k \in Keys : CodeFor(k) \in Codes
  /\ 0 \notin Codes
<1>1. Len(Layout) \in Nat
  BY LayoutAssumption
<1>2. ASSUME NEW pos
      PROVE  KeyAt(pos) \in Keys \cup {kNoKey}
  <2>. DEFINE hit == {k \in Keys : KeyContains(k, pos)}
  <2>1. CASE hit = {}
    BY <2>1 DEF KeyAt
  <2>2. CASE hit # {}
    <3>1. hit \in SUBSET Nat
      BY <1>1 DEF Keys
    <3>2. \E k \in hit : \A h \in hit : k <= h
      BY <2>2, <3>1, LeastNat
    <3>3. (CHOOSE k \in hit : \A h \in hit : k <= h) \in hit
      BY <3>2, Zenon
    <3>. QED
      BY <2>2, <3>3 DEF KeyAt
  <2>. QED
    BY <2>1, <2>2
<1>3. kNoKey \notin Keys
  BY <1>1 DEF kNoKey, Keys
<1>4. ASSUME NEW k \in Keys
      PROVE  CodeFor(k) \in Codes
  BY Zenon DEF CodeFor, Codes
<1>5. ASSUME NEW k \in Keys
      PROVE  Layout[k].event_code # 0
  <2>1. Layout[k] \in [event_code : Nat \ {0}, event_code_fn : Nat,
                      area : SUBSET Points]
    BY LayoutAssumption, ElementOfSeq DEF Keys
  <2>. QED
    BY <2>1
<1>6. 0 \notin Codes
  BY <1>5 DEF Codes
<1>. QED
  BY <1>1, <1>2, <1>3, <1>4, <1>6

LEMMA RejectionTypes ==
  /\ "kNotRejectedYet" \in RejectionStatus
  /\ "kRejectTouchdownOffKey" \in RejectionStatus
  /\ "kRejectMovedOffKey" \in RejectionStatus
  BY DEF RejectionStatus

\* The timeout passed to select() is in Nat and covers the time to the deadline:
\* floor or ceiling, one millisecond more is beyond it.
LEMMA TimeoutFacts ==
  ASSUME NEW due \in -Horizon .. kEventDelay, NEW t \in Timeouts(due)
  PROVE  /\ t \in Nat
         /\ due <= t
         /\ due > 0 => t > 0
<1>. DEFINE T == TicksPerMs
<1>1. T \in Nat /\ T > 0 /\ due \in Int
  BY TimeAssumption DEF Horizon
<1>2. PICK m \in {due \div T, -((-due) \div T)} :
        t = IF m + 1 < 0 THEN T ELSE (m + 1) * T
  BY DEF Timeouts
<1>3. /\ due \div T \in Int /\ T * (due \div T) <= due
      /\ due < T * (due \div T) + T
  BY <1>1
<1>4. /\ (-due) \div T \in Int /\ T * ((-due) \div T) <= -due
      /\ -due < T * ((-due) \div T) + T
  BY <1>1
<1>5. m \in Int /\ due < T * m + T
  <2>1. CASE m = due \div T
    BY <2>1, <1>3
  <2>2. CASE m = -((-due) \div T)
    <3>1. PICK k \in Int : k = (-due) \div T
      BY <1>4
    <3>2. T * (-k) = -(T * k)
      BY <1>1
    <3>. QED
      BY <2>2, <3>1, <3>2, <1>1, <1>4
  <2>. QED
    BY <1>2, <2>1, <2>2
<1>6. (m + 1) * T = T * m + T
  BY <1>1, <1>5
<1>7. CASE m + 1 < 0
  <2>1. m + 1 <= -1 /\ T * m + T <= -T
    <3>1. m + 1 <= -1
      BY <1>5, <1>7
    <3>2. (m + 1) * T <= (-1) * T
      BY <3>1, <1>1, <1>5
    <3>. QED
      BY <3>1, <3>2, <1>1, <1>6
  <2>. QED
    BY <2>1, <1>1, <1>2, <1>5, <1>7
<1>8. CASE ~(m + 1 < 0)
  <2>1. (m + 1) * T \in Nat
    BY <1>1, <1>5, <1>8
  <2>. QED
    BY <2>1, <1>1, <1>2, <1>5, <1>6, <1>8
<1>. QED
  BY <1>7, <1>8

\* What a report of the snapshot is made of.
LEMMA SnapFacts ==
  ASSUME TypeOK, NEW tid \in todo
  PROVE  tid \in Tids /\ snap[tid].p \in Int /\ snap[tid].touch_major \in Int
<1>1. tid \in Tids /\ tid \in DOMAIN snap
  BY DEF TypeOK
<1>2. snap[tid] \in Reports
  BY <1>1 DEF TypeOK
<1>3. snap[tid] \in [pos : Points, p : Int, touch_major : Int]
  BY <1>2, LayoutAssumption
<1>. QED
  BY <1>1, <1>3

LEMMA UpdatedType ==
  ASSUME TypeOK, NEW tid \in todo, Live(tid), NEW status \in RejectionStatus
  PROVE  /\ Updated(tid, status) \in FingerData
         /\ Updated(tid, status).starting_key_number
              = finger_data[tid].starting_key_number
         /\ Updated(tid, status).event_code = finger_data[tid].event_code
         /\ Updated(tid, status).down_sent = finger_data[tid].down_sent
         /\ Updated(tid, status).rejection_status = status
<1>1. finger_data[tid] \in FingerData
  BY DEF TypeOK, Live
<1>2. snap[tid].p \in Int /\ snap[tid].touch_major \in Int
  BY SnapFacts
<1>. QED
  BY <1>1, <1>2 DEF Updated, FingerData

\* SetFinger adds or replaces one entry.
LEMMA SetFingerType ==
  ASSUME TypeOK, NEW tid \in Tids, NEW d \in FingerData
  PROVE  /\ DOMAIN SetFinger(tid, d) = DOMAIN finger_data \cup {tid}
         /\ DOMAIN SetFinger(tid, d) \subseteq Tids
         /\ SetFinger(tid, d) \in [DOMAIN SetFinger(tid, d) -> FingerData]
         /\ SetFinger(tid, d)[tid] = d
         /\ \A t \in DOMAIN finger_data :
              t # tid => SetFinger(tid, d)[t] = finger_data[t]
  BY DEF TypeOK, SetFinger

LEMMA TypeInit == Init => TypeInv
<1>1. <<>> \in Seq(Event) /\ NoFingers \in [{} -> FingerData]
      /\ NoFingers \in [{} -> Reports] /\ DOMAIN NoFingers = {}
  BY DEF NoFingers
<1>2. MaxLag \in Nat /\ MaxFrame \in Nat \ {0, 1}
  BY TimeAssumption
<1>3. ASSUME Init
      PROVE  TypeOK
  <2>0. fn_key_pressed \in BOOLEAN /\ needs_syn \in BOOLEAN
    BY <1>3, Zenon DEF Init
  <2>1. /\ pc \in {"top", "select", "read", "process", "fire", "exited"}
        /\ timer \in Nat /\ lag \in 0 .. MaxLag /\ unread \in 0 .. MaxFrame - 1
        /\ keys \subseteq Codes /\ seen \subseteq Codes
    BY <1>2, <1>3 DEF Init
  <2>2. /\ DOMAIN finger_data \subseteq Tids
        /\ finger_data \in [DOMAIN finger_data -> FingerData]
    BY <1>1, <1>3 DEF Init
  <2>3. /\ snap \in [DOMAIN snap -> Reports]
        /\ todo \subseteq DOMAIN snap \cap Tids
    BY <1>1, <1>3 DEF Init
  <2>4. pending_events \in Seq(Event)
    BY <1>1, <1>3 DEF Init
  <2>. QED
    BY <2>0, <2>1, <2>2, <2>3, <2>4 DEF TypeOK
<1>. QED
  BY <1>1, <1>3 DEF Init, TypeInv, FingersOnKeys

\* The steps that do not touch the fingers and the queue.
LEMMA TypeControl ==
  ASSUME TypeInv,
         \/ LoopTop \/ SelectTimeout \/ ReadFirst \/ ReadNext \/ ReadSyn
         \/ ReadFails \/ EndSnapshot \/ EndFiring \/ Exited \/ UNCHANGED vars
         \/ \E tid \in Tids : SkipRejected(tid)
  PROVE  TypeInv'
<1>1. UNCHANGED queue => FingersOnKeys'
  BY DEF TypeInv, FingersOnKeys, queue, Rejected
<1>2. /\ TypeOK /\ FingersOnKeys
      /\ MaxLag \in Nat /\ MaxFrame \in Nat \ {0, 1}
  BY TimeAssumption DEF TypeInv
<1>3. CASE LoopTop
  <2>1. timer' \in Nat
    <3>1. CASE pending_events = <<>>
      BY <1>3, <3>1 DEF LoopTop
    <3>2. CASE pending_events # <<>>
      <4>1. Head(pending_events) \in Event
        BY <1>2, <3>2 DEF TypeOK
      <4>2. Head(pending_events).due \in -Horizon .. kEventDelay
        BY <4>1 DEF Event
      <4>3. timer' \in Timeouts(Head(pending_events).due)
        BY <1>3, <3>2 DEF LoopTop
      <4>. QED
        BY <4>2, <4>3, TimeoutFacts
    <3>. QED
      BY <3>1, <3>2
  <2>2. pc' \in {"select", "read"}
    BY <1>3 DEF LoopTop
  <2>3. needs_syn' = FALSE /\ lag' = 0 /\ UNCHANGED <<queue, frame, keys, seen>>
    BY <1>3 DEF LoopTop
  <2>4. lag' \in 0 .. MaxLag /\ needs_syn' \in BOOLEAN
    <3>1. lag' \in 0 .. MaxLag
      BY <1>2, <2>3
    <3>2. needs_syn' \in BOOLEAN
      BY <2>3, Zenon
    <3>. QED
      BY <3>1, <3>2
  <2>5. TypeOK'
    BY <1>2, <2>1, <2>2, <2>3, <2>4 DEF TypeOK, queue, frame
  <2>. QED
    BY <1>1, <2>3, <2>5 DEF TypeInv
<1>4. CASE SelectTimeout
  BY <1>1, <1>2, <1>4 DEF SelectTimeout, TypeInv, TypeOK, queue, frame, output
<1>5. CASE ReadFirst
  BY <1>1, <1>2, <1>5 DEF ReadFirst, TypeInv, TypeOK, queue, output
<1>6. CASE ReadNext
  BY <1>1, <1>2, <1>6 DEF ReadNext, TypeInv, TypeOK, queue, output
<1>7. CASE ReadSyn
  <2>1. PICK S \in SUBSET Tids : snap' \in [S -> Reports] /\ todo' = S
    BY <1>7 DEF ReadSyn
  <2>. QED
    BY <1>1, <1>2, <1>7, <2>1 DEF ReadSyn, TypeInv, TypeOK, queue, output
<1>8. CASE ReadFails
  BY <1>1, <1>2, <1>8 DEF ReadFails, TypeInv, TypeOK, queue, clock, frame
<1>9. CASE EndSnapshot
  BY <1>1, <1>2, <1>9
     DEF EndSnapshot, TypeInv, TypeOK, queue, clock, output, NoFingers
<1>10. CASE EndFiring
  BY <1>1, <1>2, <1>10 DEF EndFiring, TypeInv, TypeOK, queue, clock, frame
<1>11. CASE Exited \/ UNCHANGED vars
  BY <1>1, <1>2, <1>11
     DEF Exited, vars, TypeInv, TypeOK, queue, clock, frame, output
<1>12. CASE \E tid \in Tids : SkipRejected(tid)
  BY <1>1, <1>2, <1>12 DEF SkipRejected, TypeInv, TypeOK, queue, clock, output
<1>. QED
  BY <1>3, <1>4, <1>5, <1>6, <1>7, <1>8, <1>9, <1>10, <1>11, <1>12

\* The clock.
LEMMA TypeTick ==
  ASSUME TypeInv, Tick
  PROVE  TypeInv'
<1>1. pending_events' \in Seq(Event)
  BY AgedQueue DEF TypeInv, TypeOK, Tick
<1>2. timer' \in Nat /\ lag' \in 0 .. MaxLag
  BY TimeAssumption DEF TypeInv, TypeOK, Tick
<1>3. UNCHANGED <<pc, finger_data, fn_key_pressed, frame, output>>
  BY DEF Tick
<1>4. TypeOK'
  BY <1>1, <1>2, <1>3 DEF TypeInv, TypeOK, frame, output
<1>5. FingersOnKeys'
  BY <1>3 DEF TypeInv, FingersOnKeys, Rejected
<1>. QED
  BY <1>4, <1>5 DEF TypeInv

\* A step that changes nothing but the queue, the fingers, the Fn flag and todo
\* keeps TypeInv if these have their types.
LEMMA TypeProcess ==
  ASSUME TypeInv,
         UNCHANGED <<pc, clock, unread, snap, output>>,
         todo' \subseteq todo,
         fn_key_pressed' \in BOOLEAN,
         pending_events' \in Seq(Event),
         DOMAIN finger_data' \subseteq Tids,
         finger_data' \in [DOMAIN finger_data' -> FingerData],
         FingersOnKeys'
  PROVE  TypeInv'
  BY DEF TypeInv, TypeOK, clock, output

LEMMA TypeArrive ==
  ASSUME TypeInv, NEW tid \in Tids, ArriveFinger(tid)
  PROVE  TypeInv'
<1>. DEFINE key == KeyAt(snap[tid].pos)
            code == IF key = kNoKey THEN 0 ELSE CodeFor(key)
            status == IF key = kNoKey THEN "kRejectTouchdownOffKey"
                      ELSE "kNotRejectedYet"
            d == [max_pressure |-> snap[tid].p,
                  max_touch_major |-> snap[tid].touch_major,
                  starting_key_number |-> key, event_code |-> code,
                  down_sent |-> FALSE, rejection_status |-> status]
<1>1. /\ tid \in todo /\ todo' = todo \ {tid}
      /\ UNCHANGED <<pc, clock, unread, snap, output>>
      /\ finger_data' = SetFinger(tid, d)
      /\ pending_events' =
           IF key = kNoKey THEN pending_events
           ELSE EnqueueEvent(pending_events, DownEvent(code, tid))
      /\ fn_key_pressed' = (fn_key_pressed \/ code = KEY_FN)
  BY DEF ArriveFinger
<1>2. /\ key \in Keys \cup {kNoKey} /\ (key # kNoKey => key \in Keys)
      /\ (key # kNoKey => code \in Codes) /\ code \in Codes \cup {0}
  BY LayoutFacts
<1>3. status \in RejectionStatus
  BY RejectionTypes
<1>4. snap[tid].p \in Int /\ snap[tid].touch_major \in Int
  BY <1>1, SnapFacts DEF TypeInv
<1>. HIDE DEF key, code, status
<1>5. d \in FingerData
  BY <1>2, <1>3, <1>4 DEF FingerData
<1>6. d.rejection_status = status /\ d.starting_key_number = key
      /\ d.event_code = code
  OBVIOUS
<1>. HIDE DEF d
<1>7. pending_events' \in Seq(Event)
  <2>1. CASE key = kNoKey
    BY <1>1, <2>1 DEF TypeInv, TypeOK
  <2>2. CASE key # kNoKey
    <3>1. DownEvent(code, tid) \in Event
      BY <1>2, <2>2, NewEvents
    <3>2. DownEvent(code, tid).due = kEventDelay
      BY DEF DownEvent
    <3>3. pending_events \in Seq(Event)
      BY DEF TypeInv, TypeOK
    <3>4. pending_events' = Append(pending_events, DownEvent(code, tid))
      BY <1>1, <2>2, <3>2, <3>3, EnqueueAppends
    <3>. QED
      BY <3>1, <3>3, <3>4
  <2>. QED
    BY <2>1, <2>2
<1>8. fn_key_pressed' \in BOOLEAN
  BY <1>1
<1>9. /\ DOMAIN finger_data' = DOMAIN finger_data \cup {tid}
      /\ DOMAIN finger_data' \subseteq Tids
      /\ finger_data' \in [DOMAIN finger_data' -> FingerData]
      /\ finger_data'[tid] = d
      /\ \A t \in DOMAIN finger_data : t # tid => finger_data'[t] = finger_data[t]
  BY <1>1, <1>5, SetFingerType DEF TypeInv
<1>10. status = "kNotRejectedYet" => key # kNoKey
  BY DEF status
<1>11. FingersOnKeys'
  BY <1>2, <1>6, <1>9, <1>10 DEF FingersOnKeys, Rejected, TypeInv
<1>. QED
  BY <1>1, <1>7, <1>8, <1>9, <1>11, TypeProcess

\* An event that UpEvent makes goes to the end of the queue.
LEMMA EnqueueUp ==
  ASSUME NEW q \in Seq(Event), NEW code \in Codes
  PROVE  /\ EnqueueEvent(q, UpEvent(code)) = Append(q, UpEvent(code))
         /\ EnqueueEvent(q, UpEvent(code)) \in Seq(Event)
<1>1. UpEvent(code) \in Event
  BY NewEvents
<1>2. UpEvent(code).due = kEventDelay
  BY DEF UpEvent
<1>. QED
  BY <1>1, <1>2, EnqueueAppends

LEMMA TypeTrack ==
  ASSUME TypeInv, NEW tid \in Tids, TrackFinger(tid)
  PROVE  TypeInv'
<1>. DEFINE d == Updated(tid, "kNotRejectedYet")
<1>1. /\ tid \in todo /\ todo' = todo \ {tid} /\ Live(tid) /\ ~Rejected(tid)
      /\ finger_data' = SetFinger(tid, d)
      /\ UNCHANGED <<pc, pending_events, fn_key_pressed, clock, unread, snap,
                     output>>
  BY DEF TrackFinger
<1>2. /\ d \in FingerData
      /\ d.starting_key_number = finger_data[tid].starting_key_number
      /\ d.event_code = finger_data[tid].event_code
  BY <1>1, UpdatedType, RejectionTypes DEF TypeInv
<1>. HIDE DEF d
<1>3. /\ DOMAIN finger_data' = DOMAIN finger_data \cup {tid}
      /\ DOMAIN finger_data' \subseteq Tids
      /\ finger_data' \in [DOMAIN finger_data' -> FingerData]
      /\ finger_data'[tid] = d
      /\ \A t \in DOMAIN finger_data : t # tid => finger_data'[t] = finger_data[t]
  BY <1>1, <1>2, SetFingerType DEF TypeInv
<1>4. FingersOnKeys'
  BY <1>1, <1>2, <1>3 DEF FingersOnKeys, Rejected, TypeInv, Live
<1>5. pending_events' \in Seq(Event) /\ fn_key_pressed' \in BOOLEAN
  BY <1>1 DEF TypeInv, TypeOK
<1>. QED
  BY <1>1, <1>3, <1>4, <1>5, TypeProcess

LEMMA TypeMoveOff ==
  ASSUME TypeInv, NEW tid \in Tids, MoveOffKey(tid)
  PROVE  TypeInv'
<1>. DEFINE d == Updated(tid, "kRejectMovedOffKey")
            left == EraseTid(pending_events, tid)
<1>1. /\ tid \in todo /\ todo' = todo \ {tid} /\ Live(tid) /\ ~Rejected(tid)
      /\ finger_data' = SetFinger(tid, d)
      /\ UNCHANGED <<pc, clock, unread, snap, output>>
      /\ pending_events' =
           IF finger_data[tid].down_sent
           THEN EnqueueEvent(left, UpEvent(finger_data[tid].event_code))
           ELSE left
  BY DEF MoveOffKey
<1>2. d \in FingerData /\ d.rejection_status = "kRejectMovedOffKey"
  BY <1>1, UpdatedType, RejectionTypes DEF TypeInv
<1>. HIDE DEF d
<1>3. /\ DOMAIN finger_data' = DOMAIN finger_data \cup {tid}
      /\ DOMAIN finger_data' \subseteq Tids
      /\ finger_data' \in [DOMAIN finger_data' -> FingerData]
      /\ finger_data'[tid] = d
      /\ \A t \in DOMAIN finger_data : t # tid => finger_data'[t] = finger_data[t]
  BY <1>1, <1>2, SetFingerType DEF TypeInv
<1>4. FingersOnKeys'
  BY <1>1, <1>2, <1>3 DEF FingersOnKeys, Rejected, TypeInv, Live
<1>5. left \in Seq(Event)
  BY EraseKeeps DEF TypeInv, TypeOK
<1>6. finger_data[tid].event_code \in Codes
  BY <1>1 DEF TypeInv, FingersOnKeys, Live
<1>7. pending_events' \in Seq(Event)
  BY <1>1, <1>5, <1>6, EnqueueUp
<1>8. fn_key_pressed' \in BOOLEAN
  BY Zenon DEF MoveOffKey
<1>. QED
  BY <1>1, <1>3, <1>4, <1>7, <1>8, TypeProcess

\* The fingers that stay are not touched by the removal of one.
LEMMA RestrictType ==
  ASSUME TypeInv, NEW tid \in Tids,
         finger_data' = Restrict(finger_data, DOMAIN finger_data \ {tid})
  PROVE  /\ DOMAIN finger_data' = DOMAIN finger_data \ {tid}
         /\ DOMAIN finger_data' \subseteq Tids
         /\ finger_data' \in [DOMAIN finger_data' -> FingerData]
         /\ \A t \in DOMAIN finger_data' : finger_data'[t] = finger_data[t]
         /\ FingersOnKeys'
<1>1. /\ DOMAIN finger_data' = DOMAIN finger_data \ {tid}
      /\ \A t \in DOMAIN finger_data' : finger_data'[t] = finger_data[t]
      /\ finger_data' \in [DOMAIN finger_data' -> FingerData]
      /\ DOMAIN finger_data' \subseteq Tids
  BY DEF TypeInv, TypeOK, Restrict
<1>2. FingersOnKeys'
  BY <1>1 DEF TypeInv, FingersOnKeys, Rejected
<1>. QED
  BY <1>1, <1>2

LEMMA TypeLeave ==
  ASSUME TypeInv, NEW tid \in Tids, LeaveFinger(tid)
  PROVE  TypeInv'
<1>. DEFINE d == finger_data[tid]
            marked == IF d.down_sent THEN pending_events
                      ELSE MarkGuaranteed(pending_events, tid)
<1>1. /\ Live(tid) /\ ~Rejected(tid)
      /\ UNCHANGED <<pc, clock, frame, output>>
      /\ finger_data' = Restrict(finger_data, DOMAIN finger_data \ {tid})
      /\ \/ pending_events' = marked
         \/ pending_events' = EnqueueEvent(marked, UpEvent(d.event_code))
  BY DEF LeaveFinger, Leaving, Live
<1>2. pending_events \in Seq(Event)
  BY DEF TypeInv, TypeOK
<1>3. marked \in Seq(Event)
  BY <1>2, MarkedQueue
<1>4. d.event_code \in Codes
  BY <1>1 DEF TypeInv, FingersOnKeys, Live
<1>. HIDE DEF marked, d
<1>5. pending_events' \in Seq(Event)
  BY <1>1, <1>3, <1>4, EnqueueUp
<1>6. fn_key_pressed' \in BOOLEAN
  BY Zenon DEF LeaveFinger
<1>. QED
  BY <1>1, <1>5, <1>6, RestrictType, TypeProcess DEF frame

LEMMA TypeForget ==
  ASSUME TypeInv, NEW tid \in Tids, ForgetRejected(tid)
  PROVE  TypeInv'
<1>1. /\ UNCHANGED <<pc, pending_events, fn_key_pressed, clock, frame, output>>
      /\ finger_data' = Restrict(finger_data, DOMAIN finger_data \ {tid})
  BY DEF ForgetRejected
<1>2. pending_events' \in Seq(Event) /\ fn_key_pressed' \in BOOLEAN
  BY <1>1 DEF TypeInv, TypeOK
<1>. QED
  BY <1>1, <1>2, RestrictType, TypeProcess DEF frame

\* The event at the head of the queue, and the queue without it.
LEMMA HeadAndTail ==
  ASSUME NEW q \in Seq(Event), q # <<>>
  PROVE  /\ Len(q) \in Nat \ {0}
         /\ Head(q) = q[1] /\ Head(q) \in Event
         /\ Tail(q) \in Seq(Event) /\ Len(Tail(q)) = Len(q) - 1
         /\ DOMAIN Tail(q) = 1 .. Len(q) - 1
         /\ \A i \in DOMAIN Tail(q) : Tail(q)[i] = q[i + 1]
  OBVIOUS

LEMMA TypeDrop ==
  ASSUME TypeInv, DropTap
  PROVE  TypeInv'
<1>1. /\ pending_events # <<>> /\ pending_events' = Tail(pending_events)
      /\ UNCHANGED <<pc, finger_data, fn_key_pressed, clock, frame, output>>
  BY DEF DropTap, ReadyToFire
<1>2. pending_events' \in Seq(Event)
  BY <1>1, HeadAndTail DEF TypeInv, TypeOK
<1>3. FingersOnKeys'
  BY <1>1 DEF TypeInv, FingersOnKeys, Rejected
<1>. QED
  BY <1>1, <1>2, <1>3 DEF TypeInv, TypeOK, clock, frame, output

\* The finger of an event that was sent: only down_sent changes.
LEMMA SentFinger ==
  ASSUME TypeInv, SendKey
  PROVE  /\ DOMAIN finger_data' = DOMAIN finger_data
         /\ finger_data' \in [DOMAIN finger_data' -> FingerData]
         /\ \A t \in DOMAIN finger_data :
              /\ finger_data'[t].starting_key_number
                   = finger_data[t].starting_key_number
              /\ finger_data'[t].event_code = finger_data[t].event_code
              /\ finger_data'[t].rejection_status
                   = finger_data[t].rejection_status
              /\ IF NextEvent.is_down /\ t = NextEvent.tid
                 THEN finger_data'[t].down_sent = TRUE
                 ELSE finger_data'[t] = finger_data[t]
<1>. DEFINE tid == NextEvent.tid
            d == [max_pressure |-> finger_data[tid].max_pressure,
                  max_touch_major |-> finger_data[tid].max_touch_major,
                  starting_key_number |-> finger_data[tid].starting_key_number,
                  event_code |-> finger_data[tid].event_code,
                  down_sent |-> TRUE,
                  rejection_status |-> finger_data[tid].rejection_status]
<1>1. finger_data' = IF NextEvent.is_down /\ Live(tid) THEN SetFinger(tid, d)
                     ELSE finger_data
  BY DEF SendKey
<1>2. CASE NextEvent.is_down /\ Live(tid)
  <2>1. tid \in DOMAIN finger_data /\ DOMAIN finger_data \subseteq Tids
    BY <1>2 DEF Live, TypeInv, TypeOK
  <2>2. finger_data[tid] \in FingerData
    BY <2>1 DEF TypeInv, TypeOK
  <2>3. d \in FingerData
    BY <2>2 DEF FingerData
  <2>4. /\ d.starting_key_number = finger_data[tid].starting_key_number
        /\ d.event_code = finger_data[tid].event_code
        /\ d.rejection_status = finger_data[tid].rejection_status
        /\ d.down_sent = TRUE
    OBVIOUS
  <2>. HIDE DEF d
  <2>5. finger_data' = SetFinger(tid, d)
    BY <1>1, <1>2
  <2>6. /\ DOMAIN finger_data' = DOMAIN finger_data
        /\ finger_data' \in [DOMAIN finger_data' -> FingerData]
        /\ finger_data'[tid] = d
        /\ \A t \in DOMAIN finger_data : t # tid => finger_data'[t] = finger_data[t]
    <3>1. tid \in Tids /\ DOMAIN finger_data \cup {tid} = DOMAIN finger_data
      BY <2>1
    <3>. HIDE DEF tid
    <3>. QED
      BY <2>3, <2>5, <3>1, SetFingerType DEF TypeInv
  <2>7. ASSUME NEW t \in DOMAIN finger_data
        PROVE  /\ finger_data'[t].starting_key_number
                    = finger_data[t].starting_key_number
               /\ finger_data'[t].event_code = finger_data[t].event_code
               /\ finger_data'[t].rejection_status
                    = finger_data[t].rejection_status
               /\ IF NextEvent.is_down /\ t = NextEvent.tid
                  THEN finger_data'[t].down_sent = TRUE
                  ELSE finger_data'[t] = finger_data[t]
    <3>1. CASE t = tid
      BY <1>2, <2>4, <2>6, <3>1, Zenon
    <3>2. CASE t # tid
      BY <2>6, <3>2, Zenon
    <3>. QED
      BY <3>1, <3>2
  <2>. QED
    BY <2>6, <2>7
<1>3. CASE ~(NextEvent.is_down /\ Live(tid))
  <2>1. finger_data' = finger_data
    BY <1>1, <1>3
  <2>2. \A t \in DOMAIN finger_data : ~(NextEvent.is_down /\ t = NextEvent.tid)
    BY <1>3 DEF Live
  <2>. QED
    BY <2>1, <2>2 DEF TypeInv, TypeOK
<1>. QED
  BY <1>2, <1>3

LEMMA TypeSend ==
  ASSUME TypeInv, SendKey
  PROVE  TypeInv'
<1>1. /\ pending_events # <<>> /\ pending_events' = Tail(pending_events)
      /\ UNCHANGED <<pc, fn_key_pressed, clock, frame, seen>>
  BY DEF SendKey, ReadyToFire
<1>2. pending_events' \in Seq(Event)
  BY <1>1, HeadAndTail DEF TypeInv, TypeOK
<1>3. NextEvent \in Event
  BY <1>1, HeadAndTail DEF TypeInv, TypeOK, NextEvent
<1>4. NextEvent.ev_code \in Codes
  BY <1>3 DEF Event
<1>5. keys' \subseteq Codes
  BY <1>4 DEF SendKey, TypeInv, TypeOK
<1>6. needs_syn' \in BOOLEAN
  BY Zenon DEF SendKey
<1>7. FingersOnKeys'
  BY SentFinger DEF FingersOnKeys, Rejected, TypeInv
<1>8. TypeOK'
  BY <1>1, <1>2, <1>5, <1>6, SentFinger DEF TypeInv, TypeOK, clock, frame
<1>. QED
  BY <1>7, <1>8 DEF TypeInv

LEMMA TypeStep == TypeInv /\ [Next]_vars => TypeInv'
<1>. SUFFICES ASSUME TypeInv, [Next]_vars
              PROVE  TypeInv'
  OBVIOUS
<1>1. ASSUME NEW tid \in Tids, ProcessFinger(tid)
      PROVE  TypeInv'
  BY <1>1, TypeArrive, TypeControl, TypeTrack, TypeMoveOff, TypeForget, TypeLeave
     DEF ProcessFinger
<1>. QED
  BY <1>1, TypeControl, TypeTick, TypeDrop, TypeSend DEF Next, Handle

\* Every variable keeps its type, whatever the touches and the scheduling: in
\* particular the code of every event and of every key that goes down is a code
\* of the layout, and no deadline is further away than kEventDelay.
THEOREM TypeCorrect == Spec => []TypeOK
<1>1. Spec => []TypeInv
  BY TypeInit, TypeStep, PTL DEF Spec
<1>2. TypeInv => TypeOK
  BY DEF TypeInv
<1>. QED
  BY <1>1, <1>2, PTL

(***************************************************************************)
(* Part 3.  The queue, the fingers and the keys.                           *)
(*                                                                         *)
(* None of the safety properties is inductive by itself: whether a key-up  *)
(* is due depends on down_sent, which the firing loop sets through the tid *)
(* of an event, so an invariant has to tie the events to the fingers.      *)
(***************************************************************************)

\* A key-down belongs to a finger, a key-up to none, and a key-up is guaranteed.
OwnersKnown ==
  \A i \in DOMAIN pending_events :
    /\ pending_events[i].is_down => pending_events[i].tid \in Tids
    /\ ~pending_events[i].is_down => /\ pending_events[i].tid = kOldTID
                                     /\ pending_events[i].is_guaranteed

\* The key-down of a finger on the sensor is the one decision it waits for.
LiveEvents ==
  \A i \in DOMAIN pending_events :
    Live(pending_events[i].tid) =>
      /\ ~Rejected(pending_events[i].tid)
      /\ ~finger_data[pending_events[i].tid].down_sent
      /\ finger_data[pending_events[i].tid].event_code = pending_events[i].ev_code

OneEventPerFinger ==
  \A i, j \in DOMAIN pending_events :
    pending_events[i].tid = pending_events[j].tid /\ i # j =>
      pending_events[i].tid = kOldTID

\* No event of an earlier contact is left when a tid arrives.
ArrivalsAreFresh ==
  \A tid \in todo :
    ~Live(tid) => \A i \in DOMAIN pending_events : pending_events[i].tid # tid

\* A pending Fn-down finds the Fn layer on, or is followed by an Fn-up.
FnDownsCovered ==
  \A i \in DOMAIN pending_events :
    pending_events[i].is_down /\ pending_events[i].ev_code = KEY_FN =>
      \/ fn_key_pressed
      \/ \E j \in DOMAIN pending_events : j > i /\ IsUp(j, KEY_FN)

QueueInv ==
  /\ OwnersKnown /\ LiveEvents /\ OneEventPerFinger /\ ArrivalsAreFresh
  /\ QuickTapReleased /\ QueueInOrder

KeyInv == NoStuckKey /\ FnDownsCovered /\ FnLayerCoversKey

IndInv == TypeInv /\ QueueInv /\ KeyInv

LEMMA IndInit == Init => IndInv
<1>. SUFFICES ASSUME Init
              PROVE  IndInv
  OBVIOUS
<1>1. DOMAIN pending_events = {} /\ keys = {} /\ todo = {}
  BY DEF Init
<1>2. QueueInv
  BY <1>1 DEF QueueInv, OwnersKnown, LiveEvents, OneEventPerFinger,
     ArrivalsAreFresh, QuickTapReleased, QueueInOrder
<1>3. KeyInv
  BY <1>1 DEF KeyInv, NoStuckKey, FnDownsCovered, FnLayerCoversKey
<1>. QED
  BY <1>2, <1>3, TypeInit DEF IndInv

\* Steps that leave the fingers, the queue and the keys alone.
LEMMA IndControl ==
  ASSUME IndInv,
         \/ LoopTop \/ SelectTimeout \/ ReadFirst \/ ReadNext
         \/ EndSnapshot \/ EndFiring \/ Exited \/ UNCHANGED vars
         \/ \E tid \in Tids : SkipRejected(tid)
  PROVE  QueueInv' /\ KeyInv'
<1>1. UNCHANGED <<queue, keys>> /\ todo' \subseteq todo
  BY DEF LoopTop, SelectTimeout, ReadFirst, ReadNext, EndSnapshot, EndFiring,
     Exited, SkipRejected, vars, queue, frame, output
<1>2. QueueInv'
  BY <1>1 DEF IndInv, QueueInv, OwnersKnown, LiveEvents, OneEventPerFinger,
     ArrivalsAreFresh, QuickTapReleased, QueueInOrder, queue, Live, Rejected, IsUp
<1>3. KeyInv'
  BY <1>1 DEF IndInv, KeyInv, NoStuckKey, FnDownsCovered, FnLayerCoversKey,
     queue, Live, Rejected, IsUp, UpPending, Holds
<1>. QED
  BY <1>2, <1>3

LEMMA IndReadSyn ==
  ASSUME IndInv, ReadSyn
  PROVE  QueueInv' /\ KeyInv'
<1>1. UNCHANGED <<queue, keys>>
  BY DEF ReadSyn, queue, output
<1>2. \A t \in todo' : ~Live(t) => EventsOf(pending_events, t) = {}
  BY DEF ReadSyn, Live
<1>3. ArrivalsAreFresh'
  BY <1>1, <1>2 DEF ArrivalsAreFresh, EventsOf, queue, Live
<1>4. QueueInv'
  BY <1>1, <1>3 DEF IndInv, QueueInv, OwnersKnown, LiveEvents, OneEventPerFinger,
     QuickTapReleased, QueueInOrder, queue, Live, Rejected, IsUp
<1>5. KeyInv'
  BY <1>1 DEF IndInv, KeyInv, NoStuckKey, FnDownsCovered, FnLayerCoversKey,
     queue, Live, Rejected, IsUp, UpPending, Holds
<1>. QED
  BY <1>4, <1>5

LEMMA IndReadFails ==
  ASSUME IndInv, ReadFails
  PROVE  QueueInv' /\ KeyInv'
<1>1. UNCHANGED <<queue, todo>> /\ keys' = {}
  BY DEF ReadFails, queue, frame
<1>2. QueueInv'
  BY <1>1 DEF IndInv, QueueInv, OwnersKnown, LiveEvents, OneEventPerFinger,
     ArrivalsAreFresh, QuickTapReleased, QueueInOrder, queue, Live, Rejected, IsUp
<1>3. KeyInv'
  BY <1>1 DEF IndInv, KeyInv, NoStuckKey, FnDownsCovered, FnLayerCoversKey,
     queue, Live, Rejected, IsUp
<1>. QED
  BY <1>2, <1>3

LEMMA IndTick ==
  ASSUME IndInv, Tick
  PROVE  QueueInv' /\ KeyInv'
<1>1. /\ pending_events' = AgeEvents(pending_events)
      /\ UNCHANGED <<finger_data, fn_key_pressed, todo, keys>>
  BY DEF Tick, frame, output
<1>2. pending_events \in Seq(Event)
  BY DEF IndInv, TypeInv, TypeOK
<1>3. /\ DOMAIN pending_events' = DOMAIN pending_events
      /\ \A i \in DOMAIN pending_events :
           /\ pending_events'[i].ev_code = pending_events[i].ev_code
           /\ pending_events'[i].is_down = pending_events[i].is_down
           /\ pending_events'[i].tid = pending_events[i].tid
           /\ pending_events'[i].is_guaranteed = pending_events[i].is_guaranteed
           /\ pending_events'[i].due = Age(pending_events[i].due)
  BY <1>1, <1>2, AgedQueue
<1>4. \A c : \A i \in DOMAIN pending_events : IsUp(i, c) <=> IsUp(i, c)'
  BY <1>3 DEF IsUp
<1>5. OwnersKnown'
  BY <1>3 DEF IndInv, QueueInv, OwnersKnown
<1>6. LiveEvents'
  BY <1>1, <1>3 DEF IndInv, QueueInv, LiveEvents, Live, Rejected
<1>7. OneEventPerFinger'
  BY <1>3 DEF IndInv, QueueInv, OneEventPerFinger
<1>8. ArrivalsAreFresh'
  BY <1>1, <1>3 DEF IndInv, QueueInv, ArrivalsAreFresh, Live
<1>9. QuickTapReleased'
  BY <1>1, <1>3, <1>4 DEF IndInv, QueueInv, QuickTapReleased, Live
<1>10. QueueInOrder'
  <2>1. \A i \in DOMAIN pending_events : pending_events[i] \in Event
    BY <1>2
  <2>2. \A i \in DOMAIN pending_events : pending_events[i].due \in Int
    BY <2>1 DEF Event
  <2>3. Horizon \in Nat
    BY TimeAssumption DEF Horizon
  <2>4. \A a, b \in Int : a <= b => Age(a) <= Age(b)
    BY <2>3 DEF Age
  <2>. QED
    BY <1>3, <2>2, <2>4 DEF IndInv, QueueInv, QueueInOrder
<1>11. NoStuckKey'
  BY <1>1, <1>3, <1>4
     DEF IndInv, KeyInv, NoStuckKey, UpPending, Holds, Live, Rejected
<1>12. FnDownsCovered' /\ FnLayerCoversKey'
  BY <1>1, <1>3, <1>4
     DEF IndInv, KeyInv, FnDownsCovered, FnLayerCoversKey, UpPending
<1>. QED
  BY <1>5, <1>6, <1>7, <1>8, <1>9, <1>10, <1>11, <1>12 DEF QueueInv, KeyInv

\* The head of the queue goes: a drop, or the sending of a key.  What the rest
\* of the queue says of the fingers stays true, for a finger whose event has gone
\* may have down_sent set.
LEMMA TailKeepsQueue ==
  ASSUME IndInv, pending_events # <<>>,
         pending_events' = Tail(pending_events),
         todo' = todo,
         DOMAIN finger_data' = DOMAIN finger_data,
         \A t \in DOMAIN finger_data :
           /\ finger_data'[t].event_code = finger_data[t].event_code
           /\ finger_data'[t].rejection_status = finger_data[t].rejection_status
           /\ \/ finger_data'[t] = finger_data[t]
              \/ NextEvent.is_down /\ t = NextEvent.tid
  PROVE  /\ QueueInv'
         /\ Len(pending_events) \in Nat \ {0}
         /\ NextEvent = pending_events[1]
         /\ DOMAIN pending_events = 1 .. Len(pending_events)
         /\ DOMAIN pending_events' = 1 .. Len(pending_events) - 1
         /\ \A i \in DOMAIN pending_events' :
              /\ pending_events'[i] = pending_events[i + 1]
              /\ i + 1 \in DOMAIN pending_events
         /\ \A c : \A i \in DOMAIN pending_events :
              i # 1 /\ IsUp(i, c) =>
                i - 1 \in DOMAIN pending_events' /\ IsUp(i - 1, c)'
<1>. DEFINE n == Len(pending_events)
<1>1. pending_events \in Seq(Event)
  BY DEF IndInv, TypeInv, TypeOK
<1>2. /\ n \in Nat \ {0} /\ NextEvent = pending_events[1]
      /\ DOMAIN pending_events = 1 .. n
      /\ DOMAIN pending_events' = 1 .. n - 1
      /\ \A i \in DOMAIN pending_events' :
           pending_events'[i] = pending_events[i + 1]
  BY <1>1, HeadAndTail DEF NextEvent
<1>. HIDE DEF n
<1>3. \A i \in DOMAIN pending_events' : i + 1 \in DOMAIN pending_events
  BY <1>2
<1>4. ASSUME NEW c, NEW i \in DOMAIN pending_events, i # 1, IsUp(i, c)
      PROVE  i - 1 \in DOMAIN pending_events' /\ IsUp(i - 1, c)'
  <2>1. i - 1 \in DOMAIN pending_events' /\ (i - 1) + 1 = i
    BY <1>2, <1>4
  <2>2. pending_events'[i - 1] = pending_events[i]
    BY <1>2, <2>1
  <2>. QED
    BY <1>4, <2>1, <2>2 DEF IsUp
<1>5. OwnersKnown'
  BY <1>2, <1>3 DEF IndInv, QueueInv, OwnersKnown
<1>6. OneEventPerFinger'
  <2>. SUFFICES ASSUME NEW i \in DOMAIN pending_events',
                       NEW j \in DOMAIN pending_events',
                       pending_events'[i].tid = pending_events'[j].tid, i # j
                PROVE  pending_events'[i].tid = kOldTID
    BY DEF OneEventPerFinger
  <2>1. i + 1 \in DOMAIN pending_events /\ j + 1 \in DOMAIN pending_events
        /\ i + 1 # j + 1
    BY <1>2, <1>3
  <2>. QED
    BY <1>2, <2>1 DEF IndInv, QueueInv, OneEventPerFinger
<1>7. ArrivalsAreFresh'
  BY <1>2, <1>3 DEF IndInv, QueueInv, ArrivalsAreFresh, Live
<1>8. ASSUME NEW i \in DOMAIN pending_events', Live(pending_events'[i].tid)
      PROVE  finger_data'[pending_events'[i].tid]
               = finger_data[pending_events'[i].tid]
  <2>1. /\ i + 1 \in DOMAIN pending_events /\ 1 \in DOMAIN pending_events
        /\ i + 1 # 1 /\ pending_events'[i] = pending_events[i + 1]
    BY <1>2, <1>3
  <2>2. CASE NextEvent.is_down /\ pending_events'[i].tid = NextEvent.tid
    <3>1. NextEvent.tid = kOldTID
      BY <1>2, <2>1, <2>2 DEF IndInv, QueueInv, OneEventPerFinger
    <3>2. NextEvent.tid \in Tids
      BY <1>2, <2>1, <2>2 DEF IndInv, QueueInv, OwnersKnown
    <3>. QED
      BY <3>1, <3>2, TidsAssumption
  <2>3. CASE ~(NextEvent.is_down /\ pending_events'[i].tid = NextEvent.tid)
    BY <1>8, <2>3 DEF Live
  <2>. QED
    BY <2>2, <2>3
<1>9. LiveEvents'
  <2>. SUFFICES ASSUME NEW i \in DOMAIN pending_events',
                       pending_events'[i].tid \in DOMAIN finger_data'
                PROVE  /\ finger_data'[pending_events'[i].tid].rejection_status
                            = "kNotRejectedYet"
                       /\ ~finger_data'[pending_events'[i].tid].down_sent
                       /\ finger_data'[pending_events'[i].tid].event_code
                            = pending_events'[i].ev_code
    BY DEF LiveEvents, Live, Rejected
  <2>1. Live(pending_events'[i].tid)
    BY DEF Live
  <2>2. i + 1 \in DOMAIN pending_events
        /\ pending_events'[i] = pending_events[i + 1]
    BY <1>2, <1>3
  <2>3. finger_data'[pending_events'[i].tid]
          = finger_data[pending_events[i + 1].tid]
    BY <1>8, <2>1, <2>2
  <2>. QED
    BY <2>1, <2>2, <2>3 DEF IndInv, QueueInv, LiveEvents, Rejected
<1>10. QuickTapReleased'
  <2>. SUFFICES ASSUME NEW i \in DOMAIN pending_events',
                       pending_events'[i].is_down,
                       pending_events'[i].tid \notin DOMAIN finger_data'
                PROVE  /\ pending_events'[i].is_guaranteed
                       /\ \E j \in DOMAIN pending_events' :
                            /\ j > i /\ ~pending_events'[j].is_down
                            /\ pending_events'[j].ev_code
                                 = pending_events'[i].ev_code
    BY DEF QuickTapReleased, IsUp, Live
  <2>1. i + 1 \in DOMAIN pending_events
        /\ pending_events'[i] = pending_events[i + 1]
    BY <1>2, <1>3
  <2>2. pending_events[i + 1].is_down /\ ~Live(pending_events[i + 1].tid)
    BY <2>1 DEF Live
  <2>3. PICK j \in DOMAIN pending_events :
               j > i + 1 /\ IsUp(j, pending_events[i + 1].ev_code)
    BY <2>1, <2>2 DEF IndInv, QueueInv, QuickTapReleased
  <2>4. /\ j - 1 \in DOMAIN pending_events' /\ j - 1 > i /\ (j - 1) + 1 = j
    BY <1>2, <2>1, <2>3
  <2>5. pending_events'[j - 1] = pending_events[j]
    BY <1>2, <2>4
  <2>6. pending_events'[i].is_guaranteed
    BY <2>1, <2>2 DEF IndInv, QueueInv, QuickTapReleased
  <2>. QED
    BY <2>1, <2>3, <2>4, <2>5, <2>6 DEF IsUp
<1>11. QueueInOrder'
  BY <1>2, <1>3 DEF IndInv, QueueInv, QueueInOrder
<1>12. QueueInv'
  BY <1>5, <1>6, <1>7, <1>9, <1>10, <1>11 DEF QueueInv
<1>. QED
  BY <1>2, <1>3, <1>4, <1>12 DEF n

\* When the head goes, the Fn-ups behind it stay behind the Fn-downs.
LEMMA TailKeepsFn ==
  ASSUME IndInv, pending_events # <<>>, fn_key_pressed' = fn_key_pressed,
         DOMAIN pending_events = 1 .. Len(pending_events),
         \A i \in DOMAIN pending_events' :
           /\ pending_events'[i] = pending_events[i + 1]
           /\ i + 1 \in DOMAIN pending_events,
         \A c : \A i \in DOMAIN pending_events :
           i # 1 /\ IsUp(i, c) =>
             i - 1 \in DOMAIN pending_events' /\ IsUp(i - 1, c)',
         DOMAIN pending_events' \subseteq Nat
  PROVE  FnDownsCovered'
<1>. SUFFICES ASSUME NEW i \in DOMAIN pending_events',
                     pending_events'[i].is_down,
                     pending_events'[i].ev_code = KEY_FN,
                     ~fn_key_pressed
              PROVE  \E j \in DOMAIN pending_events' : j > i /\ IsUp(j, KEY_FN)'
  BY DEF FnDownsCovered, IsUp, KEY_FN
<1>1. PICK j \in DOMAIN pending_events : j > i + 1 /\ IsUp(j, KEY_FN)
  BY DEF IndInv, KeyInv, FnDownsCovered
<1>2. j # 1 /\ j - 1 > i
  BY <1>1
<1>3. j - 1 \in DOMAIN pending_events' /\ IsUp(j - 1, KEY_FN)'
  BY <1>1, <1>2 DEF IsUp, KEY_FN
<1>. QED
  BY <1>2, <1>3

LEMMA IndDrop ==
  ASSUME IndInv, DropTap
  PROVE  QueueInv' /\ KeyInv'
<1>1. /\ pending_events # <<>> /\ pending_events' = Tail(pending_events)
      /\ UNCHANGED <<finger_data, fn_key_pressed, todo, keys>>
      /\ Live(NextEvent.tid)
  BY DEF DropTap, ReadyToFire, frame, output
<1>2. /\ QueueInv'
      /\ Len(pending_events) \in Nat \ {0}
      /\ NextEvent = pending_events[1]
      /\ DOMAIN pending_events = 1 .. Len(pending_events)
      /\ DOMAIN pending_events' = 1 .. Len(pending_events) - 1
      /\ \A i \in DOMAIN pending_events' :
           /\ pending_events'[i] = pending_events[i + 1]
           /\ i + 1 \in DOMAIN pending_events
      /\ \A c : \A i \in DOMAIN pending_events :
           i # 1 /\ IsUp(i, c) =>
             i - 1 \in DOMAIN pending_events' /\ IsUp(i - 1, c)'
  BY <1>1, TailKeepsQueue
<1>3. NextEvent.is_down
  <2>1. NextEvent.tid \in Tids
    BY <1>1 DEF Live, IndInv, TypeInv, TypeOK
  <2>2. 1 \in DOMAIN pending_events
    BY <1>2
  <2>. QED
    BY <1>2, <2>1, <2>2, TidsAssumption DEF IndInv, QueueInv, OwnersKnown
<1>4. ASSUME NEW c, UpPending(c)
      PROVE  \E i \in DOMAIN pending_events' :
               ~pending_events'[i].is_down /\ pending_events'[i].ev_code = c
  <2>1. PICK i \in DOMAIN pending_events : IsUp(i, c)
    BY <1>4 DEF UpPending
  <2>2. i # 1
    BY <1>2, <1>3, <2>1 DEF IsUp
  <2>. QED
    BY <1>2, <2>1, <2>2 DEF IsUp
<1>5. NoStuckKey'
  BY <1>1, <1>4
     DEF IndInv, KeyInv, NoStuckKey, UpPending, IsUp, Holds, Live, Rejected
<1>6. FnLayerCoversKey'
  BY <1>1, <1>4 DEF IndInv, KeyInv, FnLayerCoversKey, UpPending, IsUp
<1>7. DOMAIN pending_events' \subseteq Nat
  BY <1>2
<1>8. FnDownsCovered'
  BY <1>1, <1>2, <1>7, TailKeepsFn
<1>. QED
  BY <1>2, <1>5, <1>6, <1>8 DEF KeyInv

LEMMA IndSend ==
  ASSUME IndInv, SendKey
  PROVE  QueueInv' /\ KeyInv'
<1>. DEFINE code == NextEvent.ev_code
<1>1. /\ pending_events # <<>> /\ pending_events' = Tail(pending_events)
      /\ UNCHANGED <<fn_key_pressed, todo>>
      /\ keys' = IF NextEvent.is_down THEN keys \cup {code} ELSE keys \ {code}
  BY DEF SendKey, ReadyToFire, frame
<1>2. /\ DOMAIN finger_data' = DOMAIN finger_data
      /\ \A t \in DOMAIN finger_data :
           /\ finger_data'[t].event_code = finger_data[t].event_code
           /\ finger_data'[t].rejection_status = finger_data[t].rejection_status
           /\ IF NextEvent.is_down /\ t = NextEvent.tid
              THEN finger_data'[t].down_sent = TRUE
              ELSE finger_data'[t] = finger_data[t]
  BY SentFinger DEF IndInv
<1>3. /\ QueueInv'
      /\ Len(pending_events) \in Nat \ {0}
      /\ NextEvent = pending_events[1]
      /\ DOMAIN pending_events = 1 .. Len(pending_events)
      /\ DOMAIN pending_events' = 1 .. Len(pending_events) - 1
      /\ \A i \in DOMAIN pending_events' :
           /\ pending_events'[i] = pending_events[i + 1]
           /\ i + 1 \in DOMAIN pending_events
      /\ \A c : \A i \in DOMAIN pending_events :
           i # 1 /\ IsUp(i, c) =>
             i - 1 \in DOMAIN pending_events' /\ IsUp(i - 1, c)'
  BY <1>1, <1>2, TailKeepsQueue
<1>4. 1 \in DOMAIN pending_events
  BY <1>3
\* A finger that holds a key goes on holding it.
<1>5. ASSUME NEW c, NEW t \in Tids, Holds(t, c)
      PROVE  Holds(t, c)'
  <2>1. t \in DOMAIN finger_data
    BY <1>5 DEF Holds, Live
  <2>2. finger_data'[t].down_sent
    BY <1>2, <1>5, <2>1 DEF Holds
  <2>. QED
    BY <1>2, <1>5, <2>1, <2>2 DEF Holds, Live, Rejected
\* Every pending up but the head stays.
<1>6. ASSUME NEW c, UpPending(c), NextEvent.is_down \/ c # code
      PROVE  \E i \in DOMAIN pending_events' :
               ~pending_events'[i].is_down /\ pending_events'[i].ev_code = c
  <2>1. PICK i \in DOMAIN pending_events : IsUp(i, c)
    BY <1>6 DEF UpPending
  <2>2. i # 1
    BY <1>3, <1>6, <2>1 DEF IsUp
  <2>. QED
    BY <1>3, <2>1, <2>2 DEF IsUp
<1>7. ASSUME NextEvent.is_down
      PROVE  \/ \E i \in DOMAIN pending_events' :
                  ~pending_events'[i].is_down /\ pending_events'[i].ev_code = code
             \/ \E t \in Tids :
                  /\ t \in DOMAIN finger_data'
                  /\ finger_data'[t].rejection_status = "kNotRejectedYet"
                  /\ finger_data'[t].down_sent
                  /\ finger_data'[t].event_code = code
  <2>1. CASE Live(NextEvent.tid)
    <3>1. NextEvent.tid \in Tids
      BY <1>3, <1>4, <1>7 DEF IndInv, QueueInv, OwnersKnown
    <3>2. /\ ~Rejected(NextEvent.tid)
          /\ finger_data[NextEvent.tid].event_code = code
      BY <1>3, <1>4, <2>1 DEF IndInv, QueueInv, LiveEvents
    <3>3. finger_data'[NextEvent.tid].down_sent
      BY <1>2, <1>7, <2>1 DEF Live
    <3>. QED
      BY <1>2, <2>1, <3>1, <3>2, <3>3 DEF Live, Rejected
  <2>2. CASE ~Live(NextEvent.tid)
    <3>1. PICK j \in DOMAIN pending_events : j > 1 /\ IsUp(j, code)
      BY <1>3, <1>4, <1>7, <2>2 DEF IndInv, QueueInv, QuickTapReleased
    <3>. QED
      BY <1>3, <3>1 DEF IsUp
  <2>. QED
    BY <2>1, <2>2
<1>8. NoStuckKey'
  <2>. SUFFICES ASSUME NEW c \in keys'
                PROVE  \/ \E i \in DOMAIN pending_events' :
                            /\ ~pending_events'[i].is_down
                            /\ pending_events'[i].ev_code = c
                       \/ \E t \in Tids :
                            /\ t \in DOMAIN finger_data'
                            /\ finger_data'[t].rejection_status
                                 = "kNotRejectedYet"
                            /\ finger_data'[t].down_sent
                            /\ finger_data'[t].event_code = c
    BY DEF NoStuckKey, UpPending, IsUp, Holds, Live, Rejected
  <2>1. CASE NextEvent.is_down /\ c = code
    BY <1>7, <2>1
  <2>2. CASE ~(NextEvent.is_down /\ c = code)
    <3>1. c \in keys /\ (NextEvent.is_down \/ c # code)
      BY <1>1, <2>2
    <3>2. UpPending(c) \/ \E t \in Tids : Holds(t, c)
      BY <3>1 DEF IndInv, KeyInv, NoStuckKey
    <3>. QED
      BY <1>5, <1>6, <3>1, <3>2 DEF Holds, Live, Rejected
  <2>. QED
    BY <2>1, <2>2
<1>9. FnLayerCoversKey'
  <2>. SUFFICES ASSUME KEY_FN \in keys', ~fn_key_pressed
                PROVE  \E i \in DOMAIN pending_events' :
                         /\ ~pending_events'[i].is_down
                         /\ pending_events'[i].ev_code = KEY_FN
    BY <1>1 DEF FnLayerCoversKey, UpPending, IsUp, KEY_FN
  <2>1. CASE NextEvent.is_down /\ KEY_FN = code
    <3>1. PICK j \in DOMAIN pending_events : j > 1 /\ IsUp(j, KEY_FN)
      BY <1>3, <1>4, <2>1 DEF IndInv, KeyInv, FnDownsCovered
    <3>. QED
      BY <1>3, <3>1 DEF IsUp
  <2>2. CASE ~(NextEvent.is_down /\ KEY_FN = code)
    <3>1. KEY_FN \in keys /\ (NextEvent.is_down \/ KEY_FN # code)
      BY <1>1, <2>2
    <3>. QED
      BY <1>6, <3>1 DEF IndInv, KeyInv, FnLayerCoversKey
  <2>. QED
    BY <2>1, <2>2
<1>10. DOMAIN pending_events' \subseteq Nat
  BY <1>3
<1>11. FnDownsCovered'
  BY <1>1, <1>3, <1>10, TailKeepsFn
<1>. QED
  BY <1>3, <1>8, <1>9, <1>11 DEF KeyInv

LEMMA IndTrack ==
  ASSUME IndInv, NEW tid \in Tids, TrackFinger(tid)
  PROVE  QueueInv' /\ KeyInv'
<1>. DEFINE d == Updated(tid, "kNotRejectedYet")
<1>1. /\ tid \in todo /\ todo' = todo \ {tid} /\ Live(tid) /\ ~Rejected(tid)
      /\ finger_data' = SetFinger(tid, d)
      /\ UNCHANGED <<pending_events, fn_key_pressed, keys>>
  BY DEF TrackFinger, output
<1>2. /\ d \in FingerData
      /\ d.event_code = finger_data[tid].event_code
      /\ d.down_sent = finger_data[tid].down_sent
      /\ d.rejection_status = "kNotRejectedYet"
  BY <1>1, UpdatedType, RejectionTypes DEF IndInv, TypeInv
<1>. HIDE DEF d
<1>3. /\ DOMAIN finger_data' = DOMAIN finger_data
      /\ finger_data'[tid] = d
      /\ \A t \in DOMAIN finger_data : t # tid => finger_data'[t] = finger_data[t]
  <2>1. DOMAIN finger_data \cup {tid} = DOMAIN finger_data
    BY <1>1 DEF Live
  <2>. QED
    BY <1>1, <1>2, <2>1, SetFingerType DEF IndInv, TypeInv
<1>4. \A t \in DOMAIN finger_data :
        /\ finger_data'[t].event_code = finger_data[t].event_code
        /\ finger_data'[t].down_sent = finger_data[t].down_sent
        /\ finger_data'[t].rejection_status = finger_data[t].rejection_status
  BY <1>1, <1>2, <1>3 DEF Rejected
<1>5. QueueInv'
  BY <1>1, <1>3, <1>4 DEF IndInv, QueueInv, OwnersKnown, LiveEvents,
     OneEventPerFinger, ArrivalsAreFresh, QuickTapReleased, QueueInOrder,
     Live, Rejected, IsUp
<1>6. KeyInv'
  BY <1>1, <1>3, <1>4 DEF IndInv, KeyInv, NoStuckKey, FnDownsCovered,
     FnLayerCoversKey, Live, Rejected, IsUp, UpPending, Holds
<1>. QED
  BY <1>5, <1>6

LEMMA IndForget ==
  ASSUME IndInv, NEW tid \in Tids, ForgetRejected(tid)
  PROVE  QueueInv' /\ KeyInv'
<1>1. /\ todo = {} /\ todo' = {} /\ Rejected(tid)
      /\ finger_data' = Restrict(finger_data, DOMAIN finger_data \ {tid})
      /\ UNCHANGED <<pending_events, fn_key_pressed, keys>>
      /\ Live(tid)
  BY DEF ForgetRejected, frame, output, Leaving, Live
<1>2. /\ DOMAIN finger_data' = DOMAIN finger_data \ {tid}
      /\ \A t \in DOMAIN finger_data' : finger_data'[t] = finger_data[t]
  BY <1>1, RestrictType DEF IndInv
<1>3. \A i \in DOMAIN pending_events : pending_events[i].tid # tid
  BY <1>1 DEF IndInv, QueueInv, LiveEvents
<1>4. QueueInv'
  <2>1. OwnersKnown' /\ OneEventPerFinger' /\ ArrivalsAreFresh' /\ QueueInOrder'
    BY <1>1 DEF IndInv, QueueInv, OwnersKnown, OneEventPerFinger,
       ArrivalsAreFresh, QueueInOrder
  <2>2. LiveEvents'
    BY <1>1, <1>2, <1>3 DEF IndInv, QueueInv, LiveEvents, Live, Rejected
  <2>3. QuickTapReleased'
    BY <1>1, <1>2, <1>3 DEF IndInv, QueueInv, QuickTapReleased, Live, IsUp
  <2>. QED
    BY <2>1, <2>2, <2>3 DEF QueueInv
<1>5. KeyInv'
  BY <1>1, <1>2 DEF IndInv, KeyInv, NoStuckKey, FnDownsCovered,
     FnLayerCoversKey, Live, Rejected, IsUp, UpPending, Holds
<1>. QED
  BY <1>4, <1>5

\* One event more at the end of the queue.
LEMMA AppendShape ==
  ASSUME NEW q \in Seq(Event), NEW ev
  PROVE  /\ Len(q) \in Nat /\ DOMAIN q = 1 .. Len(q)
         /\ DOMAIN Append(q, ev) = DOMAIN q \cup {Len(q) + 1}
         /\ Append(q, ev)[Len(q) + 1] = ev
         /\ \A i \in DOMAIN q : Append(q, ev)[i] = q[i] /\ i < Len(q) + 1
         /\ \A i \in DOMAIN q : q[i].due \in Int /\ q[i].due <= kEventDelay
<1>1. /\ Len(q) \in Nat /\ DOMAIN q = 1 .. Len(q)
      /\ DOMAIN Append(q, ev) = 1 .. Len(q) + 1
      /\ Append(q, ev)[Len(q) + 1] = ev
      /\ \A i \in DOMAIN q : Append(q, ev)[i] = q[i] /\ i < Len(q) + 1
  OBVIOUS
<1>2. \A i \in 1 .. Len(q) + 1 : i \in 1 .. Len(q) \/ i = Len(q) + 1
  BY <1>1
<1>3. 1 .. Len(q) + 1 = 1 .. Len(q) \cup {Len(q) + 1}
  BY <1>1, <1>2
<1>4. ASSUME NEW i \in DOMAIN q
      PROVE  q[i].due \in Int /\ q[i].due <= kEventDelay
  <2>1. q[i] \in Event
    OBVIOUS
  <2>2. q[i].due \in -Horizon .. kEventDelay /\ Horizon \in Int
    BY <2>1, TimeAssumption DEF Event, Horizon
  <2>. QED
    BY <2>2, TimeAssumption
<1>. QED
  BY <1>1, <1>3, <1>4

LEMMA IndArrive ==
  ASSUME IndInv, NEW tid \in Tids, ArriveFinger(tid)
  PROVE  QueueInv' /\ KeyInv'
<1>. DEFINE key == KeyAt(snap[tid].pos)
            code == IF key = kNoKey THEN 0 ELSE CodeFor(key)
            status == IF key = kNoKey THEN "kRejectTouchdownOffKey"
                      ELSE "kNotRejectedYet"
            d == [max_pressure |-> snap[tid].p,
                  max_touch_major |-> snap[tid].touch_major,
                  starting_key_number |-> key, event_code |-> code,
                  down_sent |-> FALSE, rejection_status |-> status]
            ev == DownEvent(code, tid)
            n == Len(pending_events) + 1
<1>1. /\ tid \in todo /\ todo' = todo \ {tid} /\ ~Live(tid)
      /\ UNCHANGED keys
      /\ finger_data' = SetFinger(tid, d)
      /\ pending_events' = IF key = kNoKey THEN pending_events
                           ELSE EnqueueEvent(pending_events, ev)
      /\ fn_key_pressed' = (fn_key_pressed \/ code = KEY_FN)
  BY DEF ArriveFinger, output
<1>2. /\ key \in Keys \cup {kNoKey} /\ code \in Codes \cup {0}
      /\ key # kNoKey => code \in Codes
  BY LayoutFacts
<1>3. status \in RejectionStatus /\ (key # kNoKey => status = "kNotRejectedYet")
  BY RejectionTypes
<1>4. snap[tid].p \in Int /\ snap[tid].touch_major \in Int
  BY <1>1, SnapFacts DEF IndInv, TypeInv
<1>. HIDE DEF key, code, status
<1>5. d \in FingerData
  BY <1>2, <1>3, <1>4 DEF FingerData
<1>6. d.rejection_status = status /\ d.event_code = code /\ ~d.down_sent
  OBVIOUS
<1>7. /\ ev.is_down /\ ev.tid = tid /\ ev.ev_code = code /\ ev.due = kEventDelay
  BY DEF DownEvent
<1>. HIDE DEF d, ev
<1>8. /\ DOMAIN finger_data' = DOMAIN finger_data \cup {tid}
      /\ finger_data'[tid] = d
      /\ \A t \in DOMAIN finger_data : t # tid => finger_data'[t] = finger_data[t]
  BY <1>1, <1>5, SetFingerType DEF IndInv, TypeInv
<1>9. pending_events \in Seq(Event)
  BY DEF IndInv, TypeInv, TypeOK
<1>10. \A i \in DOMAIN pending_events :
         pending_events[i].tid # tid
  BY <1>1 DEF IndInv, QueueInv, ArrivalsAreFresh
<1>11. \A t \in DOMAIN finger_data : t # tid
  BY <1>1 DEF Live
<1>12. NoStuckKey' \/ pending_events' # pending_events
  BY <1>1, <1>8, <1>11 DEF IndInv, KeyInv, NoStuckKey, UpPending, IsUp, Holds,
     Live, Rejected
<1>13. CASE key = kNoKey
  <2>1. pending_events' = pending_events
    BY <1>1, <1>13
  <2>2. QueueInv'
    BY <1>1, <1>8, <1>10, <1>11, <2>1 DEF IndInv, QueueInv, OwnersKnown,
       LiveEvents, OneEventPerFinger, ArrivalsAreFresh, QuickTapReleased,
       QueueInOrder, Live, Rejected, IsUp
  <2>3. FnDownsCovered' /\ FnLayerCoversKey'
    BY <1>1, <2>1 DEF IndInv, KeyInv, FnDownsCovered, FnLayerCoversKey,
       UpPending, IsUp
  <2>. QED
    BY <1>12, <2>1, <2>2, <2>3 DEF KeyInv
<1>14. CASE key # kNoKey
  <2>1. pending_events' = Append(pending_events, ev)
    BY <1>1, <1>7, <1>9, <1>14, EnqueueAppends
  <2>2. /\ DOMAIN pending_events' = DOMAIN pending_events \cup {n}
        /\ pending_events'[n] = ev
        /\ \A i \in DOMAIN pending_events :
             pending_events'[i] = pending_events[i] /\ i < n
        /\ n \in Nat /\ DOMAIN pending_events \subseteq Nat
        /\ \A i \in DOMAIN pending_events :
             pending_events[i].due \in Int /\ pending_events[i].due <= kEventDelay
    BY <1>9, <2>1, AppendShape
  <2>. HIDE DEF n
  <2>3. d.rejection_status = "kNotRejectedYet"
    BY <1>3, <1>6, <1>14
  <2>4. OwnersKnown'
    BY <1>7, <2>2 DEF IndInv, QueueInv, OwnersKnown
  <2>5. LiveEvents'
    BY <1>6, <1>7, <1>8, <1>10, <2>2, <2>3
       DEF IndInv, QueueInv, LiveEvents, Live, Rejected
  <2>6. OneEventPerFinger'
    BY <1>7, <1>10, <2>2 DEF IndInv, QueueInv, OneEventPerFinger
  <2>7. ArrivalsAreFresh'
    BY <1>1, <1>7, <1>8, <2>2 DEF IndInv, QueueInv, ArrivalsAreFresh, Live
  <2>8. QuickTapReleased'
    BY <1>7, <1>8, <2>2 DEF IndInv, QueueInv, QuickTapReleased, Live, IsUp
  <2>9. QueueInOrder'
    <3>1. kEventDelay \in Int
      BY TimeAssumption
    <3>. QED
      BY <1>7, <2>2, <3>1 DEF IndInv, QueueInv, QueueInOrder
  <2>10. NoStuckKey'
    BY <1>1, <1>8, <1>11, <2>2 DEF IndInv, KeyInv, NoStuckKey, UpPending, IsUp,
       Holds, Live, Rejected
  <2>11. FnDownsCovered'
    <3>1. (fn_key_pressed => fn_key_pressed') /\ (code = KEY_FN => fn_key_pressed')
      BY <1>1, Zenon
    <3>2. UNCHANGED KEY_FN
      BY DEF KEY_FN
    <3>. QED
      BY <1>7, <2>2, <3>1, <3>2 DEF IndInv, KeyInv, FnDownsCovered, IsUp
  <2>12. FnLayerCoversKey'
    BY <1>1, <2>2 DEF IndInv, KeyInv, FnLayerCoversKey, UpPending, IsUp
  <2>. QED
    BY <2>4, <2>5, <2>6, <2>7, <2>8, <2>9, <2>10, <2>11, <2>12
       DEF QueueInv, KeyInv
<1>. QED
  BY <1>13, <1>14

\* A finger leaves.  Its pending key-down, if there is one, is guaranteed now, and
\* in either case its key-up goes to the end of the queue.
LEMMA IndLeave ==
  ASSUME IndInv, NEW tid \in Tids, LeaveFinger(tid)
  PROVE  QueueInv' /\ KeyInv'
<1>. DEFINE d == finger_data[tid]
            marked == IF d.down_sent THEN pending_events
                      ELSE MarkGuaranteed(pending_events, tid)
            up == UpEvent(d.event_code)
            n == Len(pending_events) + 1
<1>1. /\ todo = {} /\ todo' = {} /\ Live(tid) /\ ~Rejected(tid)
      /\ finger_data' = Restrict(finger_data, DOMAIN finger_data \ {tid})
      /\ UNCHANGED keys
  BY DEF LeaveFinger, frame, output, Leaving, Live
<1>2. pending_events \in Seq(Event) /\ DOMAIN finger_data \subseteq Tids
  BY DEF IndInv, TypeInv, TypeOK
<1>3. \A i \in EventsOf(pending_events, tid) : pending_events[i].is_down
  BY TidsAssumption DEF IndInv, QueueInv, OwnersKnown, EventsOf
<1>4. pending_events' = EnqueueEvent(marked, up)
  BY <1>3 DEF LeaveFinger
<1>5. (fn_key_pressed /\ d.event_code # KEY_FN) => fn_key_pressed'
  BY <1>3, Zenon DEF LeaveFinger
<1>6. /\ marked \in Seq(Event) /\ DOMAIN marked = DOMAIN pending_events
      /\ \A i \in DOMAIN pending_events :
           /\ marked[i].ev_code = pending_events[i].ev_code
           /\ marked[i].is_down = pending_events[i].is_down
           /\ marked[i].tid = pending_events[i].tid
           /\ marked[i].due = pending_events[i].due
           /\ pending_events[i].is_guaranteed => marked[i].is_guaranteed
  BY <1>2, MarkedQueue
<1>7. ASSUME NEW i \in DOMAIN pending_events, pending_events[i].tid = tid
      PROVE  marked[i].is_guaranteed /\ pending_events[i].ev_code = d.event_code
  <2>1. ~d.down_sent /\ d.event_code = pending_events[i].ev_code
    BY <1>1, <1>7 DEF IndInv, QueueInv, LiveEvents
  <2>2. i \in EventsOf(pending_events, tid)
    BY <1>7 DEF EventsOf
  <2>3. \A j \in EventsOf(pending_events, tid) : j = i
    BY <1>7, TidsAssumption DEF IndInv, QueueInv, OneEventPerFinger, EventsOf
  <2>4. \A j \in EventsOf(pending_events, tid) : i <= j
    BY <1>2, <2>3
  <2>. QED
    BY <1>2, <2>1, <2>2, <2>4, MarkedQueue
<1>8. d.event_code \in Codes
  BY <1>1 DEF IndInv, TypeInv, FingersOnKeys, Live
<1>9. /\ ~up.is_down /\ up.tid = kOldTID /\ up.is_guaranteed
      /\ up.ev_code = d.event_code /\ up.due = kEventDelay
  BY DEF UpEvent
<1>. HIDE DEF marked, d, up
<1>10. pending_events' = Append(marked, up)
  BY <1>4, <1>6, <1>8, EnqueueUp DEF up
<1>11. /\ Len(marked) = Len(pending_events) /\ n \in Nat
       /\ DOMAIN pending_events \subseteq Nat
  BY <1>2, <1>6
<1>12. /\ DOMAIN pending_events' = DOMAIN pending_events \cup {n}
       /\ pending_events'[n] = up
       /\ \A i \in DOMAIN pending_events :
            pending_events'[i] = marked[i] /\ i < n
       /\ \A i \in DOMAIN pending_events :
            marked[i].due \in Int /\ marked[i].due <= kEventDelay
  <2>1. /\ DOMAIN Append(marked, up) = DOMAIN marked \cup {Len(marked) + 1}
        /\ Append(marked, up)[Len(marked) + 1] = up
        /\ \A i \in DOMAIN marked :
             Append(marked, up)[i] = marked[i] /\ i < Len(marked) + 1
        /\ \A i \in DOMAIN marked :
             marked[i].due \in Int /\ marked[i].due <= kEventDelay
    BY <1>6, AppendShape
  <2>. QED
    BY <1>6, <1>10, <1>11, <2>1
<1>. HIDE DEF n
<1>13. /\ DOMAIN finger_data' = DOMAIN finger_data \ {tid}
       /\ \A t \in DOMAIN finger_data' : finger_data'[t] = finger_data[t]
  BY <1>1, RestrictType DEF IndInv
<1>14. kOldTID \notin DOMAIN finger_data'
  BY <1>2, <1>13, TidsAssumption
<1>15. OwnersKnown'
  BY <1>6, <1>9, <1>12 DEF IndInv, QueueInv, OwnersKnown
<1>16. LiveEvents'
  BY <1>6, <1>9, <1>12, <1>13, <1>14
     DEF IndInv, QueueInv, LiveEvents, Live, Rejected
<1>17. OneEventPerFinger'
  BY <1>6, <1>9, <1>12 DEF IndInv, QueueInv, OneEventPerFinger
<1>18. ArrivalsAreFresh'
  BY <1>1 DEF ArrivalsAreFresh
<1>19. QuickTapReleased'
  <2>. SUFFICES ASSUME NEW i \in DOMAIN pending_events',
                       pending_events'[i].is_down,
                       pending_events'[i].tid \notin DOMAIN finger_data'
                PROVE  /\ pending_events'[i].is_guaranteed
                       /\ \E j \in DOMAIN pending_events' :
                            /\ j > i /\ ~pending_events'[j].is_down
                            /\ pending_events'[j].ev_code
                                 = pending_events'[i].ev_code
    BY DEF QuickTapReleased, IsUp, Live
  <2>1. i \in DOMAIN pending_events /\ pending_events[i].is_down
    BY <1>6, <1>9, <1>12
  <2>2. CASE pending_events[i].tid = tid
    BY <1>6, <1>7, <1>9, <1>11, <1>12, <2>1, <2>2
  <2>3. CASE pending_events[i].tid # tid
    <3>1. ~Live(pending_events[i].tid)
      BY <1>6, <1>12, <1>13, <2>1, <2>3 DEF Live
    <3>2. /\ pending_events[i].is_guaranteed
          /\ \E j \in DOMAIN pending_events :
               j > i /\ IsUp(j, pending_events[i].ev_code)
      BY <2>1, <3>1 DEF IndInv, QueueInv, QuickTapReleased
    <3>. QED
      BY <1>6, <1>12, <2>1, <3>2 DEF IsUp
  <2>. QED
    BY <2>2, <2>3
<1>20. QueueInOrder'
  <2>1. kEventDelay \in Int
    BY TimeAssumption
  <2>. QED
    BY <1>6, <1>9, <1>11, <1>12, <2>1 DEF IndInv, QueueInv, QueueInOrder
<1>21. NoStuckKey'
  <2>. SUFFICES ASSUME NEW c \in keys
                PROVE  \/ \E i \in DOMAIN pending_events' :
                            /\ ~pending_events'[i].is_down
                            /\ pending_events'[i].ev_code = c
                       \/ \E t \in Tids :
                            /\ t \in DOMAIN finger_data'
                            /\ finger_data'[t].rejection_status
                                 = "kNotRejectedYet"
                            /\ finger_data'[t].down_sent
                            /\ finger_data'[t].event_code = c
    BY <1>1 DEF NoStuckKey, UpPending, IsUp, Holds, Live, Rejected
  <2>1. UpPending(c) \/ \E t \in Tids : Holds(t, c)
    BY DEF IndInv, KeyInv, NoStuckKey
  <2>2. CASE UpPending(c)
    BY <1>6, <1>12, <2>2 DEF UpPending, IsUp
  <2>3. ASSUME NEW t \in Tids, Holds(t, c), t = tid
        PROVE  \E i \in DOMAIN pending_events' :
                 ~pending_events'[i].is_down /\ pending_events'[i].ev_code = c
    BY <1>9, <1>12, <2>3 DEF Holds, d
  <2>4. ASSUME NEW t \in Tids, Holds(t, c), t # tid
        PROVE  /\ t \in DOMAIN finger_data'
               /\ finger_data'[t].rejection_status = "kNotRejectedYet"
               /\ finger_data'[t].down_sent /\ finger_data'[t].event_code = c
    BY <1>13, <2>4 DEF Holds, Live, Rejected
  <2>. QED
    BY <2>1, <2>2, <2>3, <2>4
<1>22. FnDownsCovered'
  <2>. SUFFICES ASSUME NEW i \in DOMAIN pending_events',
                       pending_events'[i].is_down,
                       pending_events'[i].ev_code = KEY_FN, ~fn_key_pressed'
                PROVE  \E j \in DOMAIN pending_events' :
                         /\ j > i /\ ~pending_events'[j].is_down
                         /\ pending_events'[j].ev_code = KEY_FN
    BY DEF FnDownsCovered, IsUp, KEY_FN
  <2>1. /\ i \in DOMAIN pending_events /\ pending_events[i].is_down
        /\ pending_events[i].ev_code = KEY_FN
    BY <1>6, <1>9, <1>12
  <2>2. CASE d.event_code = KEY_FN
    BY <1>9, <1>11, <1>12, <2>1, <2>2
  <2>3. CASE d.event_code # KEY_FN
    <3>1. ~fn_key_pressed
      BY <1>5, <2>3
    <3>2. \E j \in DOMAIN pending_events : j > i /\ IsUp(j, KEY_FN)
      BY <2>1, <3>1 DEF IndInv, KeyInv, FnDownsCovered
    <3>. QED
      BY <1>6, <1>12, <3>2 DEF IsUp
  <2>. QED
    BY <2>2, <2>3
<1>23. FnLayerCoversKey'
  <2>. SUFFICES ASSUME KEY_FN \in keys, ~fn_key_pressed'
                PROVE  \E j \in DOMAIN pending_events' :
                         /\ ~pending_events'[j].is_down
                         /\ pending_events'[j].ev_code = KEY_FN
    BY <1>1 DEF FnLayerCoversKey, UpPending, IsUp, KEY_FN
  <2>1. CASE d.event_code = KEY_FN
    BY <1>9, <1>12, <2>1
  <2>2. CASE d.event_code # KEY_FN
    <3>1. UpPending(KEY_FN)
      BY <1>5, <2>2 DEF IndInv, KeyInv, FnLayerCoversKey
    <3>. QED
      BY <1>6, <1>12, <3>1 DEF UpPending, IsUp
  <2>. QED
    BY <2>1, <2>2
<1>. QED
  BY <1>15, <1>16, <1>17, <1>18, <1>19, <1>20, <1>21, <1>22, <1>23
     DEF QueueInv, KeyInv

\* A finger slides off its key.  Its key-down is erased if it was not sent, and a
\* key-up follows if it was.
LEMMA IndMoveOff ==
  ASSUME IndInv, NEW tid \in Tids, MoveOffKey(tid)
  PROVE  QueueInv' /\ KeyInv'
<1>. DEFINE old == finger_data[tid]
            d == Updated(tid, "kRejectMovedOffKey")
            left == EraseTid(pending_events, tid)
            up == UpEvent(old.event_code)
            n == Len(left) + 1
<1>1. /\ tid \in todo /\ todo' = todo \ {tid} /\ Live(tid) /\ ~Rejected(tid)
      /\ finger_data' = SetFinger(tid, d)
      /\ UNCHANGED keys
      /\ pending_events' = IF old.down_sent THEN EnqueueEvent(left, up) ELSE left
  BY DEF MoveOffKey, output
<1>2. (fn_key_pressed /\ ~(old.down_sent /\ old.event_code = KEY_FN))
         => fn_key_pressed'
  BY Zenon DEF MoveOffKey
<1>3. pending_events \in Seq(Event) /\ DOMAIN finger_data \subseteq Tids
  BY DEF IndInv, TypeInv, TypeOK
<1>4. /\ d \in FingerData /\ d.rejection_status = "kRejectMovedOffKey"
  BY <1>1, UpdatedType, RejectionTypes DEF IndInv, TypeInv
<1>. HIDE DEF d
<1>5. /\ DOMAIN finger_data' = DOMAIN finger_data
      /\ finger_data'[tid] = d
      /\ \A t \in DOMAIN finger_data : t # tid => finger_data'[t] = finger_data[t]
  <2>1. DOMAIN finger_data \cup {tid} = DOMAIN finger_data
    BY <1>1 DEF Live
  <2>. QED
    BY <1>1, <1>4, <2>1, SetFingerType DEF IndInv, TypeInv
<1>6. left \in Seq(Event)
  BY <1>3, EraseKeeps
<1>7. PICK pos \in [DOMAIN left -> DOMAIN pending_events] :
        /\ \A j \in DOMAIN left :
             left[j] = pending_events[pos[j]] /\ pending_events[pos[j]].tid # tid
        /\ \A j, k \in DOMAIN left : j < k => pos[j] < pos[k]
        /\ \A i \in DOMAIN pending_events :
             pending_events[i].tid # tid => \E j \in DOMAIN left : pos[j] = i
  BY <1>3, EraseKeeps
<1>8. old.event_code \in Codes
  BY <1>1 DEF IndInv, TypeInv, FingersOnKeys, Live
<1>9. /\ ~up.is_down /\ up.tid = kOldTID /\ up.is_guaranteed
      /\ up.ev_code = old.event_code /\ up.due = kEventDelay
  BY DEF UpEvent
<1>10. old.down_sent => pending_events' = Append(left, up)
  BY <1>1, <1>6, <1>8, EnqueueUp
<1>. HIDE DEF left, up, old
<1>11. /\ DOMAIN Append(left, up) = DOMAIN left \cup {n} /\ n \in Nat
       /\ Append(left, up)[n] = up /\ DOMAIN left \subseteq Nat
       /\ \A i \in DOMAIN left : Append(left, up)[i] = left[i] /\ i < n
       /\ \A i \in DOMAIN left : left[i].due \in Int /\ left[i].due <= kEventDelay
  BY <1>6, AppendShape
<1>. HIDE DEF n
\* The new queue: what was left of the old one, and the key-up if there is one.
<1>12. /\ \A i \in DOMAIN left : i \in DOMAIN pending_events'
                                  /\ pending_events'[i] = left[i]
       /\ \A i \in DOMAIN pending_events' :
            i \in DOMAIN left \/ (old.down_sent /\ i = n)
       /\ old.down_sent => n \in DOMAIN pending_events' /\ pending_events'[n] = up
  BY <1>1, <1>10, <1>11
<1>13. \A i \in DOMAIN left : pos[i] \in DOMAIN pending_events /\ pos[i] \in Nat
  BY <1>3, <1>7
\* A key-up is nobody's: it is never erased, and stays behind what it was behind.
<1>14. ASSUME NEW k \in DOMAIN pending_events, NEW c, IsUp(k, c)
       PROVE  \E j \in DOMAIN left :
                pos[j] = k /\ ~left[j].is_down /\ left[j].ev_code = c
  <2>1. pending_events[k].tid # tid
    BY <1>14, TidsAssumption DEF IsUp, IndInv, QueueInv, OwnersKnown
  <2>. QED
    BY <1>7, <1>14, <2>1 DEF IsUp
<1>15. ASSUME NEW i \in DOMAIN left, NEW j \in DOMAIN left, pos[j] > pos[i]
       PROVE  j > i
  BY <1>7, <1>11, <1>13, <1>15
<1>16. OwnersKnown'
  BY <1>7, <1>9, <1>12, <1>13 DEF IndInv, QueueInv, OwnersKnown
<1>17. kOldTID \notin DOMAIN finger_data
  BY <1>3, TidsAssumption
<1>18. LiveEvents'
  <2>. SUFFICES ASSUME NEW i \in DOMAIN pending_events',
                       pending_events'[i].tid \in DOMAIN finger_data'
                PROVE  /\ finger_data'[pending_events'[i].tid].rejection_status
                            = "kNotRejectedYet"
                       /\ ~finger_data'[pending_events'[i].tid].down_sent
                       /\ finger_data'[pending_events'[i].tid].event_code
                            = pending_events'[i].ev_code
    BY DEF LiveEvents, Live, Rejected
  <2>1. i \in DOMAIN left /\ pending_events'[i] = pending_events[pos[i]]
        /\ pending_events[pos[i]].tid # tid
    BY <1>5, <1>7, <1>9, <1>12, <1>17
  <2>2. finger_data'[pending_events'[i].tid] = finger_data[pending_events[pos[i]].tid]
        /\ Live(pending_events[pos[i]].tid)
    BY <1>5, <2>1 DEF Live
  <2>. QED
    BY <1>13, <2>1, <2>2 DEF IndInv, QueueInv, LiveEvents, Rejected
<1>19. OneEventPerFinger'
  <2>. SUFFICES ASSUME NEW i \in DOMAIN pending_events',
                       NEW j \in DOMAIN pending_events',
                       pending_events'[i].tid = pending_events'[j].tid, i # j
                PROVE  pending_events'[i].tid = kOldTID
    BY DEF OneEventPerFinger
  <2>1. CASE i \in DOMAIN left /\ j \in DOMAIN left
    <3>1. pos[i] # pos[j]
      BY <1>7, <1>11, <1>13, <2>1
    <3>. QED
      BY <1>7, <1>12, <1>13, <2>1, <3>1 DEF IndInv, QueueInv, OneEventPerFinger
  <2>2. CASE ~(i \in DOMAIN left /\ j \in DOMAIN left)
    BY <1>9, <1>12, <2>2
  <2>. QED
    BY <2>1, <2>2
<1>20. ArrivalsAreFresh'
  <2>. SUFFICES ASSUME NEW t \in todo', t \notin DOMAIN finger_data',
                       NEW i \in DOMAIN pending_events'
                PROVE  pending_events'[i].tid # t
    BY DEF ArrivalsAreFresh, Live
  <2>1. t \in todo /\ t \in Tids /\ ~Live(t)
    BY <1>1, <1>5 DEF Live, IndInv, TypeInv, TypeOK
  <2>2. CASE i \in DOMAIN left
    BY <1>7, <1>12, <1>13, <2>1, <2>2 DEF IndInv, QueueInv, ArrivalsAreFresh
  <2>3. CASE i \notin DOMAIN left
    BY <1>9, <1>12, <2>1, <2>3, TidsAssumption
  <2>. QED
    BY <2>2, <2>3
<1>21. QuickTapReleased'
  <2>. SUFFICES ASSUME NEW i \in DOMAIN pending_events',
                       pending_events'[i].is_down,
                       pending_events'[i].tid \notin DOMAIN finger_data'
                PROVE  /\ pending_events'[i].is_guaranteed
                       /\ \E j \in DOMAIN pending_events' :
                            /\ j > i /\ ~pending_events'[j].is_down
                            /\ pending_events'[j].ev_code
                                 = pending_events'[i].ev_code
    BY DEF QuickTapReleased, IsUp, Live
  <2>1. i \in DOMAIN left /\ pending_events'[i] = pending_events[pos[i]]
        /\ pos[i] \in DOMAIN pending_events
    BY <1>7, <1>9, <1>12, <1>13
  <2>2. ~Live(pending_events[pos[i]].tid)
    BY <1>5, <2>1 DEF Live
  <2>3. pending_events[pos[i]].is_guaranteed
    BY <2>1, <2>2 DEF IndInv, QueueInv, QuickTapReleased
  <2>4. PICK k \in DOMAIN pending_events :
          k > pos[i] /\ IsUp(k, pending_events[pos[i]].ev_code)
    BY <2>1, <2>2 DEF IndInv, QueueInv, QuickTapReleased
  <2>5. PICK j \in DOMAIN left :
          /\ pos[j] = k /\ ~left[j].is_down
          /\ left[j].ev_code = pending_events[pos[i]].ev_code
    BY <1>14, <2>4
  <2>6. j > i
    BY <1>15, <2>1, <2>4, <2>5
  <2>. QED
    BY <1>12, <2>1, <2>3, <2>5, <2>6
<1>22. QueueInOrder'
  <2>. SUFFICES ASSUME NEW i \in DOMAIN pending_events',
                       NEW j \in DOMAIN pending_events', i < j
                PROVE  pending_events'[i].due <= pending_events'[j].due
    BY DEF QueueInOrder
  <2>0. kEventDelay \in Int
    BY TimeAssumption
  <2>1. i \in DOMAIN left
    BY <1>11, <1>12
  <2>2. CASE j \in DOMAIN left
    BY <1>7, <1>12, <1>13, <2>1, <2>2 DEF IndInv, QueueInv, QueueInOrder
  <2>3. CASE j \notin DOMAIN left
    BY <1>9, <1>11, <1>12, <2>0, <2>1, <2>3
  <2>. QED
    BY <2>2, <2>3
<1>23. ASSUME NEW c, UpPending(c)
       PROVE  \E i \in DOMAIN pending_events' :
                ~pending_events'[i].is_down /\ pending_events'[i].ev_code = c
  <2>1. PICK k \in DOMAIN pending_events : IsUp(k, c)
    BY <1>23 DEF UpPending
  <2>. QED
    BY <1>12, <1>14, <2>1
<1>24. NoStuckKey'
  <2>. SUFFICES ASSUME NEW c \in keys
                PROVE  \/ \E i \in DOMAIN pending_events' :
                            /\ ~pending_events'[i].is_down
                            /\ pending_events'[i].ev_code = c
                       \/ \E t \in Tids :
                            /\ t \in DOMAIN finger_data'
                            /\ finger_data'[t].rejection_status
                                 = "kNotRejectedYet"
                            /\ finger_data'[t].down_sent
                            /\ finger_data'[t].event_code = c
    BY <1>1 DEF NoStuckKey, UpPending, IsUp, Holds, Live, Rejected
  <2>1. UpPending(c) \/ \E t \in Tids : Holds(t, c)
    BY DEF IndInv, KeyInv, NoStuckKey
  <2>2. ASSUME NEW t \in Tids, Holds(t, c), t = tid
        PROVE  \E i \in DOMAIN pending_events' :
                 ~pending_events'[i].is_down /\ pending_events'[i].ev_code = c
    BY <1>9, <1>12, <2>2 DEF Holds, old
  <2>3. ASSUME NEW t \in Tids, Holds(t, c), t # tid
        PROVE  /\ t \in DOMAIN finger_data'
               /\ finger_data'[t].rejection_status = "kNotRejectedYet"
               /\ finger_data'[t].down_sent /\ finger_data'[t].event_code = c
    BY <1>5, <2>3 DEF Holds, Live, Rejected
  <2>. QED
    BY <1>23, <2>1, <2>2, <2>3
<1>25. FnDownsCovered'
  <2>. SUFFICES ASSUME NEW i \in DOMAIN pending_events',
                       pending_events'[i].is_down,
                       pending_events'[i].ev_code = KEY_FN, ~fn_key_pressed'
                PROVE  \E j \in DOMAIN pending_events' :
                         /\ j > i /\ ~pending_events'[j].is_down
                         /\ pending_events'[j].ev_code = KEY_FN
    BY DEF FnDownsCovered, IsUp, KEY_FN
  <2>1. i \in DOMAIN left /\ pending_events'[i] = pending_events[pos[i]]
        /\ pos[i] \in DOMAIN pending_events
    BY <1>7, <1>9, <1>12, <1>13
  <2>2. CASE old.down_sent /\ old.event_code = KEY_FN
    BY <1>9, <1>11, <1>12, <2>1, <2>2
  <2>3. CASE ~(old.down_sent /\ old.event_code = KEY_FN)
    <3>1. ~fn_key_pressed
      BY <1>2, <2>3
    <3>2. PICK k \in DOMAIN pending_events : k > pos[i] /\ IsUp(k, KEY_FN)
      BY <2>1, <3>1 DEF IndInv, KeyInv, FnDownsCovered
    <3>3. PICK j \in DOMAIN left :
            pos[j] = k /\ ~left[j].is_down /\ left[j].ev_code = KEY_FN
      BY <1>14, <3>2
    <3>4. j > i
      BY <1>15, <2>1, <3>2, <3>3
    <3>. QED
      BY <1>12, <3>3, <3>4
  <2>. QED
    BY <2>2, <2>3
<1>26. FnLayerCoversKey'
  <2>. SUFFICES ASSUME KEY_FN \in keys, ~fn_key_pressed'
                PROVE  \E j \in DOMAIN pending_events' :
                         /\ ~pending_events'[j].is_down
                         /\ pending_events'[j].ev_code = KEY_FN
    BY <1>1 DEF FnLayerCoversKey, UpPending, IsUp, KEY_FN
  <2>1. CASE old.down_sent /\ old.event_code = KEY_FN
    BY <1>9, <1>12, <2>1
  <2>2. CASE ~(old.down_sent /\ old.event_code = KEY_FN)
    BY <1>2, <1>23, <2>2 DEF IndInv, KeyInv, FnLayerCoversKey
  <2>. QED
    BY <2>1, <2>2
<1>. QED
  BY <1>16, <1>18, <1>19, <1>20, <1>21, <1>22, <1>24, <1>25, <1>26
     DEF QueueInv, KeyInv

LEMMA IndStep == IndInv /\ [Next]_vars => IndInv'
<1>. SUFFICES ASSUME IndInv, [Next]_vars
              PROVE  IndInv'
  OBVIOUS
<1>1. TypeInv'
  BY TypeStep DEF IndInv
<1>2. ASSUME NEW tid \in Tids, ProcessFinger(tid)
      PROVE  QueueInv' /\ KeyInv'
  BY <1>2, IndArrive, IndControl, IndTrack, IndMoveOff, IndForget, IndLeave
     DEF ProcessFinger
<1>3. QueueInv' /\ KeyInv'
  BY <1>2, IndControl, IndReadSyn, IndReadFails, IndTick, IndDrop, IndSend
     DEF Next, Handle
<1>. QED
  BY <1>1, <1>3 DEF IndInv

LEMMA Inductive == Spec => []IndInv
  BY IndInit, IndStep, PTL DEF Spec

\* No key stays down for good: whatever the order of the touches, of the frames
\* and of the timeouts, a key that the kernel holds down is held by a finger on
\* it, or HandleLeavingFinger's or RejectFinger's key-up is pending.
THEOREM KeysNeverStick == Spec => []NoStuckKey
<1>1. IndInv => NoStuckKey
  BY DEF IndInv, KeyInv
<1>. QED
  BY <1>1, Inductive, PTL

\* The key-down that HandleLeavingFinger guarantees is always followed by the
\* key-up it enqueues.
THEOREM QuickTapsAreReleased == Spec => []QuickTapReleased
<1>1. IndInv => QuickTapReleased
  BY DEF IndInv, QueueInv
<1>. QED
  BY <1>1, Inductive, PTL

\* EnqueueEvent keeps the deadlines in order.
THEOREM QueueStaysInOrder == Spec => []QueueInOrder
<1>1. IndInv => QueueInOrder
  BY DEF IndInv, QueueInv
<1>. QED
  BY <1>1, Inductive, PTL

\* No finger gets a second key-down, and none after RejectFinger.
THEOREM FingersAreDecidedOnce == Spec => []OneDecisionPerFinger
<1>1. IndInv => OneDecisionPerFinger
  <2>. SUFFICES ASSUME IndInv, NEW tid \in Tids
                PROVE  /\ Cardinality(EventsOf(pending_events, tid)) <= 1
                       /\ Live(tid) /\ (Rejected(tid) \/ finger_data[tid].down_sent)
                            => EventsOf(pending_events, tid) = {}
    BY DEF OneDecisionPerFinger
  <2>1. \A i, j \in EventsOf(pending_events, tid) : i = j
    BY TidsAssumption DEF IndInv, QueueInv, OneEventPerFinger, EventsOf
  <2>2. Cardinality(EventsOf(pending_events, tid)) <= 1
    <3>1. CASE EventsOf(pending_events, tid) = {}
      BY <3>1, FS_EmptySet
    <3>2. CASE EventsOf(pending_events, tid) # {}
      <4>1. PICK i : i \in EventsOf(pending_events, tid)
        BY <3>2
      <4>2. EventsOf(pending_events, tid) = {i}
        BY <2>1, <4>1
      <4>3. Cardinality({i}) = 1
        BY FS_Singleton
      <4>. QED
        BY <4>2, <4>3
    <3>. QED
      BY <3>1, <3>2
  <2>3. Live(tid) /\ (Rejected(tid) \/ finger_data[tid].down_sent)
          => EventsOf(pending_events, tid) = {}
    BY DEF IndInv, QueueInv, LiveEvents, EventsOf
  <2>. QED
    BY <2>2, <2>3
<1>. QED
  BY <1>1, Inductive, PTL

\* The firing loop never indexes the layout with kNoKey, and fires the code its
\* finger stands for.
THEOREM EventsFollowFingers == Spec => []EventsMatchFingers
<1>1. IndInv => EventsMatchFingers
  BY LayoutFacts DEF IndInv, QueueInv, LiveEvents, TypeInv, FingersOnKeys,
     EventsMatchFingers, Live
<1>. QED
  BY <1>1, Inductive, PTL

\* The Fn layer is on while the kernel holds Fn down, or Fn is on its way up.
THEOREM FnLayerFollowsKey == Spec => []FnLayerCoversKey
<1>1. IndInv => FnLayerCoversKey
  BY DEF IndInv, KeyInv
<1>. QED
  BY <1>1, Inductive, PTL

\* Keys go down only after their delay, in the order of the queue, for fingers
\* that lifted from their key or are still on it with a valid tap.
THEOREM PressesAreJustified == Spec => PressIsJustified
<1>1. ASSUME IndInv, [Next]_vars, NEW c \in keys' \ keys
      PROVE  \E ev \in {NextEvent} :
               /\ ev.ev_code = c /\ ev.due <= 0
               /\ \/ ev.is_guaranteed /\ ~Live(ev.tid)
                  \/ /\ Live(ev.tid) /\ ~Rejected(ev.tid)
                     /\ TapOk(finger_data[ev.tid]) /\ Holds(ev.tid, c)'
  <2>1. SendKey
    BY <1>1 DEF Next, vars, Handle, ProcessFinger, LoopTop, Tick, SelectTimeout,
       ReadFirst, ReadNext, ReadSyn, ReadFails, ArriveFinger, SkipRejected,
       TrackFinger, MoveOffKey, ForgetRejected, LeaveFinger, EndSnapshot,
       DropTap, EndFiring, Exited, output
  <2>. DEFINE ev == NextEvent
  <2>2. /\ pending_events # <<>> /\ ev.due <= 0 /\ ev.is_down /\ ev.ev_code = c
        /\ Live(ev.tid) => TapOk(finger_data[ev.tid])
    BY <1>1, <2>1 DEF SendKey, ReadyToFire
  <2>3. ev = pending_events[1] /\ 1 \in DOMAIN pending_events
    BY <1>1, <2>2, HeadAndTail DEF IndInv, TypeInv, TypeOK, NextEvent
  <2>4. CASE ~Live(ev.tid)
    <3>1. ev.is_guaranteed
      BY <1>1, <2>2, <2>3, <2>4 DEF IndInv, QueueInv, QuickTapReleased
    <3>. QED
      BY <2>2, <2>4, <3>1
  <2>5. CASE Live(ev.tid)
    <3>1. ~Rejected(ev.tid) /\ finger_data[ev.tid].event_code = c
      BY <1>1, <2>2, <2>3, <2>5 DEF IndInv, QueueInv, LiveEvents
    <3>2. PICK t : t = ev.tid
      OBVIOUS
    <3>3. /\ t \in DOMAIN finger_data' /\ finger_data'[t].down_sent
          /\ finger_data'[t].event_code = finger_data[t].event_code
          /\ finger_data'[t].rejection_status = finger_data[t].rejection_status
      BY <1>1, <2>1, <2>2, <2>5, <3>2, SentFinger DEF IndInv, Live
    <3>4. Holds(t, c)'
      BY <3>1, <3>2, <3>3 DEF Holds, Live, Rejected
    <3>5. /\ t = ev.tid => /\ Live(ev.tid) /\ ~Rejected(ev.tid)
                           /\ TapOk(finger_data[ev.tid])
      BY <2>2, <2>5, <3>1
    <3>. QED
      BY <2>2, <3>2, <3>4, <3>5
  <2>. QED
    BY <2>4, <2>5
<1>2. IndInv /\ [Next]_vars =>
        [\A c \in keys' \ keys : \E ev \in {NextEvent} :
           /\ ev.ev_code = c /\ ev.due <= 0
           /\ \/ ev.is_guaranteed /\ ~Live(ev.tid)
              \/ /\ Live(ev.tid) /\ ~Rejected(ev.tid)
                 /\ TapOk(finger_data[ev.tid]) /\ Holds(ev.tid, c)']_vars
  BY <1>1
<1>. QED
  BY <1>2, Inductive, PTL DEF Spec, PressIsJustified

(***************************************************************************)
(* Part 4.  The wait and the output.                                       *)
(***************************************************************************)

\* select() is called with a timeout that covers the time to the first deadline.
TimeoutCovers ==
  pc = "select" /\ pending_events # <<>> => NextEvent.due <= timer

\* Readers know the keys, but for what the firing loop has just sent.
Flushed == (pc = "fire" /\ needs_syn) \/ seen = keys

\* A process that loses no time comes to the loop head with nothing overdue.
PromptWait ==
  MaxLag = 0 =>
    /\ pc = "top" /\ unread = 0 /\ pending_events # <<>> => NextEvent.due > 0
    /\ pc = "read" /\ unread = 0 => pending_events = <<>>

WaitInv == TypeInv /\ TimeoutCovers /\ Flushed /\ PromptWait

LEMMA WaitInit == Init => WaitInv
  BY TypeInit DEF Init, WaitInv, TimeoutCovers, Flushed, PromptWait

LEMMA HeadType ==
  ASSUME TypeInv, pending_events # <<>>
  PROVE  /\ NextEvent \in Event /\ NextEvent = pending_events[1]
         /\ NextEvent.due \in -Horizon .. kEventDelay /\ NextEvent.due \in Int
         /\ 1 \in DOMAIN pending_events
<1>1. /\ NextEvent \in Event /\ NextEvent = pending_events[1]
      /\ 1 \in DOMAIN pending_events
  BY HeadAndTail DEF TypeInv, TypeOK, NextEvent
<1>2. Horizon \in Int /\ kEventDelay \in Int
  BY TimeAssumption DEF Horizon
<1>. QED
  BY <1>1, <1>2 DEF Event

LEMMA WaitLoopTop ==
  ASSUME WaitInv, LoopTop
  PROVE  TimeoutCovers' /\ Flushed' /\ PromptWait'
<1>1. /\ pc = "top" /\ UNCHANGED <<pending_events, unread, keys, seen>>
      /\ pc' \in {"select", "read"}
  BY DEF LoopTop, queue, frame
<1>2. Flushed'
  BY <1>1 DEF WaitInv, Flushed
<1>3. CASE pending_events = <<>>
  BY <1>1, <1>2, <1>3 DEF TimeoutCovers, PromptWait
<1>4. CASE pending_events # <<>>
  <2>1. NextEvent.due \in -Horizon .. kEventDelay
    BY <1>4, HeadType DEF WaitInv
  <2>2. /\ timer' \in Timeouts(NextEvent.due)
        /\ pc' = IF timer' > 0 THEN "select" ELSE "read"
    BY <1>4 DEF LoopTop, NextEvent
  <2>3. NextEvent.due <= timer' /\ (NextEvent.due > 0 => timer' > 0)
    BY <2>1, <2>2, TimeoutFacts
  <2>4. TimeoutCovers'
    BY <1>1, <2>3 DEF TimeoutCovers, NextEvent
  <2>5. PromptWait'
    BY <1>1, <1>4, <2>2, <2>3 DEF WaitInv, PromptWait, NextEvent
  <2>. QED
    BY <1>2, <2>4, <2>5
<1>. QED
  BY <1>3, <1>4

LEMMA WaitTick ==
  ASSUME WaitInv, Tick
  PROVE  TimeoutCovers' /\ Flushed' /\ PromptWait'
<1>1. /\ pending_events' = AgeEvents(pending_events)
      /\ timer' = IF timer > 0 THEN timer - 1 ELSE 0
      /\ UNCHANGED <<pc, unread, needs_syn, keys, seen>>
      /\ Asleep \/ lag < MaxLag
  BY DEF Tick, frame, output
<1>2. Flushed'
  BY <1>1 DEF WaitInv, Flushed
<1>3. pending_events \in Seq(Event) /\ timer \in Nat /\ lag \in Nat
  BY TimeAssumption DEF WaitInv, TypeInv, TypeOK
<1>4. /\ pending_events' \in Seq(Event)
      /\ DOMAIN pending_events' = DOMAIN pending_events
      /\ \A i \in DOMAIN pending_events :
           pending_events'[i].due = Age(pending_events[i].due)
  BY <1>1, <1>3, AgedQueue
<1>5. pending_events' # <<>> <=> pending_events # <<>>
  BY <1>3, <1>4
<1>6. TimeoutCovers'
  <2>. SUFFICES ASSUME pc = "select", pending_events # <<>>
                PROVE  Head(pending_events').due <= timer'
    BY <1>1, <1>5 DEF TimeoutCovers, NextEvent
  <2>1. /\ NextEvent = pending_events[1] /\ 1 \in DOMAIN pending_events
        /\ NextEvent.due \in Int /\ NextEvent.due <= timer
    BY HeadType DEF WaitInv, TimeoutCovers
  <2>2. Head(pending_events') = pending_events'[1]
    BY <1>4, <1>5
  <2>3. Head(pending_events').due = Age(NextEvent.due)
    BY <1>4, <2>1, <2>2
  <2>4. Horizon \in Nat
    BY TimeAssumption DEF Horizon
  <2>. QED
    BY <1>1, <1>3, <2>1, <2>3, <2>4 DEF Age
<1>7. PromptWait'
  <2>. SUFFICES ASSUME MaxLag = 0
                PROVE  /\ pc = "top" /\ unread = 0 => pending_events' = <<>>
                       /\ pc = "read" /\ unread = 0 => pending_events' = <<>>
    BY <1>1 DEF PromptWait
  <2>1. Asleep
    BY <1>1, <1>3
  <2>2. pc # "top"
    BY <2>1 DEF Asleep
  <2>. QED
    BY <1>5, <2>2 DEF WaitInv, PromptWait
<1>. QED
  BY <1>2, <1>6, <1>7

LEMMA WaitStep == WaitInv /\ [Next]_vars => WaitInv'
<1>. SUFFICES ASSUME WaitInv, [Next]_vars
              PROVE  WaitInv'
  OBVIOUS
<1>1. TypeInv'
  BY TypeStep DEF WaitInv
<1>2. CASE LoopTop \/ Tick
  BY <1>1, <1>2, WaitLoopTop, WaitTick DEF WaitInv
<1>3. CASE ReadFirst \/ ReadNext
  <2>1. /\ pc' = "top" /\ unread' # 0 /\ UNCHANGED <<keys, seen>>
        /\ pc # "fire"
    BY <1>3 DEF ReadFirst, ReadNext, InWait, output, WaitInv, TypeInv, TypeOK
  <2>. QED
    BY <1>1, <2>1 DEF WaitInv, TimeoutCovers, Flushed, PromptWait
<1>4. CASE ReadFails
  BY <1>1, <1>4 DEF ReadFails, WaitInv, TimeoutCovers, Flushed, PromptWait
<1>5. CASE \/ ReadSyn \/ SelectTimeout \/ EndSnapshot
           \/ \E tid \in Tids : ProcessFinger(tid)
  <2>1. /\ pc' \in {"process", "fire"} /\ pc \in {"select", "read", "process"}
        /\ UNCHANGED <<keys, seen, needs_syn>>
    BY <1>5 DEF ReadSyn, SelectTimeout, EndSnapshot, ProcessFinger, ArriveFinger,
       SkipRejected, TrackFinger, MoveOffKey, ForgetRejected, LeaveFinger, InWait,
       output
  <2>. QED
    BY <1>1, <2>1 DEF WaitInv, TimeoutCovers, Flushed, PromptWait
<1>6. CASE DropTap
  BY <1>1, <1>6
     DEF DropTap, ReadyToFire, output, WaitInv, TimeoutCovers, Flushed, PromptWait
<1>7. CASE SendKey
  <2>1. pc' = "fire" /\ needs_syn'
    BY <1>7 DEF SendKey, ReadyToFire
  <2>. QED
    BY <1>1, <2>1 DEF WaitInv, TimeoutCovers, Flushed, PromptWait
<1>8. CASE EndFiring
  <2>1. /\ pc = "fire" /\ pc' = "top" /\ UNCHANGED <<pending_events, keys>>
        /\ pending_events = <<>> \/ ~(NextEvent.due <= 0)
        /\ seen' = IF needs_syn THEN keys ELSE seen
    BY <1>8 DEF EndFiring, ReadyToFire, queue
  <2>2. seen' = keys'
    BY <2>1 DEF WaitInv, Flushed
  <2>3. pending_events # <<>> => NextEvent.due > 0
    BY <2>1, HeadType DEF WaitInv
  <2>. QED
    BY <1>1, <2>1, <2>2, <2>3
       DEF WaitInv, TimeoutCovers, Flushed, PromptWait, NextEvent
<1>9. CASE Exited \/ UNCHANGED vars
  <2>1. UNCHANGED vars
    BY <1>9 DEF Exited
  <2>. QED
    BY <1>1, <2>1
       DEF vars, WaitInv, TimeoutCovers, Flushed, PromptWait, NextEvent
<1>. QED
  BY <1>2, <1>3, <1>4, <1>5, <1>6, <1>7, <1>8, <1>9 DEF Next, Handle

LEMMA WaitInductive == Spec => []WaitInv
  BY WaitInit, WaitStep, PTL DEF Spec

\* The added millisecond of line 347 makes up for every rounding: a timeout never
\* comes before the first event is due.
THEOREM TimeoutsAreNotEarly == Spec => []TimeoutNotEarly
<1>1. WaitInv => TimeoutNotEarly
  BY HeadType DEF WaitInv, TimeoutCovers, TimeoutNotEarly
<1>. QED
  BY <1>1, WaitInductive, PTL

\* Every key that is sent is followed by a SYN_REPORT before the process waits.
THEOREM OutputIsFlushed == Spec => []EverythingFlushed
<1>1. WaitInv => EverythingFlushed
  BY DEF WaitInv, Flushed, EverythingFlushed
<1>. QED
  BY <1>1, WaitInductive, PTL

\* The comment of lines 338-342 holds of a process that loses no time between the
\* clock reading of line 360 and that of line 341, and TLC shows that it fails of
\* one that does: this is the assumption the timeout computation rests on.
THEOREM PromptProcessNeverWaitsBlindly ==
  ASSUME MaxLag = 0
  PROVE  Spec => []NoBlindWait
<1>1. WaitInv => NoBlindWait
  BY DEF WaitInv, PromptWait, NoBlindWait, Asleep
<1>. QED
  BY <1>1, WaitInductive, PTL

=============================================================================
