--------------------------- MODULE TimespecProofs ---------------------------
(***************************************************************************)
(* FakeKeyboard counts time in ticks.  With the clock's resolution for a   *)
(* tick, the code's arithmetic on struct timespec does what FakeKeyboard   *)
(* says of it: for every clock reading, in every second and across them.   *)
(***************************************************************************)
EXTENDS FakeKeyboard, TLAPS

T == INSTANCE Timespec WITH NsPerMs <- TicksPerMs

\* A time in ticks.
Ticks(t) == t.tv_sec * (1000 * TicksPerMs) + t.tv_nsec

(***************************************************************************)
(* Part 1.  Arithmetic.                                                    *)
(***************************************************************************)

\* Division is determined by its quotient and remainder.
LEMMA DivUnique ==
  ASSUME NEW a \in Int, NEW d \in Nat \ {0}, NEW q \in Int, NEW r \in 0 .. d - 1,
         a = d * q + r
  PROVE  a \div d = q
<1>. DEFINE p == a \div d
            m == a % d
<1>1. p \in Int /\ m \in 0 .. d - 1 /\ a = d * p + m
  OBVIOUS
<1>. HIDE DEF p, m
<1>2. p <= q
  <2>. SUFFICES ASSUME q + 1 <= p PROVE FALSE
    BY <1>1
  <2>1. d * (q + 1) <= d * p
    BY <1>1
  <2>2. d * (q + 1) = d * q + d
    OBVIOUS
  <2>. DEFINE dp == d * p
              dq == d * q
  <2>3. dp \in Int /\ dq \in Int
    BY <1>1
  <2>. HIDE DEF dp, dq
  <2>. QED
    BY <1>1, <2>1, <2>2, <2>3 DEF dp, dq
<1>3. q <= p
  <2>. SUFFICES ASSUME p + 1 <= q PROVE FALSE
    BY <1>1
  <2>1. d * (p + 1) <= d * q
    BY <1>1
  <2>2. d * (p + 1) = d * p + d
    BY <1>1
  <2>. DEFINE dp == d * p
              dq == d * q
  <2>3. dp \in Int /\ dq \in Int
    BY <1>1
  <2>. HIDE DEF dp, dq
  <2>. QED
    BY <1>1, <2>1, <2>2, <2>3 DEF dp, dq
<1>. QED
  BY <1>1, <1>2, <1>3 DEF p

\* A multiple of the divisor passes through a division.
LEMMA DivShift ==
  ASSUME NEW a \in Int, NEW k \in Int, NEW d \in Nat \ {0}
  PROVE  (k * d + a) \div d = k + (a \div d)
<1>. DEFINE q == a \div d
            r == a % d
<1>1. q \in Int /\ r \in 0 .. d - 1 /\ a = d * q + r
  OBVIOUS
<1>. HIDE DEF q, r
<1>2. k * d + a = d * (k + q) + r
  <2>1. d * (k + q) = k * d + d * q
    BY <1>1
  <2>. QED
    BY <1>1, <2>1
<1>3. (k * d + a) \in Int /\ k + q \in Int
  BY <1>1
<1>. QED
  BY <1>1, <1>2, <1>3, DivUnique DEF q

(***************************************************************************)
(* Part 2.  Deadlines.                                                     *)
(***************************************************************************)

LEMMA Fields ==
  ASSUME NEW t \in T!Normalised
  PROVE  /\ t.tv_sec \in Nat /\ t.tv_nsec \in Nat /\ t.tv_nsec < 1000 * TicksPerMs
         /\ Ticks(t) \in Nat
BY TimeAssumption DEF T!Normalised, T!NsPerSec, Ticks

\* A deadline is a normalised time again, exactly so many milliseconds later:
\* the queue is in the order of the touches, however many seconds a delay crosses.
THEOREM DeadlinesAreExact ==
  ASSUME NEW t \in T!Normalised, NEW ms \in Nat
  PROVE  /\ T!AddMsToTimespec(t, ms) \in T!Normalised
         /\ Ticks(T!AddMsToTimespec(t, ms)) = Ticks(t) + ms * TicksPerMs
<1>. DEFINE S == 1000 * TicksPerMs
            nsec == t.tv_nsec + ms * TicksPerMs
            Done(n) == /\ nsec - n * S < S
                       /\ n > 0 => nsec - (n - 1) * S >= S
            turns == CHOOSE n \in Nat : Done(n)
<1>1. S \in Nat \ {0} /\ nsec \in Nat /\ TicksPerMs \in Nat
  BY Fields, TimeAssumption
<1>2. T!AddMsToTimespec(t, ms) = [tv_sec |-> t.tv_sec + turns, tv_nsec |-> nsec - turns * S]
  BY DEF T!AddMsToTimespec, T!Time, T!NsPerSec
<1>. HIDE DEF S, nsec
<1>3. \E n \in Nat : Done(n)
  <2>. DEFINE q == nsec \div S
              r == nsec % S
  <2>1. q \in Nat /\ r \in 0 .. S - 1 /\ nsec = S * q + r
    BY <1>1
  <2>. HIDE DEF q, r
  <2>2. nsec - q * S = r /\ (q > 0 => nsec - (q - 1) * S = r + S)
    <3>1. S * q = q * S /\ (q - 1) * S = q * S - S
      BY <1>1, <2>1
    <3>2. q * S \in Int
      BY <1>1, <2>1
    <3>. DEFINE qs == q * S
    <3>3. qs \in Int
      BY <3>2
    <3>. HIDE DEF qs
    <3>. QED
      BY <1>1, <2>1, <3>1, <3>3 DEF qs
  <2>. QED
    BY <1>1, <2>1, <2>2
<1>4. turns \in Nat /\ Done(turns)
  BY <1>3
<1>. HIDE DEF turns
<1>5. turns * S \in Nat /\ (turns > 0 => (turns - 1) * S = turns * S - S)
  BY <1>1, <1>4
<1>. DEFINE ts == turns * S
<1>6. nsec - ts \in Nat /\ nsec - ts < S /\ ts \in Nat
  <2>1. CASE turns = 0
    <3>1. ts = 0
      BY <1>1, <2>1
    <3>. QED
      BY <1>1, <1>4, <1>5, <3>1
  <2>2. CASE turns > 0
    <3>1. (turns - 1) * S = ts - S /\ ts \in Nat
      BY <1>5, <2>2
    <3>2. nsec - ts < S /\ nsec - (turns - 1) * S >= S
      BY <1>4, <2>2
    <3>. HIDE DEF ts
    <3>. QED
      BY <1>1, <3>1, <3>2
  <2>. QED
    BY <1>4, <2>1, <2>2
<1>7. t.tv_sec \in Nat
  BY Fields
<1>8. (t.tv_sec + turns) * S = t.tv_sec * S + ts
  BY <1>1, <1>4, <1>7
<1>. HIDE DEF ts
<1>9. T!AddMsToTimespec(t, ms) = [tv_sec |-> t.tv_sec + turns, tv_nsec |-> nsec - ts]
  BY <1>2 DEF ts
<1>10. T!AddMsToTimespec(t, ms) \in T!Normalised
  BY <1>1, <1>4, <1>6, <1>7, <1>9 DEF T!Normalised, T!NsPerSec, S
<1>11. Ticks(T!AddMsToTimespec(t, ms)) = Ticks(t) + ms * TicksPerMs
  <2>. DEFINE a == t.tv_sec * S
              b == ms * TicksPerMs
  <2>1. a \in Int /\ b \in Int
    BY <1>1, <1>7
  <2>2. /\ Ticks(T!AddMsToTimespec(t, ms)) = (t.tv_sec + turns) * S + (nsec - ts)
        /\ Ticks(t) = a + t.tv_nsec /\ nsec = t.tv_nsec + b
    BY <1>9 DEF Ticks, S, nsec
  <2>. HIDE DEF a, b
  <2>3. Ticks(T!AddMsToTimespec(t, ms)) = (a + ts) + (nsec - ts)
    BY <1>8, <2>2 DEF a
  <2>. QED
    BY <1>1, <1>6, <2>1, <2>2, <2>3, Fields DEF b
<1>. QED
  BY <1>10, <1>11

\* EnqueueEvent and the firing loop compare times by their fields; the order is
\* that of the ticks, which FakeKeyboard compares.
THEOREM LaterIsByTicks ==
  ASSUME NEW t \in T!Normalised, NEW u \in T!Normalised
  PROVE  T!TimespecIsLater(t, u) <=> Ticks(t) > Ticks(u)
<1>. DEFINE S == 1000 * TicksPerMs
<1>1. /\ t.tv_sec \in Nat /\ t.tv_nsec \in Nat /\ t.tv_nsec < S
      /\ u.tv_sec \in Nat /\ u.tv_nsec \in Nat /\ u.tv_nsec < S
  BY Fields
<1>2. S \in Nat \ {0}
  BY TimeAssumption
<1>3. Ticks(t) = t.tv_sec * S + t.tv_nsec /\ Ticks(u) = u.tv_sec * S + u.tv_nsec
  BY DEF Ticks
<1>. HIDE DEF S
<1>4. ASSUME NEW a \in Nat, NEW b \in Nat, a < b
      PROVE  a * S + S <= b * S /\ a * S \in Nat /\ b * S \in Nat
  <2>1. (a + 1) * S <= b * S
    BY <1>2, <1>4
  <2>2. (a + 1) * S = a * S + S
    BY <1>2
  <2>. QED
    BY <1>2, <2>1, <2>2
<1>5. CASE t.tv_sec > u.tv_sec
  <2>. DEFINE a == u.tv_sec * S
              b == t.tv_sec * S
  <2>1. a + S <= b /\ a \in Nat /\ b \in Nat
    BY <1>1, <1>4, <1>5
  <2>. HIDE DEF a, b
  <2>. QED
    BY <1>1, <1>2, <1>3, <1>5, <2>1 DEF T!TimespecIsLater, a, b
<1>6. CASE t.tv_sec = u.tv_sec
  <2>. DEFINE a == u.tv_sec * S
  <2>1. a \in Nat
    BY <1>1, <1>2
  <2>2. Ticks(t) = a + t.tv_nsec /\ Ticks(u) = a + u.tv_nsec
    BY <1>3, <1>6
  <2>. HIDE DEF a
  <2>. QED
    BY <1>1, <1>6, <2>1, <2>2 DEF T!TimespecIsLater
<1>7. CASE t.tv_sec < u.tv_sec
  <2>. DEFINE a == t.tv_sec * S
              b == u.tv_sec * S
  <2>1. a + S <= b /\ a \in Nat /\ b \in Nat
    BY <1>1, <1>4, <1>7
  <2>. HIDE DEF a, b
  <2>. QED
    BY <1>1, <1>2, <1>3, <1>7, <2>1 DEF T!TimespecIsLater, a, b
<1>. QED
  BY <1>1, <1>5, <1>6, <1>7

(***************************************************************************)
(* Part 3.  The timeout.                                                   *)
(***************************************************************************)

\* C truncates the difference of the nanoseconds towards 0, so that the sum with
\* the seconds is rounded down or up: Timeouts has both, and no other values.
THEOREM TimeoutIsModelled ==
  ASSUME NEW deadline \in T!Normalised, NEW now \in T!Normalised
  PROVE  T!TimeoutMs(deadline, now) * TicksPerMs \in Timeouts(Ticks(deadline) - Ticks(now))
<1>. DEFINE N == TicksPerMs
            ds == deadline.tv_sec - now.tv_sec
            dn == deadline.tv_nsec - now.tv_nsec
            due == Ticks(deadline) - Ticks(now)
            m == ds * 1000 + T!CDiv(dn, N)
<1>1. ds \in Int /\ dn \in Int /\ N \in Nat \ {0} /\ due \in Int
  BY Fields, TimeAssumption
<1>2. due = (ds * 1000) * N + dn
  <2>. DEFINE a == deadline.tv_sec
              b == now.tv_sec
  <2>1. a \in Nat /\ b \in Nat /\ deadline.tv_nsec \in Nat /\ now.tv_nsec \in Nat
    BY Fields
  <2>2. ((a - b) * 1000) * N = a * (1000 * N) - b * (1000 * N)
    BY <1>1, <2>1
  <2>3. a * (1000 * N) \in Int /\ b * (1000 * N) \in Int
    BY <1>1, <2>1
  <2>. DEFINE an == a * (1000 * N)
              bn == b * (1000 * N)
  <2>4. /\ due = (an + deadline.tv_nsec) - (bn + now.tv_nsec)
        /\ (ds * 1000) * N = an - bn
    BY <2>2 DEF Ticks
  <2>5. an \in Int /\ bn \in Int
    BY <2>3
  <2>. HIDE DEF an, bn
  <2>. QED
    BY <1>1, <2>1, <2>4, <2>5
<1>3. T!TimeoutMs(deadline, now) = IF m + 1 < 0 THEN 1 ELSE m + 1
  BY DEF T!TimeoutMs
<1>. HIDE DEF ds, dn, due, N
<1>4. m \in {due \div N, -((-due) \div N)} /\ m \in Int
  <2>1. CASE dn >= 0
    <3>1. due \div N = ds * 1000 + (dn \div N)
      <4>. DEFINE k == ds * 1000
      <4>1. k \in Int /\ due = k * N + dn
        BY <1>1, <1>2
      <4>. HIDE DEF k
      <4>2. (k * N + dn) \div N = k + (dn \div N)
        BY <1>1, <4>1, DivShift
      <4>. QED
        BY <4>1, <4>2 DEF k
    <3>. QED
      BY <1>1, <2>1, <3>1 DEF T!CDiv
  <2>2. CASE dn < 0
    <3>1. -due = (-(ds * 1000)) * N + (-dn)
      <4>. DEFINE k == ds * 1000
      <4>1. k \in Int
        BY <1>1
      <4>. HIDE DEF k
      <4>2. (-k) * N = -(k * N) /\ k * N \in Int
        BY <1>1, <4>1
      <4>. DEFINE kn == k * N
      <4>3. due = kn + dn /\ kn \in Int /\ (-k) * N = -kn
        BY <1>2, <4>2 DEF k
      <4>. HIDE DEF kn
      <4>. QED
        BY <1>1, <4>3 DEF k
    <3>2. (-due) \div N = -(ds * 1000) + ((-dn) \div N)
      <4>. DEFINE k == -(ds * 1000)
                  e == -dn
      <4>1. k \in Int /\ e \in Int /\ -due = k * N + e
        BY <1>1, <3>1
      <4>. HIDE DEF k, e
      <4>2. (k * N + e) \div N = k + (e \div N)
        BY <1>1, <4>1, DivShift
      <4>. QED
        BY <4>1, <4>2 DEF k, e
    <3>3. (-dn) \div N \in Int
      BY <1>1
    <3>. QED
      BY <1>1, <2>2, <3>2, <3>3 DEF T!CDiv
  <2>. QED
    BY <1>1, <2>1, <2>2
<1>. HIDE DEF m
<1>5. T!TimeoutMs(deadline, now) * N = IF m + 1 < 0 THEN N ELSE (m + 1) * N
  BY <1>1, <1>3, <1>4
<1>. QED
  BY <1>4, <1>5 DEF Timeouts, due, N
=============================================================================
