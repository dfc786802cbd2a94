------------------------------ MODULE Timespec ------------------------------
(***************************************************************************)
(* The arithmetic on struct timespec in FakeKeyboard: deadlines, their     *)
(* order, and the timeout of the next wait.  FakeKeyboard counts in ticks  *)
(* from now; here are the two fields and the carries between them.         *)
(***************************************************************************)
EXTENDS Integers

CONSTANT NsPerMs   \* nanoseconds in a millisecond: 1000000 in the code

NsPerSec == 1000 * NsPerMs

\* n / d in C.
CDiv(n, d) == IF n >= 0 THEN n \div d ELSE -((-n) \div d)

Time(sec, nsec) == [tv_sec |-> sec, tv_nsec |-> nsec]

\* What clock_gettime() returns, and what the arithmetic must keep.
Normalised == [tv_sec : Nat, tv_nsec : 0 .. NsPerSec - 1]

\* The loop subtracts a second as often as it can.
AddMsToTimespec(orig, additional_ms) ==
  LET nsec  == orig.tv_nsec + additional_ms * NsPerMs
      turns == CHOOSE n \in Nat : /\ nsec - n * NsPerSec < NsPerSec
                                  /\ n > 0 => nsec - (n - 1) * NsPerSec >= NsPerSec
  IN  Time(orig.tv_sec + turns, nsec - turns * NsPerSec)

TimespecIsLater(t1, t2) ==
  \/ t1.tv_sec > t2.tv_sec
  \/ t1.tv_sec = t2.tv_sec /\ t1.tv_nsec > t2.tv_nsec

\* timeout_ms, when an event is pending.
TimeoutMs(deadline, now) ==
  LET timeout_ms == (deadline.tv_sec - now.tv_sec) * 1000
                      + CDiv(deadline.tv_nsec - now.tv_nsec, NsPerMs) + 1
  IN  IF timeout_ms < 0 THEN 1 ELSE timeout_ms
=============================================================================
