----------------------------- MODULE SharedKeys -----------------------------
(***************************************************************************)
(* Fingers that share a key.  A key-up carries no tracking id, so the      *)
(* first of two fingers to leave a key releases it for both.  A history    *)
(* variable keeps the keys that fingers have shared, which FakeKeyboard    *)
(* itself forgets.                                                         *)
(***************************************************************************)
EXTENDS Typing

VARIABLE shared   \* codes that two fingers have claimed at once

\* The fingers that stand for c.
Claims(c) ==
  {tid \in Tids : Live(tid) /\ ~Rejected(tid) /\ finger_data[tid].event_code = c}

\* A code is shared from the moment two fingers stand for it until none does and
\* all its key-ups were sent.
Share ==
  shared' = {c \in Codes :
    \/ Cardinality(Claims(c)') > 1
    \/ c \in shared /\ (Claims(c)' # {} \/ UpsOf(c)' # {})}

SharingSpec == Init /\ shared = {} /\ [][Next /\ Share]_<<vars, shared>>

\* A key stays down under its finger: what was sent for contacts that were there
\* before, or are on other keys, never releases the key of a finger that shares
\* it with nobody.  (The queue is in the order of the touches, so the key-up of
\* an earlier contact on the same key comes before the next key-down.)
KeyStaysUnderFinger ==
  \A tid \in Tids : \A c \in Codes \ shared :
    Holds(tid, c) /\ pc # "exited" => c \in keys
=============================================================================
