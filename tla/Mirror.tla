------------------------------- MODULE Mirror -------------------------------
(***************************************************************************)
(* What a device that mirrors a part of another one promises.  Whoever     *)
(* reads the mirror sees every frame of the original, each as a whole and  *)
(* in the order they happened, some time after they did; when the mirror   *)
(* goes away, it goes with nothing left in it.                             *)
(*                                                                         *)
(* FakeTouchpad implements this under the mapping of module Mirroring.     *)
(***************************************************************************)
EXTENDS Sequences

CONSTANT Nothing   \* the image of an untouched device

VARIABLES
  open,      \* whether the mirror exists
  original,  \* what the original shows
  coming,    \* the frames the mirror has not shown yet
  shown      \* what the mirror shows

vars == <<open, original, coming, shown>>

Init == open = TRUE /\ original = Nothing /\ coming = <<>> /\ shown = Nothing

\* A frame of the original, whatever it shows.
Touch ==
  /\ UNCHANGED <<open, shown>>
  /\ coming' = Append(coming, original')

Show ==
  /\ UNCHANGED <<open, original>>
  /\ coming # <<>>
  /\ shown' = Head(coming) /\ coming' = Tail(coming)

Close ==
  /\ open' = FALSE /\ UNCHANGED original
  /\ coming' = <<>> /\ shown' = Nothing

Next == open /\ (Touch \/ Show \/ Close)

Spec == Init /\ [][Next]_vars
=============================================================================
