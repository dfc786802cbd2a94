--------------------------- MODULE MCFakeTouchpad ---------------------------
(***************************************************************************)
(* A sensor of a few points mounted like the shipped one (270 degrees),    *)
(* with a touchpad that leaves points free on either side.                 *)
(***************************************************************************)
EXTENDS Mirroring

CONSTANTS tidA, tidB

MCAxisValues == [ABS_MT_POSITION_X |-> {0, 2}, ABS_MT_POSITION_Y |-> 1 .. 2]
MCHardware == [rotation |-> 270]
MCRegion == [x1 |-> 1, x2 |-> 2, y1 |-> 1, y2 |-> 2]
Symmetric == Permutations(Tids)
=============================================================================
