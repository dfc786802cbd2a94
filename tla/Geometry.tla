------------------------------ MODULE Geometry ------------------------------
(***************************************************************************)
(* Where things are on the sensor.  The layout files give the keys and the *)
(* touchpad in millimetres, as a user sees them; the sensor may be mounted *)
(* turned by 90, 180 or 270 degrees and reports points of its own axes.    *)
(* LoadLayout of FakeKeyboard and of FakeTouchpad turn the areas into the  *)
(* sensor's points; the touchpad turns the points of a contact back, and   *)
(* the haptic manager picks the motor below it.                            *)
(*                                                                         *)
(* Lengths are integers, Unit of them to the millimetre.  The doubles of   *)
(* the code become exact fractions, and its conversions to int truncate.   *)
(***************************************************************************)
EXTENDS Integers

CONSTANT Unit    \* units of length in a millimetre

ASSUME UnitAssumption == Unit \in Nat \ {0}

\* What LoadHWConfig may read of a sensor that exists.
HWConfig ==
  [rotation : {0, 90, 180, 270}, res_x : Nat, res_y : Nat,
   width_mm : Nat \ {0}, height_mm : Nat \ {0},
   left_margin_mm : Nat, top_margin_mm : Nat]

\* A unit of length is at least a point wide on either axis.
FinePitch(hw) == hw.width_mm <= hw.res_x /\ hw.height_mm <= hw.res_y

Areas == [x1 : Int, x2 : Int, y1 : Int, y2 : Int]

\* (int)(n / d), for d > 0.
Trunc(n, d) == IF n >= 0 THEN n \div d ELSE -((-n) \div d)

\* (int)(len * hw_pitch_x), (int)(len * hw_pitch_y): points of the sensor.
PointsX(hw, len) == Trunc(len * hw.res_x, hw.width_mm)
PointsY(hw, len) == Trunc(len * hw.res_y, hw.height_mm)

-----------------------------------------------------------------------------
(* From the layout to the sensor.  An area is [x1, x2, y1, y2].            *)

\* Mutant: the margins are swapped when the sensor is turned.
EdgesWithSwappedMargins(hw, a) ==
  LET l == hw.left_margin_mm
      t == hw.top_margin_mm
  IN  CASE hw.rotation = 0 ->
             [x1 |-> a.x1 + l, x2 |-> a.x2 + l, y1 |-> a.y1 + t, y2 |-> a.y2 + t]
        [] hw.rotation = 90 ->
             [x1 |-> l + a.y1, x2 |-> l + a.y2,
              y1 |-> hw.height_mm - (t + a.x2), y2 |-> hw.height_mm - (t + a.x1)]
        [] hw.rotation = 180 ->
             [x1 |-> hw.width_mm - (a.x2 + l), x2 |-> hw.width_mm - (a.x1 + l),
              y1 |-> hw.height_mm - (a.y2 + t), y2 |-> hw.height_mm - (a.y1 + t)]
        [] hw.rotation = 270 ->
             [x1 |-> hw.width_mm - (a.y2 + l), x2 |-> hw.width_mm - (a.y1 + l),
              y1 |-> t + a.x1, y2 |-> t + a.x2]

\* The edges of an area of the layout on the turned sensor, in units.
Edges(hw, a) ==
  LET l == hw.left_margin_mm
      t == hw.top_margin_mm
  IN  CASE hw.rotation = 0 ->
             [x1 |-> a.x1 + l, x2 |-> a.x2 + l, y1 |-> a.y1 + t, y2 |-> a.y2 + t]
        [] hw.rotation = 90 ->
             [x1 |-> t + a.y1, x2 |-> t + a.y2,
              y1 |-> hw.height_mm - (l + a.x2), y2 |-> hw.height_mm - (l + a.x1)]
        [] hw.rotation = 180 ->
             [x1 |-> hw.width_mm - (a.x2 + l), x2 |-> hw.width_mm - (a.x1 + l),
              y1 |-> hw.height_mm - (a.y2 + t), y2 |-> hw.height_mm - (a.y1 + t)]
        [] hw.rotation = 270 ->
             [x1 |-> hw.width_mm - (a.y2 + t), x2 |-> hw.width_mm - (a.y1 + t),
              y1 |-> l + a.x1, y2 |-> l + a.x2]

\* FakeKeyboard::LoadLayout computes the same edges, but for a sensor turned by
\* 180 degrees it assigns both of them to x1, and x2 keeps its initial 0.
KeyEdges(hw, a) ==
  LET e == Edges(hw, a)
  IN  IF hw.rotation = 180
      THEN [x1 |-> e.x2, x2 |-> 0, y1 |-> e.y1, y2 |-> e.y2]
      ELSE e

\* A key on the sensor, in points.
KeyArea(hw, a) ==
  LET e == KeyEdges(hw, a)
  IN  [x1 |-> PointsX(hw, e.x1), x2 |-> PointsX(hw, e.x2),
       y1 |-> PointsY(hw, e.y1), y2 |-> PointsY(hw, e.y2)]

\* The edges of the touchpad go through int members, so they are cut to whole
\* millimetres before they are multiplied with the pitch.
WholeMm(len) == Trunc(len, Unit) * Unit

\* Mutant: the touchpad is not turned with the sensor.
PadAreaUnturned(hw, a) ==
  [x1 |-> PointsX(hw, WholeMm(a.x1 + hw.left_margin_mm)),
   x2 |-> PointsX(hw, WholeMm(a.x2 + hw.left_margin_mm)),
   y1 |-> PointsY(hw, WholeMm(a.y1 + hw.top_margin_mm)),
   y2 |-> PointsY(hw, WholeMm(a.y2 + hw.top_margin_mm))]

\* The touchpad on the sensor, in points: xmin_, xmax_, ymin_, ymax_.
PadArea(hw, a) ==
  LET e == Edges(hw, a)
  IN  [x1 |-> PointsX(hw, WholeMm(e.x1)), x2 |-> PointsX(hw, WholeMm(e.x2)),
       y1 |-> PointsY(hw, WholeMm(e.y1)), y2 |-> PointsY(hw, WholeMm(e.y2))]

-----------------------------------------------------------------------------
(* From the sensor to the devices.  x and y are a contact's position.      *)

\* Key::Contains is open at the far edges, FakeTouchpad::Contains is not.
KeyContains(r, x, y) == r.x1 <= x /\ x < r.x2 /\ r.y1 <= y /\ y < r.y2
PadContains(r, x, y) == r.x1 <= x /\ x <= r.x2 /\ r.y1 <= y /\ y <= r.y2

\* The ranges of the virtual touchpad's axes.
PadSize(hw, r) ==
  LET dx == r.x2 - r.x1
      dy == r.y2 - r.y1
  IN  IF hw.rotation \in {0, 180} THEN [x |-> dx, y |-> dy]
      ELSE [x |-> dy, y |-> dx]

\* Mutant: the axes are swapped for 270 degrees, but x is not inverted.
PadPositionNotInverted(hw, r, x, y) ==
  CASE hw.rotation = 0   -> [x |-> x - r.x1, y |-> y - r.y1]
    [] hw.rotation = 90  -> [x |-> (r.y2 - r.y1) - (y - r.y1), y |-> x - r.x1]
    [] hw.rotation = 180 -> [x |-> (r.x2 - r.x1) - (x - r.x1),
                             y |-> (r.y2 - r.y1) - (y - r.y1)]
    [] hw.rotation = 270 -> [x |-> y - r.y1, y |-> x - r.x1]

\* What PassEventsThrough makes of a position.
PadPosition(hw, r, x, y) ==
  CASE hw.rotation = 0   -> [x |-> x - r.x1, y |-> y - r.y1]
    [] hw.rotation = 90  -> [x |-> (r.y2 - r.y1) - (y - r.y1), y |-> x - r.x1]
    [] hw.rotation = 180 -> [x |-> (r.x2 - r.x1) - (x - r.x1),
                             y |-> (r.y2 - r.y1) - (y - r.y1)]
    [] hw.rotation = 270 -> [x |-> y - r.y1, y |-> (r.x2 - r.x1) - (x - r.x1)]

\* touch_max_x_: the points of the axis that runs from left to right.
TouchMaxX(hw) == IF hw.rotation \in {0, 180} THEN hw.res_x ELSE hw.res_y

\* Mutant: the position is not turned back.
LeftMotorUnturned(hw, x, y) == x < TouchMaxX(hw) \div 2

\* EventTriggered: TRUE for the left motor, FALSE for the right one.
LeftMotor(hw, x, y) ==
  LET val == CASE hw.rotation = 0   -> x
               [] hw.rotation = 90  -> TouchMaxX(hw) - y
               [] hw.rotation = 180 -> TouchMaxX(hw) - x
               [] hw.rotation = 270 -> y
  IN  val < TouchMaxX(hw) \div 2
=============================================================================
