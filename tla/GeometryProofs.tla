--------------------------- MODULE GeometryProofs ---------------------------
(***************************************************************************)
(* Theorems about Geometry, for every sensor, layout and unit of length.   *)
(***************************************************************************)
EXTENDS Geometry, TLAPS

(***************************************************************************)
(* Part 1.  The conversion to points.                                      *)
(***************************************************************************)

\* A conversion to int keeps the order of what it truncates.
LEMMA DivMonotone ==
  ASSUME NEW a \in Nat, NEW b \in Nat, NEW d \in Nat \ {0}, a <= b
  PROVE  a \div d <= b \div d /\ a \div d \in Nat /\ b \div d \in Nat
<1>. DEFINE p == a \div d
            q == b \div d
<1>1. p \in Int /\ a = d * p + (a % d) /\ a % d \in 0 .. d - 1
  OBVIOUS
<1>2. q \in Int /\ b = d * q + (b % d) /\ b % d \in 0 .. d - 1
  OBVIOUS
<1>3. p \in Nat /\ q \in Nat
  OBVIOUS
<1>. HIDE DEF p, q
<1>4. p <= q
  <2>. SUFFICES ASSUME q + 1 <= p PROVE FALSE
    BY <1>1, <1>2
  <2>1. d * (q + 1) <= d * p
    BY <1>3
  <2>2. d * (q + 1) = d * q + d
    BY <1>3
  <2>. DEFINE dp == d * p
              dq == d * q
  <2>3. dp \in Int /\ dq \in Int
    BY <1>3
  <2>. HIDE DEF dp, dq
  <2>4. dq + d <= dp
    BY <2>1, <2>2 DEF dp, dq
  <2>5. a >= dp /\ b < dq + d
    BY <1>1, <1>2, <2>3 DEF dp, dq
  <2>. QED
    BY <2>3, <2>4, <2>5
<1>. QED
  BY <1>3, <1>4 DEF p, q

LEMMA TruncMonotone ==
  ASSUME NEW a \in Int, NEW b \in Int, NEW d \in Nat \ {0}, a <= b
  PROVE  /\ Trunc(a, d) \in Int /\ Trunc(b, d) \in Int
         /\ Trunc(a, d) <= Trunc(b, d)
<1>1. CASE a >= 0
  BY <1>1, DivMonotone DEF Trunc
<1>2. CASE a < 0 /\ b >= 0
  <2>1. (-a) \in Nat /\ b \in Nat
    BY <1>2
  <2>2. (-a) \div d \in Nat /\ b \div d \in Nat
    BY <2>1, DivMonotone
  <2>. QED
    BY <1>2, <2>2 DEF Trunc
<1>3. CASE b < 0
  <2>1. (-a) \in Nat /\ (-b) \in Nat /\ -b <= -a
    BY <1>3
  <2>2. /\ (-b) \div d <= (-a) \div d
        /\ (-b) \div d \in Nat /\ (-a) \div d \in Nat
    BY <2>1, DivMonotone
  <2>. QED
    BY <1>3, <2>2 DEF Trunc
<1>. QED
  BY <1>1, <1>2, <1>3

\* The edges of an area keep their order when they become points.
LEMMA PointsMonotone ==
  ASSUME NEW hw \in HWConfig, NEW a \in Int, NEW b \in Int, a <= b
  PROVE  /\ PointsX(hw, a) \in Int /\ PointsX(hw, b) \in Int
         /\ PointsY(hw, a) \in Int /\ PointsY(hw, b) \in Int
         /\ PointsX(hw, a) <= PointsX(hw, b)
         /\ PointsY(hw, a) <= PointsY(hw, b)
<1>1. /\ hw.res_x \in Nat /\ hw.res_y \in Nat
      /\ hw.width_mm \in Nat \ {0} /\ hw.height_mm \in Nat \ {0}
  BY DEF HWConfig
<1>2. ASSUME NEW res \in Nat
      PROVE  a * res \in Int /\ b * res \in Int /\ a * res <= b * res
  OBVIOUS
<1>3. /\ a * hw.res_x \in Int /\ b * hw.res_x \in Int /\ a * hw.res_x <= b * hw.res_x
      /\ a * hw.res_y \in Int /\ b * hw.res_y \in Int /\ a * hw.res_y <= b * hw.res_y
  BY <1>1, <1>2
<1>. QED
  BY <1>1, <1>3, TruncMonotone DEF PointsX, PointsY

(***************************************************************************)
(* Part 2.  Keys.                                                          *)
(***************************************************************************)

Beside(a, b) == a.x2 <= b.x1 \/ b.x2 <= a.x1 \/ a.y2 <= b.y1 \/ b.y2 <= a.y1

\* The edges LoadLayout computes are integers, and areas beside each other stay so.
LEMMA KeyEdgesBeside ==
  ASSUME NEW hw \in HWConfig, hw.rotation # 180,
         NEW a \in Areas, NEW b \in Areas, Beside(a, b)
  PROVE  /\ KeyEdges(hw, a) \in Areas /\ KeyEdges(hw, b) \in Areas
         /\ Beside(KeyEdges(hw, a), KeyEdges(hw, b))
<1>1. /\ hw.rotation \in {0, 90, 180, 270}
      /\ hw.width_mm \in Int /\ hw.height_mm \in Int
      /\ hw.left_margin_mm \in Int /\ hw.top_margin_mm \in Int
  BY DEF HWConfig
<1>2. /\ a.x1 \in Int /\ a.x2 \in Int /\ a.y1 \in Int /\ a.y2 \in Int
      /\ b.x1 \in Int /\ b.x2 \in Int /\ b.y1 \in Int /\ b.y2 \in Int
  BY DEF Areas
<1>. DEFINE l == hw.left_margin_mm
            t == hw.top_margin_mm
<1>3. CASE hw.rotation = 0
  <2>1. \A c : KeyEdges(hw, c) =
          [x1 |-> c.x1 + l, x2 |-> c.x2 + l, y1 |-> c.y1 + t, y2 |-> c.y2 + t]
    BY <1>3 DEF KeyEdges, Edges
  <2>. QED
    BY <1>1, <1>2, <2>1 DEF Beside, Areas
<1>4. CASE hw.rotation = 90
  <2>1. \A c : KeyEdges(hw, c) =
          [x1 |-> t + c.y1, x2 |-> t + c.y2,
           y1 |-> hw.height_mm - (l + c.x2), y2 |-> hw.height_mm - (l + c.x1)]
    BY <1>4 DEF KeyEdges, Edges
  <2>. QED
    BY <1>1, <1>2, <2>1 DEF Beside, Areas
<1>5. CASE hw.rotation = 270
  <2>1. \A c : KeyEdges(hw, c) =
          [x1 |-> hw.width_mm - (c.y2 + t), x2 |-> hw.width_mm - (c.y1 + t),
           y1 |-> l + c.x1, y2 |-> l + c.x2]
    BY <1>5 DEF KeyEdges, Edges
  <2>. QED
    BY <1>1, <1>2, <2>1 DEF Beside, Areas
<1>. QED
  BY <1>1, <1>3, <1>4, <1>5

\* Keys that do not overlap in the layout file do not overlap on the sensor: a
\* contact is on one key at most, for any pitch, so that the first key of layout_
\* that contains it is the only one.  (Keys may share an edge, as those of the
\* shipped layouts do.  LoadLayout does not place the keys of a sensor that is
\* mounted upside down.)
THEOREM KeysDoNotOverlap ==
  ASSUME NEW hw \in HWConfig, hw.rotation # 180,
         NEW a \in Areas, NEW b \in Areas, Beside(a, b),
         NEW x \in Int, NEW y \in Int
  PROVE  ~(KeyContains(KeyArea(hw, a), x, y) /\ KeyContains(KeyArea(hw, b), x, y))
<1>. DEFINE e == KeyEdges(hw, a)
            f == KeyEdges(hw, b)
<1>1. /\ e.x1 \in Int /\ e.x2 \in Int /\ e.y1 \in Int /\ e.y2 \in Int
      /\ f.x1 \in Int /\ f.x2 \in Int /\ f.y1 \in Int /\ f.y2 \in Int
      /\ e.x2 <= f.x1 \/ f.x2 <= e.x1 \/ e.y2 <= f.y1 \/ f.y2 <= e.y1
  BY KeyEdgesBeside DEF Areas, Beside
<1>2. \A len \in Int : PointsX(hw, len) \in Int /\ PointsY(hw, len) \in Int
  BY PointsMonotone
<1>3. /\ KeyContains(KeyArea(hw, a), x, y) <=>
           /\ PointsX(hw, e.x1) <= x /\ x < PointsX(hw, e.x2)
           /\ PointsY(hw, e.y1) <= y /\ y < PointsY(hw, e.y2)
      /\ KeyContains(KeyArea(hw, b), x, y) <=>
           /\ PointsX(hw, f.x1) <= x /\ x < PointsX(hw, f.x2)
           /\ PointsY(hw, f.y1) <= y /\ y < PointsY(hw, f.y2)
  BY DEF KeyContains, KeyArea
<1>. HIDE DEF e, f
<1>4. CASE e.x2 <= f.x1
  BY <1>1, <1>2, <1>3, <1>4, PointsMonotone
<1>5. CASE f.x2 <= e.x1
  BY <1>1, <1>2, <1>3, <1>5, PointsMonotone
<1>6. CASE e.y2 <= f.y1
  BY <1>1, <1>2, <1>3, <1>6, PointsMonotone
<1>7. CASE f.y2 <= e.y1
  BY <1>1, <1>2, <1>3, <1>7, PointsMonotone
<1>. QED
  BY <1>1, <1>4, <1>5, <1>6, <1>7

(***************************************************************************)
(* Part 3.  The touchpad.                                                  *)
(***************************************************************************)

\* A contact inside the touchpad's region is shown inside the range that Start()
\* announced for the virtual axes, on both axes and for every mounting.
THEOREM PadStaysInRange ==
  ASSUME NEW hw \in HWConfig, NEW r \in Areas, NEW x \in Int, NEW y \in Int,
         PadContains(r, x, y)
  PROVE  /\ PadPosition(hw, r, x, y).x \in 0 .. PadSize(hw, r).x
         /\ PadPosition(hw, r, x, y).y \in 0 .. PadSize(hw, r).y
<1>1. /\ r.x1 \in Int /\ r.x2 \in Int /\ r.y1 \in Int /\ r.y2 \in Int
      /\ r.x1 <= x /\ x <= r.x2 /\ r.y1 <= y /\ y <= r.y2
  BY DEF Areas, PadContains
<1>2. hw.rotation \in {0, 90, 180, 270}
  BY DEF HWConfig
<1>3. CASE hw.rotation = 0
  BY <1>1, <1>3 DEF PadPosition, PadSize
<1>4. CASE hw.rotation = 90
  BY <1>1, <1>4 DEF PadPosition, PadSize
<1>5. CASE hw.rotation = 180
  BY <1>1, <1>5 DEF PadPosition, PadSize
<1>6. CASE hw.rotation = 270
  BY <1>1, <1>6 DEF PadPosition, PadSize
<1>. QED
  BY <1>2, <1>3, <1>4, <1>5, <1>6
(***************************************************************************)
(* Part 4.  How much is lost on the way from a length to points.           *)
(***************************************************************************)

\* A conversion to int cuts off less than one, on the side of 0.
LEMMA TruncBounds ==
  ASSUME NEW n \in Int, NEW d \in Nat \ {0}
  PROVE  /\ Trunc(n, d) \in Int
         /\ n >= 0 => Trunc(n, d) >= 0 /\ n - d < d * Trunc(n, d) /\ d * Trunc(n, d) <= n
         /\ n <= 0 => Trunc(n, d) <= 0 /\ n <= d * Trunc(n, d) /\ d * Trunc(n, d) < n + d
<1>1. ASSUME NEW m \in Nat
      PROVE  m \div d \in Nat /\ m - d < d * (m \div d) /\ d * (m \div d) <= m
  <2>. DEFINE q == m \div d
              r == m % d
  <2>1. q \in Nat /\ m = d * q + r /\ r \in 0 .. d - 1
    OBVIOUS
  <2>. HIDE DEF q, r
  <2>2. PICK p \in Int : p = d * q
    BY <2>1
  <2>3. m - d < p /\ p <= m
    BY <2>1, <2>2
  <2>. QED
    BY <2>1, <2>2, <2>3 DEF q
<1>2. CASE n > 0
  BY <1>1, <1>2 DEF Trunc
<1>3. CASE n = 0
  <2>1. Trunc(n, d) = 0 \div d
    BY <1>3 DEF Trunc
  <2>2. PICK q \in Nat : q = 0 \div d /\ d * q <= 0
    BY <1>1
  <2>3. q = 0
    BY <2>2
  <2>. QED
    BY <1>3, <2>1, <2>2, <2>3
<1>4. CASE n < 0
  <2>1. -n \in Nat
    BY <1>4
  <2>2. PICK q \in Nat : q = (-n) \div d /\ (-n) - d < d * q /\ d * q <= -n
    BY <1>1, <2>1
  <2>3. Trunc(n, d) = -q
    BY <1>4, <2>2 DEF Trunc
  <2>4. d * (-q) = -(d * q) /\ d * q \in Int
    OBVIOUS
  <2>. QED
    BY <1>4, <2>2, <2>3, <2>4
<1>. QED
  BY <1>2, <1>3, <1>4

LEMMA TruncNear ==
  ASSUME NEW n \in Int, NEW d \in Nat \ {0}
  PROVE  n - d < d * Trunc(n, d) /\ d * Trunc(n, d) < n + d
<1>1. PICK p \in Int : p = d * Trunc(n, d)
  BY TruncBounds
<1>2. /\ n >= 0 => n - d < p /\ p <= n
      /\ n <= 0 => n <= p /\ p < n + d
  BY <1>1, TruncBounds
<1>. QED
  BY <1>1, <1>2

\* With a fine pitch different lengths are different points, also around 0, where
\* a conversion to int maps an interval of twice the size to one number.
LEMMA TruncStrict ==
  ASSUME NEW u \in Int, NEW v \in Int, u < v,
         NEW res \in Nat, NEW d \in Nat \ {0}, d <= res
  PROVE  Trunc(u * res, d) < Trunc(v * res, d)
<1>1. PICK n \in Int, m \in Int : n = u * res /\ m = v * res
  OBVIOUS
<1>2. n + d <= m
  BY <1>1
<1>3. PICK s \in Int, t \in Int : s = Trunc(n, d) /\ t = Trunc(m, d)
  BY TruncBounds
<1>4. /\ n >= 0 => d * s <= n
      /\ n <= 0 => d * s < n + d
      /\ m >= 0 => m - d < d * t
      /\ m <= 0 => m <= d * t
  BY <1>3, TruncBounds
<1>5. PICK ds \in Int, dt \in Int : ds = d * s /\ dt = d * t
  OBVIOUS
<1>6. \/ n >= 0 \/ m <= 0 \/ (n + d <= 0 /\ m - d >= 0)
  BY <1>1
<1>7. ds < dt \/ (ds < 0 /\ dt > 0)
  BY <1>2, <1>4, <1>5, <1>6
<1>8. d * s < d * t
  BY <1>5, <1>7
<1>9. s < t
  BY <1>8
<1>. QED
  BY <1>1, <1>3, <1>9

LEMMA PointsStrict ==
  ASSUME NEW hw \in HWConfig, FinePitch(hw), NEW a \in Int, NEW b \in Int, a < b
  PROVE  PointsX(hw, a) < PointsX(hw, b) /\ PointsY(hw, a) < PointsY(hw, b)
<1>1. /\ hw.res_x \in Nat /\ hw.res_y \in Nat
      /\ hw.width_mm \in Nat \ {0} /\ hw.height_mm \in Nat \ {0}
      /\ hw.width_mm <= hw.res_x /\ hw.height_mm <= hw.res_y
  BY DEF HWConfig, FinePitch
<1>. QED
  BY <1>1, TruncStrict DEF PointsX, PointsY

\* A length of the touchpad loses less than a millimetre.
LEMMA WholeMmBounds ==
  ASSUME NEW len \in Int
  PROVE  /\ WholeMm(len) \in Int
         /\ len - Unit < WholeMm(len) /\ WholeMm(len) < len + Unit
<1>1. Unit \in Nat \ {0}
  BY UnitAssumption
<1>2. PICK t \in Int : t = Trunc(len, Unit)
  BY <1>1, TruncBounds
<1>3. len - Unit < Unit * t /\ Unit * t < len + Unit
  BY <1>1, <1>2, TruncNear
<1>4. WholeMm(len) = Unit * t
  BY <1>1, <1>2 DEF WholeMm
<1>. QED
  BY <1>1, <1>3, <1>4

\* A distance of points is the distance of the lengths, up to what is cut off.
LEMMA PointsDistance ==
  ASSUME NEW u \in Int, NEW v \in Int, NEW res \in Nat, NEW d \in Nat \ {0}
  PROVE  LET points == Trunc(u * res, d) - Trunc(v * res, d)
         IN  /\ points * d - (u - v) * res < 2 * d
             /\ (u - v) * res - points * d < 2 * d
<1>1. PICK n \in Int, m \in Int : n = u * res /\ m = v * res
  OBVIOUS
<1>2. PICK s \in Int, t \in Int : s = Trunc(n, d) /\ t = Trunc(m, d)
  BY TruncBounds
<1>3. PICK ds \in Int, dt \in Int : ds = d * s /\ dt = d * t
  OBVIOUS
<1>4. n - d < ds /\ ds < n + d /\ m - d < dt /\ dt < m + d
  BY <1>2, <1>3, TruncNear
<1>5. (s - t) * d = ds - dt /\ (u - v) * res = n - m
  BY <1>1, <1>3
<1>. QED
  BY <1>1, <1>2, <1>4, <1>5
(***************************************************************************)
(* Part 5.  The middle of an axis.                                         *)
(***************************************************************************)

LEMMA Halves ==
  ASSUME NEW r \in Nat
  PROVE  r \div 2 \in Nat /\ 2 * (r \div 2) <= r /\ r <= 2 * (r \div 2) + 1
OBVIOUS

\* Lengths more than a unit on this side of the middle are points on this side.
LEMMA MiddleOfPoints ==
  ASSUME NEW x \in Int, NEW res \in Nat, NEW d \in Nat \ {0}, d <= res
  PROVE  /\ 2 * (x + 1) < d => Trunc(x * res, d) < res \div 2
         /\ 2 * (x - 1) > d => Trunc(x * res, d) >= res \div 2
<1>1. PICK h \in Nat : h = res \div 2 /\ 2 * h <= res /\ res <= 2 * h + 1
  BY Halves
<1>2. PICK n \in Int : n = x * res
  OBVIOUS
<1>3. PICK t \in Int : t = Trunc(n, d)
  BY TruncBounds
<1>4. PICK dt \in Int, dh \in Int, dr \in Int : dt = d * t /\ dh = d * h /\ dr = d * res
  OBVIOUS
<1>5. 2 * dh <= dr /\ dr <= 2 * dh + d
  BY <1>1, <1>4
<1>6. n - d < dt /\ (n >= 0 => dt <= n) /\ (n <= 0 => t <= 0)
  BY <1>3, <1>4, TruncBounds, TruncNear
<1>7. ASSUME 2 * (x + 1) < d
      PROVE  t < h
  <2>1. 2 * x + 3 <= d
    BY <1>7
  <2>2. 2 * n + 3 * res <= dr
    BY <1>2, <1>4, <2>1
  <2>3. CASE n >= 0
    <3>1. dt < dh
      BY <1>5, <1>6, <2>2, <2>3
    <3>. QED
      BY <1>4, <3>1
  <2>4. CASE n < 0
    <3>1. x < 0
      BY <1>2, <2>4
    <3>2. PICK o \in Int : o = 0
      OBVIOUS
    <3>3. Trunc(x * res, d) < Trunc(o * res, d)
      BY <3>1, <3>2, TruncStrict
    <3>4. o * res = 0
      BY <3>2
    <3>5. Trunc(o * res, d) \in Int /\ Trunc(o * res, d) <= 0
      BY <3>4, TruncBounds
    <3>. QED
      BY <1>1, <1>2, <1>3, <3>3, <3>5
  <2>. QED
    BY <2>3, <2>4
<1>8. ASSUME 2 * (x - 1) > d
      PROVE  t >= h
  <2>1. 2 * x - 3 >= d
    BY <1>8
  <2>2. 2 * n - 3 * res >= dr
    BY <1>2, <1>4, <2>1
  <2>3. dh < dt
    BY <1>5, <1>6, <2>2
  <2>. QED
    BY <1>4, <2>3
<1>. QED
  BY <1>1, <1>2, <1>3, <1>7, <1>8

\* Also when they are measured from the other end.
LEMMA MiddleFromTheOtherEnd ==
  ASSUME NEW x \in Int, NEW res \in Nat, NEW d \in Nat \ {0}, d <= res
  PROVE  /\ 2 * (x + 1) < d => res - Trunc((d - x) * res, d) < res \div 2
         /\ 2 * (x - 1) > d => res - Trunc((d - x) * res, d) >= res \div 2
<1>1. PICK h \in Nat : h = res \div 2 /\ 2 * h <= res /\ res <= 2 * h + 1
  BY Halves
<1>2. PICK u \in Int : u = d - x
  OBVIOUS
<1>3. PICK n \in Int : n = u * res
  OBVIOUS
<1>4. PICK t \in Int : t = Trunc(n, d)
  BY TruncBounds
<1>5. PICK dt \in Int, dh \in Int, dr \in Int : dt = d * t /\ dh = d * h /\ dr = d * res
  OBVIOUS
<1>6. 2 * dh <= dr /\ dr <= 2 * dh + d
  BY <1>1, <1>5
<1>7. n - d < dt /\ (n >= 0 => dt <= n) /\ (n <= 0 => t <= 0)
  BY <1>4, <1>5, TruncBounds, TruncNear
<1>8. ASSUME 2 * (x + 1) < d
      PROVE  res - t < h
  <2>1. 2 * u >= d + 3
    BY <1>2, <1>8
  <2>2. 2 * n >= dr + 3 * res
    BY <1>3, <1>5, <2>1
  <2>3. dr - dh < dt
    BY <1>6, <1>7, <2>2
  <2>4. dr - dh = d * (res - h)
    BY <1>5
  <2>5. res - h < t
    BY <1>5, <2>3, <2>4
  <2>. QED
    BY <1>1, <2>5
<1>9. ASSUME 2 * (x - 1) > d
      PROVE  res - t >= h
  <2>1. 2 * u <= d - 3
    BY <1>2, <1>9
  <2>2. 2 * n <= dr - 3 * res
    BY <1>3, <1>5, <2>1
  <2>3. CASE n >= 0
    <3>1. dt < dr - dh
      BY <1>6, <1>7, <2>2, <2>3
    <3>2. dr - dh = d * (res - h)
      BY <1>5
    <3>3. t < res - h
      BY <1>5, <3>1, <3>2
    <3>. QED
      BY <3>3
  <2>4. CASE n < 0
    BY <1>1, <1>7, <2>4
  <2>. QED
    BY <2>3, <2>4
<1>. QED
  BY <1>1, <1>2, <1>3, <1>4, <1>8, <1>9

\* A place and an edge cut to whole millimetres are as far apart in points as on
\* the panel, up to what is cut off.
LEMMA DistanceFromEdge ==
  ASSUME NEW u \in Int, NEW v \in Int, NEW res \in Nat, NEW d \in Nat \ {0}, d <= res
  PROVE  LET points == Trunc(u * res, d) - Trunc(WholeMm(v) * res, d)
         IN  /\ points \in Int
             /\ points * d - (u - v) * res <= (Unit + 2) * res
             /\ (u - v) * res - points * d <= (Unit + 2) * res
<1>1. PICK w \in Int : w = WholeMm(v)
  BY WholeMmBounds
<1>2. v - Unit < w /\ w < v + Unit /\ Unit \in Nat
  BY <1>1, WholeMmBounds, UnitAssumption
<1>3. Trunc(u * res, d) \in Int /\ Trunc(w * res, d) \in Int
  <2>1. u * res \in Int /\ w * res \in Int
    OBVIOUS
  <2>. QED
    BY <2>1, TruncBounds
<1>4. PICK p \in Int : p = Trunc(u * res, d) - Trunc(w * res, d)
  BY <1>3
<1>5. p * d - (u - w) * res < 2 * d /\ (u - w) * res - p * d < 2 * d
  BY <1>4, PointsDistance
<1>6. PICK pd \in Int, ur \in Int, vr \in Int, wr \in Int, most \in Int :
        pd = p * d /\ ur = u * res /\ vr = v * res /\ wr = w * res /\ most = Unit * res
  BY <1>2
<1>7. /\ (u - w) * res = ur - wr /\ (u - v) * res = ur - vr
      /\ (Unit + 2) * res = most + 2 * res
  BY <1>2, <1>6
<1>8. wr <= vr + most /\ vr <= wr + most
  <2>1. w <= v + Unit /\ v <= w + Unit
    BY <1>2
  <2>2. w * res <= (v + Unit) * res /\ v * res <= (w + Unit) * res
    BY <1>2, <2>1
  <2>3. (v + Unit) * res = vr + most /\ (w + Unit) * res = wr + most
    BY <1>2, <1>6
  <2>. QED
    BY <1>6, <2>2, <2>3
<1>9. /\ p * d - (u - v) * res <= (Unit + 2) * res
      /\ (u - v) * res - p * d <= (Unit + 2) * res
  BY <1>5, <1>6, <1>7, <1>8
<1>. QED
  BY <1>1, <1>4, <1>9
=============================================================================
