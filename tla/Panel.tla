------------------------------- MODULE Panel --------------------------------
(***************************************************************************)
(* A finger on the panel, for checking Layouts and Geometry against their  *)
(* purpose: the files describe a sensor, keys and a touchpad, the user     *)
(* sees them and a finger in one place, and every part of the program must *)
(* agree with what the user sees.                                          *)
(***************************************************************************)
EXTENDS Layouts

CONSTANT Places   \* positions of a finger, in units, as the user sees them

VARIABLE finger

vars == <<files, hw, keyboard, touchpad, finger>>

Init == LayoutsInit /\ finger = [x |-> 0, y |-> 0]

\* The finger slides; bound: not before all is loaded.
Touch ==
  /\ {kbd, tp} \subseteq {"started", "exited"} /\ "started" \in {kbd, tp}
  /\ \E dx, dy \in -1 .. 1 :
       finger' = [x |-> finger.x + dx, y |-> finger.y + dy] /\ finger' \in Places
  /\ UNCHANGED <<files, hw, keyboard, touchpad>>

\* Nothing runs: no file was good enough.
Gone == kbd = "exited" /\ tp = "exited" /\ UNCHANGED vars

Next == (Load /\ UNCHANGED finger) \/ Touch \/ Gone

Spec == Init /\ [][Next]_vars

-----------------------------------------------------------------------------
(* The reference: the panel is turned by a quarter, rotation \div 90       *)
(* times, which moves its corner and exchanges its width and height.       *)

sensor == hw_file.sensor

Turned ==
  LET n == sensor.rotation \div 90
      width  == IF n % 2 = 0 THEN sensor.width_mm ELSE sensor.height_mm
      height == IF n % 2 = 0 THEN sensor.height_mm ELSE sensor.width_mm
      start  == [x |-> sensor.left_margin_mm + finger.x, y |-> sensor.top_margin_mm + finger.y]
      turn[i \in 0 .. 3] ==
        IF i = 0 THEN start
        ELSE [x |-> turn[i - 1].y,
              y |-> (IF i % 2 = 1 THEN width ELSE height) - turn[i - 1].x]
  IN  turn[n]

\* What the sensor reports of the finger.
Reading == [x |-> PointsX(sensor, Turned.x), y |-> PointsY(sensor, Turned.y)]

Within(p, a, slack) ==
  /\ a.x1 + slack <= p.x /\ p.x <= a.x2 - slack
  /\ a.y1 + slack <= p.y /\ p.y <= a.y2 - slack

Apart(a, b, gap) ==
  \/ a.x2 + gap <= b.x1 \/ b.x2 + gap <= a.x1
  \/ a.y2 + gap <= b.y1 \/ b.y2 + gap <= a.y1

OnKey(i) == KeyContains(layout_[i].area, Reading.x, Reading.y)
OnPad == PadContains(region, Reading.x, Reading.y)

\* A touch-hw.csv with a row and a mounting LoadLayout knows, and a layout whose
\* columns say where the keys are.
SensorDescribed == Len(hw_file.lines) > 1 /\ sensor.rotation \in Mountings
KeysDescribed ==
  {"x", "y", "width", "height", "code"} \subseteq
    {key_file.lines[1][i] : i \in DOMAIN key_file.lines[1]}

-----------------------------------------------------------------------------
(* What the files say of the panel, for the proofs.                        *)

\* The digits in the cell of a column are written for this value, if there is
\* such a column.
Says(types, header, line, column, value) ==
  \A i \in DOMAIN header : header[i] = column => StandsFor(types[column], line[i], value)

HwFileIsGood(f) ==
  /\ Len(f.lines) > 1 /\ HeaderIsGood(HwTypes, FALSE, f.lines[1])
  /\ RowIsGood(HwTypes, f.lines[1], f.lines[2])

HwFileIsTrue(f) ==
  LET says(column, value) == Says(HwTypes, f.lines[1], f.lines[2], column, value)
  IN  HwFileIsGood(f) =>
        /\ says("resolution_x", f.sensor.res_x) /\ says("resolution_y", f.sensor.res_y)
        /\ says("width_mm", f.sensor.width_mm) /\ says("height_mm", f.sensor.height_mm)
        /\ says("left_margin_mm", f.sensor.left_margin_mm)
        /\ says("top_margin_mm", f.sensor.top_margin_mm)
        /\ says("rotation_cw", f.sensor.rotation)

KeyFileIsGood(f) ==
  /\ Len(f.lines) > 0 /\ HeaderIsGood(KeyTypes, TRUE, f.lines[1])
  /\ \A n \in 2 .. Len(f.lines) : RowIsGood(KeyTypes, f.lines[1], f.lines[n])

KeyRowIsTrue(header, line, key) ==
  /\ Says(KeyTypes, header, line, "x", key.area.x1)
  /\ Says(KeyTypes, header, line, "y", key.area.y1)
  /\ Says(KeyTypes, header, line, "width", key.area.x2 - key.area.x1)
  /\ Says(KeyTypes, header, line, "height", key.area.y2 - key.area.y1)
  /\ Says(KeyTypes, header, line, "code", key.code)
  /\ Says(KeyTypes, header, line, "code_fn", key.code_fn)
  /\ key.code_fn # 0 => \E i \in DOMAIN header : header[i] = "code_fn"

KeyFileIsTrue(f) ==
  KeyFileIsGood(f) =>
    /\ DOMAIN f.keys = 1 .. Len(f.lines) - 1
    /\ \A i \in DOMAIN f.keys :
         f.keys[i].area \in Areas /\ KeyRowIsTrue(f.lines[1], f.lines[i + 1], f.keys[i])

PadFileIsGood(f) ==
  /\ Len(f.lines) > 1 /\ HeaderIsGood(PadTypes, TRUE, f.lines[1])
  /\ RowIsGood(PadTypes, f.lines[1], f.lines[2])

PadFileIsTrue(f) ==
  PadFileIsGood(f) =>
    /\ f.area \in Areas
    /\ DOMAIN PadTypes \subseteq {f.lines[1][i] : i \in DOMAIN f.lines[1]}
    /\ \A c \in DOMAIN PadTypes : Says(PadTypes, f.lines[1], f.lines[2], c, f.area[c])

\* The files describe the panel that the user sees.
FilesAreTrue ==
  /\ \A f \in HwFiles : HwFileIsTrue(f)
  /\ \A f \in KeyFiles : KeyFileIsTrue(f)
  /\ \A f \in PadFiles : PadFileIsTrue(f)

\* The sensors are real, and finer than the unit of length.
SensorsAreFine ==
  \A f \in HwFiles :
    f.sensor.rotation \in Mountings => f.sensor \in HWConfig /\ FinePitch(f.sensor)

-----------------------------------------------------------------------------
\* A finger on a printed key is on the key for the keyboard and types its codes,
\* and one beside it does not: whatever the order of the columns, and whatever
\* the rows before, the files are read as they were written, and LoadLayout turns
\* the keys the way the sensor is turned, up to a unit.
KeyUnderFinger ==
  kbd = "started" /\ SensorDescribed /\ KeysDescribed =>
    \A i \in DOMAIN key_file.keys :
      LET key == key_file.keys[i]
      IN  /\ Within(finger, key.area, 1) => OnKey(i)
          /\ OnKey(i) => Within(finger, key.area, -1)
          /\ layout_[i].event_code_ = key.code /\ layout_[i].event_code_fn_ = key.code_fn

\* A keyboard process that gets as far as making a device has a key for every
\* row of its file, unless the sensor is mounted in a way LoadLayout does not know.
AllKeysOrNone ==
  kbd = "started" /\ hw.rotation \in Mountings =>
    Len(layout_) = Len(key_file.lines) - 1

\* The same as KeyUnderFinger for the touchpad, whose edges are cut to whole
\* millimetres.
PadUnderFinger ==
  tp = "started" /\ SensorDescribed =>
    /\ Within(finger, pad_file.area, Unit + 1) => OnPad
    /\ OnPad => Within(finger, pad_file.area, -(Unit + 1))

\* The touchpad shows the finger where the user sees it: its position is the
\* distance from the pad's corner on either axis, up to the cut millimetre, and
\* it stays in the range the virtual device announces.
PadShowsFinger ==
  LET out == PadPosition(hw, region, Reading.x, Reading.y)
      size == PadSize(hw, region)
      straight == sensor.rotation \in {0, 180}
      right == finger.x - pad_file.area.x1
      down  == finger.y - pad_file.area.y1
      \* |points - len * pitch|, for one axis, is at most slack * pitch
      near(points, len, res, dim) ==
        /\ points * dim - len * res <= (Unit + 2) * res
        /\ len * res - points * dim <= (Unit + 2) * res
  IN  tp = "started" /\ SensorDescribed /\ OnPad =>
        /\ out.x \in 0 .. size.x /\ out.y \in 0 .. size.y
        /\ IF straight THEN /\ near(out.x, right, sensor.res_x, sensor.width_mm)
                            /\ near(out.y, down, sensor.res_y, sensor.height_mm)
           ELSE /\ near(out.x, right, sensor.res_y, sensor.height_mm)
                /\ near(out.y, down, sensor.res_x, sensor.width_mm)

\* A press is felt on the side of the panel the finger is on.
MotorUnderFinger ==
  LET width == IF sensor.rotation \in {0, 180} THEN sensor.width_mm ELSE sensor.height_mm
      x     == sensor.left_margin_mm + finger.x
  IN  kbd = "started" /\ SensorDescribed =>
        /\ 2 * (x + 1) < width => LeftMotor(hw, Reading.x, Reading.y)
        /\ 2 * (x - 1) > width => ~LeftMotor(hw, Reading.x, Reading.y)

\* No contact is a key press and a touch of the touchpad at once, when the two
\* are printed at least a millimetre and a unit apart.
OneOwner ==
  kbd = "started" /\ tp = "started" /\ SensorDescribed /\ KeysDescribed =>
    \A i \in DOMAIN key_file.keys :
      Apart(key_file.keys[i].area, pad_file.area, Unit + 1) => ~(OnKey(i) /\ OnPad)

-----------------------------------------------------------------------------
\* "Hardware rotation of the touchpad, 90, 180 or 270 deg. CW" (fakekeyboard.h:25):
\* a keyboard that is mounted upside down has its keys where they are printed.
UpsideDownKeysWork == sensor.rotation = 180 => KeyUnderFinger
=============================================================================
