------------------------------ MODULE Layouts -------------------------------
(***************************************************************************)
(* How the program learns where things are: LoadHWConfig reads the sensor, *)
(* then the two processes read the keys and the touchpad, each on its own. *)
(* What a reader throws ends the process, before it has made a device.     *)
(*                                                                         *)
(* A file is a sequence of lines, the first of which is the header, and    *)
(* beside it what its author describes with them.                          *)
(***************************************************************************)
EXTENDS CsvReader, Geometry

CONSTANTS
  HwFiles,     \* touch-hw.csv: the files the program may find, [lines, sensor]
  KeyFiles,    \* layout.csv: [lines, keys]
  PadFiles,    \* layout-touchpad.csv: [lines, area]
  Garbage      \* what an uninitialised variable may hold

ASSUME FilesAssumption ==
  /\ Garbage \subseteq Nat \ {0} /\ Parts = Unit
  /\ \A f \in HwFiles \cup KeyFiles : Len(f.lines) \in Nat

HwTypes ==
  [resolution_x |-> "int", resolution_y |-> "int", width_mm |-> "double",
   height_mm |-> "double", left_margin_mm |-> "double", top_margin_mm |-> "double",
   rotation_cw |-> "int"]

KeyTypes ==
  [x |-> "double", y |-> "double", width |-> "double", height |-> "double",
   name |-> "text", code |-> "int", name_fn |-> "text", code_fn |-> "int"]

PadTypes == [x1 |-> "double", y1 |-> "double", x2 |-> "double", y2 |-> "double"]

VARIABLES
  hw_file, key_file, pad_file,
  hw,          \* hw_config, uninitialised at first
  kbd,         \* the keyboard process: "main", "header", "rows", "started", "exited"
  tp,          \* the touchpad process: "main", "load", "started", "exited"
  row,         \* the number of the line the keyboard reads next
  locals,      \* the variables of FakeKeyboard::LoadLayout
  layout_,     \* the keys
  region       \* xmin_, xmax_, ymin_, ymax_

files == <<hw_file, key_file, pad_file>>
keyboard == <<kbd, row, locals, layout_>>
touchpad == <<tp, region>>

\* The rotations LoadLayout has a case for.
Mountings == {0, 90, 180, 270}

NoRegion == [x1 |-> 0, x2 |-> 0, y1 |-> 0, y2 |-> 0]

-----------------------------------------------------------------------------
HwFields ==
  {"rotation", "res_x", "res_y", "width_mm", "height_mm", "left_margin_mm", "top_margin_mm"}

\* LoadHWConfig, before the fork and outside of main()'s try.  Nobody looks at its
\* result: without a row the program goes on with whatever hw_config holds.
LoadHWConfig ==
  LET header == hw_file.lines[1]
      line == hw_file.lines[2]
      rows == Len(hw_file.lines) - 1
  IN  /\ kbd = "main"
      /\ IF \/ rows < 0 \/ ~HeaderIsGood(HwTypes, FALSE, header)
            \/ rows > 0 /\ ~RowIsGood(HwTypes, header, line)
         THEN kbd' = "exited" /\ tp' = "exited" /\ UNCHANGED hw
         ELSE /\ kbd' = "header" /\ tp' = "load"
              /\ IF rows = 0 THEN hw' \in [HwFields -> Garbage]
                 ELSE LET read == ReadRow(HwTypes, header, line, [c \in DOMAIN HwTypes |-> 0])
                      IN  hw' = [rotation |-> read.rotation_cw,
                                 res_x |-> read.resolution_x, res_y |-> read.resolution_y,
                                 width_mm |-> read.width_mm, height_mm |-> read.height_mm,
                                 left_margin_mm |-> read.left_margin_mm,
                                 top_margin_mm |-> read.top_margin_mm]
      /\ UNCHANGED <<files, row, locals, layout_, region>>

\* FakeKeyboard::LoadLayout, up to the loop.
ReadKeyHeader ==
  /\ kbd = "header"
  /\ IF Len(key_file.lines) > 0 /\ HeaderIsGood(KeyTypes, TRUE, key_file.lines[1])
     THEN /\ kbd' = "rows" /\ row' = 2
          /\ \E any \in Garbage :
               locals' = [c \in DOMAIN KeyTypes |->
                            IF KeyTypes[c] = "double" THEN any ELSE 0]
     ELSE kbd' = "exited" /\ UNCHANGED <<row, locals>>
  /\ UNCHANGED <<files, hw, touchpad, layout_>>

\* The key the variables of LoadLayout describe.
KeyOf(v) ==
  [event_code_ |-> v.code, event_code_fn_ |-> v.code_fn,
   area |-> KeyArea(hw, [x1 |-> v.x, x2 |-> v.x + v.width,
                         y1 |-> v.y, y2 |-> v.y + v.height])]

\* Mutant: what a bad line throws ends the loop only.
ReadKeyRowUpToError ==
  /\ kbd = "rows" /\ row <= Len(key_file.lines)
  /\ IF ~RowIsGood(KeyTypes, key_file.lines[1], key_file.lines[row])
     THEN kbd' = "started" /\ UNCHANGED <<row, locals, layout_>>
     ELSE /\ hw.rotation \in Mountings
          /\ locals' = ReadRow(KeyTypes, key_file.lines[1], key_file.lines[row], locals)
          /\ layout_' = Append(layout_, KeyOf(locals'))
          /\ row' = row + 1 /\ UNCHANGED kbd
  /\ UNCHANGED <<files, hw, touchpad>>

\* One turn of the loop.  Nobody looks at the result of LoadLayout, so a rotation
\* it cannot handle leaves a keyboard without keys.
ReadKeyRow ==
  /\ kbd = "rows" /\ row <= Len(key_file.lines)
  /\ IF ~RowIsGood(KeyTypes, key_file.lines[1], key_file.lines[row])
     THEN kbd' = "exited" /\ UNCHANGED <<row, locals, layout_>>
     ELSE /\ locals' = ReadRow(KeyTypes, key_file.lines[1], key_file.lines[row], locals)
          /\ IF hw.rotation \in Mountings
             THEN /\ layout_' = Append(layout_, KeyOf(locals'))
                  /\ row' = row + 1 /\ UNCHANGED kbd
             ELSE kbd' = "started" /\ UNCHANGED <<row, layout_>>
  /\ UNCHANGED <<files, hw, touchpad>>

KeysEnd ==
  /\ kbd = "rows" /\ row > Len(key_file.lines)
  /\ kbd' = "started"
  /\ UNCHANGED <<files, hw, touchpad, row, locals, layout_>>

\* FakeTouchpad::LoadLayout.
LoadPad ==
  /\ tp = "load"
  /\ IF /\ Len(pad_file.lines) > 1 /\ HeaderIsGood(PadTypes, TRUE, pad_file.lines[1])
        /\ RowIsGood(PadTypes, pad_file.lines[1], pad_file.lines[2])
        /\ hw.rotation \in Mountings
     THEN /\ tp' = "started"
          /\ \E any \in Garbage :
               region' = PadArea(hw, ReadRow(PadTypes, pad_file.lines[1], pad_file.lines[2],
                                             [c \in DOMAIN PadTypes |-> any]))
     ELSE tp' = "exited" /\ UNCHANGED region
  /\ UNCHANGED <<files, hw, keyboard>>

LayoutsInit ==
  /\ hw_file \in HwFiles /\ key_file \in KeyFiles /\ pad_file \in PadFiles
  /\ hw \in [HwFields -> Garbage]
  /\ kbd = "main" /\ tp = "main" /\ row = 1
  /\ locals = [c \in DOMAIN KeyTypes |-> 0]
  /\ layout_ = <<>> /\ region = NoRegion

Load == LoadHWConfig \/ ReadKeyHeader \/ ReadKeyRow \/ KeysEnd \/ LoadPad
=============================================================================
