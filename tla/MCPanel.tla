------------------------------ MODULE MCPanel -------------------------------
(***************************************************************************)
(* A panel of 10 by 16 millimetres in halves of a millimetre, with pitches *)
(* that are no whole number of points per unit, and files that describe    *)
(* it: with the columns in two orders, without optional columns, and with  *)
(* the mistakes a file can have.                                           *)
(***************************************************************************)
EXTENDS Panel

CONSTANT Rotations

\* Lengths are written with a ",5" where they have a half.
Digits(n) ==
  IF n < 10 THEN <<n>> ELSE IF n < 100 THEN <<n \div 10, n % 10>>
  ELSE <<n \div 100, (n \div 10) % 10, n % 10>>
Mm(u) ==
  LET n == IF u < 0 THEN -u ELSE u
  IN  Number(u < 0, Digits(n \div 2), IF n % 2 = 1 THEN <<5>> ELSE <<>>)
Whole(n) == Number(n < 0, Digits(IF n < 0 THEN -n ELSE n), <<>>)

\* The lines for a header and the cells of each row by column.
Lines(header, rows) ==
  <<header>> \o [i \in DOMAIN rows |-> [j \in DOMAIN header |-> rows[i][header[j]]]]

Sensor(r, l, t) ==
  [rotation |-> r, res_x |-> 33, res_y |-> 67, width_mm |-> 20, height_mm |-> 32,
   left_margin_mm |-> l, top_margin_mm |-> t]

HwColumns == <<"resolution_x", "resolution_y", "width_mm", "height_mm",
               "left_margin_mm", "top_margin_mm", "rotation_cw">>

HwFile(header, s) ==
  [sensor |-> s,
   lines |-> Lines(header,
     <<[resolution_x |-> Whole(s.res_x), resolution_y |-> Whole(s.res_y),
        width_mm |-> Mm(s.width_mm), height_mm |-> Mm(s.height_mm),
        left_margin_mm |-> Mm(s.left_margin_mm), top_margin_mm |-> Mm(s.top_margin_mm),
        rotation_cw |-> Whole(s.rotation)]>>)]

GoodHw ==
  {HwFile(HwColumns, Sensor(r, 0, 1)) : r \in Rotations} \cup
  {HwFile(SubSeq(HwColumns, 4, 7) \o SubSeq(HwColumns, 1, 3), Sensor(r, 3, 0)) : r \in Rotations}

MCHwFiles ==
  GoodHw \cup
  {HwFile(HwColumns, Sensor(45, 0, 0)),                           \* no such mounting
   [sensor |-> Sensor(0, 0, 0), lines |-> <<HwColumns>>],        \* no row
   [sensor |-> Sensor(0, 0, 0), lines |-> <<>>],
   HwFile(SubSeq(HwColumns, 1, 6), Sensor(0, 0, 0))}

Area(x1, x2, y1, y2) == [x1 |-> x1, x2 |-> x2, y1 |-> y1, y2 |-> y2]
Printed(area, code, code_fn) == [area |-> area, code |-> code, code_fn |-> code_fn]

Row(key) ==
  [x |-> Mm(key.area.x1), y |-> Mm(key.area.y1),
   width |-> Mm(key.area.x2 - key.area.x1), height |-> Mm(key.area.y2 - key.area.y1),
   name |-> Text, code |-> Whole(key.code), name_fn |-> Empty,
   code_fn |-> IF key.code_fn = 0 THEN Empty ELSE Whole(key.code_fn)]

MCKeys == << Printed(Area(0, 7, 0, 6), 59, 113), Printed(Area(9, 17, 2, 7), 1, 0),
             Printed(Area(1, 5, 8, 17), 299, 0) >>
EdgeKeys == << Printed(Area(-1, 7, 0, 6), 299, -300) >>        \* the range of an int
PlainKeys == [i \in 1 .. 2 |-> [MCKeys[i] EXCEPT !.code_fn = 0]]

Shipped == <<"y", "height", "x", "width", "name", "code", "name_fn", "code_fn">>
Reordered == <<"code_fn", "code", "x", "y", "width", "height", "name", "name_fn">>

KeyFile(header, keys) ==
  [keys |-> keys, lines |-> Lines(header, [i \in DOMAIN keys |-> Row(keys[i])])]

Spoiled(change(_)) ==
  LET f == KeyFile(Shipped, MCKeys) IN [f EXCEPT !.lines = change(@)]

MCKeyFiles ==
  {KeyFile(Shipped, MCKeys), KeyFile(Reordered, MCKeys), KeyFile(Reordered, EdgeKeys),
   KeyFile(SubSeq(Shipped, 1, 6), PlainKeys),                     \* no Fn layer
   KeyFile(SubSeq(Shipped, 2, 8), MCKeys),                        \* y is missing
   KeyFile(Shipped \o <<"x">>, MCKeys),
   [keys |-> MCKeys, lines |-> <<>>],
   Spoiled(LAMBDA l : Append(l, <<Empty>>)),                      \* an empty last line
   Spoiled(LAMBDA l : [l EXCEPT ![3][6] = Whole(300)]),           \* too large
   Spoiled(LAMBDA l : [l EXCEPT ![3][6] = Whole(-301)]),          \* too small
   Spoiled(LAMBDA l : [l EXCEPT ![4][1] = Text]),
   Spoiled(LAMBDA l : [l EXCEPT ![2] = Append(@, Empty)])}

PadFile(header, a) ==
  [area |-> a, lines |-> Lines(header, <<[x1 |-> Mm(a.x1), y1 |-> Mm(a.y1),
                                          x2 |-> Mm(a.x2), y2 |-> Mm(a.y2)]>>)]

MCPadFiles ==
  {PadFile(<<"x1", "y1", "x2", "y2">>, Area(2, 17, 8, 17)),
   PadFile(<<"x2", "y2", "x1", "y1">>, Area(5, 16, 7, 16)),
   PadFile(<<"x1", "y1", "x2", "y2">>, Area(10, 18, 3, 18)),
   [area |-> Area(2, 17, 8, 17), lines |-> <<<<"x1", "y1", "x2", "y2">>>>]}

ASSUME FilesDescribeThePanel == FilesAreTrue /\ SensorsAreFine

\* Cells around the range of an int.
ASSUME CellsAreRead ==
  LET strings == UNION {[1 .. n -> {0, 2, 3, 9}] : n \in 0 .. 3}
      cells == {Number(sign, digits, part) :
                  sign \in BOOLEAN, digits \in strings, part \in {<<>>, <<0>>, <<5>>, <<5, 0>>}}
  IN  \A c \in cells :
        /\ IsCell(c) /\ IsInParts(c) /\ StandsForParts(c, DoubleOf(c))
        /\ LET n == Signed(c, Numeral(c.whole))
           IN  IF n \in -(MaxInt + 1) .. MaxInt THEN IntOf(c) = [fits |-> TRUE, value |-> n]
               ELSE ~IntOf(c).fits

MCPlaces == [x : 0 .. 18, y : 0 .. 18]
=============================================================================
