----------------------------- MODULE CsvReader ------------------------------
(***************************************************************************)
(* The CSV reader (csv.h) as the program uses it: cells between ';', a     *)
(* header that names the columns in any order, and rows whose cells become *)
(* ints, doubles or text.  A line is the sequence of its trimmed cells.  A *)
(* cell of a header is a name; a cell of a row is a number with its digits *)
(* before and behind the point or comma, or text that is no number.        *)
(*                                                                         *)
(* A double is a whole number of parts, Parts of them to one; the finer    *)
(* fractions and the exponents that this leaves out are in no file.        *)
(***************************************************************************)
EXTENDS Integers, Sequences

CONSTANTS
  Parts,    \* parts of one that a double counts in
  MaxInt    \* the largest int; the code's is 2^31 - 1

ASSUME NumbersAssumption == Parts \in Nat \ {0} /\ MaxInt \in Nat /\ MaxInt >= 9

Number(negative, whole, part) ==
  [number |-> TRUE, negative |-> negative, whole |-> whole, part |-> part]
Text == [number |-> FALSE, negative |-> FALSE, whole |-> <<>>, part |-> <<>>]
Empty == Number(FALSE, <<>>, <<>>)

-----------------------------------------------------------------------------
(* Cells.                                                                  *)

\* parse_unsigned_integer and parse_signed_integer: digit by digit, until the
\* next digit would take the int out of its range.  The result says whether it
\* did, which throws.
IntOf(cell) ==
  LET len == Len(cell.whole)
      read[i \in 0 .. len] ==
        IF i = 0 THEN [fits |-> TRUE, value |-> 0]
        ELSE LET r == read[i - 1]
                 y == cell.whole[i]
             IN  IF ~r.fits THEN r
                 ELSE IF cell.negative
                      THEN IF r.value < -((MaxInt + 1 - y) \div 10)
                           THEN [r EXCEPT !.fits = FALSE]
                           ELSE [r EXCEPT !.value = 10 * @ - y]
                      ELSE IF r.value > (MaxInt - y) \div 10
                           THEN [r EXCEPT !.fits = FALSE]
                           ELSE [r EXCEPT !.value = 10 * @ + y]
  IN  read[len]

\* pos of parse_float, which starts at 1 and is divided by 10 at each digit: its
\* inverse after so many digits.
Tens(len) ==
  LET tens[i \in 0 .. len] == IF i = 0 THEN 1 ELSE 10 * tens[i - 1]
  IN  tens

\* parse_float, in parts: the digits before the point, then each behind it with
\* a tenth of the weight of the one before.
DoubleOf(cell) ==
  LET tens == Tens(Len(cell.part))
      whole[i \in 0 .. Len(cell.whole)] ==
        IF i = 0 THEN 0 ELSE 10 * whole[i - 1] + cell.whole[i] * Parts
      part[i \in 0 .. Len(cell.part)] ==
        IF i = 0 THEN 0 ELSE part[i - 1] + (cell.part[i] * Parts) \div tens[i]
      x == whole[Len(cell.whole)] + part[Len(cell.part)]
  IN  IF cell.negative THEN -x ELSE x

\* What a column's variable may be read from, and becomes.  An empty cell is 0.
Parses(type, cell) ==
  CASE type = "text"   -> TRUE
    [] type = "double" -> cell.number
    [] type = "int"    -> cell.number /\ cell.part = <<>> /\ IntOf(cell).fits

\* Mutant: an empty cell leaves the variable as it was.
ParsedUnlessEmpty(type, cell, old) ==
  CASE type = "text"   -> 0
    [] type = "double" -> IF cell = Empty THEN old ELSE DoubleOf(cell)
    [] type = "int"    -> IF cell = Empty THEN old ELSE IntOf(cell).value

Parsed(type, cell, old) ==
  CASE type = "text"   -> 0      \* names are for the log only
    [] type = "double" -> DoubleOf(cell)
    [] type = "int"    -> IntOf(cell).value

-----------------------------------------------------------------------------
(* Lines.  types maps the names of the columns to their types.             *)

\* parse_header_line: no unknown column, none twice, and none left out unless
\* that is ignored.  The header is then col_order.
HeaderIsGood(types, ignore_missing, header) ==
  LET named == {header[i] : i \in DOMAIN header}
  IN  /\ named \subseteq DOMAIN types
      /\ \A i, j \in DOMAIN header : i # j => header[i] # header[j]
      /\ ignore_missing \/ named = DOMAIN types

\* parse_line and parse_helper: whether neither of them throws.
RowIsGood(types, col_order, line) ==
  /\ Len(line) = Len(col_order)
  /\ \A i \in DOMAIN line : Parses(types[col_order[i]], line[i])

\* The variables after read_row.  Those of missing columns keep their values.
ReadRow(types, col_order, line, variables) ==
  [c \in DOMAIN variables |->
     IF \E i \in DOMAIN col_order : col_order[i] = c
     THEN LET i == CHOOSE i \in DOMAIN col_order : col_order[i] = c
          IN  Parsed(types[c], line[i], variables[c])
     ELSE variables[c]]

-----------------------------------------------------------------------------
(* What stands in a cell, for the proofs.                                  *)

\* The number that digits are, and one with its sign.
IsNumeral(digits) == Len(digits) \in Nat /\ \A i \in 1 .. Len(digits) : digits[i] \in 0 .. 9

Numeral(digits) ==
  LET number[i \in 0 .. Len(digits)] == IF i = 0 THEN 0 ELSE 10 * number[i - 1] + digits[i]
  IN  number[Len(digits)]

Signed(cell, n) == IF cell.negative THEN -n ELSE n

IsCell(cell) ==
  cell.negative \in BOOLEAN /\ IsNumeral(cell.whole) /\ IsNumeral(cell.part)

\* Every digit behind the point is a whole number of parts.
IsInParts(cell) ==
  \A i \in 1 .. Len(cell.part) : (cell.part[i] * Parts) % Tens(Len(cell.part))[i] = 0

\* The cell is written for this int, or for this number of parts.
StandsForInt(cell, value) ==
  value \in -(MaxInt + 1) .. MaxInt /\ value = Signed(cell, Numeral(cell.whole))
StandsForParts(cell, value) ==
  LET tens == Tens(Len(cell.part))[Len(cell.part)]
  IN  /\ value \in Int
      /\ value * tens = Signed(cell, Parts * (Numeral(cell.whole) * tens + Numeral(cell.part)))

StandsFor(type, cell, value) ==
  /\ type \in {"int", "double"} /\ IsCell(cell)
  /\ type = "int" => StandsForInt(cell, value)
  /\ type = "double" => IsInParts(cell) /\ StandsForParts(cell, value)
=============================================================================
