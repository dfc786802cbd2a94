--------------------------- MODULE LayoutsProofs ----------------------------
(***************************************************************************)
(* Theorems about Layouts and CsvReader, for every file; and, for files    *)
(* that describe the panel, about where the program sees a finger.         *)
(***************************************************************************)
EXTENDS Panel, GeometryProofs, WellFoundedInduction

\* The rows read so far are the keys there are.  A reader that has thrown has
\* ended the process, and a rotation nobody knows has ended the loop.
RowsAreKeys ==
  /\ key_file \in KeyFiles
  /\ \E K : layout_ \in Seq(K)
  /\ kbd \in {"main", "header"} => layout_ = <<>>
  /\ kbd = "rows" =>
       row \in Nat /\ row <= Len(key_file.lines) + 1 /\ Len(layout_) = row - 2
  /\ AllKeysOrNone

LEMMA AppendCounts ==
  ASSUME NEW K, NEW s \in Seq(K), NEW e
  PROVE  /\ Len(Append(s, e)) = Len(s) + 1
         /\ \E L : Append(s, e) \in Seq(L)
<1>1. s \in Seq(K \cup {e})
  OBVIOUS
<1>. QED
  BY <1>1

LEMMA SameKeys ==
  ASSUME RowsAreKeys, UNCHANGED <<key_file, layout_, row, hw>>,
         kbd' = kbd \/ kbd' = "exited" \/ (kbd = "main" /\ kbd' = "header")
  PROVE  RowsAreKeys'
<1>1. AllKeysOrNone'
  BY DEF RowsAreKeys, AllKeysOrNone
<1>. QED
  BY <1>1 DEF RowsAreKeys

LEMMA NoKeysAtFirst == Init => RowsAreKeys
<1>. SUFFICES ASSUME Init PROVE RowsAreKeys
  OBVIOUS
<1>1. <<>> \in Seq({})
  OBVIOUS
<1>2. kbd = "main" /\ layout_ = <<>> /\ key_file \in KeyFiles
  BY DEF Init, LayoutsInit
<1>. QED
  BY <1>1, <1>2 DEF RowsAreKeys, AllKeysOrNone

LEMMA NextKeepsKeys == RowsAreKeys /\ [Next]_vars => RowsAreKeys'
<1>. SUFFICES ASSUME RowsAreKeys, [Next]_vars PROVE RowsAreKeys'
  OBVIOUS
<1>0. Len(key_file.lines) \in Nat
  BY FilesAssumption DEF RowsAreKeys
<1>1. CASE LoadHWConfig
  <2>1. kbd = "main" /\ kbd' \in {"exited", "header"}
        /\ UNCHANGED <<key_file, layout_, row>>
    BY <1>1 DEF LoadHWConfig, files
  <2>2. AllKeysOrNone'
    BY <2>1 DEF AllKeysOrNone
  <2>. QED
    BY <2>1, <2>2 DEF RowsAreKeys
<1>2. CASE ReadKeyHeader
  <2>1. kbd = "header" /\ UNCHANGED <<key_file, layout_, hw>>
        /\ \/ kbd' = "rows" /\ row' = 2 /\ Len(key_file.lines) > 0
           \/ kbd' = "exited"
    BY <1>2 DEF ReadKeyHeader, files
  <2>2. AllKeysOrNone'
    BY <2>1 DEF AllKeysOrNone
  <2>3. layout_ = <<>> /\ Len(<<>>) = 0
    BY <2>1 DEF RowsAreKeys
  <2>4. kbd' = "rows" => row' \in Nat /\ row' <= Len(key_file.lines)' + 1
                         /\ Len(layout_)' = row' - 2
    BY <1>0, <2>1, <2>3
  <2>. QED
    BY <2>1, <2>2, <2>3, <2>4 DEF RowsAreKeys
<1>3. CASE ReadKeyRow
  <2>1. kbd = "rows" /\ row <= Len(key_file.lines) /\ UNCHANGED <<key_file, hw>>
    BY <1>3 DEF ReadKeyRow, files
  <2>2. row \in Nat /\ Len(layout_) = row - 2
    BY <2>1 DEF RowsAreKeys
  <2>3. CASE kbd' = "exited" /\ layout_' = layout_
    BY <2>1, <2>3 DEF RowsAreKeys, AllKeysOrNone
  <2>4. CASE kbd' = "rows" /\ layout_' = Append(layout_, KeyOf(locals')) /\ row' = row + 1
    <3>1. PICK K : layout_ \in Seq(K)
      BY DEF RowsAreKeys
    <3>2. Len(layout_') = Len(layout_) + 1 /\ \E L : layout_' \in Seq(L)
      BY <2>4, <3>1, AppendCounts
    <3>3. row' \in Nat /\ row' <= Len(key_file'.lines) + 1 /\ Len(layout_') = row' - 2
      BY <1>0, <2>1, <2>2, <2>4, <3>2
    <3>4. AllKeysOrNone'
      BY <2>4 DEF AllKeysOrNone
    <3>. QED
      BY <2>1, <2>4, <3>2, <3>3, <3>4 DEF RowsAreKeys
  <2>5. CASE kbd' = "started" /\ hw.rotation \notin Mountings /\ layout_' = layout_
    BY <2>1, <2>5 DEF RowsAreKeys, AllKeysOrNone, Mountings
  <2>. QED
    BY <1>3, <2>1, <2>3, <2>4, <2>5 DEF ReadKeyRow
<1>4. CASE KeysEnd
  <2>1. kbd = "rows" /\ row > Len(key_file.lines) /\ kbd' = "started"
        /\ UNCHANGED <<key_file, hw, layout_, row>>
    BY <1>4 DEF KeysEnd, files
  <2>2. Len(layout_) = Len(key_file.lines) - 1
    BY <1>0, <2>1 DEF RowsAreKeys
  <2>3. AllKeysOrNone'
    BY <2>1, <2>2 DEF AllKeysOrNone
  <2>. QED
    BY <2>1, <2>3 DEF RowsAreKeys
<1>5. CASE LoadPad
  BY <1>5, SameKeys DEF LoadPad, files, keyboard
<1>6. CASE Touch
  BY <1>6, SameKeys DEF Touch, files, keyboard
<1>7. CASE UNCHANGED vars
  BY <1>7, SameKeys DEF vars, files, keyboard
<1>. QED
  BY <1>1, <1>2, <1>3, <1>4, <1>5, <1>6, <1>7 DEF Next, Load, Gone

\* A keyboard that starts has a key for every row of layout.csv (LoadLayout pushes
\* one per read_row, and what a reader throws leaves no keyboard behind), unless
\* the rotation of touch-hw.csv has no case in it: for any files, of any length.
THEOREM KeysAreComplete == Spec => []AllKeysOrNone
<1>1. RowsAreKeys => AllKeysOrNone
  BY DEF RowsAreKeys
<1>. QED
  BY <1>1, NoKeysAtFirst, NextKeepsKeys, PTL DEF Spec

-----------------------------------------------------------------------------
(* What a row becomes.                                                     *)

LEMMA ParsedForgets ==
  ASSUME NEW type, NEW cell, NEW v, NEW w
  PROVE  Parsed(type, cell, v) = Parsed(type, cell, w)
BY DEF Parsed

\* The author of a file may write its columns in any order (parse_header_line puts
\* their places into col_order, parse_line sorts the cells by it): two rows with
\* the same cells under the same names leave the same variables, if their headers
\* name no column twice.
THEOREM ColumnsInAnyOrder ==
  ASSUME NEW types, NEW variables, NEW ignore_missing,
         NEW header1, NEW line1, NEW header2, NEW line2,
         HeaderIsGood(types, ignore_missing, header1),
         HeaderIsGood(types, ignore_missing, header2),
         {header1[i] : i \in DOMAIN header1} = {header2[i] : i \in DOMAIN header2},
         \A i \in DOMAIN header1, j \in DOMAIN header2 :
           header1[i] = header2[j] => line1[i] = line2[j]
  PROVE  ReadRow(types, header1, line1, variables) = ReadRow(types, header2, line2, variables)
<1>1. ASSUME NEW n
      PROVE  (\E i \in DOMAIN header1 : header1[i] = n) <=> (\E i \in DOMAIN header2 : header2[i] = n)
  OBVIOUS
<1>2. ASSUME NEW n, \E i \in DOMAIN header1 : header1[i] = n
      PROVE  line1[CHOOSE i \in DOMAIN header1 : header1[i] = n]
               = line2[CHOOSE i \in DOMAIN header2 : header2[i] = n]
  <2>. DEFINE i1 == CHOOSE i \in DOMAIN header1 : header1[i] = n
              i2 == CHOOSE i \in DOMAIN header2 : header2[i] = n
  <2>1. i1 \in DOMAIN header1 /\ header1[i1] = n
    BY <1>2
  <2>2. i2 \in DOMAIN header2 /\ header2[i2] = n
    BY <1>1, <1>2
  <2>. QED
    BY <2>1, <2>2
<1>. QED
  BY <1>1, <1>2, Zenon DEF ReadRow

\* The key of a row alone: what the variables of LoadLayout held before does not
\* matter.
KeyOfRow(line) ==
  KeyOf(ReadRow(KeyTypes, key_file.lines[1], line, [c \in DOMAIN KeyTypes |-> 0]))

Named(column) == \E i \in DOMAIN key_file.lines[1] : key_file.lines[1][i] = column

EveryLength == \A c \in DOMAIN KeyTypes : KeyTypes[c] = "double" => Named(c)

RowsAreIndependent ==
  EveryLength => \A i \in DOMAIN layout_ : layout_[i] = KeyOfRow(key_file.lines[i + 1])

LEMMA ReadRowForgets ==
  ASSUME NEW line, NEW v, NEW w,
         DOMAIN v = DOMAIN KeyTypes, DOMAIN w = DOMAIN KeyTypes,
         \A c \in DOMAIN KeyTypes : Named(c) \/ v[c] = w[c]
  PROVE  ReadRow(KeyTypes, key_file.lines[1], line, v) = ReadRow(KeyTypes, key_file.lines[1], line, w)
<1>1. \A n \in DOMAIN KeyTypes : \A cell : Parsed(KeyTypes[n], cell, v[n]) = Parsed(KeyTypes[n], cell, w[n])
  BY ParsedForgets
<1>. QED
  BY <1>1, Zenon DEF ReadRow, Named

\* A step that reads no row.
LEMMA SameRows ==
  ASSUME RowsAreIndependent, UNCHANGED <<key_file, hw, layout_>>
  PROVE  RowsAreIndependent'
<1>1. RowsAreIndependent' <=> RowsAreIndependent
  BY DEF RowsAreIndependent, EveryLength, Named, KeyOfRow, KeyOf
<1>. QED
  BY <1>1

LEMMA AppendIsLast ==
  ASSUME NEW K, NEW s \in Seq(K), NEW e
  PROVE  \A i \in DOMAIN Append(s, e) :
           /\ Append(s, e)[i] = IF i = Len(s) + 1 THEN e ELSE s[i]
           /\ i # Len(s) + 1 => i \in DOMAIN s
<1>1. s \in Seq(K \cup {e}) /\ e \in K \cup {e}
  OBVIOUS
<1>. QED
  BY <1>1

\* The variables of the columns that the header does not name.
RestIsNull ==
  kbd = "rows" /\ EveryLength =>
    \A c \in DOMAIN KeyTypes : Named(c) \/ locals[c] = 0

RowsInv ==
  RowsAreKeys /\ RowsAreIndependent /\ DOMAIN locals = DOMAIN KeyTypes /\ RestIsNull

LEMMA NextKeepsRows == RowsInv /\ [Next]_vars => RowsInv'
<1>. SUFFICES ASSUME RowsInv, [Next]_vars PROVE RowsInv'
  OBVIOUS
<1>1. RowsAreKeys'
  BY NextKeepsKeys DEF RowsInv
<1>2. CASE LoadHWConfig
  <2>1. layout_' = <<>> /\ locals' = locals /\ kbd' # "rows"
    BY <1>2 DEF LoadHWConfig, RowsInv, RowsAreKeys
  <2>2. RowsAreIndependent' /\ RestIsNull'
    BY <2>1 DEF RowsAreIndependent, RestIsNull
  <2>. QED
    BY <1>1, <2>1, <2>2 DEF RowsInv
<1>3. CASE ReadKeyHeader
  <2>1. UNCHANGED <<key_file, hw, layout_>>
        /\ \/ locals' = locals /\ kbd' # "rows"
           \/ \E any : locals' = [c \in DOMAIN KeyTypes |->
                                     IF KeyTypes[c] = "double" THEN any ELSE 0]
    BY <1>3 DEF ReadKeyHeader, files
  <2>2. DOMAIN locals' = DOMAIN KeyTypes
    BY <2>1 DEF RowsInv
  <2>3. RestIsNull'
    <3>1. CASE kbd' # "rows"
      BY <3>1 DEF RestIsNull
    <3>2. CASE \E any : locals' = [c \in DOMAIN KeyTypes |->
                                     IF KeyTypes[c] = "double" THEN any ELSE 0]
      <4>1. \A c \in DOMAIN KeyTypes : KeyTypes[c] = "double" \/ locals'[c] = 0
        BY <3>2
      <4>. QED
        BY <4>1 DEF RestIsNull, EveryLength
    <3>. QED
      BY <2>1, <3>1, <3>2
  <2>. QED
    BY <1>1, <2>1, <2>2, <2>3, SameRows DEF RowsInv
<1>4. CASE ReadKeyRow
  <2>. DEFINE line == key_file.lines[row]
              key == KeyOf(locals')
              null == [c \in DOMAIN KeyTypes |-> 0]
  <2>1. kbd = "rows" /\ UNCHANGED <<key_file, hw>>
    BY <1>4 DEF ReadKeyRow, files
  <2>2. CASE locals' = locals /\ layout_' = layout_
    <3>1. RestIsNull'
      BY <2>1, <2>2 DEF RowsInv, RestIsNull, EveryLength, Named
    <3>. QED
      BY <1>1, <2>1, <2>2, <3>1, SameRows DEF RowsInv
  <2>3. CASE locals' = ReadRow(KeyTypes, key_file.lines[1], line, locals)
    <3>1. DOMAIN locals' = DOMAIN KeyTypes
      BY <2>3 DEF RowsInv, ReadRow
    <3>2. RestIsNull'
      <4>1. \A c \in DOMAIN KeyTypes : Named(c) \/ locals'[c] = locals[c]
        BY <2>3 DEF RowsInv, ReadRow, Named
      <4>. QED
        BY <2>1, <4>1 DEF RowsInv, RestIsNull, EveryLength, Named
    <3>3. CASE layout_' = layout_
      BY <1>1, <2>1, <3>1, <3>2, <3>3, SameRows DEF RowsInv
    <3>4. CASE layout_' = Append(layout_, key)
      <4>1. EveryLength => key = KeyOfRow(line)
        <5>. SUFFICES ASSUME EveryLength PROVE key = KeyOfRow(line)
          OBVIOUS
        <5>1. \A c \in DOMAIN KeyTypes : Named(c) \/ locals[c] = null[c]
          BY <2>1 DEF RowsInv, RestIsNull
        <5>2. DOMAIN null = DOMAIN KeyTypes /\ DOMAIN locals = DOMAIN KeyTypes
          BY DEF RowsInv
        <5>. HIDE DEF null
        <5>3. locals' = ReadRow(KeyTypes, key_file.lines[1], line, null)
          BY <2>3, <5>1, <5>2, ReadRowForgets
        <5>. QED
          BY <5>3 DEF KeyOfRow, null
      <4>2. PICK K : layout_ \in Seq(K)
        BY DEF RowsInv, RowsAreKeys
      <4>3. row \in Nat /\ Len(layout_) + 1 = row - 1
        BY <2>1 DEF RowsInv, RowsAreKeys
      <4>. HIDE DEF key
      <4>4. ASSUME EveryLength, NEW i \in DOMAIN layout_'
            PROVE  layout_'[i] = KeyOfRow(key_file.lines[i + 1])
        <5>1. layout_'[i] = (IF i = Len(layout_) + 1 THEN key ELSE layout_[i])
              /\ (i # Len(layout_) + 1 => i \in DOMAIN layout_)
          BY <3>4, <4>2, <4>4, AppendIsLast
        <5>2. CASE i = Len(layout_) + 1
          <6>1. i + 1 = row
            BY <4>3, <5>2
          <6>. QED
            BY <4>1, <4>4, <5>1, <5>2, <6>1
        <5>3. CASE i # Len(layout_) + 1
          BY <4>4, <5>1, <5>3 DEF RowsInv, RowsAreIndependent
        <5>. QED
          BY <5>2, <5>3
      <4>5. \A l : KeyOfRow(l)' = KeyOfRow(l)
        BY <2>1 DEF KeyOfRow, KeyOf
      <4>6. EveryLength' <=> EveryLength
        BY <2>1 DEF EveryLength, Named
      <4>7. RowsAreIndependent'
        BY <2>1, <4>4, <4>5, <4>6 DEF RowsAreIndependent
      <4>. QED
        BY <1>1, <3>1, <3>2, <4>7 DEF RowsInv
    <3>. QED
      BY <1>4, <3>3, <3>4 DEF ReadKeyRow
  <2>. QED
    BY <1>4, <2>2, <2>3 DEF ReadKeyRow
<1>5. CASE UNCHANGED <<key_file, hw, layout_, locals>> /\ kbd' \in {kbd, "started"}
  <2>1. RestIsNull'
    BY <1>5 DEF RowsInv, RestIsNull, EveryLength, Named
  <2>. QED
    BY <1>1, <1>5, <2>1, SameRows DEF RowsInv
<1>. QED
  BY <1>2, <1>3, <1>4, <1>5
     DEF Next, Load, KeysEnd, LoadPad, Touch, Gone, files, keyboard, vars

\* LoadLayout declares its variables once, outside of the loop, and read_row only
\* writes those the header names: with every length in the header nothing of one
\* key reaches the next, also when the names or the second codes are left out.
THEOREM NothingLeaksBetweenRows == Spec => []RowsAreIndependent
<1>1. Init => RowsInv
  <2>. SUFFICES ASSUME Init PROVE RowsInv
    OBVIOUS
  <2>1. RowsAreKeys
    BY NoKeysAtFirst
  <2>2. layout_ = <<>> /\ DOMAIN locals = DOMAIN KeyTypes /\ kbd = "main"
    BY DEF Init, LayoutsInit
  <2>. QED
    BY <2>1, <2>2 DEF RowsInv, RowsAreIndependent, RestIsNull
<1>2. RowsInv => RowsAreIndependent
  BY DEF RowsInv
<1>. QED
  BY <1>1, <1>2, NextKeepsRows, PTL DEF Spec

-----------------------------------------------------------------------------
(***************************************************************************)
(* What is read of the digits in a cell, by induction over them.           *)
(***************************************************************************)

LessThan == {p \in Nat \X Nat : p[1] < p[2]}

LEMMA LessIsWellFounded == IsWellFoundedOn(LessThan, Nat)
<1>1. LessThan = OpToRel(<, Nat)
  BY DEF LessThan, OpToRel
<1>. QED
  BY <1>1, NatLessThanWellFounded

LEMMA Least ==
  ASSUME NEW T \in SUBSET Nat, T # {}
  PROVE  \E n \in T : \A m \in T : n <= m
<1>1. PICK n \in T : \A m \in T : ~ (<<m, n>> \in LessThan)
  BY LessIsWellFounded, WFMin
<1>2. \A m \in T : ~ (m < n)
  BY <1>1 DEF LessThan
<1>3. n \in Nat /\ \A m \in T : m \in Nat
  OBVIOUS
<1>. QED
  BY <1>2, <1>3

LEMMA Upwards ==
  ASSUME NEW T, 0 \in T, \A n \in Nat : n \in T => n + 1 \in T
  PROVE  \A n \in Nat : n \in T
<1>. SUFFICES ASSUME Nat \ T # {} PROVE FALSE
  OBVIOUS
<1>1. PICK n \in Nat \ T : \A m \in Nat \ T : n <= m
  BY Least
<1>2. n # 0 /\ n - 1 \in Nat /\ n - 1 \in T
  BY <1>1
<1>. QED
  BY <1>1, <1>2

\* g is the recursive function on 0 .. len with this value for 0, and this step
\* from each number and the value before it.
IsRecursive(g, len, first, step) ==
  g = [i \in 0 .. len |-> IF i = 0 THEN first ELSE step[<<i, g[i - 1]>>]]

LEMMA NextValue ==
  ASSUME NEW len \in Nat, NEW first, NEW step, NEW g, IsRecursive(g, len, first, step)
  PROVE  \E h : IsRecursive(h, len + 1, first, step)
<1>. DEFINE h == [i \in 0 .. len + 1 |-> IF i = len + 1 THEN step[<<len + 1, g[len]>>] ELSE g[i]]
            k == [i \in 0 .. len + 1 |-> IF i = 0 THEN first ELSE step[<<i, h[i - 1]>>]]
<1>1. ASSUME NEW i \in 0 .. len + 1
      PROVE  h[i] = IF i = 0 THEN first ELSE step[<<i, h[i - 1]>>]
  <2>1. CASE i = len + 1
    <3>1. i # 0 /\ i - 1 = len /\ len \in 0 .. len + 1 /\ len # len + 1
      BY <2>1
    <3>. QED
      BY <2>1, <3>1
  <2>2. CASE i \in 0 .. len
    <3>1. i # len + 1 /\ (i # 0 => i - 1 \in 0 .. len + 1 /\ i - 1 # len + 1)
      BY <2>2
    <3>2. h[i] = g[i] /\ (i # 0 => h[i - 1] = g[i - 1])
      BY <3>1
    <3>3. g[i] = IF i = 0 THEN first ELSE step[<<i, g[i - 1]>>]
      BY <2>2 DEF IsRecursive
    <3>. QED
      BY <3>2, <3>3
  <2>. QED
    BY <2>1, <2>2
<1>2. /\ DOMAIN h = 0 .. len + 1 /\ h = [i \in DOMAIN h |-> h[i]]
      /\ DOMAIN k = 0 .. len + 1 /\ k = [i \in DOMAIN k |-> k[i]]
  OBVIOUS
<1>3. \A i \in 0 .. len + 1 : h[i] = k[i]
  BY <1>1, Zenon
<1>4. h = k
  <2>. HIDE DEF h, k
  <2>. QED
    BY <1>2, <1>3
<1>. HIDE DEF h
<1>. QED
  BY <1>4 DEF IsRecursive

LEMMA Recursion ==
  ASSUME NEW first, NEW step, NEW len \in Nat
  PROVE  \E g : IsRecursive(g, len, first, step)
<1>. DEFINE T == {n \in Nat : \E g : IsRecursive(g, n, first, step)}
<1>1. 0 \in T
  <2>. DEFINE g == [i \in 0 .. 0 |-> first]
  <2>1. IsRecursive(g, 0, first, step)
    BY DEF IsRecursive
  <2>. QED
    BY <2>1
<1>2. \A n \in Nat : n \in T => n + 1 \in T
  BY NextValue
<1>3. \A n \in Nat : n \in T
  <2>. HIDE DEF T
  <2>. QED
    BY <1>1, <1>2, Upwards
<1>. QED
  BY <1>3

\* The same with the set of its values.
LEMMA RecursionInto ==
  ASSUME NEW len \in Nat, NEW R, NEW first \in R, NEW step \in [(1 .. len) \X R -> R]
  PROVE  \E g \in [0 .. len -> R] : IsRecursive(g, len, first, step)
<1>1. PICK g : IsRecursive(g, len, first, step)
  BY Recursion
<1>. DEFINE T == {i \in Nat : i <= len => g[i] \in R}
<1>2. \A i \in 0 .. len : g[i] = IF i = 0 THEN first ELSE step[<<i, g[i - 1]>>]
  BY <1>1 DEF IsRecursive
<1>3. \A i \in Nat : i \in T
  <2>1. 0 \in T
    <3>1. 0 \in 0 .. len
      OBVIOUS
    <3>. QED
      BY <1>2, <3>1
  <2>2. ASSUME NEW i \in Nat, i \in T PROVE i + 1 \in T
    <3>. SUFFICES ASSUME i + 1 <= len PROVE g[i + 1] \in R
      OBVIOUS
    <3>1. g[i] \in R /\ i + 1 \in 1 .. len /\ i + 1 \in 0 .. len /\ i + 1 # 0 /\ (i + 1) - 1 = i
      BY <2>2
    <3>2. g[i + 1] = step[<<i + 1, g[i]>>]
      BY <1>2, <3>1
    <3>. QED
      BY <3>1, <3>2
  <2>. HIDE DEF T
  <2>. QED
    BY <2>1, <2>2, Upwards
<1>4. \A i \in 0 .. len : g[i] \in R
  BY <1>3
<1>5. g \in [0 .. len -> R]
  BY <1>1, <1>4 DEF IsRecursive
<1>. QED
  BY <1>1, <1>5

NumeralUpTo(g, digits) ==
  g = [i \in 0 .. Len(digits) |-> IF i = 0 THEN 0 ELSE 10 * g[i - 1] + digits[i]]

LEMMA NumeralExists ==
  ASSUME NEW digits, IsNumeral(digits)
  PROVE  \E g \in [0 .. Len(digits) -> Nat] : NumeralUpTo(g, digits)
<1>1. PICK len \in Nat : len = Len(digits)
  BY DEF IsNumeral
<1>. DEFINE step == [p \in (1 .. len) \X Nat |-> 10 * p[2] + digits[p[1]]]
<1>2. step \in [(1 .. len) \X Nat -> Nat]
  BY <1>1 DEF IsNumeral
<1>3. \A i \in 1 .. len, v \in Nat : step[<<i, v>>] = 10 * v + digits[i]
  OBVIOUS
<1>. HIDE DEF step
<1>4. PICK g \in [0 .. len -> Nat] : IsRecursive(g, len, 0, step)
  BY <1>2, RecursionInto
<1>5. \A i \in 0 .. len : i # 0 => i \in 1 .. len /\ g[i - 1] \in Nat
  OBVIOUS
<1>6. \A i \in 0 .. len : i # 0 => step[<<i, g[i - 1]>>] = 10 * g[i - 1] + digits[i]
  BY <1>3, <1>5
<1>7. g = [i \in 0 .. len |-> IF i = 0 THEN 0 ELSE 10 * g[i - 1] + digits[i]]
  BY <1>4, <1>6 DEF IsRecursive
<1>. QED
  BY <1>1, <1>7 DEF NumeralUpTo

LEMMA NumeralIsRecursive ==
  ASSUME NEW digits, IsNumeral(digits)
  PROVE  \E g \in [0 .. Len(digits) -> Nat] :
           /\ Numeral(digits) = g[Len(digits)] /\ g[0] = 0
           /\ \A i \in 1 .. Len(digits) : g[i] = 10 * g[i - 1] + digits[i]
<1>1. PICK g : g = CHOOSE h : NumeralUpTo(h, digits)
  OBVIOUS
<1>2. NumeralUpTo(g, digits)
  BY <1>1, NumeralExists
<1>3. Numeral(digits) = g[Len(digits)]
  BY <1>1 DEF Numeral, NumeralUpTo
<1>4. PICK len \in Nat : len = Len(digits)
  BY DEF IsNumeral
<1>5. g = [i \in 0 .. len |-> IF i = 0 THEN 0 ELSE 10 * g[i - 1] + digits[i]]
  BY <1>2, <1>4 DEF NumeralUpTo
<1>6. \A i \in 0 .. len : g[i] = IF i = 0 THEN 0 ELSE 10 * g[i - 1] + digits[i]
  BY <1>5
<1>7. g[0] = 0 /\ \A i \in 1 .. len : g[i] = 10 * g[i - 1] + digits[i]
  <2>1. 0 \in 0 .. len /\ \A i \in 1 .. len : i \in 0 .. len /\ i # 0
    OBVIOUS
  <2>. QED
    BY <1>6, <2>1
<1>. DEFINE T == {i \in Nat : i <= len => g[i] \in Nat}
<1>8. \A i \in Nat : i \in T
  <2>1. 0 \in T
    BY <1>7
  <2>2. ASSUME NEW i \in Nat, i \in T PROVE i + 1 \in T
    <3>. SUFFICES ASSUME i + 1 <= len PROVE g[i + 1] \in Nat
      OBVIOUS
    <3>1. g[i] \in Nat /\ i + 1 \in 1 .. len /\ (i + 1) - 1 = i
      BY <2>2
    <3>2. digits[i + 1] \in 0 .. 9
      BY <3>1, <1>4 DEF IsNumeral
    <3>. QED
      BY <3>1, <3>2, <1>7
  <2>. HIDE DEF T
  <2>. QED
    BY <2>1, <2>2, Upwards
<1>9. \A i \in 0 .. len : g[i] \in Nat
  BY <1>8
<1>10. g \in [0 .. len -> Nat]
  BY <1>5, <1>9
<1>. QED
  BY <1>3, <1>4, <1>7, <1>10

LEMMA NumeralType ==
  ASSUME NEW digits, IsNumeral(digits)
  PROVE  Numeral(digits) \in Nat
<1>1. PICK len \in Nat : len = Len(digits)
  BY DEF IsNumeral
<1>2. PICK g \in [0 .. len -> Nat] : Numeral(digits) = g[len]
  BY <1>1, NumeralIsRecursive
<1>. QED
  BY <1>2

-----------------------------------------------------------------------------
IntResults == [fits : BOOLEAN, value : Int]

\* The next digit of a number whose digits so far were read with this result.
IntStep(cell, i, r) ==
  LET y == cell.whole[i]
  IN  IF ~r.fits THEN r
      ELSE IF cell.negative
           THEN IF r.value < -((MaxInt + 1 - y) \div 10)
                THEN [r EXCEPT !.fits = FALSE]
                ELSE [r EXCEPT !.value = 10 * @ - y]
           ELSE IF r.value > (MaxInt - y) \div 10
                THEN [r EXCEPT !.fits = FALSE]
                ELSE [r EXCEPT !.value = 10 * @ + y]

IntUpTo(g, cell) ==
  g = [i \in 0 .. Len(cell.whole) |->
         IF i = 0 THEN [fits |-> TRUE, value |-> 0] ELSE IntStep(cell, i, g[i - 1])]

LEMMA IntStepType ==
  ASSUME NEW cell, NEW i, cell.whole[i] \in 0 .. 9, NEW r \in IntResults
  PROVE  IntStep(cell, i, r) \in IntResults
<1>1. PICK f \in BOOLEAN, v \in Int : r = [fits |-> f, value |-> v]
  BY DEF IntResults
<1>2. PICK y \in 0 .. 9 : y = cell.whole[i]
  OBVIOUS
<1>3. IntStep(cell, i, r) \in {r, [fits |-> FALSE, value |-> v],
                              [fits |-> f, value |-> 10 * v - y], [fits |-> f, value |-> 10 * v + y]}
  BY <1>1, <1>2 DEF IntStep
<1>4. 10 * v - y \in Int /\ 10 * v + y \in Int
  OBVIOUS
<1>5. \A e \in BOOLEAN, w \in Int : [fits |-> e, value |-> w] \in IntResults
  BY DEF IntResults
<1>. QED
  BY <1>3, <1>4, <1>5

LEMMA IntExists ==
  ASSUME NEW cell, IsNumeral(cell.whole)
  PROVE  \E g : IntUpTo(g, cell)
<1>1. PICK len \in Nat : len = Len(cell.whole)
  BY DEF IsNumeral
<1>. DEFINE step == [p \in (1 .. len) \X IntResults |-> IntStep(cell, p[1], p[2])]
            first == [fits |-> TRUE, value |-> 0]
<1>2. step \in [(1 .. len) \X IntResults -> IntResults]
  BY <1>1, IntStepType DEF IsNumeral
<1>3. \A i \in 1 .. len, v \in IntResults : step[<<i, v>>] = IntStep(cell, i, v)
  OBVIOUS
<1>4. first \in IntResults
  BY DEF IntResults
<1>. HIDE DEF step, first
<1>5. PICK g \in [0 .. len -> IntResults] : IsRecursive(g, len, first, step)
  BY <1>2, <1>4, RecursionInto
<1>6. \A i \in 0 .. len : i # 0 => i \in 1 .. len /\ g[i - 1] \in IntResults
  OBVIOUS
<1>7. \A i \in 0 .. len : i # 0 => step[<<i, g[i - 1]>>] = IntStep(cell, i, g[i - 1])
  BY <1>3, <1>6
<1>8. g = [i \in 0 .. len |-> IF i = 0 THEN first ELSE IntStep(cell, i, g[i - 1])]
  BY <1>5, <1>7 DEF IsRecursive
<1>. QED
  BY <1>1, <1>8 DEF IntUpTo, first

LEMMA IntIsRecursive ==
  ASSUME NEW cell, IsNumeral(cell.whole)
  PROVE  \E g : /\ IntOf(cell) = g[Len(cell.whole)]
                /\ g[0] = [fits |-> TRUE, value |-> 0]
                /\ \A i \in 1 .. Len(cell.whole) : g[i] = IntStep(cell, i, g[i - 1])
<1>1. PICK g : g = CHOOSE h : IntUpTo(h, cell)
  OBVIOUS
<1>2. IntUpTo(g, cell)
  BY <1>1, IntExists
<1>3. IntOf(cell) = g[Len(cell.whole)]
  BY <1>1, Zenon DEF IntOf, IntUpTo, IntStep
<1>4. PICK len \in Nat : len = Len(cell.whole)
  BY DEF IsNumeral
<1>5. /\ g[0] = [fits |-> TRUE, value |-> 0]
      /\ \A i \in 1 .. len : g[i] = IntStep(cell, i, g[i - 1])
  <2>. DEFINE first == [fits |-> TRUE, value |-> 0]
  <2>1. g = [i \in 0 .. len |-> IF i = 0 THEN first ELSE IntStep(cell, i, g[i - 1])]
    BY <1>2, <1>4 DEF IntUpTo
  <2>. HIDE DEF first
  <2>2. 0 \in 0 .. len /\ \A i \in 1 .. len : i \in 0 .. len /\ i # 0
    OBVIOUS
  <2>3. \A i \in 0 .. len : g[i] = IF i = 0 THEN first ELSE IntStep(cell, i, g[i - 1])
    BY <2>1
  <2>4. g[0] = first /\ \A i \in 1 .. len : g[i] = IntStep(cell, i, g[i - 1])
    BY <2>2, <2>3
  <2>. QED
    BY <2>4 DEF first
<1>. QED
  BY <1>3, <1>4, <1>5

-----------------------------------------------------------------------------
\* The number of the first i digits, the one that i digits read give.
Agreed(negative, n, r) ==
  /\ r \in IntResults
  /\ r.fits => IF negative THEN r.value + n = 0 /\ n <= MaxInt + 1
               ELSE r.value = n /\ n <= MaxInt
  /\ ~r.fits => IF negative THEN n > MaxInt + 1 ELSE n > MaxInt

\* The check before a digit is exact.
LEMMA OverflowCheck ==
  ASSUME NEW m \in Nat, m >= 9, NEW n \in Nat, NEW y \in 0 .. 9
  PROVE  n > (m - y) \div 10 <=> 10 * n + y > m
<1>1. PICK q \in Int, k \in 0 .. 9 : q = (m - y) \div 10 /\ m - y = 10 * q + k
  OBVIOUS
<1>. QED
  BY <1>1

LEMMA Exceptions ==
  ASSUME NEW f, NEW v, NEW w
  PROVE  /\ [[fits |-> f, value |-> v] EXCEPT !.fits = w] = [fits |-> w, value |-> v]
         /\ [[fits |-> f, value |-> v] EXCEPT !.value = w] = [fits |-> f, value |-> w]
OBVIOUS

LEMMA NoneRead ==
  ASSUME NEW b \in BOOLEAN, NEW n \in Nat, n = 0
  PROVE  Agreed(b, n, [fits |-> TRUE, value |-> 0])
<1>1. n <= MaxInt + 1 /\ n <= MaxInt
  BY NumbersAssumption
<1>2. PICK r : r = [fits |-> TRUE, value |-> 0]
  OBVIOUS
<1>3. r \in IntResults /\ r.fits /\ r.value = 0
  BY <1>2 DEF IntResults
<1>. QED
  BY <1>1, <1>2, <1>3 DEF Agreed

LEMMA StepAgrees ==
  ASSUME NEW cell, cell.negative \in BOOLEAN, NEW i, cell.whole[i] \in 0 .. 9,
         NEW n \in Nat, NEW r, Agreed(cell.negative, n, r)
  PROVE  Agreed(cell.negative, 10 * n + cell.whole[i], IntStep(cell, i, r))
<1>1. PICK f \in BOOLEAN, v \in Int : r = [fits |-> f, value |-> v]
  BY DEF Agreed, IntResults
<1>2. PICK y \in 0 .. 9 : y = cell.whole[i]
  OBVIOUS
<1>3. MaxInt \in Nat /\ MaxInt >= 9
  BY NumbersAssumption
<1>4. PICK neg \in BOOLEAN : neg = cell.negative
  OBVIOUS
<1>8. /\ [r EXCEPT !.fits = FALSE] = [fits |-> FALSE, value |-> v]
      /\ \A w : [r EXCEPT !.value = w] = [fits |-> f, value |-> w]
  <2>1. ASSUME NEW w
        PROVE  /\ [r EXCEPT !.fits = w] = [fits |-> w, value |-> v]
               /\ [r EXCEPT !.value = w] = [fits |-> f, value |-> w]
    BY <1>1, Exceptions
  <2>. QED
    BY <2>1
<1>5. CASE ~f
  <2>1. IntStep(cell, i, r) = r
    BY <1>1, <1>5 DEF IntStep
  <2>2. IF neg THEN n > MaxInt + 1 ELSE n > MaxInt
    BY <1>1, <1>4, <1>5 DEF Agreed
  <2>. QED
    BY <1>1, <1>2, <1>3, <1>4, <1>5, <2>1, <2>2 DEF Agreed
<1>6. CASE f /\ neg
  <2>1. v = -n /\ n <= MaxInt + 1
    BY <1>1, <1>4, <1>6 DEF Agreed
  <2>2. n > (MaxInt + 1 - y) \div 10 <=> 10 * n + y > MaxInt + 1
    BY <1>3, OverflowCheck
  <2>3. PICK q \in Int : q = (MaxInt + 1 - y) \div 10
    BY <1>3
  <2>4. v < -q <=> 10 * n + y > MaxInt + 1
    BY <2>1, <2>2, <2>3
  <2>5. IntStep(cell, i, r) = IF v < -q THEN [fits |-> FALSE, value |-> v]
                              ELSE [fits |-> TRUE, value |-> 10 * v - y]
    <3>1. IntStep(cell, i, r) = IF v < -q THEN [r EXCEPT !.fits = FALSE]
                                ELSE [r EXCEPT !.value = 10 * v - y]
      <4>1. r.fits /\ r.value = v /\ cell.negative
        BY <1>1, <1>4, <1>6
      <4>. QED
        BY <1>2, <2>3, <4>1, Zenon DEF IntStep
    <3>. QED
      BY <1>6, <1>8, <3>1
  <2>6. PICK t \in Nat : t = 10 * n + y
    OBVIOUS
  <2>7. 10 * v - y = -t
    BY <2>1, <2>6
  <2>8. Agreed(TRUE, t, IntStep(cell, i, r))
    BY <1>3, <2>4, <2>5, <2>6, <2>7 DEF Agreed, IntResults
  <2>. QED
    BY <1>2, <1>4, <1>6, <2>6, <2>8
<1>7. CASE f /\ ~neg
  <2>1. v = n /\ n <= MaxInt
    BY <1>1, <1>4, <1>7 DEF Agreed
  <2>2. n > (MaxInt - y) \div 10 <=> 10 * n + y > MaxInt
    BY <1>3, OverflowCheck
  <2>3. PICK q \in Int : q = (MaxInt - y) \div 10
    BY <1>3
  <2>5. IntStep(cell, i, r) = IF v > q THEN [fits |-> FALSE, value |-> v]
                              ELSE [fits |-> TRUE, value |-> 10 * v + y]
    <3>1. IntStep(cell, i, r) = IF v > q THEN [r EXCEPT !.fits = FALSE]
                                ELSE [r EXCEPT !.value = 10 * v + y]
      <4>1. r.fits /\ r.value = v /\ ~cell.negative
        BY <1>1, <1>4, <1>7
      <4>. QED
        BY <1>2, <2>3, <4>1, Zenon DEF IntStep
    <3>. QED
      BY <1>7, <1>8, <3>1
  <2>6. PICK t \in Nat : t = 10 * n + y
    OBVIOUS
  <2>8. Agreed(FALSE, t, IntStep(cell, i, r))
    BY <1>3, <2>1, <2>2, <2>3, <2>5, <2>6 DEF Agreed, IntResults
  <2>. QED
    BY <1>2, <1>4, <1>7, <2>6, <2>8
<1>. QED
  BY <1>5, <1>6, <1>7

\* An int that parse_signed_integer reads is the number that is written, and it is
\* read if there is an int that is that number: the overflow check before each
\* digit refuses nothing else, and lets nothing else through.
THEOREM IntsAreRead ==
  ASSUME NEW cell, cell.negative \in BOOLEAN, IsNumeral(cell.whole)
  PROVE  /\ IntOf(cell).fits <=> Signed(cell, Numeral(cell.whole)) \in -(MaxInt + 1) .. MaxInt
         /\ IntOf(cell).fits => IntOf(cell).value = Signed(cell, Numeral(cell.whole))
<1>1. PICK len \in Nat : len = Len(cell.whole)
  BY DEF IsNumeral
<1>2. PICK n \in [0 .. len -> Nat] :
        /\ Numeral(cell.whole) = n[len] /\ n[0] = 0
        /\ \A i \in 1 .. len : n[i] = 10 * n[i - 1] + cell.whole[i]
  BY <1>1, NumeralIsRecursive
<1>3. PICK g : /\ IntOf(cell) = g[len] /\ g[0] = [fits |-> TRUE, value |-> 0]
               /\ \A i \in 1 .. len : g[i] = IntStep(cell, i, g[i - 1])
  BY <1>1, IntIsRecursive
<1>. DEFINE T == {i \in Nat : i <= len => Agreed(cell.negative, n[i], g[i])}
<1>4. \A i \in Nat : i \in T
  <2>1. 0 \in T
    <3>1. n[0] \in Nat /\ n[0] = 0
      BY <1>2
    <3>2. Agreed(cell.negative, n[0], [fits |-> TRUE, value |-> 0])
      BY <3>1, NoneRead
    <3>. QED
      BY <1>3, <3>2
  <2>2. ASSUME NEW i \in Nat, i \in T PROVE i + 1 \in T
    <3>. SUFFICES ASSUME i + 1 <= len PROVE Agreed(cell.negative, n[i + 1], g[i + 1])
      OBVIOUS
    <3>1. Agreed(cell.negative, n[i], g[i]) /\ i + 1 \in 1 .. len /\ (i + 1) - 1 = i /\ n[i] \in Nat
      BY <2>2
    <3>2. cell.whole[i + 1] \in 0 .. 9
      BY <1>1, <3>1 DEF IsNumeral
    <3>3. n[i + 1] = 10 * n[i] + cell.whole[i + 1] /\ g[i + 1] = IntStep(cell, i + 1, g[i])
      BY <1>2, <1>3, <3>1
    <3>4. Agreed(cell.negative, 10 * n[i] + cell.whole[i + 1], IntStep(cell, i + 1, g[i]))
      BY <3>1, <3>2, StepAgrees
    <3>. QED
      BY <3>3, <3>4
  <2>. HIDE DEF T
  <2>. QED
    BY <2>1, <2>2, Upwards
<1>5. Agreed(cell.negative, n[len], g[len]) /\ n[len] \in Nat
  BY <1>4
<1>6. Agreed(cell.negative, Numeral(cell.whole), IntOf(cell)) /\ Numeral(cell.whole) \in Nat
  BY <1>2, <1>3, <1>5
<1>7. PICK z \in Nat : z = Numeral(cell.whole)
  BY <1>6
<1>. QED
  BY <1>6, <1>7, NumbersAssumption DEF Agreed, Signed, IntResults

-----------------------------------------------------------------------------
TensUpTo(g, len) == g = [i \in 0 .. len |-> IF i = 0 THEN 1 ELSE 10 * g[i - 1]]

LEMMA TensIsRecursive ==
  ASSUME NEW len \in Nat
  PROVE  /\ Tens(len) \in [0 .. len -> Nat \ {0}] /\ Tens(len)[0] = 1
         /\ \A i \in 1 .. len : Tens(len)[i] = 10 * Tens(len)[i - 1]
<1>. DEFINE step == [p \in (1 .. len) \X Nat |-> 10 * p[2]]
<1>1. step \in [(1 .. len) \X Nat -> Nat]
  OBVIOUS
<1>2. \A i \in 1 .. len, v \in Nat : step[<<i, v>>] = 10 * v
  OBVIOUS
<1>. HIDE DEF step
<1>3. PICK g \in [0 .. len -> Nat] : IsRecursive(g, len, 1, step)
  BY <1>1, RecursionInto
<1>4. \A i \in 0 .. len : i # 0 => i \in 1 .. len /\ g[i - 1] \in Nat
  OBVIOUS
<1>5. \A i \in 0 .. len : i # 0 => step[<<i, g[i - 1]>>] = 10 * g[i - 1]
  BY <1>2, <1>4
<1>6. TensUpTo(g, len)
  BY <1>3, <1>5 DEF IsRecursive, TensUpTo
<1>7. PICK t : t = CHOOSE h : TensUpTo(h, len)
  OBVIOUS
<1>8. Tens(len) = t
  BY <1>7 DEF Tens, TensUpTo
<1>9. TensUpTo(t, len)
  BY <1>6, <1>7
<1>10. \A i \in 0 .. len : t[i] = IF i = 0 THEN 1 ELSE 10 * t[i - 1]
  BY <1>9 DEF TensUpTo
<1>11. t[0] = 1 /\ \A i \in 1 .. len : t[i] = 10 * t[i - 1]
  <2>1. 0 \in 0 .. len /\ \A i \in 1 .. len : i \in 0 .. len /\ i # 0
    OBVIOUS
  <2>. QED
    BY <1>10, <2>1
<1>. DEFINE T == {i \in Nat : i <= len => t[i] \in Nat \ {0}}
<1>12. \A i \in Nat : i \in T
  <2>1. 0 \in T
    BY <1>11
  <2>2. ASSUME NEW i \in Nat, i \in T PROVE i + 1 \in T
    <3>. SUFFICES ASSUME i + 1 <= len PROVE t[i + 1] \in Nat \ {0}
      OBVIOUS
    <3>1. t[i] \in Nat \ {0} /\ i + 1 \in 1 .. len /\ (i + 1) - 1 = i
      BY <2>2
    <3>. QED
      BY <1>11, <3>1
  <2>. HIDE DEF T
  <2>. QED
    BY <2>1, <2>2, Upwards
<1>13. \A i \in 0 .. len : t[i] \in Nat \ {0}
  BY <1>12
<1>14. t \in [0 .. len -> Nat \ {0}]
  BY <1>9, <1>13 DEF TensUpTo
<1>. QED
  BY <1>8, <1>11, <1>14

LEMMA LastOfTens ==
  ASSUME NEW digits, IsNumeral(digits)
  PROVE  Tens(Len(digits))[Len(digits)] \in Nat \ {0}
<1>1. PICK len \in Nat : len = Len(digits)
  BY DEF IsNumeral
<1>2. Tens(len) \in [0 .. len -> Nat \ {0}]
  BY TensIsRecursive
<1>. QED
  BY <1>1, <1>2

-----------------------------------------------------------------------------
WholeUpTo(g, cell) ==
  g = [i \in 0 .. Len(cell.whole) |->
         IF i = 0 THEN 0 ELSE 10 * g[i - 1] + cell.whole[i] * Parts]

PartUpTo(g, cell) ==
  g = [i \in 0 .. Len(cell.part) |->
         IF i = 0 THEN 0
         ELSE g[i - 1] + (cell.part[i] * Parts) \div Tens(Len(cell.part))[i]]

Unsigned(cell) ==
  LET whole == CHOOSE g : WholeUpTo(g, cell)
      part == CHOOSE g : PartUpTo(g, cell)
  IN  whole[Len(cell.whole)] + part[Len(cell.part)]

LEMMA DoubleIsUnsigned ==
  ASSUME NEW cell
  PROVE  DoubleOf(cell) = IF cell.negative THEN -Unsigned(cell) ELSE Unsigned(cell)
BY Zenon DEF DoubleOf, Unsigned, WholeUpTo, PartUpTo

LEMMA DigitParts ==
  ASSUME NEW digits, IsNumeral(digits), NEW i \in 1 .. Len(digits)
  PROVE  digits[i] \in 0 .. 9 /\ digits[i] * Parts \in Nat
<1>1. PICK d \in 0 .. 9, p \in Nat : d = digits[i] /\ p = Parts
  BY NumbersAssumption DEF IsNumeral
<1>2. d * p \in Nat
  OBVIOUS
<1>. QED
  BY <1>1, <1>2

LEMMA WholeExists ==
  ASSUME NEW cell, IsNumeral(cell.whole)
  PROVE  \E g \in [0 .. Len(cell.whole) -> Nat] : WholeUpTo(g, cell)
<1>1. PICK len \in Nat : len = Len(cell.whole)
  BY DEF IsNumeral
<1>. DEFINE weighted == [i \in 1 .. len |-> cell.whole[i] * Parts]
            step == [p \in (1 .. len) \X Nat |-> 10 * p[2] + weighted[p[1]]]
<1>2. \A i \in 1 .. len : weighted[i] \in Nat /\ weighted[i] = cell.whole[i] * Parts
  BY <1>1, DigitParts
<1>. HIDE DEF weighted
<1>3. step \in [(1 .. len) \X Nat -> Nat]
  BY <1>2
<1>4. \A i \in 1 .. len, v \in Nat : step[<<i, v>>] = 10 * v + weighted[i]
  OBVIOUS
<1>. HIDE DEF step
<1>5. PICK g \in [0 .. len -> Nat] : IsRecursive(g, len, 0, step)
  BY <1>3, RecursionInto
<1>6. \A i \in 0 .. len : i # 0 => i \in 1 .. len /\ g[i - 1] \in Nat
  OBVIOUS
<1>7. \A i \in 0 .. len : i # 0 => step[<<i, g[i - 1]>>] = 10 * g[i - 1] + cell.whole[i] * Parts
  BY <1>2, <1>4, <1>6
<1>8. g = [i \in 0 .. len |-> IF i = 0 THEN 0 ELSE 10 * g[i - 1] + cell.whole[i] * Parts]
  BY <1>5, <1>7 DEF IsRecursive
<1>. QED
  BY <1>1, <1>8 DEF WholeUpTo

\* The digits before the point, in parts.
LEMMA WholeIsParts ==
  ASSUME NEW cell, IsNumeral(cell.whole), NEW g, WholeUpTo(g, cell)
  PROVE  g[Len(cell.whole)] = Parts * Numeral(cell.whole)
<1>1. PICK len \in Nat : len = Len(cell.whole)
  BY DEF IsNumeral
<1>2. PICK n \in [0 .. len -> Nat] :
        /\ Numeral(cell.whole) = n[len] /\ n[0] = 0
        /\ \A i \in 1 .. len : n[i] = 10 * n[i - 1] + cell.whole[i]
  BY <1>1, NumeralIsRecursive
<1>3. PICK p \in Nat : p = Parts
  BY NumbersAssumption
<1>4. g = [i \in 0 .. len |-> IF i = 0 THEN 0 ELSE 10 * g[i - 1] + cell.whole[i] * p]
  BY <1>1, <1>3 DEF WholeUpTo
<1>5. g[0] = 0 /\ \A i \in 1 .. len : g[i] = 10 * g[i - 1] + cell.whole[i] * p
  <2>1. \A i \in 0 .. len : g[i] = IF i = 0 THEN 0 ELSE 10 * g[i - 1] + cell.whole[i] * p
    BY <1>4
  <2>2. 0 \in 0 .. len /\ \A i \in 1 .. len : i \in 0 .. len /\ i # 0
    OBVIOUS
  <2>. QED
    BY <2>1, <2>2
<1>. DEFINE T == {i \in Nat : i <= len => g[i] = p * n[i]}
<1>6. \A i \in Nat : i \in T
  <2>1. 0 \in T
    BY <1>2, <1>5
  <2>2. ASSUME NEW i \in Nat, i \in T PROVE i + 1 \in T
    <3>. SUFFICES ASSUME i + 1 <= len PROVE g[i + 1] = p * n[i + 1]
      OBVIOUS
    <3>1. i + 1 \in 1 .. len /\ (i + 1) - 1 = i
      OBVIOUS
    <3>2. PICK m \in Nat : m = n[i] /\ g[i] = p * m
      BY <2>2
    <3>3. PICK d \in 0 .. 9 : d = cell.whole[i + 1]
      BY <1>1, <3>1, DigitParts
    <3>4. g[i + 1] = 10 * g[i] + d * p /\ n[i + 1] = 10 * m + d
      BY <1>2, <1>5, <3>1, <3>2, <3>3
    <3>5. 10 * (p * m) + d * p = p * (10 * m + d)
      OBVIOUS
    <3>. QED
      BY <3>2, <3>4, <3>5
  <2>. HIDE DEF T
  <2>. QED
    BY <2>1, <2>2, Upwards
<1>. QED
  BY <1>1, <1>2, <1>3, <1>6

LEMMA PartQuotient ==
  ASSUME NEW cell, IsNumeral(cell.part), NEW i \in 1 .. Len(cell.part)
  PROVE  /\ (cell.part[i] * Parts) \div Tens(Len(cell.part))[i] \in Int
         /\ IsInParts(cell) =>
              ((cell.part[i] * Parts) \div Tens(Len(cell.part))[i]) * Tens(Len(cell.part))[i]
                = cell.part[i] * Parts
<1>1. PICK len \in Nat : len = Len(cell.part)
  BY DEF IsNumeral
<1>2. Tens(len) \in [0 .. len -> Nat \ {0}]
  BY TensIsRecursive
<1>3. PICK t \in Nat \ {0} : t = Tens(len)[i]
  BY <1>1, <1>2
<1>4. PICK a \in Nat : a = cell.part[i] * Parts
  BY DigitParts
<1>5. a \div t \in Int /\ a = t * (a \div t) + (a % t)
  OBVIOUS
<1>6. PICK q \in Int : q = a \div t
  BY <1>5
<1>7. a % t = 0 => q * t = a
  BY <1>5, <1>6
<1>8. IsInParts(cell) => a % t = 0
  BY <1>1, <1>3, <1>4 DEF IsInParts
<1>. QED
  BY <1>1, <1>3, <1>4, <1>6, <1>7, <1>8

LEMMA PartExists ==
  ASSUME NEW cell, IsNumeral(cell.part)
  PROVE  \E g \in [0 .. Len(cell.part) -> Int] : PartUpTo(g, cell)
<1>1. PICK len \in Nat : len = Len(cell.part)
  BY DEF IsNumeral
<1>2. PICK tens : tens = Tens(len)
  OBVIOUS
<1>. DEFINE quotient == [i \in 1 .. len |-> (cell.part[i] * Parts) \div tens[i]]
            step == [p \in (1 .. len) \X Int |-> p[2] + quotient[p[1]]]
<1>3. \A i \in 1 .. len : quotient[i] \in Int
  BY <1>1, <1>2, PartQuotient
<1>4. \A i \in 1 .. len : quotient[i] = (cell.part[i] * Parts) \div tens[i]
  OBVIOUS
<1>. HIDE DEF quotient
<1>5. step \in [(1 .. len) \X Int -> Int]
  BY <1>3
<1>6. \A i \in 1 .. len, v \in Int : step[<<i, v>>] = v + quotient[i]
  OBVIOUS
<1>. HIDE DEF step
<1>7. PICK g \in [0 .. len -> Int] : IsRecursive(g, len, 0, step)
  <2>1. 0 \in Int
    OBVIOUS
  <2>. QED
    BY <1>5, <2>1, RecursionInto
<1>8. \A i \in 0 .. len : i # 0 => i \in 1 .. len /\ g[i - 1] \in Int
  OBVIOUS
<1>9. \A i \in 0 .. len : i # 0 => step[<<i, g[i - 1]>>] = g[i - 1] + (cell.part[i] * Parts) \div tens[i]
  BY <1>4, <1>6, <1>8
<1>10. g = [i \in 0 .. len |-> IF i = 0 THEN 0 ELSE g[i - 1] + (cell.part[i] * Parts) \div tens[i]]
  BY <1>7, <1>9 DEF IsRecursive
<1>. QED
  BY <1>1, <1>2, <1>10 DEF PartUpTo

\* The digits behind the point, in parts.
LEMMA PartIsParts ==
  ASSUME NEW cell, IsNumeral(cell.part), IsInParts(cell), NEW g, PartUpTo(g, cell)
  PROVE  /\ g[Len(cell.part)] \in Int
         /\ g[Len(cell.part)] * Tens(Len(cell.part))[Len(cell.part)]
              = Parts * Numeral(cell.part)
<1>1. PICK len \in Nat : len = Len(cell.part)
  BY DEF IsNumeral
<1>2. PICK n \in [0 .. len -> Nat] :
        /\ Numeral(cell.part) = n[len] /\ n[0] = 0
        /\ \A i \in 1 .. len : n[i] = 10 * n[i - 1] + cell.part[i]
  BY <1>1, NumeralIsRecursive
<1>3. PICK p \in Nat : p = Parts
  BY NumbersAssumption
<1>4. PICK tens \in [0 .. len -> Nat \ {0}] :
        /\ tens = Tens(len) /\ tens[0] = 1
        /\ \A i \in 1 .. len : tens[i] = 10 * tens[i - 1]
  BY TensIsRecursive
<1>5. \A i \in 1 .. len : /\ (cell.part[i] * p) \div tens[i] \in Int
                          /\ ((cell.part[i] * p) \div tens[i]) * tens[i] = cell.part[i] * p
  BY <1>1, <1>3, <1>4, PartQuotient
<1>6. g = [i \in 0 .. len |-> IF i = 0 THEN 0 ELSE g[i - 1] + (cell.part[i] * p) \div tens[i]]
  BY <1>1, <1>3, <1>4 DEF PartUpTo
<1>7. g[0] = 0 /\ \A i \in 1 .. len : g[i] = g[i - 1] + (cell.part[i] * p) \div tens[i]
  <2>1. \A i \in 0 .. len : g[i] = IF i = 0 THEN 0 ELSE g[i - 1] + (cell.part[i] * p) \div tens[i]
    BY <1>6
  <2>2. 0 \in 0 .. len /\ \A i \in 1 .. len : i \in 0 .. len /\ i # 0
    OBVIOUS
  <2>. QED
    BY <2>1, <2>2
<1>. DEFINE T == {i \in Nat : i <= len => g[i] \in Int /\ g[i] * tens[i] = p * n[i]}
<1>8. \A i \in Nat : i \in T
  <2>1. 0 \in T
    BY <1>2, <1>4, <1>7
  <2>2. ASSUME NEW i \in Nat, i \in T PROVE i + 1 \in T
    <3>. SUFFICES ASSUME i + 1 <= len
                  PROVE  g[i + 1] \in Int /\ g[i + 1] * tens[i + 1] = p * n[i + 1]
      OBVIOUS
    <3>1. i + 1 \in 1 .. len /\ (i + 1) - 1 = i /\ i \in 0 .. len
      OBVIOUS
    <3>2. PICK m \in Nat, x \in Int, t \in Nat \ {0} :
            m = n[i] /\ x = g[i] /\ t = tens[i] /\ x * t = p * m
      BY <2>2, <3>1
    <3>3. PICK d \in 0 .. 9 : d = cell.part[i + 1]
      BY <1>1, <3>1, DigitParts
    <3>4. PICK q \in Int : q = (cell.part[i + 1] * p) \div tens[i + 1]
      BY <1>5, <3>1
    <3>5. tens[i + 1] = 10 * t /\ n[i + 1] = 10 * m + d /\ g[i + 1] = x + q
      BY <1>2, <1>4, <1>7, <3>1, <3>2, <3>3, <3>4
    <3>6. q * (10 * t) = d * p
      BY <1>5, <3>1, <3>3, <3>4, <3>5
    <3>7. (x + q) * (10 * t) = 10 * (x * t) + q * (10 * t)
      OBVIOUS
    <3>8. 10 * (p * m) + d * p = p * (10 * m + d)
      OBVIOUS
    <3>9. (x + q) * (10 * t) = p * (10 * m + d)
      BY <3>2, <3>6, <3>7, <3>8
    <3>10. x + q \in Int
      OBVIOUS
    <3>. QED
      BY <3>5, <3>9, <3>10
  <2>. HIDE DEF T
  <2>. QED
    BY <2>1, <2>2, Upwards
<1>. QED
  BY <1>1, <1>2, <1>3, <1>4, <1>8

\* A double that parse_float reads, digit by digit with a falling weight, is the
\* number that is written, in parts.
THEOREM DoublesAreRead ==
  ASSUME NEW cell, IsCell(cell), IsInParts(cell)
  PROVE  DoubleOf(cell) \in Int /\ StandsForParts(cell, DoubleOf(cell))
<1>1. IsNumeral(cell.whole) /\ IsNumeral(cell.part) /\ cell.negative \in BOOLEAN
  BY DEF IsCell
<1>2. PICK whole : whole = CHOOSE g : WholeUpTo(g, cell)
  OBVIOUS
<1>3. PICK part : part = CHOOSE g : PartUpTo(g, cell)
  OBVIOUS
<1>4. WholeUpTo(whole, cell) /\ PartUpTo(part, cell)
  BY <1>1, <1>2, <1>3, WholeExists, PartExists
<1>5. PICK n \in Nat, m \in Nat : n = Numeral(cell.whole) /\ m = Numeral(cell.part)
  BY <1>1, NumeralType
<1>6. PICK p \in Nat : p = Parts
  BY NumbersAssumption
<1>7. PICK t \in Nat \ {0} : t = Tens(Len(cell.part))[Len(cell.part)]
  BY <1>1, LastOfTens
<1>8. whole[Len(cell.whole)] = p * n
  BY <1>1, <1>4, <1>5, <1>6, WholeIsParts
<1>9. PICK x \in Int : x = part[Len(cell.part)] /\ x * t = p * m
  BY <1>1, <1>4, <1>5, <1>6, <1>7, PartIsParts
<1>10. Unsigned(cell) = p * n + x
  BY <1>2, <1>3, <1>8, <1>9 DEF Unsigned
<1>11. PICK y \in Int : y = p * n + x
  OBVIOUS
<1>12. y * t = p * (n * t + m)
  <2>1. (p * n + x) * t = (p * n) * t + x * t
    OBVIOUS
  <2>2. p * (n * t + m) = (p * n) * t + p * m
    OBVIOUS
  <2>. QED
    BY <1>9, <1>11, <2>1, <2>2
<1>13. DoubleOf(cell) = IF cell.negative THEN -y ELSE y
  BY <1>10, <1>11, DoubleIsUnsigned
<1>14. PICK z \in Int : z = p * (n * t + m)
  OBVIOUS
<1>15. (-y) * t = -z /\ y * t = z
  BY <1>12, <1>14
<1>16. DoubleOf(cell) \in Int /\ DoubleOf(cell) * t = IF cell.negative THEN -z ELSE z
  BY <1>1, <1>13, <1>15
<1>. QED
  BY <1>5, <1>6, <1>7, <1>14, <1>16 DEF StandsForParts, Signed

-----------------------------------------------------------------------------
\* A cell that is written for a value is read as it.
LEMMA CellIsRead ==
  ASSUME NEW type, NEW cell, NEW value, StandsFor(type, cell, value), NEW old
  PROVE  Parsed(type, cell, old) = value
<1>1. CASE type = "int"
  <2>1. /\ cell.negative \in BOOLEAN /\ IsNumeral(cell.whole)
        /\ value \in -(MaxInt + 1) .. MaxInt /\ value = Signed(cell, Numeral(cell.whole))
    BY <1>1 DEF StandsFor, StandsForInt, IsCell
  <2>2. IntOf(cell).fits
    BY <2>1, IntsAreRead
  <2>3. IntOf(cell).value = value
    BY <2>1, <2>2, IntsAreRead
  <2>. QED
    BY <1>1, <2>3 DEF Parsed
<1>2. CASE type = "double"
  <2>1. IsCell(cell) /\ IsInParts(cell) /\ StandsForParts(cell, value)
    BY <1>2 DEF StandsFor
  <2>2. DoubleOf(cell) \in Int /\ StandsForParts(cell, DoubleOf(cell))
    BY <2>1, DoublesAreRead
  <2>3. PICK t \in Nat \ {0} : t = Tens(Len(cell.part))[Len(cell.part)]
    BY <2>1, LastOfTens DEF IsCell
  <2>4. PICK z : z = Signed(cell, Parts * (Numeral(cell.whole) * t + Numeral(cell.part)))
    OBVIOUS
  <2>5. value \in Int /\ value * t = z
    BY <2>1, <2>3, <2>4 DEF StandsForParts
  <2>6. PICK x \in Int : x = DoubleOf(cell) /\ x * t = z
    BY <2>2, <2>3, <2>4 DEF StandsForParts
  <2>7. x = value
    <3>1. PICK y \in Int : y = x - value
      BY <2>5
    <3>2. y * t = 0
      <4>1. (x - value) * t = x * t - value * t
        BY <2>5
      <4>. QED
        BY <2>5, <2>6, <3>1, <4>1
    <3>3. y = 0
      BY <3>2
    <3>. QED
      BY <2>5, <3>1, <3>3
  <2>. QED
    BY <1>2, <2>6, <2>7 DEF Parsed
<1>. QED
  BY <1>1, <1>2 DEF StandsFor

-----------------------------------------------------------------------------
(* What is read of files that describe the panel.                          *)

LEMMA ReadSays ==
  ASSUME NEW types, NEW header, NEW line, NEW variables, NEW column \in DOMAIN variables,
         NEW value, Says(types, header, line, column, value),
         \E i \in DOMAIN header : header[i] = column
  PROVE  ReadRow(types, header, line, variables)[column] = value
<1>. DEFINE i == CHOOSE i \in DOMAIN header : header[i] = column
<1>1. i \in DOMAIN header /\ header[i] = column
  OBVIOUS
<1>2. ReadRow(types, header, line, variables)[column]
        = Parsed(types[column], line[i], variables[column])
  BY DEF ReadRow
<1>3. Parsed(types[column], line[i], variables[column]) = Parsed(types[column], line[i], 0)
  BY ParsedForgets
<1>4. Parsed(types[column], line[i], 0) = value
  BY <1>1, CellIsRead DEF Says
<1>. QED
  BY <1>2, <1>3, <1>4

\* hw_config after the row of touch-hw.csv.
HwOf(f) ==
  LET read == ReadRow(HwTypes, f.lines[1], f.lines[2], [c \in DOMAIN HwTypes |-> 0])
  IN  [rotation |-> read.rotation_cw,
       res_x |-> read.resolution_x, res_y |-> read.resolution_y,
       width_mm |-> read.width_mm, height_mm |-> read.height_mm,
       left_margin_mm |-> read.left_margin_mm, top_margin_mm |-> read.top_margin_mm]

LEMMA TrueSensor ==
  ASSUME NEW f, HwFileIsTrue(f), HwFileIsGood(f), f.sensor \in HWConfig
  PROVE  HwOf(f) = f.sensor
<1>. DEFINE null == [c \in DOMAIN HwTypes |-> 0]
            read == ReadRow(HwTypes, f.lines[1], f.lines[2], null)
            cols == {"resolution_x", "resolution_y", "width_mm", "height_mm",
                     "left_margin_mm", "top_margin_mm", "rotation_cw"}
<1>1. DOMAIN HwTypes = cols
  BY DEF HwTypes
<1>2. \A c \in cols : \E i \in DOMAIN f.lines[1] : f.lines[1][i] = c
  BY <1>1 DEF HwFileIsGood, HeaderIsGood
<1>3. DOMAIN null = cols
  BY <1>1
<1>4. \A c \in cols : \A v : Says(HwTypes, f.lines[1], f.lines[2], c, v) => read[c] = v
  <2>. HIDE DEF cols, null
  <2>. QED
    BY <1>2, <1>3, ReadSays
<1>5. /\ read["resolution_x"] = f.sensor.res_x /\ read["resolution_y"] = f.sensor.res_y
      /\ read["width_mm"] = f.sensor.width_mm /\ read["height_mm"] = f.sensor.height_mm
      /\ read["left_margin_mm"] = f.sensor.left_margin_mm
      /\ read["top_margin_mm"] = f.sensor.top_margin_mm
      /\ read["rotation_cw"] = f.sensor.rotation
  <2>. HIDE DEF read
  <2>. QED
    BY <1>4 DEF HwFileIsTrue
<1>6. HwOf(f) = [rotation |-> read.rotation_cw,
                 res_x |-> read.resolution_x, res_y |-> read.resolution_y,
                 width_mm |-> read.width_mm, height_mm |-> read.height_mm,
                 left_margin_mm |-> read.left_margin_mm, top_margin_mm |-> read.top_margin_mm]
  BY DEF HwOf
<1>. HIDE DEF read
<1>. QED
  BY <1>5, <1>6 DEF HWConfig

\* A key of layout_ is the key of its row.
LEMMA TrueKey ==
  ASSUME NEW key, NEW line, key.area \in Areas, EveryLength, Named("code"),
         KeyRowIsTrue(key_file.lines[1], line, key)
  PROVE  /\ KeyOfRow(line).event_code_ = key.code
         /\ KeyOfRow(line).event_code_fn_ = key.code_fn
         /\ KeyOfRow(line).area = KeyArea(hw, key.area)
<1>. DEFINE null == [c \in DOMAIN KeyTypes |-> 0]
            header == key_file.lines[1]
            v == ReadRow(KeyTypes, header, line, null)
<1>1. DOMAIN null = DOMAIN KeyTypes
      /\ {"x", "y", "width", "height", "code", "code_fn"} \subseteq DOMAIN KeyTypes
  BY DEF KeyTypes
<1>2. Named("x") /\ Named("y") /\ Named("width") /\ Named("height")
  BY DEF EveryLength, KeyTypes
<1>3. \A c \in DOMAIN KeyTypes : \A w : Named(c) /\ Says(KeyTypes, header, line, c, w) => v[c] = w
  <2>. HIDE DEF null
  <2>. QED
    BY <1>1, ReadSays DEF Named
<1>4. ~Named("code_fn") => v["code_fn"] = 0
  BY <1>1 DEF ReadRow, Named
<1>. HIDE DEF v, null
<1>5. /\ v["x"] = key.area.x1 /\ v["y"] = key.area.y1
      /\ v["width"] = key.area.x2 - key.area.x1 /\ v["height"] = key.area.y2 - key.area.y1
      /\ v["code"] = key.code /\ v["code_fn"] = key.code_fn
  BY <1>1, <1>2, <1>3, <1>4 DEF KeyRowIsTrue, Named
<1>6. KeyOfRow(line) =
        [event_code_ |-> v.code, event_code_fn_ |-> v.code_fn,
         area |-> KeyArea(hw, [x1 |-> v.x, x2 |-> v.x + v.width,
                               y1 |-> v.y, y2 |-> v.y + v.height])]
  BY DEF KeyOfRow, KeyOf, v, null
<1>7. [x1 |-> v.x, x2 |-> v.x + v.width, y1 |-> v.y, y2 |-> v.y + v.height] = key.area
  BY <1>5 DEF Areas
<1>. QED
  BY <1>5, <1>6, <1>7

\* The region of the touchpad is that of its row, whatever its variables held.
LEMMA TruePad ==
  ASSUME NEW f, PadFileIsTrue(f), PadFileIsGood(f), NEW any
  PROVE  /\ f.area \in Areas
         /\ ReadRow(PadTypes, f.lines[1], f.lines[2], [c \in DOMAIN PadTypes |-> any]) = f.area
<1>. DEFINE old == [c \in DOMAIN PadTypes |-> any]
            read == ReadRow(PadTypes, f.lines[1], f.lines[2], old)
<1>1. DOMAIN PadTypes = {"x1", "y1", "x2", "y2"} /\ DOMAIN old = DOMAIN PadTypes
  BY DEF PadTypes
<1>2. f.area \in Areas
  BY DEF PadFileIsTrue
<1>3. \A c \in DOMAIN PadTypes : read[c] = f.area[c]
  <2>1. \A c \in DOMAIN PadTypes : /\ Says(PadTypes, f.lines[1], f.lines[2], c, f.area[c])
                                  /\ \E i \in DOMAIN f.lines[1] : f.lines[1][i] = c
    BY DEF PadFileIsTrue
  <2>. HIDE DEF old
  <2>. QED
    BY <1>1, <2>1, ReadSays
<1>4. read = [c \in DOMAIN PadTypes |-> read[c]]
  BY <1>1 DEF ReadRow
<1>. HIDE DEF read
<1>. QED
  BY <1>1, <1>2, <1>3, <1>4 DEF Areas, read
(***************************************************************************)
(* What the processes know once they have started.                         *)
(***************************************************************************)

FilesFound == hw_file \in HwFiles /\ key_file \in KeyFiles /\ pad_file \in PadFiles

\* LoadHWConfig has been there before both processes.
SensorIsRead ==
  /\ kbd = "main" => tp = "main"
  /\ kbd \in {"header", "rows", "started"} \/ tp \in {"load", "started"} =>
       (Len(hw_file.lines) > 1 => HwFileIsGood(hw_file) /\ hw = HwOf(hw_file))

\* No row threw.
KeysAreRead ==
  /\ kbd = "rows" =>
       /\ Len(key_file.lines) > 0 /\ HeaderIsGood(KeyTypes, TRUE, key_file.lines[1])
       /\ \A n \in 2 .. row - 1 : RowIsGood(KeyTypes, key_file.lines[1], key_file.lines[n])
  /\ kbd = "started" /\ hw.rotation \in Mountings => KeyFileIsGood(key_file)

PadIsRead ==
  tp = "started" =>
    /\ PadFileIsGood(pad_file)
    /\ \E any \in Garbage :
         region = PadArea(hw, ReadRow(PadTypes, pad_file.lines[1], pad_file.lines[2],
                                      [c \in DOMAIN PadTypes |-> any]))

FingerSomewhere == finger.x \in Int /\ finger.y \in Int

PanelInv ==
  /\ RowsInv /\ FilesFound /\ SensorIsRead /\ KeysAreRead /\ PadIsRead /\ FingerSomewhere

LEMMA PanelInit == Init => PanelInv
<1>. SUFFICES ASSUME Init PROVE PanelInv
  OBVIOUS
<1>1. RowsAreKeys
  BY NoKeysAtFirst
<1>2. layout_ = <<>> /\ DOMAIN locals = DOMAIN KeyTypes /\ kbd = "main" /\ tp = "main"
  BY DEF Init, LayoutsInit
<1>3. FilesFound /\ FingerSomewhere
  BY DEF Init, LayoutsInit, FilesFound, FingerSomewhere
<1>. QED
  BY <1>1, <1>2, <1>3
     DEF PanelInv, RowsInv, RowsAreIndependent, RestIsNull, SensorIsRead, KeysAreRead, PadIsRead

LEMMA SensorStep ==
  ASSUME PanelInv, [Next]_vars
  PROVE  SensorIsRead'
<1>1. CASE LoadHWConfig
  <2>1. CASE kbd' = "exited" /\ tp' = "exited"
    BY <2>1 DEF SensorIsRead
  <2>2. CASE kbd' = "header" /\ tp' = "load"
    <3>1. Len(hw_file.lines) \in Nat /\ hw_file' = hw_file
      BY <1>1, FilesAssumption DEF PanelInv, FilesFound, LoadHWConfig, files
    <3>2. ASSUME Len(hw_file.lines) > 1
          PROVE  HwFileIsGood(hw_file) /\ hw' = HwOf(hw_file)
      <4>1. Len(hw_file.lines) - 1 > 0 /\ Len(hw_file.lines) - 1 # 0
        <5>1. PICK n \in Nat : n = Len(hw_file.lines)
          BY <3>1
        <5>2. n > 1
          BY <3>2, <5>1
        <5>3. n - 1 > 0 /\ n - 1 # 0
          BY <5>2
        <5>. QED
          BY <5>1, <5>3
      <4>2. kbd' # "exited"
        BY <2>2
      <4>3. /\ HeaderIsGood(HwTypes, FALSE, hw_file.lines[1])
            /\ RowIsGood(HwTypes, hw_file.lines[1], hw_file.lines[2])
            /\ hw' = HwOf(hw_file)
        BY <1>1, <4>1, <4>2, Zenon DEF LoadHWConfig, HwOf
      <4>. QED
        BY <3>2, <4>3 DEF HwFileIsGood
    <3>. QED
      BY <2>2, <3>1, <3>2 DEF SensorIsRead, HwOf, HwFileIsGood
  <2>. QED
    BY <1>1, <2>1, <2>2 DEF LoadHWConfig
<1>2. CASE /\ UNCHANGED <<hw_file, hw>>
           /\ \/ kbd' = kbd /\ tp' = tp
              \/ kbd' = kbd /\ tp = "load"
              \/ tp' = tp /\ kbd \in {"header", "rows"} /\ kbd' # "main"
  <2>1. kbd' = "main" => tp' = "main"
    BY <1>2 DEF PanelInv, SensorIsRead
  <2>2. kbd' \in {"header", "rows", "started"} \/ tp' \in {"load", "started"} =>
          kbd \in {"header", "rows", "started"} \/ tp \in {"load", "started"}
    BY <1>2
  <2>. QED
    BY <1>2, <2>1, <2>2 DEF PanelInv, SensorIsRead, HwOf, HwFileIsGood
<1>3. ReadKeyHeader \/ ReadKeyRow \/ KeysEnd =>
        UNCHANGED <<hw_file, hw, tp>> /\ kbd \in {"header", "rows"} /\ kbd' # "main"
  BY DEF ReadKeyHeader, ReadKeyRow, KeysEnd, files, touchpad
<1>4. LoadPad => UNCHANGED <<hw_file, hw, kbd>> /\ tp = "load"
  BY DEF LoadPad, files, keyboard
<1>5. Touch \/ Gone \/ UNCHANGED vars => UNCHANGED <<hw_file, hw, kbd, tp>>
  BY DEF Touch, Gone, vars, files, keyboard, touchpad
<1>. QED
  BY <1>1, <1>2, <1>3, <1>4, <1>5 DEF Next, Load

LEMMA KeysStep ==
  ASSUME PanelInv, [Next]_vars
  PROVE  KeysAreRead'
<1>0. Len(key_file.lines) \in Nat
  BY FilesAssumption DEF PanelInv, FilesFound
<1>1. CASE LoadHWConfig
  <2>1. kbd' \in {"exited", "header"}
    BY <1>1 DEF LoadHWConfig
  <2>. QED
    BY <2>1 DEF KeysAreRead
<1>2. CASE ReadKeyHeader
  <2>1. CASE kbd' = "exited"
    BY <2>1 DEF KeysAreRead
  <2>2. CASE kbd' = "rows" /\ row' = 2
    <3>1. key_file' = key_file /\ Len(key_file.lines) > 0
          /\ HeaderIsGood(KeyTypes, TRUE, key_file.lines[1])
      BY <1>2, <2>2 DEF ReadKeyHeader, files
    <3>2. 2 .. row' - 1 = {}
      BY <2>2
    <3>. QED
      BY <2>2, <3>1, <3>2 DEF KeysAreRead
  <2>. QED
    BY <1>2, <2>1, <2>2 DEF ReadKeyHeader
<1>3. CASE ReadKeyRow
  <2>1. kbd = "rows" /\ UNCHANGED <<key_file, hw>>
    BY <1>3 DEF ReadKeyRow, files
  <2>2. row \in Nat
    BY <2>1 DEF PanelInv, RowsInv, RowsAreKeys
  <2>3. CASE kbd' = "exited"
    BY <2>3 DEF KeysAreRead
  <2>4. CASE kbd' = "started" /\ hw.rotation \notin Mountings
    BY <2>1, <2>4 DEF KeysAreRead
  <2>5. CASE kbd' = "rows" /\ row' = row + 1
             /\ RowIsGood(KeyTypes, key_file.lines[1], key_file.lines[row])
    <3>1. \A n \in 2 .. row' - 1 : n = row \/ n \in 2 .. row - 1
      BY <2>2, <2>5
    <3>. QED
      BY <2>1, <2>5, <3>1 DEF PanelInv, KeysAreRead
  <2>. QED
    BY <1>3, <2>1, <2>3, <2>4, <2>5 DEF ReadKeyRow
<1>4. CASE KeysEnd
  <2>1. kbd = "rows" /\ row > Len(key_file.lines) /\ kbd' = "started" /\ key_file' = key_file
    BY <1>4 DEF KeysEnd, files
  <2>2. row \in Nat
    BY <2>1 DEF PanelInv, RowsInv, RowsAreKeys
  <2>3. \A n \in 2 .. Len(key_file.lines) : n \in 2 .. row - 1
    BY <1>0, <2>1, <2>2
  <2>4. KeyFileIsGood(key_file)
    BY <2>1, <2>3 DEF PanelInv, KeysAreRead, KeyFileIsGood
  <2>. QED
    BY <2>1, <2>4 DEF KeysAreRead
<1>5. CASE UNCHANGED <<key_file, hw, kbd, row>>
  BY <1>5 DEF PanelInv, KeysAreRead, KeyFileIsGood
<1>. QED
  BY <1>1, <1>2, <1>3, <1>4, <1>5
     DEF Next, Load, LoadPad, Touch, Gone, files, keyboard, vars

LEMMA PadStep ==
  ASSUME PanelInv, [Next]_vars
  PROVE  PadIsRead'
<1>1. CASE LoadHWConfig
  <2>1. tp' # "started"
    BY <1>1 DEF LoadHWConfig
  <2>. QED
    BY <2>1 DEF PadIsRead
<1>2. CASE LoadPad
  <2>1. CASE tp' = "exited"
    BY <2>1 DEF PadIsRead
  <2>2. CASE tp' = "started"
    <3>1. pad_file' = pad_file /\ hw' = hw
      BY <1>2 DEF LoadPad, files
    <3>2. PadFileIsGood(pad_file)
      BY <1>2, <2>2 DEF LoadPad, PadFileIsGood
    <3>3. \E any \in Garbage :
            region' = PadArea(hw, ReadRow(PadTypes, pad_file.lines[1], pad_file.lines[2],
                                          [c \in DOMAIN PadTypes |-> any]))
      BY <1>2, <2>2, Zenon DEF LoadPad
    <3>. QED
      BY <3>1, <3>2, <3>3 DEF PadIsRead
  <2>. QED
    BY <1>2, <2>1, <2>2 DEF LoadPad
<1>3. CASE UNCHANGED <<pad_file, hw, tp, region>>
  BY <1>3 DEF PanelInv, PadIsRead
<1>. QED
  BY <1>1, <1>2, <1>3
     DEF Next, Load, ReadKeyHeader, ReadKeyRow, KeysEnd, Touch, Gone, files, touchpad, vars

LEMMA PanelStep == PanelInv /\ [Next]_vars => PanelInv'
<1>. SUFFICES ASSUME PanelInv, [Next]_vars PROVE PanelInv'
  OBVIOUS
<1>1. RowsInv'
  BY NextKeepsRows DEF PanelInv
<1>2. UNCHANGED files
  BY DEF Next, Load, LoadHWConfig, ReadKeyHeader, ReadKeyRow, KeysEnd, LoadPad, Touch, Gone, vars
<1>3. FilesFound'
  BY <1>2 DEF PanelInv, FilesFound, files
<1>4. FingerSomewhere'
  <2>1. CASE Touch
    <3>1. PICK dx \in -1 .. 1, dy \in -1 .. 1 : finger' = [x |-> finger.x + dx, y |-> finger.y + dy]
      BY <2>1 DEF Touch
    <3>. QED
      BY <3>1 DEF PanelInv, FingerSomewhere
  <2>2. CASE UNCHANGED finger
    BY <2>2 DEF PanelInv, FingerSomewhere
  <2>. QED
    BY <2>1, <2>2 DEF Next, Gone, vars
<1>. QED
  BY <1>1, <1>3, <1>4, SensorStep, KeysStep, PadStep DEF PanelInv
(***************************************************************************)
(* The finger on the turned sensor.                                        *)
(***************************************************************************)

\* A point of the layout is turned with the areas.
Dot(p) == [x1 |-> p.x, x2 |-> p.x, y1 |-> p.y, y2 |-> p.y]
Spot(s, p) == [x |-> Edges(s, Dot(p)).x1, y |-> Edges(s, Dot(p)).y1]

\* Quarter turns, as Turned takes them.
Quarter(s, start, n, f) ==
  f = [i \in 0 .. 3 |->
         IF i = 0 THEN start
         ELSE [x |-> f[i - 1].y,
               y |-> (IF i % 2 = 1 THEN IF n % 2 = 0 THEN s.width_mm ELSE s.height_mm
                      ELSE IF n % 2 = 0 THEN s.height_mm ELSE s.width_mm) - f[i - 1].x]]

LEMMA QuartersExist ==
  ASSUME NEW s, NEW start, NEW n
  PROVE  \E f : Quarter(s, start, n, f)
<1>. DEFINE w == IF n % 2 = 0 THEN s.width_mm ELSE s.height_mm
            h == IF n % 2 = 0 THEN s.height_mm ELSE s.width_mm
<1>1. PICK a : a = [x |-> start.y, y |-> w - start.x]
  OBVIOUS
<1>2. PICK b : b = [x |-> a.y, y |-> h - a.x]
  OBVIOUS
<1>3. PICK c : c = [x |-> b.y, y |-> w - b.x]
  OBVIOUS
<1>4. PICK f : f = [i \in 0 .. 3 |-> IF i = 0 THEN start ELSE IF i = 1 THEN a
                                     ELSE IF i = 2 THEN b ELSE c]
  OBVIOUS
<1>5. f[0] = start /\ f[1] = a /\ f[2] = b /\ f[3] = c
  BY <1>4
<1>6. 0 .. 3 = {0, 1, 2, 3} /\ 1 % 2 = 1 /\ 2 % 2 # 1 /\ 3 % 2 = 1
  OBVIOUS
<1>. DEFINE g == [i \in 0 .. 3 |->
         IF i = 0 THEN start
         ELSE [x |-> f[i - 1].y, y |-> (IF i % 2 = 1 THEN w ELSE h) - f[i - 1].x]]
<1>7. g[0] = start /\ g[1] = a /\ g[2] = b /\ g[3] = c
  BY <1>1, <1>2, <1>3, <1>5, <1>6
<1>8. f = g
  <2>1. DOMAIN f = 0 .. 3 /\ DOMAIN g = 0 .. 3
    BY <1>4
  <2>2. \A i \in 0 .. 3 : f[i] = g[i]
    <3>. HIDE DEF g
    <3>. QED
      BY <1>5, <1>6, <1>7
  <2>3. f = [i \in 0 .. 3 |-> f[i]]
    BY <1>4
  <2>4. g = [i \in 0 .. 3 |-> g[i]]
    OBVIOUS
  <2>. HIDE DEF g
  <2>. QED
    BY <2>2, <2>3, <2>4
<1>. QED
  BY <1>8 DEF Quarter

LEMMA TurnedIsSpot ==
  ASSUME sensor \in HWConfig, FingerSomewhere
  PROVE  Turned = Spot(sensor, finger)
<1>. DEFINE s == sensor
            n == s.rotation \div 90
            start == [x |-> s.left_margin_mm + finger.x, y |-> s.top_margin_mm + finger.y]
            f == CHOOSE g : Quarter(s, start, n, g)
<1>1. Turned = f[n]
  BY DEF Turned, Quarter
<1>2. Quarter(s, start, n, f)
  BY QuartersExist
<1>3. PICK w, h : /\ w = IF n % 2 = 0 THEN s.width_mm ELSE s.height_mm
                  /\ h = IF n % 2 = 0 THEN s.height_mm ELSE s.width_mm
  OBVIOUS
<1>4. /\ f[0] = start
      /\ f[1] = [x |-> f[0].y, y |-> w - f[0].x]
      /\ f[2] = [x |-> f[1].y, y |-> h - f[1].x]
      /\ f[3] = [x |-> f[2].y, y |-> w - f[2].x]
  <2>. HIDE DEF f, n, start
  <2>1. \A i \in 0 .. 3 : f[i] = IF i = 0 THEN start
         ELSE [x |-> f[i - 1].y, y |-> (IF i % 2 = 1 THEN w ELSE h) - f[i - 1].x]
    BY <1>2, <1>3 DEF Quarter
  <2>2. 1 % 2 = 1 /\ 2 % 2 # 1 /\ 3 % 2 = 1
    OBVIOUS
  <2>. QED
    BY <2>1, <2>2
<1>5. /\ s.rotation \in {0, 90, 180, 270}
      /\ s.width_mm \in Int /\ s.height_mm \in Int
      /\ s.left_margin_mm \in Int /\ s.top_margin_mm \in Int
      /\ finger.x \in Int /\ finger.y \in Int
  BY DEF HWConfig, FingerSomewhere
<1>6. start.x = s.left_margin_mm + finger.x /\ start.y = s.top_margin_mm + finger.y
  OBVIOUS
<1>. HIDE DEF f, start, n
<1>7. CASE s.rotation = 0
  <2>1. n = 0
    BY <1>7 DEF n
  <2>2. Spot(s, finger) = [x |-> finger.x + s.left_margin_mm, y |-> finger.y + s.top_margin_mm]
    BY <1>7 DEF Spot, Dot, Edges
  <2>. QED
    BY <1>1, <1>4, <1>5, <2>1, <2>2 DEF start
<1>8. CASE s.rotation = 90
  <2>1. n = 1 /\ n % 2 # 0
    BY <1>8 DEF n
  <2>2. Spot(s, finger) = [x |-> s.top_margin_mm + finger.y,
                           y |-> s.height_mm - (s.left_margin_mm + finger.x)]
    BY <1>8 DEF Spot, Dot, Edges
  <2>. QED
    BY <1>1, <1>3, <1>4, <1>5, <1>6, <2>1, <2>2
<1>9. CASE s.rotation = 180
  <2>1. n = 2 /\ n % 2 = 0
    BY <1>9 DEF n
  <2>2. Spot(s, finger) = [x |-> s.width_mm - (finger.x + s.left_margin_mm),
                           y |-> s.height_mm - (finger.y + s.top_margin_mm)]
    BY <1>9 DEF Spot, Dot, Edges
  <2>3. f[2] = [x |-> w - f[0].x, y |-> h - f[0].y]
    BY <1>4
  <2>. QED
    BY <1>1, <1>3, <1>4, <1>5, <1>6, <2>1, <2>2, <2>3
<1>10. CASE s.rotation = 270
  <2>1. n = 3 /\ n % 2 # 0
    BY <1>10 DEF n
  <2>2. Spot(s, finger) = [x |-> s.width_mm - (finger.y + s.top_margin_mm),
                           y |-> s.left_margin_mm + finger.x]
    BY <1>10 DEF Spot, Dot, Edges
  <2>3. f[2] = [x |-> w - f[0].x, y |-> h - f[0].y]
    BY <1>4
  <2>4. f[3] = [x |-> h - f[0].y, y |-> w - (w - f[0].x)]
    BY <1>4, <2>3
  <2>5. w = s.height_mm /\ h = s.width_mm
    BY <1>3, <2>1
  <2>6. f[0].x = s.left_margin_mm + finger.x /\ f[0].y = s.top_margin_mm + finger.y
    BY <1>4, <1>6
  <2>7. w - (w - f[0].x) = f[0].x
    BY <1>5, <2>5, <2>6
  <2>8. s.width_mm - (s.top_margin_mm + finger.y) = s.width_mm - (finger.y + s.top_margin_mm)
    BY <1>5
  <2>. QED
    BY <1>1, <2>1, <2>2, <2>4, <2>5, <2>6, <2>7, <2>8
<1>. QED
  BY <1>5, <1>7, <1>8, <1>9, <1>10
\* Turning keeps what lies within what, and apart from what.
LEMMA TurnedWithin ==
  ASSUME NEW s \in HWConfig, NEW a \in Areas, NEW p, p.x \in Int, p.y \in Int
  PROVE  /\ Edges(s, a) \in Areas
         /\ Spot(s, p).x \in Int /\ Spot(s, p).y \in Int
         /\ \A k \in Int : Within(p, a, k) <=> Within(Spot(s, p), Edges(s, a), k)
<1>1. /\ s.rotation \in {0, 90, 180, 270}
      /\ s.width_mm \in Int /\ s.height_mm \in Int
      /\ s.left_margin_mm \in Int /\ s.top_margin_mm \in Int
      /\ a.x1 \in Int /\ a.x2 \in Int /\ a.y1 \in Int /\ a.y2 \in Int
  BY DEF HWConfig, Areas
<1>2. CASE s.rotation = 0
  <2>1. Edges(s, a) = [x1 |-> a.x1 + s.left_margin_mm, x2 |-> a.x2 + s.left_margin_mm,
                       y1 |-> a.y1 + s.top_margin_mm, y2 |-> a.y2 + s.top_margin_mm]
    BY <1>2 DEF Edges
  <2>2. Spot(s, p) = [x |-> p.x + s.left_margin_mm, y |-> p.y + s.top_margin_mm]
    BY <1>2 DEF Spot, Dot, Edges
  <2>. QED
    BY <1>1, <2>1, <2>2 DEF Within, Areas
<1>3. CASE s.rotation = 90
  <2>1. Edges(s, a) = [x1 |-> s.top_margin_mm + a.y1, x2 |-> s.top_margin_mm + a.y2,
                       y1 |-> s.height_mm - (s.left_margin_mm + a.x2),
                       y2 |-> s.height_mm - (s.left_margin_mm + a.x1)]
    BY <1>3 DEF Edges
  <2>2. Spot(s, p) = [x |-> s.top_margin_mm + p.y,
                      y |-> s.height_mm - (s.left_margin_mm + p.x)]
    BY <1>3 DEF Spot, Dot, Edges
  <2>. QED
    BY <1>1, <2>1, <2>2 DEF Within, Areas
<1>4. CASE s.rotation = 180
  <2>1. Edges(s, a) = [x1 |-> s.width_mm - (a.x2 + s.left_margin_mm),
                       x2 |-> s.width_mm - (a.x1 + s.left_margin_mm),
                       y1 |-> s.height_mm - (a.y2 + s.top_margin_mm),
                       y2 |-> s.height_mm - (a.y1 + s.top_margin_mm)]
    BY <1>4 DEF Edges
  <2>2. Spot(s, p) = [x |-> s.width_mm - (p.x + s.left_margin_mm),
                      y |-> s.height_mm - (p.y + s.top_margin_mm)]
    BY <1>4 DEF Spot, Dot, Edges
  <2>. QED
    BY <1>1, <2>1, <2>2 DEF Within, Areas
<1>5. CASE s.rotation = 270
  <2>1. Edges(s, a) = [x1 |-> s.width_mm - (a.y2 + s.top_margin_mm),
                       x2 |-> s.width_mm - (a.y1 + s.top_margin_mm),
                       y1 |-> s.left_margin_mm + a.x1, y2 |-> s.left_margin_mm + a.x2]
    BY <1>5 DEF Edges
  <2>2. Spot(s, p) = [x |-> s.width_mm - (p.y + s.top_margin_mm),
                      y |-> s.left_margin_mm + p.x]
    BY <1>5 DEF Spot, Dot, Edges
  <2>. QED
    BY <1>1, <2>1, <2>2 DEF Within, Areas
<1>. QED
  BY <1>1, <1>2, <1>3, <1>4, <1>5

LEMMA TurnedApart ==
  ASSUME NEW s \in HWConfig, NEW a \in Areas, NEW b \in Areas, NEW gap \in Int,
         Apart(a, b, gap)
  PROVE  Apart(Edges(s, a), Edges(s, b), gap)
<1>1. /\ s.rotation \in {0, 90, 180, 270}
      /\ s.width_mm \in Int /\ s.height_mm \in Int
      /\ s.left_margin_mm \in Int /\ s.top_margin_mm \in Int
      /\ a.x1 \in Int /\ a.x2 \in Int /\ a.y1 \in Int /\ a.y2 \in Int
      /\ b.x1 \in Int /\ b.x2 \in Int /\ b.y1 \in Int /\ b.y2 \in Int
  BY DEF HWConfig, Areas
<1>2. CASE s.rotation = 0
  BY <1>1, <1>2 DEF Edges, Apart
<1>3. CASE s.rotation = 90
  BY <1>1, <1>3 DEF Edges, Apart
<1>4. CASE s.rotation = 180
  BY <1>1, <1>4 DEF Edges, Apart
<1>5. CASE s.rotation = 270
  BY <1>1, <1>5 DEF Edges, Apart
<1>. QED
  BY <1>1, <1>2, <1>3, <1>4, <1>5

(***************************************************************************)
(* Areas and points.                                                       *)
(***************************************************************************)

InPoints(s, p) == [x |-> PointsX(s, p.x), y |-> PointsY(s, p.y)]

\* Points keep the order of lengths.
LEMMA PointsKeepOrder ==
  ASSUME NEW s \in HWConfig, FinePitch(s), NEW u \in Int, NEW v \in Int
  PROVE  /\ PointsX(s, u) \in Int /\ PointsY(s, u) \in Int
         /\ PointsX(s, u) <= PointsX(s, v) <=> u <= v
         /\ PointsY(s, u) <= PointsY(s, v) <=> u <= v
         /\ PointsX(s, u) < PointsX(s, v) <=> u < v
         /\ PointsY(s, u) < PointsY(s, v) <=> u < v
<1>1. /\ PointsX(s, u) \in Int /\ PointsY(s, u) \in Int
      /\ PointsX(s, v) \in Int /\ PointsY(s, v) \in Int
  BY PointsMonotone
<1>2. u < v => PointsX(s, u) < PointsX(s, v) /\ PointsY(s, u) < PointsY(s, v)
  BY PointsStrict
<1>3. v < u => PointsX(s, v) < PointsX(s, u) /\ PointsY(s, v) < PointsY(s, u)
  BY PointsStrict
<1>. QED
  BY <1>1, <1>2, <1>3

\* A key holds a point of its area, up to its far edges.
LEMMA KeyHolds ==
  ASSUME NEW s \in HWConfig, FinePitch(s), s.rotation # 180, NEW a \in Areas,
         Edges(s, a) \in Areas, NEW p, p.x \in Int, p.y \in Int
  PROVE  LET e == Edges(s, a)
             q == InPoints(s, p)
         IN  KeyContains(KeyArea(s, a), q.x, q.y) <=>
               e.x1 <= p.x /\ p.x < e.x2 /\ e.y1 <= p.y /\ p.y < e.y2
<1>. DEFINE e == Edges(s, a)
<1>1. e.x1 \in Int /\ e.x2 \in Int /\ e.y1 \in Int /\ e.y2 \in Int
  BY DEF Areas
<1>2. KeyArea(s, a) = [x1 |-> PointsX(s, e.x1), x2 |-> PointsX(s, e.x2),
                       y1 |-> PointsY(s, e.y1), y2 |-> PointsY(s, e.y2)]
  BY DEF KeyArea, KeyEdges
<1>. HIDE DEF e
<1>3. KeyContains(KeyArea(s, a), InPoints(s, p).x, InPoints(s, p).y) <=>
        /\ PointsX(s, e.x1) <= PointsX(s, p.x) /\ PointsX(s, p.x) < PointsX(s, e.x2)
        /\ PointsY(s, e.y1) <= PointsY(s, p.y) /\ PointsY(s, p.y) < PointsY(s, e.y2)
  BY <1>2 DEF KeyContains, InPoints
<1>4. KeyContains(KeyArea(s, a), InPoints(s, p).x, InPoints(s, p).y) <=>
        e.x1 <= p.x /\ p.x < e.x2 /\ e.y1 <= p.y /\ p.y < e.y2
  BY <1>1, <1>3, PointsKeepOrder
<1>. QED
  BY <1>4 DEF e

\* The touchpad holds a point of its area with the edges cut to whole millimetres.
LEMMA PadHolds ==
  ASSUME NEW s \in HWConfig, FinePitch(s), NEW a \in Areas,
         Edges(s, a) \in Areas, NEW p, p.x \in Int, p.y \in Int
  PROVE  LET e == Edges(s, a)
             q == InPoints(s, p)
         IN  PadContains(PadArea(s, a), q.x, q.y) <=>
               /\ WholeMm(e.x1) <= p.x /\ p.x <= WholeMm(e.x2)
               /\ WholeMm(e.y1) <= p.y /\ p.y <= WholeMm(e.y2)
<1>. DEFINE e == Edges(s, a)
<1>1. e.x1 \in Int /\ e.x2 \in Int /\ e.y1 \in Int /\ e.y2 \in Int
  BY DEF Areas
<1>2. PadArea(s, a) = [x1 |-> PointsX(s, WholeMm(e.x1)), x2 |-> PointsX(s, WholeMm(e.x2)),
                       y1 |-> PointsY(s, WholeMm(e.y1)), y2 |-> PointsY(s, WholeMm(e.y2))]
  BY DEF PadArea
<1>. HIDE DEF e
<1>3. /\ WholeMm(e.x1) \in Int /\ WholeMm(e.x2) \in Int
      /\ WholeMm(e.y1) \in Int /\ WholeMm(e.y2) \in Int
  BY <1>1, WholeMmBounds
<1>4. PadContains(PadArea(s, a), InPoints(s, p).x, InPoints(s, p).y) <=>
        /\ PointsX(s, WholeMm(e.x1)) <= PointsX(s, p.x) /\ PointsX(s, p.x) <= PointsX(s, WholeMm(e.x2))
        /\ PointsY(s, WholeMm(e.y1)) <= PointsY(s, p.y) /\ PointsY(s, p.y) <= PointsY(s, WholeMm(e.y2))
  BY <1>2 DEF PadContains, InPoints
<1>5. PadContains(PadArea(s, a), InPoints(s, p).x, InPoints(s, p).y) <=>
               /\ WholeMm(e.x1) <= p.x /\ p.x <= WholeMm(e.x2)
               /\ WholeMm(e.y1) <= p.y /\ p.y <= WholeMm(e.y2)
  BY <1>3, <1>4, PointsKeepOrder
<1>. QED
  BY <1>5 DEF e
(***************************************************************************)
(* What the user sees.                                                     *)
(***************************************************************************)

\* No sensor is mounted upside down: UpsideDownKeysWork shows why.
NotUpsideDown == \A f \in HwFiles : f.sensor.rotation # 180

\* The processes know the sensor that the user has.
LEMMA SensorIsKnown ==
  ASSUME FilesAreTrue, SensorsAreFine, PanelInv, SensorDescribed,
         kbd = "started" \/ tp = "started"
  PROVE  /\ hw = sensor /\ sensor \in HWConfig /\ FinePitch(sensor)
         /\ Spot(sensor, finger).x \in Int /\ Spot(sensor, finger).y \in Int
         /\ Reading = InPoints(sensor, Spot(sensor, finger))
<1>1. hw_file \in HwFiles /\ hw_file.sensor.rotation \in Mountings
  BY DEF PanelInv, FilesFound, SensorDescribed, sensor
<1>2. hw_file.sensor \in HWConfig /\ FinePitch(hw_file.sensor) /\ HwFileIsTrue(hw_file)
  BY <1>1 DEF FilesAreTrue, SensorsAreFine
<1>3. HwFileIsGood(hw_file) /\ hw = HwOf(hw_file)
  BY DEF PanelInv, SensorIsRead, SensorDescribed
<1>4. hw = sensor
  BY <1>2, <1>3, TrueSensor DEF sensor
<1>5. sensor \in HWConfig /\ FinePitch(sensor)
  BY <1>2 DEF sensor
<1>6. FingerSomewhere
  BY DEF PanelInv
<1>7. Turned = Spot(sensor, finger)
  BY <1>5, <1>6, TurnedIsSpot
<1>8. Reading = InPoints(sensor, Spot(sensor, finger))
  BY <1>7, Zenon DEF Reading, InPoints
<1>9. Spot(sensor, finger).x \in Int /\ Spot(sensor, finger).y \in Int
  <2>1. [x1 |-> 0, x2 |-> 0, y1 |-> 0, y2 |-> 0] \in Areas
    BY DEF Areas
  <2>. QED
    BY <1>5, <1>6, <2>1, TurnedWithin DEF FingerSomewhere
<1>. QED
  BY <1>4, <1>5, <1>8, <1>9

\* And the keys that the user sees.
LEMMA KeysAreKnown ==
  ASSUME FilesAreTrue, SensorsAreFine, PanelInv, SensorDescribed, KeysDescribed,
         kbd = "started", NEW i \in DOMAIN key_file.keys
  PROVE  /\ key_file.keys[i].area \in Areas
         /\ layout_[i].event_code_ = key_file.keys[i].code
         /\ layout_[i].event_code_fn_ = key_file.keys[i].code_fn
         /\ layout_[i].area = KeyArea(sensor, key_file.keys[i].area)
<1>1. hw = sensor /\ sensor.rotation \in Mountings
  BY SensorIsKnown DEF SensorDescribed
<1>2. KeyFileIsGood(key_file) /\ key_file \in KeyFiles
  BY <1>1 DEF PanelInv, KeysAreRead, FilesFound
<1>3. /\ DOMAIN key_file.keys = 1 .. Len(key_file.lines) - 1
      /\ key_file.keys[i].area \in Areas
      /\ KeyRowIsTrue(key_file.lines[1], key_file.lines[i + 1], key_file.keys[i])
  BY <1>2 DEF FilesAreTrue, KeyFileIsTrue
<1>4. Len(layout_) = Len(key_file.lines) - 1 /\ \E K : layout_ \in Seq(K)
  BY <1>1 DEF PanelInv, RowsInv, RowsAreKeys, AllKeysOrNone
<1>5. i \in DOMAIN layout_
  BY <1>3, <1>4
<1>6. EveryLength /\ Named("code")
  <2>1. \A c \in {"x", "y", "width", "height", "code"} : Named(c)
    BY DEF KeysDescribed, Named
  <2>. QED
    BY <2>1 DEF EveryLength, KeyTypes
<1>7. layout_[i] = KeyOfRow(key_file.lines[i + 1])
  BY <1>5, <1>6 DEF PanelInv, RowsInv, RowsAreIndependent
<1>8. /\ KeyOfRow(key_file.lines[i + 1]).event_code_ = key_file.keys[i].code
      /\ KeyOfRow(key_file.lines[i + 1]).event_code_fn_ = key_file.keys[i].code_fn
      /\ KeyOfRow(key_file.lines[i + 1]).area = KeyArea(hw, key_file.keys[i].area)
  BY <1>3, <1>6, TrueKey
<1>. QED
  BY <1>1, <1>3, <1>7, <1>8

\* And the touchpad.
LEMMA PadIsKnown ==
  ASSUME FilesAreTrue, SensorsAreFine, PanelInv, SensorDescribed, tp = "started"
  PROVE  pad_file.area \in Areas /\ region = PadArea(sensor, pad_file.area)
<1>1. hw = sensor
  BY SensorIsKnown
<1>2. PadFileIsGood(pad_file) /\ PadFileIsTrue(pad_file)
  BY DEF PanelInv, PadIsRead, FilesFound, FilesAreTrue
<1>3. PICK any \in Garbage :
        region = PadArea(hw, ReadRow(PadTypes, pad_file.lines[1], pad_file.lines[2],
                                     [c \in DOMAIN PadTypes |-> any]))
  BY DEF PanelInv, PadIsRead
<1>4. /\ pad_file.area \in Areas
      /\ ReadRow(PadTypes, pad_file.lines[1], pad_file.lines[2],
                 [c \in DOMAIN PadTypes |-> any]) = pad_file.area
  BY <1>2, TruePad
<1>. QED
  BY <1>1, <1>3, <1>4

\* Where the finger is on a key.
LEMMA OnKeyMeans ==
  ASSUME FilesAreTrue, SensorsAreFine, NotUpsideDown, PanelInv, SensorDescribed, KeysDescribed,
         kbd = "started", NEW i \in DOMAIN key_file.keys
  PROVE  LET e == Edges(sensor, key_file.keys[i].area)
             q == Spot(sensor, finger)
         IN  OnKey(i) <=> e.x1 <= q.x /\ q.x < e.x2 /\ e.y1 <= q.y /\ q.y < e.y2
<1>1. /\ sensor \in HWConfig /\ FinePitch(sensor)
      /\ Spot(sensor, finger).x \in Int /\ Spot(sensor, finger).y \in Int
      /\ Reading = InPoints(sensor, Spot(sensor, finger))
  BY SensorIsKnown
<1>2. key_file.keys[i].area \in Areas /\ layout_[i].area = KeyArea(sensor, key_file.keys[i].area)
  BY KeysAreKnown
<1>3. sensor.rotation # 180
  BY DEF NotUpsideDown, PanelInv, FilesFound, sensor
<1>4. Edges(sensor, key_file.keys[i].area) \in Areas
  BY <1>1, <1>2, TurnedWithin DEF PanelInv, FingerSomewhere
<1>5. OnKey(i) <=> KeyContains(KeyArea(sensor, key_file.keys[i].area),
                               InPoints(sensor, Spot(sensor, finger)).x,
                               InPoints(sensor, Spot(sensor, finger)).y)
  BY <1>1, <1>2 DEF OnKey
<1>. QED
  BY <1>1, <1>2, <1>3, <1>4, <1>5, KeyHolds

\* Where it is on the touchpad.
LEMMA OnPadMeans ==
  ASSUME FilesAreTrue, SensorsAreFine, PanelInv, SensorDescribed, tp = "started"
  PROVE  LET e == Edges(sensor, pad_file.area)
             q == Spot(sensor, finger)
         IN  OnPad <=> /\ WholeMm(e.x1) <= q.x /\ q.x <= WholeMm(e.x2)
                       /\ WholeMm(e.y1) <= q.y /\ q.y <= WholeMm(e.y2)
<1>1. /\ sensor \in HWConfig /\ FinePitch(sensor)
      /\ Spot(sensor, finger).x \in Int /\ Spot(sensor, finger).y \in Int
      /\ Reading = InPoints(sensor, Spot(sensor, finger))
  BY SensorIsKnown
<1>2. pad_file.area \in Areas /\ region = PadArea(sensor, pad_file.area)
  BY PadIsKnown
<1>3. Edges(sensor, pad_file.area) \in Areas
  BY <1>1, <1>2, TurnedWithin DEF PanelInv, FingerSomewhere
<1>4. OnPad <=> PadContains(PadArea(sensor, pad_file.area),
                            InPoints(sensor, Spot(sensor, finger)).x,
                            InPoints(sensor, Spot(sensor, finger)).y)
  BY <1>1, <1>2 DEF OnPad
<1>. QED
  BY <1>1, <1>2, <1>3, <1>4, PadHolds

\* A finger on a printed key is on the key of layout_ and types its codes, and one
\* beside it does not: what LoadLayout makes of the rows, turned with the sensor
\* and cut to points, lies where the keys are printed, up to a unit of length -
\* for every sensor, layout and order of columns, and rows of any number.
THEOREM KeysAreUnderFingers ==
  ASSUME FilesAreTrue, SensorsAreFine, NotUpsideDown
  PROVE  Spec => []KeyUnderFinger
<1>1. ASSUME PanelInv PROVE KeyUnderFinger
  <2>. SUFFICES ASSUME kbd = "started", SensorDescribed, KeysDescribed,
                       NEW i \in DOMAIN key_file.keys
                PROVE  /\ Within(finger, key_file.keys[i].area, 1) => OnKey(i)
                       /\ OnKey(i) => Within(finger, key_file.keys[i].area, -1)
                       /\ layout_[i].event_code_ = key_file.keys[i].code
                       /\ layout_[i].event_code_fn_ = key_file.keys[i].code_fn
    BY Zenon DEF KeyUnderFinger
  <2>1. PICK a : a = key_file.keys[i].area
    OBVIOUS
  <2>2. PICK e : e = Edges(sensor, a)
    OBVIOUS
  <2>3. PICK q : q = Spot(sensor, finger)
    OBVIOUS
  <2>4. a \in Areas /\ layout_[i].event_code_ = key_file.keys[i].code
        /\ layout_[i].event_code_fn_ = key_file.keys[i].code_fn
    BY <1>1, <2>1, KeysAreKnown
  <2>5. sensor \in HWConfig /\ finger.x \in Int /\ finger.y \in Int
    BY <1>1, SensorIsKnown DEF PanelInv, FingerSomewhere
  <2>6. /\ e \in Areas /\ q.x \in Int /\ q.y \in Int
        /\ Within(finger, a, 1) <=> Within(q, e, 1)
        /\ Within(finger, a, -1) <=> Within(q, e, -1)
    BY <2>2, <2>3, <2>4, <2>5, TurnedWithin
  <2>7. OnKey(i) <=> e.x1 <= q.x /\ q.x < e.x2 /\ e.y1 <= q.y /\ q.y < e.y2
    BY <1>1, <2>1, <2>2, <2>3, OnKeyMeans
  <2>8. Within(q, e, 1) => OnKey(i)
    BY <2>6, <2>7 DEF Within, Areas
  <2>9. OnKey(i) => Within(q, e, -1)
    BY <2>6, <2>7 DEF Within, Areas
  <2>. QED
    BY <2>1, <2>4, <2>6, <2>8, <2>9
<1>. QED
  BY <1>1, PanelInit, PanelStep, PTL DEF Spec

\* The same for the touchpad, whose edges are cut to whole millimetres on the way,
\* and which LoadLayout turns right also for a sensor that is upside down.
THEOREM PadIsUnderFinger ==
  ASSUME FilesAreTrue, SensorsAreFine
  PROVE  Spec => []PadUnderFinger
<1>1. ASSUME PanelInv PROVE PadUnderFinger
  <2>. SUFFICES ASSUME tp = "started", SensorDescribed
                PROVE  /\ Within(finger, pad_file.area, Unit + 1) => OnPad
                       /\ OnPad => Within(finger, pad_file.area, -(Unit + 1))
    BY Zenon DEF PadUnderFinger
  <2>1. PICK a : a = pad_file.area
    OBVIOUS
  <2>2. PICK e : e = Edges(sensor, a)
    OBVIOUS
  <2>3. PICK q : q = Spot(sensor, finger)
    OBVIOUS
  <2>4. a \in Areas
    BY <1>1, <2>1, PadIsKnown
  <2>5. sensor \in HWConfig /\ finger.x \in Int /\ finger.y \in Int /\ Unit \in Nat
    BY <1>1, SensorIsKnown, UnitAssumption DEF PanelInv, FingerSomewhere
  <2>6. /\ e \in Areas /\ q.x \in Int /\ q.y \in Int
        /\ \A k \in Int : Within(finger, a, k) <=> Within(q, e, k)
    BY <2>2, <2>3, <2>4, <2>5, TurnedWithin
  <2>7. OnPad <=> /\ WholeMm(e.x1) <= q.x /\ q.x <= WholeMm(e.x2)
                  /\ WholeMm(e.y1) <= q.y /\ q.y <= WholeMm(e.y2)
    BY <1>1, <2>1, <2>2, <2>3, OnPadMeans
  <2>8. \A v \in {e.x1, e.x2, e.y1, e.y2} :
          WholeMm(v) \in Int /\ v - Unit < WholeMm(v) /\ WholeMm(v) < v + Unit
    BY <2>6, WholeMmBounds DEF Areas
  <2>9. Within(q, e, Unit + 1) => OnPad
    BY <2>5, <2>6, <2>7, <2>8 DEF Within, Areas
  <2>10. OnPad => Within(q, e, -(Unit + 1))
    BY <2>5, <2>6, <2>7, <2>8 DEF Within, Areas
  <2>. QED
    BY <2>1, <2>5, <2>6, <2>9, <2>10
<1>. QED
  BY <1>1, PanelInit, PanelStep, PTL DEF Spec

\* No point is both a key and the pad, if their prints are a millimetre and a unit
\* apart: the two LoadLayout, which cut lengths at different places and disagree
\* on who owns a far edge, never hand one contact to both devices.
THEOREM ContactsHaveOneOwner ==
  ASSUME FilesAreTrue, SensorsAreFine, NotUpsideDown
  PROVE  Spec => []OneOwner
<1>1. ASSUME PanelInv PROVE OneOwner
  <2>. SUFFICES ASSUME kbd = "started", tp = "started", SensorDescribed, KeysDescribed,
                       NEW i \in DOMAIN key_file.keys,
                       Apart(key_file.keys[i].area, pad_file.area, Unit + 1)
                PROVE  ~(OnKey(i) /\ OnPad)
    BY Zenon DEF OneOwner
  <2>1. PICK a, b : a = key_file.keys[i].area /\ b = pad_file.area
    OBVIOUS
  <2>2. PICK e, f : e = Edges(sensor, a) /\ f = Edges(sensor, b)
    OBVIOUS
  <2>3. PICK q : q = Spot(sensor, finger)
    OBVIOUS
  <2>4. a \in Areas /\ b \in Areas
    BY <1>1, <2>1, KeysAreKnown, PadIsKnown
  <2>5. sensor \in HWConfig /\ finger.x \in Int /\ finger.y \in Int /\ Unit \in Nat
    BY <1>1, SensorIsKnown, UnitAssumption DEF PanelInv, FingerSomewhere
  <2>6. e \in Areas /\ f \in Areas /\ q.x \in Int /\ q.y \in Int
    BY <2>2, <2>3, <2>4, <2>5, TurnedWithin
  <2>7. Apart(e, f, Unit + 1)
    BY <2>1, <2>2, <2>4, <2>5, TurnedApart
  <2>8. OnKey(i) <=> e.x1 <= q.x /\ q.x < e.x2 /\ e.y1 <= q.y /\ q.y < e.y2
    BY <1>1, <2>1, <2>2, <2>3, OnKeyMeans
  <2>9. OnPad <=> /\ WholeMm(f.x1) <= q.x /\ q.x <= WholeMm(f.x2)
                  /\ WholeMm(f.y1) <= q.y /\ q.y <= WholeMm(f.y2)
    BY <1>1, <2>1, <2>2, <2>3, OnPadMeans
  <2>10. \A v \in {f.x1, f.x2, f.y1, f.y2} :
          WholeMm(v) \in Int /\ v - Unit < WholeMm(v) /\ WholeMm(v) < v + Unit
    BY <2>6, WholeMmBounds DEF Areas
  <2>. QED
    BY <2>5, <2>6, <2>7, <2>8, <2>9, <2>10 DEF Apart, Areas
<1>. QED
  BY <1>1, PanelInit, PanelStep, PTL DEF Spec
\* A distance in points is that distance on the panel, up to the cut millimetre.
Near(points, len, res, dim) ==
  /\ points * dim - len * res <= (Unit + 2) * res
  /\ len * res - points * dim <= (Unit + 2) * res

LEMMA NearAxis ==
  ASSUME NEW u \in Int, NEW v \in Int, NEW res \in Nat, NEW d \in Nat \ {0}, d <= res
  PROVE  /\ Near(Trunc(u * res, d) - Trunc(WholeMm(v) * res, d), u - v, res, d)
         /\ Near(Trunc(WholeMm(v) * res, d) - Trunc(u * res, d), v - u, res, d)
<1>1. PICK t \in Int, w \in Int : t = Trunc(u * res, d) /\ w = Trunc(WholeMm(v) * res, d)
  <2>1. WholeMm(v) \in Int
    BY WholeMmBounds
  <2>2. u * res \in Int /\ WholeMm(v) * res \in Int
    BY <2>1
  <2>. QED
    BY <2>2, TruncBounds
<1>2. /\ (t - w) * d - (u - v) * res <= (Unit + 2) * res
      /\ (u - v) * res - (t - w) * d <= (Unit + 2) * res
  BY <1>1, DistanceFromEdge
<1>3. PICK p \in Int, dist \in Int, most \in Int :
        p = (t - w) * d /\ dist = (u - v) * res /\ most = (Unit + 2) * res
  BY UnitAssumption
<1>4. (w - t) * d = -p /\ (v - u) * res = -dist
  BY <1>3
<1>5. p - dist <= most /\ dist - p <= most
  BY <1>2, <1>3
<1>6. Near(t - w, u - v, res, d)
  BY <1>2 DEF Near
<1>7. Near(w - t, v - u, res, d)
  BY <1>3, <1>4, <1>5 DEF Near
<1>. QED
  BY <1>1, <1>6, <1>7

LEMMA NearEdge ==
  ASSUME NEW s \in HWConfig, FinePitch(s), NEW u \in Int, NEW v \in Int
  PROVE  /\ Near(PointsX(s, u) - PointsX(s, WholeMm(v)), u - v, s.res_x, s.width_mm)
         /\ Near(PointsY(s, u) - PointsY(s, WholeMm(v)), u - v, s.res_y, s.height_mm)
         /\ Near(PointsX(s, WholeMm(v)) - PointsX(s, u), v - u, s.res_x, s.width_mm)
         /\ Near(PointsY(s, WholeMm(v)) - PointsY(s, u), v - u, s.res_y, s.height_mm)
<1>1. /\ s.res_x \in Nat /\ s.res_y \in Nat
      /\ s.width_mm \in Nat \ {0} /\ s.height_mm \in Nat \ {0}
      /\ s.width_mm <= s.res_x /\ s.height_mm <= s.res_y
  BY DEF HWConfig, FinePitch
<1>. QED
  BY <1>1, NearAxis DEF PointsX, PointsY

\* The distances from the corner of a touchpad, from whichever edge of the sensor
\* they are measured.
LEMMA NearCorner ==
  ASSUME NEW s \in HWConfig, FinePitch(s), NEW a \in Areas, NEW p, p.x \in Int, p.y \in Int
  PROVE  LET q   == InPoints(s, Spot(s, p))
             out == PadPosition(s, PadArea(s, a), q.x, q.y)
             right == p.x - a.x1
             down  == p.y - a.y1
         IN  IF s.rotation \in {0, 180}
             THEN Near(out.x, right, s.res_x, s.width_mm) /\ Near(out.y, down, s.res_y, s.height_mm)
             ELSE Near(out.x, right, s.res_y, s.height_mm) /\ Near(out.y, down, s.res_x, s.width_mm)
<1>. DEFINE right == p.x - a.x1
            down == p.y - a.y1
            Goal(out) == IF s.rotation \in {0, 180}
             THEN Near(out.x, right, s.res_x, s.width_mm) /\ Near(out.y, down, s.res_y, s.height_mm)
             ELSE Near(out.x, right, s.res_y, s.height_mm) /\ Near(out.y, down, s.res_x, s.width_mm)
<1>1. PICK e : e = Edges(s, a)
  OBVIOUS
<1>2. PICK o : o = Spot(s, p)
  OBVIOUS
<1>3. PICK out : out = PadPosition(s, PadArea(s, a), InPoints(s, o).x, InPoints(s, o).y)
  OBVIOUS
<1>4. e \in Areas /\ o.x \in Int /\ o.y \in Int
  BY <1>1, <1>2, TurnedWithin
<1>5. /\ s.rotation \in {0, 90, 180, 270}
      /\ s.res_x \in Nat /\ s.res_y \in Nat
      /\ s.width_mm \in Nat \ {0} /\ s.height_mm \in Nat \ {0}
      /\ s.width_mm <= s.res_x /\ s.height_mm <= s.res_y
      /\ s.left_margin_mm \in Int /\ s.top_margin_mm \in Int
  BY DEF HWConfig, FinePitch
<1>6. a.x1 \in Int /\ a.x2 \in Int /\ a.y1 \in Int /\ a.y2 \in Int
      /\ e.x1 \in Int /\ e.x2 \in Int /\ e.y1 \in Int /\ e.y2 \in Int
  BY <1>4 DEF Areas
<1>7. PICK X1, X2, Y1, Y2, X, Y :
        /\ X1 = PointsX(s, WholeMm(e.x1)) /\ X2 = PointsX(s, WholeMm(e.x2))
        /\ Y1 = PointsY(s, WholeMm(e.y1)) /\ Y2 = PointsY(s, WholeMm(e.y2))
        /\ X = PointsX(s, o.x) /\ Y = PointsY(s, o.y)
  OBVIOUS
<1>8. X1 \in Int /\ X2 \in Int /\ Y1 \in Int /\ Y2 \in Int /\ X \in Int /\ Y \in Int
  BY <1>4, <1>6, <1>7, PointsMonotone, WholeMmBounds
<1>9. PadArea(s, a) = [x1 |-> X1, x2 |-> X2, y1 |-> Y1, y2 |-> Y2]
      /\ InPoints(s, o) = [x |-> X, y |-> Y]
  BY <1>1, <1>7 DEF PadArea, InPoints
\* The four distances there are.
<1>10. /\ Near(X - X1, o.x - e.x1, s.res_x, s.width_mm)
       /\ Near(Y - Y1, o.y - e.y1, s.res_y, s.height_mm)
       /\ Near(X2 - X, e.x2 - o.x, s.res_x, s.width_mm)
       /\ Near(Y2 - Y, e.y2 - o.y, s.res_y, s.height_mm)
  BY <1>4, <1>6, <1>7, NearEdge
<1>11. Goal(out)
  <2>1. CASE s.rotation = 0
    <3>1. out = [x |-> X - X1, y |-> Y - Y1]
      BY <1>3, <1>9, <2>1 DEF PadPosition
    <3>2. o.x - e.x1 = right /\ o.y - e.y1 = down
      BY <1>1, <1>2, <1>5, <1>6, <2>1 DEF Edges, Spot, Dot
    <3>. HIDE DEF right, down
    <3>. QED
      BY <1>10, <2>1, <3>1, <3>2
  <2>2. CASE s.rotation = 90
    <3>1. out = [x |-> (Y2 - Y1) - (Y - Y1), y |-> X - X1]
      BY <1>3, <1>9, <2>2 DEF PadPosition
    <3>2. e.y2 - o.y = right /\ o.x - e.x1 = down
      BY <1>1, <1>2, <1>5, <1>6, <2>2 DEF Edges, Spot, Dot
    <3>3. (Y2 - Y1) - (Y - Y1) = Y2 - Y
      BY <1>8
    <3>. HIDE DEF right, down
    <3>. QED
      BY <1>10, <2>2, <3>1, <3>2, <3>3
  <2>3. CASE s.rotation = 180
    <3>1. out = [x |-> (X2 - X1) - (X - X1), y |-> (Y2 - Y1) - (Y - Y1)]
      BY <1>3, <1>9, <2>3 DEF PadPosition
    <3>2. e.x2 - o.x = right /\ e.y2 - o.y = down
      BY <1>1, <1>2, <1>5, <1>6, <2>3 DEF Edges, Spot, Dot
    <3>3. (X2 - X1) - (X - X1) = X2 - X /\ (Y2 - Y1) - (Y - Y1) = Y2 - Y
      BY <1>8
    <3>. HIDE DEF right, down
    <3>. QED
      BY <1>10, <2>3, <3>1, <3>2, <3>3
  <2>4. CASE s.rotation = 270
    <3>1. out = [x |-> Y - Y1, y |-> (X2 - X1) - (X - X1)]
      BY <1>3, <1>9, <2>4 DEF PadPosition
    <3>2. o.y - e.y1 = right /\ e.x2 - o.x = down
      BY <1>1, <1>2, <1>5, <1>6, <2>4 DEF Edges, Spot, Dot
    <3>3. (X2 - X1) - (X - X1) = X2 - X
      BY <1>8
    <3>. HIDE DEF right, down
    <3>. QED
      BY <1>10, <2>4, <3>1, <3>2, <3>3
  <2>. QED
    BY <1>5, <2>1, <2>2, <2>3, <2>4
<1>. QED
  BY <1>2, <1>3, <1>11

\* The virtual touchpad shows a finger as far from its corner as the user sees it
\* from the pad's, on either axis and for every mounting: what PassEventsThrough
\* makes of a position undoes what LoadLayout did to the area, up to the cut
\* millimetre, and stays in the range that Start() announced.
THEOREM PadShowsTheFinger ==
  ASSUME FilesAreTrue, SensorsAreFine
  PROVE  Spec => []PadShowsFinger
<1>1. ASSUME PanelInv PROVE PadShowsFinger
  <2>. SUFFICES ASSUME tp = "started", SensorDescribed, OnPad
                PROVE  LET out == PadPosition(hw, region, Reading.x, Reading.y)
                           size == PadSize(hw, region)
                           right == finger.x - pad_file.area.x1
                           down  == finger.y - pad_file.area.y1
                       IN  /\ out.x \in 0 .. size.x /\ out.y \in 0 .. size.y
                           /\ IF sensor.rotation \in {0, 180}
                              THEN /\ Near(out.x, right, sensor.res_x, sensor.width_mm)
                                   /\ Near(out.y, down, sensor.res_y, sensor.height_mm)
                              ELSE /\ Near(out.x, right, sensor.res_y, sensor.height_mm)
                                   /\ Near(out.y, down, sensor.res_x, sensor.width_mm)
    BY Zenon DEF PadShowsFinger, Near
  <2>1. /\ hw = sensor /\ sensor \in HWConfig /\ FinePitch(sensor)
        /\ Spot(sensor, finger).x \in Int /\ Spot(sensor, finger).y \in Int
        /\ Reading = InPoints(sensor, Spot(sensor, finger))
    BY <1>1, SensorIsKnown
  <2>2. pad_file.area \in Areas /\ region = PadArea(sensor, pad_file.area)
    BY <1>1, PadIsKnown
  <2>3. finger.x \in Int /\ finger.y \in Int
    BY <1>1 DEF PanelInv, FingerSomewhere
  <2>4. region \in Areas
    <3>1. PICK e : e = Edges(sensor, pad_file.area)
      OBVIOUS
    <3>2. e.x1 \in Int /\ e.x2 \in Int /\ e.y1 \in Int /\ e.y2 \in Int
      BY <2>1, <2>2, <2>3, <3>1, TurnedWithin DEF Areas
    <3>3. \A v \in {e.x1, e.x2, e.y1, e.y2} :
            PointsX(sensor, WholeMm(v)) \in Int /\ PointsY(sensor, WholeMm(v)) \in Int
      BY <2>1, <3>2, WholeMmBounds, PointsMonotone
    <3>. QED
      BY <2>2, <3>1, <3>3 DEF PadArea, Areas
  <2>5. Reading.x \in Int /\ Reading.y \in Int
    BY <2>1, PointsMonotone DEF InPoints
  <2>6. PadContains(region, Reading.x, Reading.y)
    BY DEF OnPad
  <2>7. /\ PadPosition(hw, region, Reading.x, Reading.y).x \in 0 .. PadSize(hw, region).x
        /\ PadPosition(hw, region, Reading.x, Reading.y).y \in 0 .. PadSize(hw, region).y
    BY <2>1, <2>4, <2>5, <2>6, PadStaysInRange
  <2>. QED
    BY <2>1, <2>2, <2>3, <2>7, NearCorner
<1>. QED
  BY <1>1, PanelInit, PanelStep, PTL DEF Spec

\* The middle of each axis of the sensor, counted from either end of it.
LEMMA MiddleOfTheAxes ==
  ASSUME NEW s \in HWConfig, FinePitch(s), NEW m \in Int
  PROVE  /\ 2 * (m + 1) < s.width_mm =>
              /\ PointsX(s, m) < s.res_x \div 2
              /\ s.res_x - PointsX(s, s.width_mm - m) < s.res_x \div 2
         /\ 2 * (m - 1) > s.width_mm =>
              /\ PointsX(s, m) >= s.res_x \div 2
              /\ s.res_x - PointsX(s, s.width_mm - m) >= s.res_x \div 2
         /\ 2 * (m + 1) < s.height_mm =>
              /\ PointsY(s, m) < s.res_y \div 2
              /\ s.res_y - PointsY(s, s.height_mm - m) < s.res_y \div 2
         /\ 2 * (m - 1) > s.height_mm =>
              /\ PointsY(s, m) >= s.res_y \div 2
              /\ s.res_y - PointsY(s, s.height_mm - m) >= s.res_y \div 2
<1>1. PICK rx \in Nat, ry \in Nat, w \in Nat \ {0}, h \in Nat \ {0} :
        /\ rx = s.res_x /\ ry = s.res_y /\ w = s.width_mm /\ h = s.height_mm
        /\ w <= rx /\ h <= ry
  BY DEF HWConfig, FinePitch
<1>2. /\ 2 * (m + 1) < w => Trunc(m * rx, w) < rx \div 2
      /\ 2 * (m - 1) > w => Trunc(m * rx, w) >= rx \div 2
  BY <1>1, MiddleOfPoints
<1>3. /\ 2 * (m + 1) < h => Trunc(m * ry, h) < ry \div 2
      /\ 2 * (m - 1) > h => Trunc(m * ry, h) >= ry \div 2
  BY <1>1, MiddleOfPoints
<1>4. /\ 2 * (m + 1) < w => rx - Trunc((w - m) * rx, w) < rx \div 2
      /\ 2 * (m - 1) > w => rx - Trunc((w - m) * rx, w) >= rx \div 2
  BY <1>1, MiddleFromTheOtherEnd
<1>5. /\ 2 * (m + 1) < h => ry - Trunc((h - m) * ry, h) < ry \div 2
      /\ 2 * (m - 1) > h => ry - Trunc((h - m) * ry, h) >= ry \div 2
  BY <1>1, MiddleFromTheOtherEnd
<1>. QED
  BY <1>1, <1>2, <1>3, <1>4, <1>5, Zenon DEF PointsX, PointsY

\* A press is felt on the finger's side: EventTriggered, which knows nothing of
\* millimetres or margins, halves the panel where the user does, up to a unit.
THEOREM MotorIsUnderFinger ==
  ASSUME FilesAreTrue, SensorsAreFine
  PROVE  Spec => []MotorUnderFinger
<1>1. ASSUME PanelInv PROVE MotorUnderFinger
  <2>. DEFINE s == sensor
              x == s.left_margin_mm + finger.x
              width == IF s.rotation \in {0, 180} THEN s.width_mm ELSE s.height_mm
  <2>. SUFFICES ASSUME kbd = "started", SensorDescribed
                PROVE  /\ 2 * (x + 1) < width => LeftMotor(hw, Reading.x, Reading.y)
                       /\ 2 * (x - 1) > width => ~LeftMotor(hw, Reading.x, Reading.y)
    BY Zenon DEF MotorUnderFinger
  <2>1. /\ hw = s /\ s \in HWConfig /\ FinePitch(s)
        /\ Reading = InPoints(s, Spot(s, finger))
    BY <1>1, SensorIsKnown
  <2>2. /\ s.rotation \in {0, 90, 180, 270}
        /\ s.res_x \in Nat /\ s.res_y \in Nat
        /\ s.width_mm \in Nat \ {0} /\ s.height_mm \in Nat \ {0}
        /\ s.width_mm <= s.res_x /\ s.height_mm <= s.res_y
        /\ s.left_margin_mm \in Int /\ s.top_margin_mm \in Int
        /\ finger.x \in Int /\ finger.y \in Int
    BY <1>1, <2>1 DEF HWConfig, FinePitch, PanelInv, FingerSomewhere
  <2>3. PICK m \in Int : m = x
    BY <2>2
  <2>4. CASE s.rotation = 0
    <3>1. Spot(s, finger).x = m
      BY <2>2, <2>3, <2>4 DEF Spot, Dot, Edges
    <3>2. LeftMotor(hw, Reading.x, Reading.y) <=> PointsX(s, m) < s.res_x \div 2
      BY <2>1, <2>4, <3>1 DEF LeftMotor, TouchMaxX, InPoints
    <3>3. PointsX(s, m) \in Int /\ s.res_x \div 2 \in Int
      BY <2>1, <2>2, PointsMonotone, Halves
    <3>4. /\ 2 * (m + 1) < s.width_mm => PointsX(s, m) < s.res_x \div 2
          /\ 2 * (m - 1) > s.width_mm => PointsX(s, m) >= s.res_x \div 2
      BY <2>1, MiddleOfTheAxes
    <3>5. width = s.width_mm
      BY <2>2, <2>4
    <3>. HIDE DEF x, width
    <3>. QED
      BY <2>2, <2>3, <3>2, <3>3, <3>4, <3>5
  <2>5. CASE s.rotation = 90
    <3>1. Spot(s, finger).y = s.height_mm - m
      BY <2>2, <2>3, <2>5 DEF Spot, Dot, Edges
    <3>2. LeftMotor(hw, Reading.x, Reading.y) <=>
            s.res_y - PointsY(s, s.height_mm - m) < s.res_y \div 2
      BY <2>1, <2>5, <3>1 DEF LeftMotor, TouchMaxX, InPoints
    <3>3. PointsY(s, s.height_mm - m) \in Int /\ s.res_y \div 2 \in Int
      BY <2>1, <2>2, PointsMonotone, Halves
    <3>4. /\ 2 * (m + 1) < s.height_mm => s.res_y - PointsY(s, s.height_mm - m) < s.res_y \div 2
          /\ 2 * (m - 1) > s.height_mm => s.res_y - PointsY(s, s.height_mm - m) >= s.res_y \div 2
      BY <2>1, MiddleOfTheAxes
    <3>5. width = s.height_mm
      BY <2>2, <2>5
    <3>. HIDE DEF x, width
    <3>. QED
      BY <2>2, <2>3, <3>2, <3>3, <3>4, <3>5
  <2>6. CASE s.rotation = 180
    <3>1. Spot(s, finger).x = s.width_mm - m
      BY <2>2, <2>3, <2>6 DEF Spot, Dot, Edges
    <3>2. LeftMotor(hw, Reading.x, Reading.y) <=>
            s.res_x - PointsX(s, s.width_mm - m) < s.res_x \div 2
      BY <2>1, <2>6, <3>1 DEF LeftMotor, TouchMaxX, InPoints
    <3>3. PointsX(s, s.width_mm - m) \in Int /\ s.res_x \div 2 \in Int
      BY <2>1, <2>2, PointsMonotone, Halves
    <3>4. /\ 2 * (m + 1) < s.width_mm => s.res_x - PointsX(s, s.width_mm - m) < s.res_x \div 2
          /\ 2 * (m - 1) > s.width_mm => s.res_x - PointsX(s, s.width_mm - m) >= s.res_x \div 2
      BY <2>1, MiddleOfTheAxes
    <3>5. width = s.width_mm
      BY <2>2, <2>6
    <3>. HIDE DEF x, width
    <3>. QED
      BY <2>2, <2>3, <3>2, <3>3, <3>4, <3>5
  <2>7. CASE s.rotation = 270
    <3>1. Spot(s, finger).y = m
      BY <2>2, <2>3, <2>7 DEF Spot, Dot, Edges
    <3>2. LeftMotor(hw, Reading.x, Reading.y) <=> PointsY(s, m) < s.res_y \div 2
      BY <2>1, <2>7, <3>1 DEF LeftMotor, TouchMaxX, InPoints
    <3>3. PointsY(s, m) \in Int /\ s.res_y \div 2 \in Int
      BY <2>1, <2>2, PointsMonotone, Halves
    <3>4. /\ 2 * (m + 1) < s.height_mm => PointsY(s, m) < s.res_y \div 2
          /\ 2 * (m - 1) > s.height_mm => PointsY(s, m) >= s.res_y \div 2
      BY <2>1, MiddleOfTheAxes
    <3>5. width = s.height_mm
      BY <2>2, <2>7
    <3>. HIDE DEF x, width
    <3>. QED
      BY <2>2, <2>3, <3>2, <3>3, <3>4, <3>5
  <2>. QED
    BY <2>2, <2>4, <2>5, <2>6, <2>7
<1>. QED
  BY <1>1, PanelInit, PanelStep, PTL DEF Spec
=============================================================================
