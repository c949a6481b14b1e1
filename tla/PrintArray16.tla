---------------------------- MODULE PrintArray16 ----------------------------
(***************************************************************************)
(* printArray16 of optiga_app.c: an array printed in rows of sixteen, the  *)
(* remainder in a row of its own, first if header is set and else last.    *)
(* The loops go byte by byte; rows is what they have printed, each row as  *)
(* the range [from, to) of the array.                                      *)
(***************************************************************************)
EXTENDS Sequences, Integers

CONSTANT ArrayLengths   \* the lengths that callers pass

ASSUME ArrayAssumption == ArrayLengths \subseteq Nat

VARIABLES line,      \* where the function is
          length, header, i, j,
          rows

arrayVars == <<line, length, header, i, j, rows>>

Width == 16

rem == length % Width

ArrayInit ==
  /\ line = "idle" /\ length = 0 /\ header = "no" /\ i = 0 /\ j = 0
  /\ rows = << >>

PrintArray(n, h) ==
  /\ line = "idle" /\ line' = "head"
  /\ length' = n /\ header' = h /\ i' = 0
  /\ UNCHANGED <<j, rows>>

\* The array indices printed since the last end of a row.
Start == IF rows = << >> THEN 0 ELSE rows[Len(rows)].to

EndRow == rows' = Append(rows, [from |-> Start, to |-> i])

\* while (i<rem && header) printHex(array[i++]);
Heading == i < rem /\ header = "yes"

HeadByte ==
  /\ line = "head" /\ Heading
  /\ i' = i + 1
  /\ UNCHANGED <<line, length, header, j, rows>>

HeadDone ==
  /\ line = "head" /\ ~Heading
  /\ line' = "rows"
  /\ IF rem # 0 /\ header = "yes" THEN EndRow ELSE UNCHANGED rows
  /\ UNCHANGED <<length, header, i, j>>

\* while (i<length): one more row.
RowBegin ==
  /\ line = "rows" /\ i < length
  /\ line' = "row" /\ j' = 0
  /\ UNCHANGED <<length, header, i, rows>>

\* A row of seventeen.
Mutant_RowTooLong ==
  /\ line = "row" /\ j =< Width /\ i < length
  /\ i' = i + 1 /\ j' = j + 1
  /\ UNCHANGED <<line, length, header, rows>>

\* for(int j=0; j<16 && i<length; j++) printHex(array[i++]);
RowByte ==
  /\ line = "row" /\ j < Width /\ i < length
  /\ i' = i + 1 /\ j' = j + 1
  /\ UNCHANGED <<line, length, header, rows>>

RowEnd ==
  /\ line = "row" /\ (j >= Width \/ i >= length)
  /\ line' = "rows" /\ j' = 0 /\ EndRow
  /\ UNCHANGED <<length, header, i>>

ArrayDone ==
  /\ line = "rows" /\ i >= length
  /\ line' = "done"
  /\ UNCHANGED <<length, header, i, j, rows>>

ArrayReturn ==
  /\ line = "done"
  /\ line' = "idle" /\ length' = 0 /\ header' = "no" /\ i' = 0 /\ j' = 0
  /\ rows' = << >>

ArrayNext == \/ \E n \in ArrayLengths, h \in {"yes", "no"} : PrintArray(n, h)
             \/ HeadByte \/ HeadDone \/ RowBegin \/ RowByte \/ RowEnd
             \/ ArrayDone \/ ArrayReturn

ArraySpec == ArrayInit /\ [][ArrayNext]_arrayVars

----------------------------------------------------------------------------
(* Correctness. *)

\* The row that holds the remainder, if there is one.
IsRemainder(k) == rem # 0 /\ k = IF header = "yes" THEN 1 ELSE Len(rows)

\* When the function is done the rows are the array, each byte once and in
\* order; all are of sixteen bytes, but the first (header) or the last one
\* holds the remainder, and none is empty.
RowsRight ==
  line = "done" =>
    /\ Start = length
    /\ \A k \in DOMAIN rows :
         /\ rows[k].from = IF k = 1 THEN 0 ELSE rows[k - 1].to
         /\ rows[k].to - rows[k].from = IF IsRemainder(k) THEN rem ELSE Width
=============================================================================
