---------------------------- MODULE FieldDecimal ----------------------------
(***************************************************************************)
(* FieldDecimalDyScale of src/fon9/seed/FieldDecimal.hpp: the field that   *)
(* MakeField makes for "Sn.s" and "Un.s", a cell of n bytes holding a      *)
(* decimal with s decimals as an integer of the cell's type (ValueT), one  *)
(* value of which, kOrigNull, stands for Null.                             *)
(*                                                                         *)
(* A field is [sign |-> "S" or "U", size |-> n, scale |-> s], and a cell   *)
(* is the integer it holds.  Each member function is an operator over the *)
(* field and the cell; one that writes returns the new cell.               *)
(*                                                                         *)
(* DecimalAux<ValueT>::OrigNull, AdjustDecScale, DecToBitv and             *)
(* BitvToNumber are in Decimal.hpp and the Bitv codec, outside the         *)
(* sources: OrigNull is the least value of a signed type and the largest  *)
(* of an unsigned one, AdjustDecScale multiplies or divides (truncating)  *)
(* by a power of ten, and a Bitv number carries its kind, value and scale.*)
(***************************************************************************)
EXTENDS Integers, Sequences

(* The range of ValueT and static_cast<ValueT>: two's complement wrap.   *)
Modulus(f) == 2 ^ (8 * f.size)
ValueMin(f) == IF f.sign = "S" THEN -(Modulus(f) \div 2) ELSE 0
ValueMax(f) == ValueMin(f) + Modulus(f) - 1
ValueCast(f, x) ==
    LET r == x % Modulus(f) IN IF r > ValueMax(f) THEN r - Modulus(f) ELSE r

kOrigNull(f) == IF f.sign = "S" THEN ValueMin(f) ELSE ValueMax(f)

(* C++ integer division truncates toward zero.                            *)
TruncDiv(a, b) == IF a >= 0 THEN a \div b ELSE -((-a) \div b)
AdjustDecScale(v, fromScale, toScale) ==
    IF fromScale < toScale THEN v * 10 ^ (toScale - fromScale)
    ELSE TruncDiv(v, 10 ^ (fromScale - toScale))

(* Compare2Values: -1, 0 or 1.                                            *)
Compare2Values(a, b) == IF a < b THEN -1 ELSE IF b < a THEN 1 ELSE 0

(* A Bitv number as DecToBitv writes it and BitvToNumber reads it back.   *)
DecToBitv(v, scale) ==
    [Type_ |-> IF v = 0 THEN "Zero" ELSE IF v < 0 THEN "Neg" ELSE "Pos",
     Num_ |-> v, Scale_ |-> scale]
BitvNull == [Type_ |-> "Null", Num_ |-> 0, Scale_ |-> 0]

-----------------------------------------------------------------------------
(* CellRevPrint: nothing for Null, else the IntScale of the cell.         *)
CellRevPrint(f, v) ==
    IF v # kOrigNull(f) THEN <<[OrigValue_ |-> v, Scale_ |-> f.scale]>> ELSE <<>>

CellToBitv(f, v) == DecToBitv(v, f.scale)

(* BitvToCell: the new cell, or the cell unchanged and err TRUE when a    *)
(* negative number reaches an unsigned field (Raise<BitvSignedError>).    *)
BitvToCell(f, v, numr) ==
    CASE numr.Type_ = "Null" -> [cell |-> kOrigNull(f), err |-> FALSE]
      [] numr.Type_ = "Zero" -> [cell |-> 0, err |-> FALSE]
      [] numr.Type_ = "Neg" /\ f.sign = "U" -> [cell |-> v, err |-> TRUE]
      [] OTHER -> [cell |-> ValueCast(f, AdjustDecScale(numr.Num_, numr.Scale_, f.scale)),
                   err |-> FALSE]

(* Mutant: the Null test is left out.                                     *)
GetNumberNoNullCheck(f, v, outDecScale, nullValue) ==
    AdjustDecScale(v, f.scale, outDecScale)

GetNumber(f, v, outDecScale, nullValue) ==
    IF v # kOrigNull(f) THEN AdjustDecScale(v, f.scale, outDecScale) ELSE nullValue

PutNumber(f, num, decScale) == ValueCast(f, AdjustDecScale(num, decScale, f.scale))

GetNullValue(f) == kOrigNull(f)
SetNull(f) == kOrigNull(f)
IsNull(f, v) == v = kOrigNull(f)
Compare(f, lhs, rhs) == Compare2Values(lhs, rhs)

(* AppendRawBytes: the sizeof(ValueT) bytes of the cell, least           *)
(* significant first (the byte order of the x86 builds).                  *)
AppendRawBytes(f, v) ==
    LET u == v % Modulus(f) IN [i \in 1..f.size |-> (u \div 256 ^ (i - 1)) % 256]

(* CompareRawBytes: bytes of another length compare as Null.             *)
CompareRawBytes(f, v, rhs) ==
    LET rval == IF Len(rhs) = f.size
                THEN ValueCast(f, LET R[i \in 0..f.size] ==
                                        IF i = 0 THEN 0 ELSE R[i - 1] + rhs[i] * 256 ^ (i - 1)
                                  IN R[f.size])
                ELSE kOrigNull(f)
    IN  Compare2Values(v, rval)
====
