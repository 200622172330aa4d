------------------------------- MODULE ToStr -------------------------------
(***************************************************************************)
(* The number-to-text conversions of src/fon9/ToStr.cpp.  Each of them    *)
(* writes backwards in front of pout; here a conversion takes the text    *)
(* already in front of pout (out) and returns the text from the new pout  *)
(* on.  A character is a one-character string.                            *)
(*                                                                         *)
(* NumPunct_Current (declared outside the sources) supplies IntSep_,      *)
(* DecPoint_ and Grouping_, an array of GroupingSize group sizes that     *)
(* follows the numpunct convention: sizes from the right, a 0 or the end  *)
(* of the array repeats the last size.                                    *)
(***************************************************************************)
EXTENDS Naturals, Sequences, SequencesExt

CONSTANTS
    GroupingSize,   \* sizeof(NumPunct_Current.Grouping_)
    IntSep,         \* NumPunct_Current.IntSep_
    DecPoint        \* NumPunct_Current.DecPoint_

LowerMap == <<"0","1","2","3","4","5","6","7","8","9","a","b","c","d","e","f">>
UpperMap == <<"0","1","2","3","4","5","6","7","8","9","A","B","C","D","E","F">>

(* static_cast<char>(d) + '0' *)
DigitChar(d) == LowerMap[d + 1]

-----------------------------------------------------------------------------
(* static HexToStrRev(pout, value, map2Hchar): one digit per nibble, at   *)
(* least one.                                                              *)
RECURSIVE HexToStrRevMap(_, _, _)
HexToStrRevMap(out, value, map) ==
    LET out1 == <<map[(value % 16) + 1]>> \o out
    IN  IF value \div 16 = 0 THEN out1 ELSE HexToStrRevMap(out1, value \div 16, map)

HexToStrRev(out, value) == HexToStrRevMap(out, value, LowerMap)
HEXToStrRev(out, value) == HexToStrRevMap(out, value, UpperMap)

IsX(c) == c \in {"x", "X"}

(* Mutant: the "0x..." case falls through and gets a second prefix.       *)
HexLeadRevNo0x(s, chX) ==
    IF s = <<>> \/ IsX(s[1]) \/ s = <<"0">> THEN s ELSE <<chX>> \o s

(* HexLeadRev(pout, pend, chX): s is [pout, pend).  Leaves "", "x...",    *)
(* "0" and "0x..." alone and puts chX in front of anything else.           *)
HexLeadRev(s, chX) ==
    IF \/ s = <<>> \/ IsX(s[1]) \/ s = <<"0">>
       \/ s[1] = "0" /\ IsX(s[2])
    THEN s
    ELSE <<chX>> \o s

-----------------------------------------------------------------------------
(* UIntToStrRev: plain decimal digits, at least one.                      *)
RECURSIVE UIntToStrRev(_, _)
UIntToStrRev(out, value) ==
    LET out1 == <<DigitChar(value % 10)>> \o out
    IN  IF value \div 10 = 0 THEN out1 ELSE UIntToStrRev(out1, value \div 10)

GroupingEND == GroupingSize + 1

(* Mutant: iSepCount not reset after a separator.                         *)
RECURSIVE IntSepLoopNoReset(_, _, _, _, _, _)
IntSepLoopNoReset(out, value, cnt, nsep, gi, g) ==
    LET out1 == <<DigitChar(value % 10)>> \o out
        v1   == value \div 10
    IN  IF v1 = 0 THEN out1
        ELSE IF (cnt + 1) % 256 # nsep
        THEN IntSepLoopNoReset(out1, v1, (cnt + 1) % 256, nsep, gi, g)
        ELSE LET adv  == gi + 1 < GroupingEND
                 gi1  == IF adv THEN gi + 1 ELSE gi
                 n    == IF adv THEN g[gi1] ELSE 0
             IN  IntSepLoopNoReset(<<IntSep>> \o out1, v1, (cnt + 1) % 256,
                                   IF n # 0 THEN n ELSE nsep,
                                   IF adv /\ n = 0 THEN GroupingEND ELSE gi1, g)

(* The for(;;) loop of UIntToStrRev_IntSep: cnt = iSepCount (unsigned     *)
(* char), nsep the current group size, gi the index of pGrouping, with    *)
(* GroupingEND for pGroupingEND.                                           *)
RECURSIVE IntSepLoop(_, _, _, _, _, _)
IntSepLoop(out, value, cnt, nsep, gi, g) ==
    LET out1 == <<DigitChar(value % 10)>> \o out
        v1   == value \div 10
    IN  IF v1 = 0 THEN out1
        ELSE IF (cnt + 1) % 256 # nsep
        THEN IntSepLoop(out1, v1, (cnt + 1) % 256, nsep, gi, g)
        ELSE LET adv  == gi + 1 < GroupingEND
                 gi1  == IF adv THEN gi + 1 ELSE gi
                 n    == IF adv THEN g[gi1] ELSE 0
             IN  IntSepLoop(<<IntSep>> \o out1, v1, 0,
                            IF n # 0 THEN n ELSE nsep,
                            IF adv /\ n = 0 THEN GroupingEND ELSE gi1, g)

(* UIntToStrRev_IntSep(pout, value) with Grouping_ = g.                   *)
UIntToStrRev_IntSep(out, value, g) ==
    IF g[1] = 0 THEN UIntToStrRev(out, value)
    ELSE IntSepLoop(out, value, 0, g[1], 1, g)

-----------------------------------------------------------------------------
(* Mutant: the loop stops one digit late (--scale < 0).                  *)
RECURSIVE AutoPrecDigitsLate(_, _, _)
AutoPrecDigitsLate(out, res, scale) ==
    LET out1 == <<DigitChar(res % 10)>> \o out
    IN  IF scale - 1 < 0 THEN [text |-> <<DecPoint>> \o out1, value |-> res \div 10]
        ELSE AutoPrecDigitsLate(out1, res \div 10, scale - 1)

(* The inner for(;;): once a fraction digit is not zero, every remaining  *)
(* fraction digit is written, then the decimal point.                     *)
RECURSIVE AutoPrecDigits(_, _, _)
AutoPrecDigits(out, res, scale) ==
    LET out1 == <<DigitChar(res % 10)>> \o out
    IN  IF scale - 1 <= 0 THEN [text |-> <<DecPoint>> \o out1, value |-> res \div 10]
        ELSE AutoPrecDigits(out1, res \div 10, scale - 1)

(* PutAutoPrecision(pout, value, scale): the outer for drops trailing     *)
(* zero fraction digits; value becomes the integer part.                  *)
RECURSIVE PutAutoPrecision(_, _, _)
PutAutoPrecision(out, value, scale) ==
    IF scale <= 0 THEN [text |-> out, value |-> value]
    ELSE IF value % 10 # 0 THEN AutoPrecDigits(out, value, scale)
    ELSE PutAutoPrecision(out, value \div 10, scale - 1)
====
