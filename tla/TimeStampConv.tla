--------------------------- MODULE TimeStampConv ---------------------------
(***************************************************************************)
(* The inline conversions of src/fon9/TimeStamp.hpp.  A TimeStamp is      *)
(* seconds since the epoch with 6 decimals; here it is the record         *)
(* [day, sod, us] (days since 1970-01-01, second of the day, the 6        *)
(* decimals), or NullTs.                                                   *)
(*                                                                         *)
(* The 64-bit integers the functions exchange (DateTime14T, OrigType)      *)
(* do not fit TLC's integers, so such a number n >= 0 is the pair          *)
(* [hi |-> n \div 10^6, lo |-> n % 10^6].  kDivHHMMSS is 10^6, so a       *)
(* YYYYMMDDHHMMSS number is [hi |-> YYYYMMDD, lo |-> HHMMSS].              *)
(*                                                                         *)
(* timegm, EpochSecondsInfo, EpochSecondsToYYYYMMDDHHMMSS,                 *)
(* YYYYMMDDHHMMSS_ToEpochSeconds and ToStrRev_Full are outside the         *)
(* sources; they are the proleptic Gregorian calendar of days_from_civil  *)
(* and civil_from_days.                                                    *)
(***************************************************************************)
EXTENDS Integers, Sequences

kDivHHMMSS == 1000000
Wide(n) == [hi |-> n \div kDivHHMMSS, lo |-> n % kDivHHMMSS]
WideAdd(w, n) == [hi |-> w.hi + (w.lo + n) \div kDivHHMMSS, lo |-> (w.lo + n) % kDivHHMMSS]

(* Epoch seconds day * 86400 + sod as a wide number, and back; 86400 is   *)
(* 864 * 100 and 10^6 is 11 * 86400 + 49600.                               *)
EpochWide(day, sod) ==
    LET a == day * 864
        r == (a % 10000) * 100 + sod
    IN  [hi |-> a \div 10000 + r \div kDivHHMMSS, lo |-> r % kDivHHMMSS]
WideEpoch(w) ==
    LET r == w.hi * 49600 + w.lo IN [day |-> w.hi * 11 + r \div 86400, sod |-> r % 86400]

(* days_from_civil: timegm's day count; a month outside 0..11 moves the   *)
(* year (tm_mon is normalised as timegm does).                             *)
DaysFromCivil(y0, mon0, d) ==
    LET y1  == y0 + mon0 \div 12
        m   == (mon0 % 12) + 1
        y   == IF m <= 2 THEN y1 - 1 ELSE y1
        era == y \div 400
        yoe == y - era * 400
        doy == (153 * ((m + 9) % 12) + 2) \div 5 + d - 1
        doe == yoe * 365 + yoe \div 4 - yoe \div 100 + doy
    IN  era * 146097 + doe - 719468

(* civil_from_days: the date EpochSecondsInfo fills in.                   *)
CivilFromDays(z0) ==
    LET z   == z0 + 719468
        era == z \div 146097
        doe == z - era * 146097
        yoe == (doe - doe \div 1460 + doe \div 36524 - doe \div 146096) \div 365
        doy == doe - (365 * yoe + yoe \div 4 - yoe \div 100)
        mp  == (5 * doy + 2) \div 153
        d   == doy - (153 * mp + 2) \div 5 + 1
        m   == IF mp < 10 THEN mp + 3 ELSE mp - 9
    IN  [y |-> yoe + era * 400 + (IF m <= 2 THEN 1 ELSE 0), m |-> m, d |-> d]

-----------------------------------------------------------------------------
(* TimeStamp::ToEpochSeconds: the integer part.                            *)
ToEpochSeconds(ts) == EpochWide(ts.day, ts.sod)

(* stdtm_AssignYYYYMMDD and stdtm_AssignHHMMSS fill a struct tm.           *)
stdtm_AssignYYYYMMDD(t, yyyymmdd) ==
    [t EXCEPT !.tm_mday = yyyymmdd % 100, !.tm_mon = ((yyyymmdd \div 100) % 100) - 1,
              !.tm_year = yyyymmdd \div 10000 - 1900]
stdtm_AssignHHMMSS(t, hhmmss) ==
    [t EXCEPT !.tm_sec = hhmmss % 100, !.tm_min = (hhmmss \div 100) % 100,
              !.tm_hour = hhmmss \div 10000]
NewTm == [tm_year |-> 70, tm_mon |-> 0, tm_mday |-> 1, tm_hour |-> 0, tm_min |-> 0, tm_sec |-> 0]

(* stdtm_ToEpochSeconds: timegm, which also carries a time of day past    *)
(* 23:59:59 into the days.                                                  *)
stdtm_ToEpochSeconds(t) ==
    LET s == (t.tm_hour * 60 + t.tm_min) * 60 + t.tm_sec
    IN  EpochWide(DaysFromCivil(t.tm_year + 1900, t.tm_mon, t.tm_mday) + s \div 86400, s % 86400)

(* EpochSecondsToYYYYMMDDHHMMSS, and its inverse.                           *)
EpochSecondsToYYYYMMDDHHMMSS(w) ==
    LET e == WideEpoch(w)
        c == CivilFromDays(e.day)
    IN  [hi |-> (c.y * 100 + c.m) * 100 + c.d,
         lo |-> ((e.sod \div 3600) * 100 + (e.sod % 3600) \div 60) * 100 + (e.sod % 60)]
YYYYMMDDHHMMSS_ToEpochSeconds(w) ==
    stdtm_ToEpochSeconds(stdtm_AssignHHMMSS(stdtm_AssignYYYYMMDD(NewTm, w.hi), w.lo))

GetYYYYMMDDHHMMSS(ts) == EpochSecondsToYYYYMMDDHHMMSS(ToEpochSeconds(ts))
GetYYYYMMDD(ts) == GetYYYYMMDDHHMMSS(ts).hi
GetHHMMSS(ts) == GetYYYYMMDDHHMMSS(ts).lo

(* EpochSecondsToTimeStamp and YYYYMMDDHHMMSS_ToTimeStamp: no decimals.    *)
EpochSecondsToTimeStamp(w) == LET e == WideEpoch(w) IN [day |-> e.day, sod |-> e.sod, us |-> 0]
YYYYMMDDHHMMSS_ToTimeStamp(w) == EpochSecondsToTimeStamp(YYYYMMDDHHMMSS_ToEpochSeconds(w))

(* Mutant: the time of day is not taken off before hhmmss is added.      *)
TimeStampResetHHMMSSAdd(ts, hhmmss) ==
    YYYYMMDDHHMMSS_ToTimeStamp(WideAdd(GetYYYYMMDDHHMMSS(ts), hhmmss))

(* TimeStampResetHHMMSS(ts, hhmmss): the date of ts at hhmmss; the         *)
(* decimals are gone.                                                      *)
TimeStampResetHHMMSS(ts, hhmmss) ==
    LET n == GetYYYYMMDDHHMMSS(ts) IN YYYYMMDDHHMMSS_ToTimeStamp(WideAdd([n EXCEPT !.lo = 0], hhmmss))

(* Mutant: the test is inum < 9999999999.                                 *)
NumToEpochSecondsBelow(inum) ==
    IF inum.hi < 9999 \/ (inum.hi = 9999 /\ inum.lo < 999999) THEN inum ELSE YYYYMMDDHHMMSS_ToEpochSeconds(inum)

(* NumToEpochSeconds: inum <= 9999999999 is epoch seconds, a larger one    *)
(* YYYYMMDDHHMMSS.  As a wide number inum <= 9999999999 is hi <= 9999.     *)
NumToEpochSeconds(inum) == IF inum.hi <= 9999 THEN inum ELSE YYYYMMDDHHMMSS_ToEpochSeconds(inum)

(* GetDayTime: the second of the day from the struct tm, and the decimals. *)
GetDayTime(ts) ==
    LET c == GetYYYYMMDDHHMMSS(ts).lo
    IN  [sod |-> ((c \div 10000) * 60 + ((c \div 100) % 100)) * 60 + (c % 100), us |-> ts.us]

(* GetWeekday: tm_wday, 0 = Sunday; 1970-01-01 was a Thursday.             *)
GetWeekday(ts) == (ts.day + 4) % 7

-----------------------------------------------------------------------------
(* TimeZoneOffset in minutes; adding it moves a TimeStamp.                 *)
FromOffsetHHMM(hh, mm) == hh * 60 + mm
TsAddZone(ts, ofsMinutes) ==
    LET s == ts.sod + ofsMinutes * 60
    IN  [ts EXCEPT !.day = ts.day + s \div 86400, !.sod = s % 86400]
TsSubZone(ts, ofsMinutes) == TsAddZone(ts, -ofsMinutes)

-----------------------------------------------------------------------------
(* Text: the fixed-width decimal digits of n.                             *)
DigitChar(d) == <<"0", "1", "2", "3", "4", "5", "6", "7", "8", "9">>[d + 1]
Digits(n, w) == [i \in 1..w |-> DigitChar((n \div 10^(w - i)) % 10)]
Spaces(w) == [i \in 1..w |-> " "]

kDateTimeStrWidth == 21

(* TimeStamp::Null().                                                      *)
NullTs == [null |-> TRUE]

(* ToStrRev_Full: "YYYYMMDDHHMMSS.uuuuuu"; nullptr for Null is tested by  *)
(* its callers as ts = NullTs.                                             *)
ToStrRev_Full(ts) ==
    LET n == GetYYYYMMDDHHMMSS(ts) IN Digits(n.hi, 8) \o Digits(n.lo, 6) \o <<".">> \o Digits(ts.us, 6)

(* ToStrRev(pout, ts): the full text, or kDateTimeStrWidth spaces.         *)
TsToStrRev(ts) ==
    IF ts = NullTs THEN Spaces(kDateTimeStrWidth) ELSE ToStrRev_Full(ts)

(* ToStrRev_Date_Time_us: the 8 date characters, '-', the 13 after them;  *)
(* kDateTimeStrWidth + 1 spaces for a Null ts.                             *)
ToStrRev_Date_Time_us(ts) ==
    IF ts = NullTs THEN Spaces(kDateTimeStrWidth + 1)
    ELSE LET p == ToStrRev_Full(ts) IN SubSeq(p, 1, 8) \o <<"-">> \o SubSeq(p, 9, 21)
====
