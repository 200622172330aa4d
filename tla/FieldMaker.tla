----------------------------- MODULE FieldMaker -----------------------------
(***************************************************************************)
(* The field-configuration parser of src/fon9/seed/FieldMaker.cpp:        *)
(* MakeField reads `(flags) Type Name|Title\n`, FieldsMaker::Parse reads  *)
(* a list of them with the redefinition rule, AppendFieldConfig writes a  *)
(* field back.  Text is a sequence of one-character strings.  A field is  *)
(* a record: kind (the Field class made), sign ('S' or 'U' for numbers),  *)
(* size, scale, flags, name and title (the Description_ of Named follows *)
(* the same rules as the title and is left out).                          *)
(*                                                                         *)
(* Declared outside the sources, and modelled from the comments of        *)
(* FieldMaker.hpp: DeserializeNamed / SerializeNamed, the GetTypeId of     *)
(* the non-decimal fields, FieldFlagChar, and the FieldMakerRegister,      *)
(* which here has no registered makers.  DecScaleT is 8 bits wide.       *)
(***************************************************************************)
EXTENDS ToStr, FiniteSets

CONSTANTS ChSpl, ChTail, ReadonlyChar, HideChar

NoField == [kind |-> "none"]

IsSpace(ch) == ch \in {" ", "\n"}
Digits == {DigitChar(d) : d \in 0..9}

(* StrView::Get1st *)
First(s) == IF s = <<>> THEN "EOF" ELSE s[1]
Skip(s, n) == SubSeq(s, n + 1, Len(s))
LeadLen(s, A) == Max({i \in 0..Len(s) : \A j \in 1..i : s[j] \in A})
StrTrimHead(s) == Skip(s, LeadLen(s, {" ", "\n"}))
TrimTail(h) == SubSeq(h, 1, Len(h) - LeadLen(Reverse(h), {" "}))
TrimSp(s) == TrimTail(Skip(s, LeadLen(s, {" "})))
FirstIdx(s, ch) == LET I == {i \in DOMAIN s : s[i] = ch}
                   IN  IF I = {} THEN Len(s) + 1 ELSE Min(I)

RECURSIVE NumVal(_)
NumVal(t) == IF t = <<>> THEN 0
             ELSE NumVal(SubSeq(t, 1, Len(t) - 1)) * 10
                  + (CHOOSE d \in 0..9 : DigitChar(d) = t[Len(t)])

(* StrToCountNum: the leading decimal number, 0 when there is none.       *)
StrToCountNum(s) ==
    LET k == LeadLen(s, Digits) IN [n |-> NumVal(SubSeq(s, 1, k)), rest |-> Skip(s, k)]

(* DeserializeNamed(cfg, chSpl, chTail): the line up to chTail (which is  *)
(* consumed) split at chSpl, each part trimmed.                           *)
NamedParts(name, tl, rest) ==
    [name |-> TrimSp(name), title |-> TrimSp(SubSeq(tl, 1, FirstIdx(tl, ChSpl) - 1)),
     rest |-> rest]
NamedLine(line, rest) ==
    NamedParts(SubSeq(line, 1, FirstIdx(line, ChSpl) - 1), Skip(line, FirstIdx(line, ChSpl)), rest)
DeserializeNamed(s) ==
    NamedLine(SubSeq(s, 1, FirstIdx(s, ChTail) - 1), Skip(s, FirstIdx(s, ChTail)))

Fld(kind, sign, size, scale, nm) ==
    [kind |-> kind, sign |-> sign, size |-> size, scale |-> scale, flags |-> {},
     name |-> nm.name, title |-> nm.title]

Made(f, rest) == [f |-> f, rest |-> rest]
(* A failed make: the callers here stop at the first failure and do not   *)
(* read the error position.                                                *)
Fail == [f |-> NoField, rest |-> <<>>]

-----------------------------------------------------------------------------
(* A field made only when Named has a name.                                *)
NamedField(kind, nm) ==
    IF nm.name = <<>> THEN Fail ELSE Made(Fld(kind, "", 0, 0, nm), nm.rest)

(* MakeFieldChars: "Cn", "CnL" (n in 1..255, else a blob), "C1Y", "C1",   *)
(* "C0"; a character after n that is not a space is taken as exType.      *)
CharsField(cnt, ex, nm) ==
    LET n == IF ex = "L" THEN 0 ELSE cnt IN
    IF nm.name = <<>> THEN Fail
    ELSE IF ex = "L" /\ 1 <= cnt /\ cnt <= 255 THEN Made(Fld("CharsL", "", cnt, 0, nm), nm.rest)
    ELSE Made(CASE n = 0 -> Fld("DyBlobChars", "", 0, 0, nm)
                [] n = 1 /\ ex = "Y" -> Fld("EnabledYN", "", 1, 0, nm)
                [] n = 1 -> Fld("Char1", "", 1, 0, nm)
                [] OTHER -> Fld("Chars", "", n, 0, nm), nm.rest)
CharsOfCount(c) ==
    CharsField(c.n, First(c.rest),
               DeserializeNamed(IF IsSpace(First(c.rest)) THEN c.rest ELSE Skip(c.rest, 1)))
MakeFieldChars(s) == CharsOfCount(StrToCountNum(s))

BytesField(n, nm) ==
    IF nm.name = <<>> THEN Fail
    ELSE IF n = 0 THEN NamedField("DyBlobBytes", nm) ELSE Made(Fld("Bytes", "", n, 0, nm), nm.rest)
MakeFieldBytes(s) == LET c == StrToCountNum(s) IN BytesField(c.n, DeserializeNamed(c.rest))

TimeKinds == [i |-> "TimeInterval", s |-> "TimeStamp", d |-> "DayTime"]

MakeFieldTime(s) ==
    IF First(s) = "EOF" \/ First(s) \notin DOMAIN TimeKinds
    THEN Fail
    ELSE NamedField(TimeKinds[First(s)], DeserializeNamed(Skip(s, 1)))

(* MakeFieldNumber: only sizes 1, 2, 4 and 8 make a field.                *)
MakeFieldNumber(kind, sign, n, scale, nm) ==
    IF n \in {1, 2, 4, 8} THEN Fld(kind, sign, n, scale, nm) ELSE NoField

(* The scale codes that select the integer kinds in MakeFieldImpl:        *)
(* static_cast<DecScaleT>(-1), (-2) and (-3).                              *)
ScaleKind(scale) ==
    CASE scale = 255 -> "Int" [] scale = 254 -> "IntHex" [] scale = 253 -> "IntHx"
      [] OTHER -> "DecimalDyScale"

(* Mutant: the codes of 'x' and 'H' swapped.                               *)
IntScaleSwapped(k, d) ==
    CASE k = "x" -> 253 [] k = "H" -> 254 [] k = "." -> d % 256 [] OTHER -> 255

(* The switch on the character after the size: d is the StrToCountNum     *)
(* after a '.', cast to the 8-bit DecScaleT.                               *)
IntScale(k, d) ==
    CASE k = "x" -> 254 [] k = "H" -> 253 [] k = "." -> d % 256 [] OTHER -> 255

IntField(ch, n, kind, scale, nm) ==
    LET f == MakeFieldNumber(kind, ch, n, IF kind = "DecimalDyScale" THEN scale ELSE 0, nm)
    IN  IF nm.name = <<>> \/ f = NoField THEN Fail ELSE Made(f, nm.rest)
IntScaled(ch, n, scale, nm) == IntField(ch, n, ScaleKind(scale), scale, nm)
IntAfterSize(ch, n, k, t, d) ==
    IntScaled(ch, n, IntScale(k, d.n), DeserializeNamed(IF k = "." THEN d.rest ELSE t))
IntOfCount(ch, c, t) == IntAfterSize(ch, c.n, First(c.rest), t, StrToCountNum(t))

(* case 'S': case 'U': of MakeFieldImpl: "Sn", "Snx", "SnH", "Sn.s".       *)
MakeFieldInt(ch, s) ==
    LET c == StrToCountNum(s) IN
    IF c.n = 0 THEN Fail
    ELSE IntOfCount(ch, c, IF First(c.rest) \in {"x", "H", "."} THEN Skip(c.rest, 1) ELSE c.rest)

(* MakeFieldXreg: the type id up to a space or '.' is looked up in        *)
(* FieldMakerRegister, where nothing is registered.                        *)
MakeFieldXreg(s) ==
    [f |-> NoField, rest |-> Skip(s, LeadLen(s, {ch \in Range(s) : ~IsSpace(ch) /\ ch # "."}) + 1)]

ImplByType(ch, s1) ==
    CASE ch = "X" -> MakeFieldXreg(s1)
      [] ch = "x" -> NamedField("DyBlobChars", DeserializeNamed(MakeFieldXreg(s1).rest))
      [] ch = "C" -> MakeFieldChars(s1)
      [] ch = "B" -> MakeFieldBytes(s1)
      [] ch = "E" -> IF First(s1) # "S" THEN Fail
                     ELSE NamedField("StrEnum", DeserializeNamed(Skip(s1, 1)))
      [] ch = "T" -> MakeFieldTime(s1)
      [] ch \in {"S", "U"} -> MakeFieldInt(ch, s1)
      [] OTHER -> Fail
MakeFieldImpl(s) == LET s0 == StrTrimHead(s) IN ImplByType(First(s0), Skip(s0, 1))
-----------------------------------------------------------------------------
(* The (FieldFlags) loop of MakeField, entered after the '(': Readonly    *)
(* and Hide characters and spaces until ')'; anything else fails.          *)
RECURSIVE FlagsLoop(_, _)
FlagsLoop(s, flags) ==
    LET ch == First(s) IN
    CASE ch = ReadonlyChar -> FlagsLoop(Skip(s, 1), flags \cup {"Readonly"})
      [] ch = HideChar     -> FlagsLoop(Skip(s, 1), flags \cup {"Hide"})
      [] ch = ")"          -> [ok |-> TRUE, flags |-> flags, rest |-> Skip(s, 1)]
      [] IsSpace(ch)       -> FlagsLoop(Skip(s, 1), flags)
      [] OTHER             -> [ok |-> FALSE, flags |-> flags, rest |-> s]

(* MakeField: optional (flags), then MakeFieldImpl; the flags replace the *)
(* field's own only when some are given.                                  *)
FlaggedField(r, flags) ==
    IF r.f = NoField THEN Fail
    ELSE IF flags = {} THEN r ELSE [r EXCEPT !.f.flags = flags]
FieldAfterFlags(fl) == IF ~fl.ok THEN Fail ELSE FlaggedField(MakeFieldImpl(fl.rest), fl.flags)
MakeField(s) ==
    LET s0 == StrTrimHead(s) IN
    IF s0 = <<>> THEN Fail
    ELSE FieldAfterFlags(IF First(s0) = "(" THEN FlagsLoop(Skip(s0, 1), {})
                         ELSE [ok |-> TRUE, flags |-> {}, rest |-> s0])

-----------------------------------------------------------------------------
(* FieldDecimal_TypeId: "Sn.d" or "Un.d", written backwards.              *)
FieldDecimal_TypeId(f) ==
    <<f.sign>> \o UIntToStrRev(<<".">> \o UIntToStrRev(<<>>, f.scale), f.size)

(* GetTypeId of each field class: the type ids the comment of MakeField   *)
(* lists, and the exType letters MakeFieldChars and MakeFieldImpl read.  *)
TypeId(f) ==
    LET n == UIntToStrRev(<<>>, f.size) IN
    CASE f.kind = "Chars"          -> <<"C">> \o n
      [] f.kind = "CharsL"         -> <<"C">> \o n \o <<"L">>
      [] f.kind = "Char1"          -> <<"C", "1">>
      [] f.kind = "EnabledYN"      -> <<"C", "1", "Y">>
      [] f.kind = "DyBlobChars"    -> <<"C", "0">>
      [] f.kind = "Bytes"          -> <<"B">> \o n
      [] f.kind = "DyBlobBytes"    -> <<"B", "0">>
      [] f.kind = "TimeInterval"   -> <<"T", "i">>
      [] f.kind = "TimeStamp"      -> <<"T", "s">>
      [] f.kind = "DayTime"        -> <<"T", "d">>
      [] f.kind = "StrEnum"        -> <<"E", "S">>
      [] f.kind = "Int"            -> <<f.sign>> \o n
      [] f.kind = "IntHex"         -> <<f.sign>> \o n \o <<"x">>
      [] f.kind = "IntHx"          -> <<f.sign>> \o n \o <<"H">>
      [] f.kind = "DecimalDyScale" -> FieldDecimal_TypeId(f)

(* SerializeNamed: Name, |Title when there is one, chTail.                *)
SerializeNamed(f) ==
    f.name \o (IF f.title = <<>> THEN <<>> ELSE <<ChSpl>> \o f.title) \o <<ChTail>>

(* AppendFieldConfig: "(flags) " when there are flags, the type id, a     *)
(* space and the Named.                                                   *)
AppendFieldConfig(f) ==
    (IF f.flags = {} THEN <<>>
     ELSE <<"(">> \o (IF "Readonly" \in f.flags THEN <<ReadonlyChar>> ELSE <<>>)
                  \o (IF "Hide" \in f.flags THEN <<HideChar>> ELSE <<>>) \o <<")", " ">>)
    \o TypeId(f) \o <<" ">> \o SerializeNamed(f)

AppendFieldsConfig(fields) ==
    FoldLeft(LAMBDA acc, f : acc \o AppendFieldConfig(f), <<>>, fields)

-----------------------------------------------------------------------------
NameIdx(fields, name) ==
    LET I == {i \in DOMAIN fields : fields[i].name = name}
    IN  IF I = {} THEN 0 ELSE Min(I)

(* {exProp}: the text up to '}', trimmed.                                 *)
ExPropSplit(t, k) == [ex |-> TrimSp(SubSeq(t, 1, k - 1)), rest |-> StrTrimHead(Skip(t, k))]
ExProp(s) ==
    IF First(s) # "{" THEN [ex |-> <<>>, rest |-> s]
    ELSE ExPropSplit(Skip(s, 1), FirstIdx(Skip(s, 1), "}"))

(* Mutant: the title replaced even by an empty one.                        *)
RedefineAnyTitle(fields, i, nf) ==
    IF TypeId(fields[i]) # TypeId(nf) THEN [res |-> "key_exists", fields |-> fields]
    ELSE [res |-> "no_error", fields |-> [fields EXCEPT ![i].title = nf.title]]

(* One redefinition: a different type id is key_exists; otherwise a      *)
(* non-empty title replaces the field's title.                            *)
Redefine(fields, i, nf) ==
    IF TypeId(fields[i]) # TypeId(nf) THEN [res |-> "key_exists", fields |-> fields]
    ELSE [res |-> "no_error",
          fields |-> IF nf.title # <<>> THEN [fields EXCEPT ![i].title = nf.title] ELSE fields]

(* FieldsMaker::Parse: one MakeField per line; a new name is added, a     *)
(* known one redefined; an exProp goes to OnFieldExProperty, which the    *)
(* base class refuses with not_supported_cmd.                             *)
RECURSIVE ParseLoop(_, _)
AddOrRedefine(fields, f) ==
    IF NameIdx(fields, f.name) = 0 THEN [res |-> "no_error", fields |-> Append(fields, f)]
    ELSE Redefine(fields, NameIdx(fields, f.name), f)
ParseAdded(ex, rest, d) ==
    CASE d.res # "no_error" -> d
      [] ex # <<>>          -> [res |-> "not_supported_cmd", fields |-> d.fields]
      [] OTHER              -> ParseLoop(rest, d.fields)
ParseMade(ex, r, fields) ==
    IF r.f = NoField THEN [res |-> "value_format_error", fields |-> fields]
    ELSE ParseAdded(ex, r.rest, AddOrRedefine(fields, r.f))
ParseField(x, fields) == ParseMade(x.ex, MakeField(x.rest), fields)
ParseLine(s0, fields) ==
    CASE s0 = <<>>      -> [res |-> "no_error", fields |-> fields]
      [] s0[1] = ChTail -> ParseLoop(Skip(s0, 1), fields)
      [] OTHER          -> ParseField(ExProp(s0), fields)
ParseLoop(s, fields) == ParseLine(StrTrimHead(s), fields)

Parse(s) == ParseLoop(s, <<>>)
====
