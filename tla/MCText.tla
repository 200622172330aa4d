------------------------------- MODULE MCText -------------------------------
(***************************************************************************)
(* Checks the text conversions of ToStr and SeedVisitorText against       *)
(* reference definitions written from what the conversions promise (the   *)
(* numpunct grouping rule, positional notation, the hex literal forms,    *)
(* leftmost replacement of a byte pair, the command forms in the comment  *)
(* above CheckCommandRight).  The state is one input case; every case of  *)
(* the bounded input sets is an initial state, and the steps edit the     *)
(* input a little, so that each state is one test of the conversions.    *)
(*                                                                         *)
(* The log case instead runs the Log module: a configuring thread and a   *)
(* logging thread racing on the log globals, restarted from the static    *)
(* initialisers when both have used up their calls.                       *)
(***************************************************************************)
EXTENDS Integers, Sequences, FiniteSets

CONSTANTS MaxHex, SepValues, MaxPrec, MaxScale, NbspChars, CmdChars, MaxText,
          ValueChars

INSTANCE RcSvcLayout WITH GroupingSize <- 3, IntSep <- ",", DecPoint <- ".",
                         ChSpl <- "|", ChTail <- "\n", ReadonlyChar <- "r", HideChar <- "h"
INSTANCE SeedVisitorText WITH C2 <- "C2", A0 <- "A0",
                              KeyEdit <- <<"e">>, KeyApply <- <<"a">>,
                              ChSpl <- "|", KnownFields <- {<<"n">>}
TSC == INSTANCE TimeStampConv
FD == INSTANCE FieldDecimal

VARIABLE c
VARIABLES FnLogWriter_, LogTimeZoneAdjust_, FnLogFlusher_, LogLevel_, cfg, thr, out
logvars == <<FnLogWriter_, LogTimeZoneAdjust_, FnLogFlusher_, LogLevel_, cfg, thr, out>>

(* The log case: one custom writer with its flusher and a +08:00 zone;    *)
(* records at Info and Warn against the levels Important and Count (which *)
(* fon9_SetLogLevel refuses); two calls of each thread, enough for a      *)
(* SetLogWriter followed by an UnsetLogWriter, and for a record or a      *)
(* flush to overlap either.                                                *)
LogMaxCalls == 2
LogMaxOps == 2
LG == INSTANCE Log WITH Writers <- {"W1"}, Flushers <- {"F1"}, Zones <- {480},
                        LogLevels <- {2, 4}, SetLevels <- {3, 7},
                        MaxCalls <- LogMaxCalls, MaxOps <- LogMaxOps

Texts(A) == UNION {[1..n -> A] : n \in 0..MaxText}
Groupings == [1..3 -> 0..3]

F(kind, sign, size, scale, flags, name, title) ==
    [kind |-> kind, sign |-> sign, size |-> size, scale |-> scale, flags |-> flags,
     name |-> name, title |-> title]

(* One field of each shape MakeField can make, with flags and Named.      *)
Shapes ==
    {F(k, "", n, 0, {}, <<>>, <<>>) :
        <<k, n>> \in {<<"Chars", 2>>, <<"Chars", 12>>, <<"CharsL", 1>>, <<"CharsL", 255>>,
                     <<"Char1", 1>>, <<"EnabledYN", 1>>, <<"DyBlobChars", 0>>,
                     <<"Bytes", 3>>, <<"DyBlobBytes", 0>>, <<"TimeInterval", 0>>,
                     <<"TimeStamp", 0>>, <<"DayTime", 0>>, <<"StrEnum", 0>>}}
    \cup {F(k, sg, n, 0, {}, <<>>, <<>>) :
            sg \in {"S", "U"}, <<k, n>> \in {<<"Int", 1>>, <<"Int", 8>>, <<"IntHex", 2>>, <<"IntHx", 4>>}}
    \cup {F("DecimalDyScale", sg, 4, sc, {}, <<>>, <<>>) : sg \in {"S", "U"}, sc \in {0, 2, 18}}

FlagSets == SUBSET {"Readonly", "Hide"}

FieldUniverse ==
    {[sh EXCEPT !.flags = fl, !.name = nm, !.title = t] :
        sh \in Shapes, fl \in FlagSets, nm \in {<<"n">>, <<"n", "m">>}, t \in {<<>>, <<"t">>}}

(* A second field, for lists of two.                                      *)
OtherField == F("DecimalDyScale", "S", 8, 4, {}, <<"m">>, <<"u">>)

(* Field lines and the field the comments of FieldMaker.hpp say each one *)
(* defines.                                                                *)
Lines == <<
    [text |-> <<"U","4"," ","n","|","t","\n">>,         f |-> F("Int", "U", 4, 0, {}, <<"n">>, <<"t">>), ex |-> FALSE],
    [text |-> <<"U","4"," ","n","\n">>,                 f |-> F("Int", "U", 4, 0, {}, <<"n">>, <<>>),    ex |-> FALSE],
    [text |-> <<"S","2"," ","n","|","u","\n">>,         f |-> F("Int", "S", 2, 0, {}, <<"n">>, <<"u">>), ex |-> FALSE],
    [text |-> <<"(","r",")"," ","C","3"," ","m","|","t","\n">>,
                                  f |-> F("Chars", "", 3, 0, {"Readonly"}, <<"m">>, <<"t">>), ex |-> FALSE],
    [text |-> <<"U","3"," ","m","\n">>,                 f |-> NoField, ex |-> FALSE],
    [text |-> <<"{","t","}"," ","C","3"," ","m","\n">>, f |-> F("Chars", "", 3, 0, {}, <<"m">>, <<>>), ex |-> TRUE],
    [text |-> <<"C","3"," ","m","|","u","\n">>,         f |-> F("Chars", "", 3, 0, {}, <<"m">>, <<"u">>), ex |-> FALSE]
>>

(* A "name=value" item of TicketRunnerWrite::FieldValues_: a known and  *)
(* an unknown name, one padded with a space, values quoted or not (a     *)
(* value holding the separator must be quoted).                            *)
SetItems ==
    {it \in [name : {<<"n">>, <<"z">>, <<"n", " ">>}, q : BOOLEAN,
              v : UNION {[1..n -> ValueChars] : n \in 0..2}] :
        it.q \/ \A i \in DOMAIN it.v : it.v[i] # "|"}

(* Row counts at the int16_t edges and in between.                        *)
GvCounts == {-32768, -32767, -3, -1, 0, 1, 32767}
GvTabs == <<"t", "u">>
GvKeys == {"k1", "k2"}

(* TimeStamps: the epoch, a leap day and the days around it, 2100-03-01  *)
(* (2100 is not leap), and the day on which 9999999999, the last epoch     *)
(* number NumToEpochSeconds keeps, falls (2286-11-20 17:46:39 is second   *)
(* 63999 of day 115740); time zones of +8:00 and -3:30.                    *)
TsDays == {0, 59, 11016, 11017, 47541, 115740, 115741}
TsSods == {0, 63999, 64000, 86399}
TsZones == {TSC!FromOffsetHHMM(8, 0), TSC!FromOffsetHHMM(-3, -30)}

(* FieldDecimalDyScale cells: "S1.2" and "U1.0" with every value a byte  *)
(* holds, "S2.3" at its edges; numbers around the edges of the cell types *)
(* and of their sentinels, put at every scale up to 3.                   *)
DecFields1 == {[sign |-> "S", size |-> 1, scale |-> 2], [sign |-> "U", size |-> 1, scale |-> 0]}
DecField2 == [sign |-> "S", size |-> 2, scale |-> 3]
DecNums == {-32769, -32768, -1280, -129, -128, -1, 0, 1, 127, 128, 255, 256, 1234, 32767, 65535}
DecNullValue == 1000000000

(* I084 'O' messages: up to three products of A and B, each with 0 to 2  *)
(* book entries and a LastProdMsgSeq_ of 0 (skipped) or one that differs  *)
(* from product to product.  A book entry names its product's place in    *)
(* the message and its own place; its bytes, read as a product header,    *)
(* give no entries and no sequence number.                                 *)
MC == INSTANCE ExgMcFmtSSToRts
I084Prods == {"A", "B"}
I084MaxProds == 3
I084Products == [p : I084Prods, n : 0..2, s : {0, 1}]
I084Seq(L, j) == IF L[j].s = 0 THEN 0 ELSE 6 + j
MdCell(j, k) == [ProdId_ |-> <<j, k>>, NoMdEntries_ |-> 0, LastProdMsgSeq_ |-> 0]
(* The messages that arrive at a symbol table: a 'P' message of two       *)
(* products, an 'O' message of one, and an 'S' message, which the         *)
(* dispatch ignores.                                                       *)
I084Arrivals ==
    {[MessageType_ |-> "P", NoEntries_ |-> 2,
      Entry_ |-> <<[ProdId_ |-> "A", ExpandTypeLevelR_ |-> 2, ExpandTypeLevelF_ |-> 0],
                   [ProdId_ |-> "B", ExpandTypeLevelR_ |-> 0, ExpandTypeLevelF_ |-> 3]>>],
     [MessageType_ |-> "O", NoEntries_ |-> 1,
      Entry_ |-> <<[ProdId_ |-> "B", NoMdEntries_ |-> 1, LastProdMsgSeq_ |-> 5], MdCell(1, 1)>>],
     [MessageType_ |-> "S", NoEntries_ |-> 0, Entry_ |-> <<>>]}

(* Tree layouts as the server describes them: flags, a key field, one or *)
(* two tabs of up to two fields.                                          *)
LayoutTabs ==
    [flags : {0, 171}, name : {<<"a">>, <<"b", "c">>}, title : {<<>>, <<"t">>},
     fields : {<<>>, <<OtherField>>, <<F("Int", "U", 4, 0, {"Hide"}, <<"n">>, <<"t">>), OtherField>>}]
Layouts ==
    [treeFlags : {0, 10, 255}, key : {F("Chars", "", 12, 0, {}, <<"k">>, <<>>), F("Int", "S", 8, 0, {}, <<"k">>, <<"t">>)},
     tabs : UNION {[1..n -> LayoutTabs] : n \in 1..2}]

Cases ==
    [kind : {"hex"}, v : 0..MaxHex]
    \cup [kind : {"sep"}, v : SepValues, g : Groupings]
    \cup [kind : {"prec"}, v : 0..MaxPrec, scale : 0..MaxScale]
    \cup [kind : {"nbsp"}, s : Texts(NbspChars)]
    \cup [kind : {"cmd"}, s : Texts(CmdChars), cmdln : {<<>>, <<"?">>, <<"x">>},
           found : {"tree", "pod", "not_found_key"}]
    \cup [kind : {"layout"}, L : Layouts]
    \cup [kind : {"set"}, items : UNION {[1..n -> SetItems] : n \in 1..2}]
    \cup {[kind |-> "gv", t |-> NewGridView(r, sk, tn)] :
           r \in GvCounts, sk \in {"TextBegin", "TextEnd", "k1"}, tn \in {"", "u", "x"}}
    \cup [kind : {"field"}, f : FieldUniverse]
    \cup [kind : {"lines"}, ls : UNION {[1..n -> DOMAIN Lines] : n \in 1..3}]
    \cup [kind : {"ts"}, ts : [day : TsDays, sod : TsSods, us : {0, 999999}],
           h : {0, 120000, 235959}, tz : TsZones]
    \cup UNION {[kind : {"dec"}, f : {f}, v : FD!ValueMin(f)..FD!ValueMax(f)] : f \in DecFields1}
    \cup [kind : {"dec"}, f : {DecField2}, v : {-32768, -32767, -1, 0, 1, 32766, 32767}]
    \cup {[kind |-> "log"]}
    \cup [kind : {"i084"}, L : UNION {[1..n -> I084Products] : n \in 0..I084MaxProds},
           sessOk : {I084Prods, {"A"}}, notify : BOOLEAN, symbs : {<<>>}]

Init == c \in Cases /\ LG!Init

(* Edits of a text input: change a character, append one, drop the first. *)
TextEdits(s, A) ==
    {[s EXCEPT ![i] = ch] : i \in DOMAIN s, ch \in A}
    \cup {Append(s, ch) : ch \in IF Len(s) < MaxText THEN A ELSE {}}
    \cup (IF s = <<>> THEN {} ELSE {Tail(s)})

NextValue ==
    \/ c.kind = "hex" /\ c' = [c EXCEPT !.v = (@ + 1) % (MaxHex + 1)]
    \/ c.kind = "prec" /\ c' = [c EXCEPT !.v = (@ + 1) % (MaxPrec + 1)]
    \/ c.kind = "prec" /\ \E sc \in 0..MaxScale : c' = [c EXCEPT !.scale = sc]
    \/ c.kind = "sep" /\ \E w \in SepValues : c' = [c EXCEPT !.v = w]
    \/ c.kind = "sep" /\ \E i \in 1..3, n \in 0..3 : c' = [c EXCEPT !.g[i] = n]
    \/ c.kind = "field" /\ \E fl \in FlagSets : c' = [c EXCEPT !.f.flags = fl]
    \/ c.kind = "lines" /\ \E i \in DOMAIN c.ls, l \in DOMAIN Lines : c' = [c EXCEPT !.ls[i] = l]
    \/ c.kind = "set" /\ c' = [c EXCEPT !.items = Reverse(@)]
    \/ c.kind = "layout" /\ c' = [c EXCEPT !.L.tabs = Reverse(@)]
    \/ c.kind = "ts" /\ \E z \in TsZones : c' = [c EXCEPT !.tz = z]

(* A write to the decimal cell: PutNumber, SetNull, or a Bitv number     *)
(* loaded by BitvToCell.                                                   *)
NextCell ==
    /\ c.kind = "dec"
    /\ \/ \E n \in DecNums, ds \in 0..3 : c' = [c EXCEPT !.v = FD!PutNumber(c.f, n, ds)]
       \/ c' = [c EXCEPT !.v = FD!SetNull(c.f)]
       \/ \E numr \in {FD!BitvNull} \cup {FD!DecToBitv(n, ds) : n \in {-1, 0, 1234}, ds \in 0..3} :
             c' = [c EXCEPT !.v = FD!BitvToCell(c.f, @, numr).cell]

NextText ==
    /\ c.kind \in {"nbsp", "cmd"}
    /\ \E t \in TextEdits(c.s, IF c.kind = "nbsp" THEN NbspChars ELSE CmdChars) :
          c' = [c EXCEPT !.s = t]

(* The GridView result arrives (a last key or an error), or the visitor  *)
(* continues the view.                                                     *)
NextGridView ==
    /\ c.kind = "gv"
    /\ \/ \E res \in {[err |-> "no_error", LastKey |-> k] : k \in GvKeys}
                        \cup {[err |-> "not_found_key"]} :
             c' = [c EXCEPT !.t = OnGridViewOp(@, res)]
       \/ c' = [c EXCEPT !.t = GridViewContinue(@)]

(* A message reaches the case's symbol table, or the channel gains or    *)
(* loses its consumers.                                                    *)
NextI084 ==
    /\ c.kind = "i084"
    /\ \/ c' = [c EXCEPT !.notify = ~@]
       \/ \E m \in I084Arrivals :
             c' = [c EXCEPT !.symbs = MC!I084SSParserToRts(m, @, c.sessOk, c.notify).symbs]

NextLog ==
    /\ c.kind = "log"
    /\ LG!Next \/ LG!Restart
    /\ UNCHANGED c

Next == ((NextValue \/ NextText \/ NextGridView \/ NextCell \/ NextI084) /\ UNCHANGED logvars)
        \/ NextLog

Spec == Init /\ [][Next]_<<c, logvars>>

-----------------------------------------------------------------------------
(* Reference definitions.                                                  *)
RECURSIVE DigitsValue(_, _)
DigitsValue(t, base) ==
    IF t = <<>> THEN 0
    ELSE DigitsValue(SubSeq(t, 1, Len(t) - 1), base) * base
         + (CHOOSE d \in 0..15 : t[Len(t)] \in {LowerMap[d + 1], UpperMap[d + 1]})

IsHexDigits(t) == t # <<>> /\ \A i \in DOMAIN t : t[i] \in Range(LowerMap) \cup Range(UpperMap)

HexPrefixes == {<<"x">>, <<"X">>, <<"0", "x">>, <<"0", "X">>}

(* A hex literal: "0", or a prefix x / X / 0x / 0X and hex digits.         *)
HexLitValue(t) ==
    IF t = <<"0">> THEN 0
    ELSE LET p == CHOOSE p \in HexPrefixes : IsPrefix(p, t)
         IN  DigitsValue(SubSeq(t, Len(p) + 1, Len(t)), 16)

IsHexLit(t) ==
    t = <<"0">>
    \/ \E p \in HexPrefixes : IsPrefix(p, t) /\ IsHexDigits(SubSeq(t, Len(p) + 1, Len(t)))

RECURSIVE DecDigits(_)
DecDigits(v) == IF v < 10 THEN <<DigitChar(v)>> ELSE DecDigits(v \div 10) \o <<DigitChar(v % 10)>>

(* numpunct: the i-th group from the right has the i-th size; after the   *)
(* leading non-zero sizes the last of them repeats.                       *)
GroupSize(g, i) ==
    LET L == CHOOSE n \in 1..3 : (\A k \in 1..n : g[k] # 0) /\ (n = 3 \/ g[n + 1] = 0)
    IN  g[IF i <= L THEN i ELSE L]

RECURSIVE Grouped(_, _, _)
Grouped(D, g, i) ==
    LET k == GroupSize(g, i) IN
    IF Len(D) <= k THEN D
    ELSE Grouped(SubSeq(D, 1, Len(D) - k), g, i + 1) \o <<",">> \o SubSeq(D, Len(D) - k + 1, Len(D))

Pow10(n) == 10 ^ n

(* v with scale decimals: the integer part stays in value; the text is    *)
(* empty when the fraction is 0, else the point and the fraction digits   *)
(* up to the last non-zero one.                                           *)
AutoPrecRef(v, sc) ==
    LET f   == v % Pow10(sc)
        fd  == [i \in 1..sc |-> DigitChar((f \div Pow10(sc - i)) % 10)]
        nz  == {i \in 1..sc : fd[i] # "0"}
    IN  [value |-> v \div Pow10(sc),
         text  |-> IF nz = {} THEN <<>> ELSE <<".">> \o SubSeq(fd, 1, LastOf(nz))]

RECURSIVE NbspRef(_)
NbspRef(s) ==
    IF Len(s) < 2 THEN s
    ELSE IF s[1] = "C2" /\ s[2] = "A0" THEN <<" ">> \o NbspRef(Tail(Tail(s)))
    ELSE <<s[1]>> \o NbspRef(Tail(s))

(* "/xxx/^key:tabName": the last path segment starts with ^key:.          *)
Shaped(seed, key) ==
    LET head == <<"/", "^">> \o key \o <<":">> IN
    \E i \in 0..Len(seed) :
        LET tl == SubSeq(seed, i + 1, Len(seed)) IN
        /\ IsPrefix(head, tl)
        /\ \A k \in Len(head) + 1..Len(tl) : tl[k] # "/"

ItemText(it) == it.name \o <<"=">> \o (IF it.q THEN <<Quote>> \o it.v \o <<Quote>> ELSE it.v)
JoinItems(its) ==
    FoldLeft(LAMBDA a, it : IF a = <<>> THEN ItemText(it) ELSE a \o <<"|">> \o ItemText(it), <<>>, its)
ItemResult(it) ==
    LET nm == SelectSeq(it.name, LAMBDA ch : ch # " ") IN
    IF nm = <<"n">> THEN <<"set", nm, NbspRef(it.v)>> ELSE <<"notfound", nm>>

(* The layout text: hex flags, '|', the field configs of AppendFieldConfig,*)
(* each tab's Named on its line and its fields in brackets.               *)
TabText(t) ==
    HexToStrRev(<<>>, t.flags) \o <<"|">> \o t.name
    \o (IF t.title = <<>> THEN <<>> ELSE <<"|">> \o t.title) \o <<"\n", "{">>
    \o AppendFieldsConfig(t.fields) \o <<"}", "\n">>
LayoutText(L) ==
    FoldLeft(LAMBDA a, t : a \o TabText(t),
             HexToStrRev(<<>>, L.treeFlags) \o <<"|">> \o AppendFieldConfig(L.key), L.tabs)

RightRef(seed) ==
    IF Shaped(seed, <<"e">>) THEN "Write"
    ELSE IF Shaped(seed, <<"a">>) THEN "Apply" ELSE "Exec"

(* FieldsMaker::Parse as its comment states it: the first line that does  *)
(* not make a field is value_format_error, the first that redefines a      *)
(* name with another type is key_exists, an exProp is refused; otherwise   *)
(* each name keeps its first definition with the last non-empty title.    *)
ParseRef(ls) ==
    LET L(i)     == Lines[ls[i]]
        Bad(i)   == L(i).f = NoField
        Clash(i) == \E j \in 1..i - 1 : ~Bad(j) /\ L(j).f.name = L(i).f.name
                                        /\ TypeId(L(j).f) # TypeId(L(i).f)
        Err      == {i \in DOMAIN ls : Bad(i) \/ Clash(i) \/ L(i).ex}
        FirstDef == {i \in DOMAIN ls : \A j \in 1..i - 1 : L(j).f.name # L(i).f.name}
        Titled(i) == {j \in DOMAIN ls : L(j).f.name = L(i).f.name /\ L(j).f.title # <<>>}
        Merged(i) == [L(i).f EXCEPT !.title = IF Titled(i) = {} THEN <<>> ELSE L(Max(Titled(i))).f.title]
        order    == SetToSortSeq(FirstDef, <)
    IN  IF Err # {}
        THEN [res |-> CASE Bad(Min(Err)) -> "value_format_error"
                        [] Clash(Min(Err)) -> "key_exists"
                        [] OTHER -> "not_supported_cmd"]
        ELSE [res |-> "no_error", fields |-> [k \in DOMAIN order |-> Merged(order[k])]]

-----------------------------------------------------------------------------
(* HexToStrRev and HEXToStrRev write the value in hex without leading     *)
(* zeros, and HexLeadRev turns that text, or the text with a leading zero *)
(* or with an x / 0x prefix already there, into a hex literal of the same *)
(* value.                                                                  *)
HexLiteralReadBack ==
    c.kind = "hex" =>
        \A t \in {HexToStrRev(<<>>, c.v), HEXToStrRev(<<>>, c.v)} :
            /\ t # <<>> /\ DigitsValue(t, 16) = c.v /\ (Len(t) = 1 \/ t[1] # "0")
            /\ \A p \in {<<>>, <<"0">>, <<"x">>, <<"0", "X">>} :
                  LET lit == HexLeadRev(p \o t, "x")
                  IN  IsHexLit(lit) /\ HexLitValue(lit) = c.v

(* UIntToStrRev_IntSep puts IntSep_ between the groups that numpunct       *)
(* Grouping_ describes, and nowhere else.                                  *)
IntSepMatchesGrouping ==
    c.kind = "sep" =>
        UIntToStrRev_IntSep(<<>>, c.v, c.g)
            = IF c.g[1] = 0 THEN DecDigits(c.v) ELSE Grouped(DecDigits(c.v), c.g, 1)

(* PutAutoPrecision leaves the integer part in value and writes the       *)
(* fraction without trailing zeros, and no decimal point for a zero one.  *)
AutoPrecisionMatches ==
    c.kind = "prec" => PutAutoPrecision(<<>>, c.v, c.scale) = AutoPrecRef(c.v, c.scale)

(* ParseSetValues applies the items of "name=value|name=value" in order: *)
(* a known field gets its value without the quotes (a quoted value may   *)
(* hold the separator) and with every 0xc2 0xa0 pair, taken from the      *)
(* left, made a space and every other byte kept; an unknown name is       *)
(* reported.                                                               *)
SetValuesParsed ==
    /\ c.kind = "nbsp" => NbspToSpace(c.s) = NbspRef(c.s)
    /\ c.kind = "set" =>
          ParseSetValues(JoinItems(c.items)) = [i \in DOMAIN c.items |-> ItemResult(c.items[i])]

(* A command on a path whose last segment is ^edit:tab needs Write, one    *)
(* whose last segment is ^apply:tab needs Apply, any other needs Exec.    *)
(* An empty command line only switches the path and needs no right; it   *)
(* is carried out wherever the path ends, and only a non-empty command on *)
(* a pod reaches OnVisitorCommand, logged unless it is "?".  The read and *)
(* write tickets reach the visitor only with the RawRd / RawWr of a pod   *)
(* (a write with the Insert right also for a missing key, which it adds); *)
(* read, write and remove refuse a tree; a failed read lookup is reported *)
(* as its error, a remove hands every result to OnTicketRunnerRemoved.    *)
CommandRightByLastSegment ==
    c.kind = "cmd" =>
        /\ CommandRight(c.s, c.cmdln) = IF c.cmdln = <<>> THEN "None" ELSE RightRef(c.s)
        /\ CommandOutcome(c.cmdln, c.found) \in
              IF c.found \notin {"tree", "pod"} THEN {c.found}
              ELSE IF c.cmdln = <<>> THEN {"SetCurrPath"}
              ELSE IF c.found = "pod" THEN {"OnVisitorCommand"} ELSE {"not_supported_cmd"}
        /\ CommandLogged(c.cmdln, c.found) <=> (c.found = "pod" /\ c.cmdln = <<"x">>)
        /\ \A kind \in {"Error", "Tree", "Read", "Write", "Remove"}, podOp \in {"ok", "fail"},
              insert \in BOOLEAN :
              LET o == TicketOutcome(kind, c.found, podOp, insert) IN
              /\ o \in {"OnTicketRunnerRead", "OnTicketRunnerWrite"} =>
                    podOp = "ok" /\ (c.found = "pod" \/ (kind = "Write" /\ insert))
              /\ c.found = "tree" /\ kind \in {"Read", "Write", "Remove"} => o \notin
                    {"OnTicketRunnerRead", "OnTicketRunnerWrite", "OnTicketRunnerRemoved"}
              /\ c.found \notin {"tree", "pod"} /\ kind = "Read" => o = c.found
              /\ c.found # "tree" /\ kind = "Remove" => o = "OnTicketRunnerRemoved"

(* The calendar counted from 1970-01-01: a year starts after 365 days of  *)
(* each year before it and one more for each leap year among them (the    *)
(* start days of 1900..2300 are a table TLC computes once); a month starts *)
(* after the days of the months before it, one more after February of a  *)
(* leap year.  The year of a day is the one whose start it reaches and the *)
(* next one's it does not, and so is its month.  Sakamoto's weekday rule,  *)
(* and HHMMSS of a second.                                                 *)
YearLen(y) == IF (y % 4 = 0 /\ y % 100 # 0) \/ y % 400 = 0 THEN 366 ELSE 365
MonthStart(y, m) ==
    <<0, 31, 59, 90, 120, 151, 181, 212, 243, 273, 304, 334, 365>>[m] + (IF m > 2 THEN YearLen(y) - 365 ELSE 0)
LeapYears(a, b) == Cardinality({x \in a..(b - 1) : YearLen(x) = 366})
RefYears == 1900..2300
YearStart == [y \in RefYears |->
                IF y >= 1970 THEN (y - 1970) * 365 + LeapYears(1970, y)
                ELSE -((1970 - y) * 365 + LeapYears(y, 1970))]
RefYear(d) ==
    LET y  == CHOOSE y \in RefYears \ {2300} : YearStart[y] <= d /\ d < YearStart[y + 1]
        dy == d - YearStart[y]
        m  == CHOOSE m \in 1..12 : MonthStart(y, m) <= dy /\ dy < MonthStart(y, m + 1)
    IN  [y |-> y, m |-> m, d |-> dy - MonthStart(y, m) + 1]
RefWeekday(r) ==
    LET y == IF r.m < 3 THEN r.y - 1 ELSE r.y
    IN  (y + y \div 4 - y \div 100 + y \div 400 + <<0, 3, 2, 5, 0, 3, 5, 1, 4, 6, 2, 4>>[r.m] + r.d) % 7
Hms(sod) == (sod \div 3600) * 10000 + ((sod % 3600) \div 60) * 100 + (sod % 60)
SodOf(h) == (h \div 10000) * 3600 + ((h \div 100) % 100) * 60 + (h % 100)

(* The inline conversions of TimeStamp.hpp agree with the calendar: the   *)
(* YYYYMMDDHHMMSS, the weekday and the time of day of a TimeStamp;        *)
(* NumToEpochSeconds keeps every epoch number up to 2286-11-20 17:46:39   *)
(* and reads a YYYYMMDDHHMMSS number back to the same second;             *)
(* TimeStampResetHHMMSS keeps the day, sets the time and drops the        *)
(* decimals; the log header's YYYYMMDD-HHMMSS.uuuuuu text; a time zone    *)
(* added and taken off again.                                              *)
TimeStampConversions ==
    /\ TSC!ToStrRev_Date_Time_us(TSC!NullTs) = TSC!Spaces(22)
    /\ c.kind = "ts" =>
        LET ts == c.ts
            r  == RefYear(ts.day)
            n  == TSC!GetYYYYMMDDHHMMSS(ts)
            e  == TSC!ToEpochSeconds(ts)
            z  == TSC!TsAddZone(ts, c.tz)
        IN  /\ n = [hi |-> (r.y * 100 + r.m) * 100 + r.d, lo |-> Hms(ts.sod)]
            /\ TSC!GetWeekday(ts) = RefWeekday(r)
            /\ TSC!GetDayTime(ts) = [sod |-> ts.sod, us |-> ts.us]
            /\ (n.hi < 22861120 \/ (n.hi = 22861120 /\ n.lo <= 174639)) => TSC!NumToEpochSeconds(e) = e
            /\ TSC!NumToEpochSeconds(n) = e
            /\ TSC!TimeStampResetHHMMSS(ts, c.h) = [day |-> ts.day, sod |-> SodOf(c.h), us |-> 0]
            /\ TSC!ToStrRev_Date_Time_us(ts) =
                  TSC!Digits(r.y, 4) \o TSC!Digits(r.m, 2) \o TSC!Digits(r.d, 2) \o <<"-">>
                  \o TSC!Digits(Hms(ts.sod), 6) \o <<".">> \o TSC!Digits(ts.us, 6)
            /\ TSC!TsSubZone(z, c.tz) = ts
            /\ (z.day - ts.day) * 86400 + z.sod - ts.sod = c.tz * 60

(* The integers an n-byte cell holds, and the sign of a difference.      *)
CellRange(f) ==
    IF f.sign = "S" THEN -(2 ^ (8 * f.size - 1))..(2 ^ (8 * f.size - 1) - 1)
    ELSE 0..(2 ^ (8 * f.size) - 1)
Sign(x) == IF x > 0 THEN 1 ELSE IF x < 0 THEN -1 ELSE 0

(* FieldDecimalDyScale keeps what is written to it: a cell sent as Bitv  *)
(* and loaded back (BitvToCell), and its raw bytes compared with it       *)
(* (CompareRawBytes), give the cell again, Null included; Null is what    *)
(* GetNumber and CellRevPrint report as Null and nothing else; a number   *)
(* put at a scale up to the field's reads back at that scale when the     *)
(* cell can hold it, is Null exactly when its wrap lands on the sentinel  *)
(* (no range check in PutNumber), and cells compare as their numbers; a   *)
(* negative Bitv number leaves an unsigned cell as it was.               *)
DecimalCellConversions ==
    c.kind = "dec" =>
        LET f     == c.f
            v     == c.v
            bytes == FD!AppendRawBytes(f, v)
            null  == FD!GetNullValue(f)
        IN  /\ \A w \in {0, v, null} : FD!BitvToCell(f, w, FD!CellToBitv(f, v)) = [cell |-> v, err |-> FALSE]
            /\ FD!IsNull(f, FD!BitvToCell(f, v, FD!BitvNull).cell)
            /\ FD!CompareRawBytes(f, v, bytes) = 0
            /\ FD!CompareRawBytes(f, v, SubSeq(bytes, 1, f.size - 1)) = FD!Compare(f, v, FD!SetNull(f))
            /\ \A ds \in 0..3 :
                  /\ FD!GetNumber(f, v, ds, DecNullValue) = DecNullValue <=> FD!IsNull(f, v)
                  /\ FD!CellRevPrint(f, v) = <<>> <=> FD!IsNull(f, v)
            /\ \A n \in DecNums, ds \in 0..f.scale :
                  LET x == n * 10 ^ (f.scale - ds)
                      w == FD!PutNumber(f, n, ds)
                  IN  /\ FD!IsNull(f, w) <=> (x - null) % (2 ^ (8 * f.size)) = 0
                      /\ x \in CellRange(f) /\ x # null => FD!GetNumber(f, w, ds, DecNullValue) = n
                      /\ \A m \in DecNums :
                            LET y == m * 10 ^ (f.scale - ds) IN
                            x \in CellRange(f) \ {null} /\ y \in CellRange(f) \ {null} =>
                                FD!Compare(f, w, FD!PutNumber(f, m, ds)) = Sign(n - m)
            /\ f.sign = "U" => FD!BitvToCell(f, v, FD!DecToBitv(-1, 0)) = [cell |-> v, err |-> TRUE]

(* TreeRec::ParseLayout reads back the layout the server wrote: the flags *)
(* of the tree and of each tab, the key field, each tab's Named and       *)
(* fields, and the tab and field counts of the C view; FetchPod makes a   *)
(* pod with one seed per tab once, and finds it the second time.          *)
LayoutRoundTrip ==
    c.kind = "layout" =>
        ParseLayout(LayoutText(c.L)) =
            [treeFlags |-> c.L.treeFlags, key |-> c.L.key, tabCount |-> Len(c.L.tabs),
             tabs |-> [i \in DOMAIN c.L.tabs |->
                         LET t == c.L.tabs[i] IN
                         [flags |-> t.flags, name |-> t.name, title |-> t.title,
                          fields |-> t.fields, fieldCount |-> Len(t.fields)]]]
        /\ LET lay == ParseLayout(LayoutText(c.L))
               p1  == FetchPod(<<>>, "k1", lay)
               p2  == FetchPod(p1.pods, "k1", lay)
           IN  /\ p1.isNew /\ ~p2.isNew /\ p2.pods = p1.pods
               /\ p1.pods["k1"] = [i \in DOMAIN c.L.tabs |-> [tab |-> c.L.tabs[i].name]]

(* TicketRunnerGridView asks for |ReqMaxRowCount_| rows in the 16-bit     *)
(* types of the request: forward from the start key for a count >= 0, and *)
(* for a negative count a window that ends with the start key (with the   *)
(* last row when the start is TextEnd); the buffer limit is lifted when a *)
(* row count is given; an unknown tab fails.  This holds after Continue   *)
(* too, and for -32768, whose negation does not fit in int16_t.           *)
GridViewWindow ==
    c.kind = "gv" =>
        LET r   == c.t.ReqMaxRowCount
            q   == GridViewOnFoundTree(c.t, GvTabs)
            tab == IF c.t.TabName = "" THEN "t" ELSE c.t.TabName
        IN  IF tab = "x" THEN q.err = "not_found_tab"
            ELSE /\ q.err = "no_error" /\ q.Tab = tab /\ q.StartKey = c.t.StartKey
                 /\ q.MaxRowCount = IF r < 0 THEN -r ELSE r
                 /\ r >= 0 => q.Offset = 0
                 /\ r < 0 => q.Offset + q.MaxRowCount = IF q.StartKey = "TextEnd" THEN 0 ELSE 1
                 /\ q.BufferUnlimited = (r # 0)

(* A field written by AppendFieldConfig is read back by MakeField as the   *)
(* same field (kind, size, scale, flags, Named) with nothing left over,   *)
(* and a list written by AppendFieldsConfig is parsed back as that list.  *)
FieldConfigRoundTrip ==
    c.kind = "field" =>
        /\ MakeField(AppendFieldConfig(c.f)) = [f |-> c.f, rest |-> <<>>]
        /\ Parse(AppendFieldsConfig(<<c.f, OtherField>>))
              = [res |-> "no_error", fields |-> <<c.f, OtherField>>]

(* FieldsMaker::Parse follows the redefinition rule of its comment.       *)
ParseFollowsRedefinitionRule ==
    c.kind = "lines" =>
        LET r   == Parse(FoldLeft(LAMBDA a, i : a \o Lines[i].text, <<>>, c.ls))
            ref == ParseRef(c.ls)
        IN  r.res = ref.res /\ (ref.res = "no_error" => r.fields = ref.fields)
(* The packing of an 'O' message: each product's header followed by its  *)
(* book entries.                                                           *)
RECURSIVE PackO(_, _)
PackO(L, j) ==
    IF j > Len(L) THEN <<>>
    ELSE <<[ProdId_ |-> L[j].p, NoMdEntries_ |-> L[j].n, LastProdMsgSeq_ |-> I084Seq(L, j)]>>
         \o [k \in 1..L[j].n |-> MdCell(j, k)] \o PackO(L, j + 1)

(* McI084SSParserO, walking the packed entries by their lengths, publishes *)
(* for each product with a sequence number, in message order, a snapshot  *)
(* of exactly its own book entries and sequence number, once its symbol   *)
(* passes the session check; it makes the symbol of every product with a  *)
(* sequence number and leaves the others alone; and, when the channel has *)
(* consumers, it forwards for each published product an I083 that shows  *)
(* that product's id, sequence number and entries, none left over from    *)
(* the product before it in the reused buffer.                             *)
I084SnapshotsFollowEntries ==
    c.kind = "i084" =>
        LET L   == c.L
            r   == MC!I084SSParserToRts([MessageType_ |-> "O", NoEntries_ |-> Len(L),
                                         Entry_ |-> PackO(L, 1)], c.symbs, c.sessOk, c.notify)
            sel == SelectSeq([j \in 1..Len(L) |-> j], LAMBDA j : L[j].s # 0 /\ L[j].p \in c.sessOk)
            md(j) == [k \in 1..L[j].n |-> MdCell(j, k)]
        IN  /\ DOMAIN r.symbs = DOMAIN c.symbs \cup {L[j].p : j \in {i \in 1..Len(L) : L[i].s # 0}}
            /\ \A q \in DOMAIN c.symbs : r.symbs[q] = c.symbs[q]
            /\ r.pubs = [i \in 1..Len(sel) |->
                           [symb |-> L[sel[i]].p, kind |-> "SnapshotBS", bs |-> md(sel[i]), seq |-> I084Seq(L, sel[i])]]
            /\ r.fwd = IF ~c.notify THEN <<>>
                       ELSE [i \in 1..Len(sel) |->
                               [MessageKind_ |-> "B", ChannelSeq_ |-> 0, VersionNo_ |-> 1,
                                CalculatedFlag_ |-> "0", NoMdEntries_ |-> L[sel[i]].n,
                                MdEntry_ |-> md(sel[i]), ProdId_ |-> L[sel[i]].p,
                                ProdMsgSeq_ |-> I084Seq(L, sel[i]), BodyLength_ |-> L[sel[i]].n]]
====
