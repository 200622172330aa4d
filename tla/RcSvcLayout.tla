---------------------------- MODULE RcSvcLayout ----------------------------
(***************************************************************************)
(* TreeRec::ParseLayout of src/fon9/rc/RcSvc.cpp: the client side of the  *)
(* remote seed service reads the layout of a tree the server sends as     *)
(* text,                                                                   *)
(*     treeFlags|keyField                                                  *)
(*     tabFlags|tabName|tabTitle\n{fields}    (once per tab)               *)
(* with the flags in hex, the key field and the fields in the syntax of   *)
(* FieldMaker (MakeField, MakeFields), and builds the C view of it        *)
(* (LayoutC_: the tab count, each tab's field count).  ChSpl is '|' and   *)
(* ChTail '\n' here.  HIntStrTo, StrFetchNoTrim and                        *)
(* SbrTrimHeadFetchInside are declared outside the sources: the leading   *)
(* hex digits, the text up to a character, and the text inside the        *)
(* brackets that open the (head-trimmed) text, nested brackets skipped.   *)
(***************************************************************************)
EXTENDS FieldMaker

HexDigitValue(ch) == CHOOSE d \in 0..15 : ch \in {LowerMap[d + 1], UpperMap[d + 1]}
HexChars == {LowerMap[d + 1] : d \in 0..15} \cup {UpperMap[d + 1] : d \in 0..15}

(* HIntStrTo: the value of the leading hex digits, 0 when there are none.  *)
HIntStrTo(t) ==
    LET n == LeadLen(t, HexChars)
    IN  FoldLeft(LAMBDA acc, ch : acc * 16 + HexDigitValue(ch), 0, SubSeq(t, 1, n))

(* StrFetchNoTrim(cfg, ch): the text before ch, and what follows ch.      *)
StrFetchNoTrim(s, ch) == [head |-> SubSeq(s, 1, FirstIdx(s, ch) - 1), rest |-> Skip(s, FirstIdx(s, ch))]

(* The index of the '}' that closes the '{' before index i, depth being   *)
(* the number of brackets still open; Len(s) + 1 when none does.          *)
RECURSIVE CloseBracket(_, _, _)
CloseBracket(s, i, depth) ==
    CASE i > Len(s)                 -> i
      [] s[i] = "}" /\ depth = 1    -> i
      [] s[i] = "}"                 -> CloseBracket(s, i + 1, depth - 1)
      [] s[i] = "{"                 -> CloseBracket(s, i + 1, depth + 1)
      [] OTHER                      -> CloseBracket(s, i + 1, depth)

(* SbrTrimHeadFetchInside(cfg): the fields between the brackets, and what *)
(* follows the closing one; no bracket: nothing inside, the text kept.    *)
SbrTrimHeadFetchInside(s) ==
    LET s0 == StrTrimHead(s) IN
    IF First(s0) # "{" THEN [inside |-> <<>>, rest |-> s0]
    ELSE LET e == CloseBracket(s0, 2, 1)
         IN  [inside |-> SubSeq(s0, 2, e - 1), rest |-> Skip(s0, e)]

(* One tab: "tabFlags|" in hex, DeserializeNamed, the bracketed fields    *)
(* given to MakeFields, whose result code the loop does not look at.     *)
(* fieldCount is the LayoutC_ view: ctab.FieldCount_ (FieldArray_ is      *)
(* nullptr when it is 0).                                                  *)
ParseTabNamed(flags, nm) ==
    LET b == SbrTrimHeadFetchInside(nm.rest)
        p == Parse(b.inside)
    IN  [tab |-> [flags |-> flags, name |-> nm.name, title |-> nm.title,
                  fields |-> p.fields, fieldCount |-> Len(p.fields)],
         rest |-> b.rest]
ParseTab(s) ==
    LET tf == StrFetchNoTrim(s, "|") IN ParseTabNamed(HIntStrTo(tf.head), DeserializeNamed(tf.rest))

(* Mutant: the loop runs while the text is not empty, without trimming    *)
(* its head first.                                                         *)
RECURSIVE ParseTabsNoTrim(_, _)
ParseTabsNoTrim(s, tabs) ==
    IF s = <<>> THEN tabs
    ELSE LET t == ParseTab(s) IN ParseTabsNoTrim(t.rest, Append(tabs, t.tab))

(* while (!StrTrimHead(&cfgstr).empty()) { ... tabs.emplace_back(...) }    *)
RECURSIVE ParseTabs(_, _)
ParseTabs(s, tabs) ==
    IF StrTrimHead(s) = <<>> THEN tabs
    ELSE LET t == ParseTab(StrTrimHead(s)) IN ParseTabs(t.rest, Append(tabs, t.tab))

(* ParseLayout(cfgstr): the tree flags, the key field (NoField when       *)
(* MakeField fails, which FieldToC then dereferences), the tabs, and      *)
(* LayoutC_.TabCount_.                                                     *)
LayoutOf(treeFlags, k) ==
    LET tabs == ParseTabs(k.rest, <<>>)
    IN  [treeFlags |-> treeFlags, key |-> k.f, tabs |-> tabs, tabCount |-> Len(tabs)]
ParseLayout(cfg) ==
    LET tf == StrFetchNoTrim(cfg, "|") IN LayoutOf(HIntStrTo(tf.head), MakeField(tf.rest))

-----------------------------------------------------------------------------
(* TreeRec::MakeSeed(seed, tabidx): a SeedRec for the tab, or reset when  *)
(* tabidx is out of range.                                                 *)
MakeSeed(layout, tabidx) ==
    IF tabidx < layout.tabCount THEN [tab |-> layout.tabs[tabidx + 1].name] ELSE "null"

(* TreeRec::MakePod: ClearSeeds, then one seed per tab, made from the     *)
(* last tab down.                                                          *)
MakePod(layout) == [i \in 1..layout.tabCount |-> MakeSeed(layout, i - 1)]

(* TreeRec::FetchPod(seedKey, isNew): PodMap_[seedKey] is created empty   *)
(* when missing; a pod without seeds gets them and is reported new.  A    *)
(* pod of the map always has its seeds (MakePod follows the making of    *)
(* the entry in the same call), so "in the map" stands for                *)
(* Seeds_ != nullptr.                                                      *)
FetchPod(pods, key, layout) ==
    IF key \in DOMAIN pods
    THEN [pods |-> pods, isNew |-> FALSE]
    ELSE [pods |-> [k \in DOMAIN pods \cup {key} |-> IF k = key THEN MakePod(layout) ELSE pods[k]],
          isNew |-> TRUE]
====
