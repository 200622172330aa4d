-------------------------- MODULE SeedVisitorText --------------------------
(***************************************************************************)
(* The request-building code of the tickets of                           *)
(* src/fon9/seed/SeedVisitor.cpp:                                          *)
(*   - TicketRunnerWrite::ParseSetValues: "name=value" items, quotes, and  *)
(*     each UTF-8 non-breaking space (0xc2 0xa0) of a value made ' ';     *)
(*   - CheckCommandRight and TicketRunnerCommand: the access right a seed  *)
(*     command needs and where the command goes;                          *)
(*   - TicketRunnerGridView: the GridViewRequest built from the int16_t   *)
(*     ReqMaxRowCount_ and the start key, and Continue.                   *)
(* Text is a sequence of one-character strings; C2 and A0 stand for the   *)
(* bytes 0xc2 and 0xa0.  kTabTree_KeyEdit and kTabTree_KeyApply are       *)
(* declared outside the sources: the comments above CheckCommandRight     *)
(* give them as "edit" and "apply", here the constants KeyEdit and        *)
(* KeyApply.  The StrView helpers (SbrFetchNoTrim, StrFetchTrim,          *)
(* StrNoTrimRemoveQuotes) are declared outside the sources: a quoted span  *)
(* ("...") is skipped when looking for the separator, and a value wholly  *)
(* in quotes loses them.                                                   *)
(***************************************************************************)
EXTENDS Integers, Sequences, FiniteSets

CONSTANTS C2, A0, KeyEdit, KeyApply, ChSpl, KnownFields

LastOf(S) == CHOOSE i \in S : \A j \in S : j <= i
FirstOf(S) == CHOOSE i \in S : \A j \in S : i <= j

-----------------------------------------------------------------------------
(* Mutant: a 0xc2 not followed by 0xa0 is copied together with the byte  *)
(* after it (continue instead of goto __CONTINUE_SAME_I).                  *)
RECURSIVE NbspLoopSkip(_, _)
NbspLoopSkip(nstr, s) ==
    IF s = <<>> THEN nstr
    ELSE IF s[1] = C2
    THEN IF Len(s) = 1 THEN Append(nstr, C2)
         ELSE IF s[2] = A0 THEN NbspLoopSkip(Append(nstr, " "), Tail(Tail(s)))
         ELSE NbspLoopSkip(nstr \o <<C2, s[2]>>, Tail(Tail(s)))
    ELSE NbspLoopSkip(Append(nstr, s[1]), Tail(s))

(* The for loop over val: s is [i, iend), nstr what has been pushed.      *)
(* A 0xc2 not followed by 0xa0 is pushed and the next byte examined       *)
(* afresh (goto __CONTINUE_SAME_I); a 0xc2 at the end is pushed as is.    *)
RECURSIVE NbspLoop(_, _)
NbspLoop(nstr, s) ==
    IF s = <<>> THEN nstr
    ELSE IF s[1] = C2
    THEN IF Len(s) = 1 THEN Append(nstr, C2)
         ELSE IF s[2] = A0 THEN NbspLoop(Append(nstr, " "), Tail(Tail(s)))
         ELSE NbspLoop(Append(nstr, C2), Tail(s))
    ELSE NbspLoop(Append(nstr, s[1]), Tail(s))

NbspToSpace(val) == NbspLoop(<<>>, val)

Quote == "\""
(* The first index of ch in s outside a quoted span, Len(s) + 1 if none.  *)
(* The quote closing the one at i, 0 if there is none.                    *)
CloseQuote(s, i) ==
    LET J == {j \in i + 1..Len(s) : s[j] = Quote} IN IF J = {} THEN 0 ELSE FirstOf(J)

RECURSIVE SbrIdx(_, _, _)
SbrIdx(s, ch, i) ==
    IF i > Len(s) THEN i
    ELSE IF s[i] = ch THEN i
    ELSE IF s[i] = Quote /\ CloseQuote(s, i) # 0 THEN SbrIdx(s, ch, CloseQuote(s, i) + 1)
    ELSE SbrIdx(s, ch, i + 1)
SvTrim(s) == LET I == {i \in DOMAIN s : s[i] # " "}
             IN  IF I = {} THEN <<>> ELSE SubSeq(s, FirstOf(I), LastOf(I))
RemoveQuotes(v) ==
    IF Len(v) >= 2 /\ v[1] = Quote /\ v[Len(v)] = Quote THEN SubSeq(v, 2, Len(v) - 1) ELSE v

(* One item: StrFetchTrim(val, '=') gives the trimmed name and the rest;  *)
(* an unknown name is reported, a known one gets the value unquoted and   *)
(* with its non-breaking spaces replaced (the fields are text fields,     *)
(* whose StrToCell cannot fail).                                           *)
SetItem(val) ==
    LET e    == SbrIdx(val, "=", 1)
        name == SvTrim(SubSeq(val, 1, e - 1))
    IN  IF name \notin KnownFields THEN <<"notfound", name>>
        ELSE <<"set", name, NbspToSpace(RemoveQuotes(SubSeq(val, e + 1, Len(val))))>>

(* ParseSetValues(rbuf, res, wr, chSpl): the writes and the errors, in    *)
(* the order of the items of FieldValues_.                                *)
RECURSIVE ParseSetValues(_)
ParseSetValues(fldvals) ==
    IF fldvals = <<>> THEN <<>>
    ELSE LET e == SbrIdx(fldvals, ChSpl, 1)
         IN  <<SetItem(SubSeq(fldvals, 1, e - 1))>> \o ParseSetValues(SubSeq(fldvals, e + 1, Len(fldvals)))

-----------------------------------------------------------------------------
(* Mutant: StrFindIf, the first '/', instead of StrRFindIf.               *)
CheckCommandRightFirstSlash(seed) ==
    LET sl == {i \in DOMAIN seed : seed[i] = "/"} IN
    IF sl = {} THEN "Exec"
    ELSE LET last == SubSeq(seed, FirstOf(sl) + 1, Len(seed)) IN
         IF last = <<>> \/ last[1] # "^" THEN "Exec"
         ELSE LET rest == Tail(last)
                  co   == {i \in DOMAIN rest : rest[i] = ":"}
              IN  IF co = {} THEN "Exec"
                  ELSE LET key == SubSeq(rest, 1, FirstOf(co) - 1) IN
                       IF key = KeyEdit THEN "Write"
                       ELSE IF key = KeyApply THEN "Apply" ELSE "Exec"

(* CheckCommandRight(seed): after the last '/', "^key:..." with key edit  *)
(* needs Write, with key apply needs Apply; anything else needs Exec.     *)
CheckCommandRight(seed) ==
    LET sl == {i \in DOMAIN seed : seed[i] = "/"} IN
    IF sl = {} THEN "Exec"
    ELSE LET last == SubSeq(seed, LastOf(sl) + 1, Len(seed)) IN
         IF last = <<>> \/ last[1] # "^" THEN "Exec"
         ELSE LET rest == Tail(last)
                  co   == {i \in DOMAIN rest : rest[i] = ":"}
              IN  IF co = {} THEN "Exec"
                  ELSE LET key == SubSeq(rest, 1, FirstOf(co) - 1) IN
                       IF key = KeyEdit THEN "Write"
                       ELSE IF key = KeyApply THEN "Apply" ELSE "Exec"

(* TicketRunnerCommand(visitor, seed, cmdln): an empty command line only   *)
(* switches the current path and needs no right.                          *)
CommandRight(seed, cmdln) == IF cmdln = <<>> THEN "None" ELSE CheckCommandRight(seed)

(* Where the ticket ends once its path is walked: found is "tree" for a   *)
(* path that ends at a tree (OnFoundTree), "pod" for one that ends at a   *)
(* pod (OnLastSeedOp with a pod), or the error of the pod lookup.         *)
CommandOutcome(cmdln, found) ==
    CASE found = "tree" -> IF cmdln = <<>> THEN "SetCurrPath" ELSE "not_supported_cmd"
      [] found = "pod"  -> IF cmdln = <<>> THEN "SetCurrPath" ELSE "OnVisitorCommand"
      [] OTHER          -> found

(* TicketLogRequest before OnVisitorCommand and TicketLogResult in        *)
(* OnSeedCommandResult, both skipped for the "?" command.                 *)
CommandLogged(cmdln, found) ==
    CommandOutcome(cmdln, found) = "OnVisitorCommand" /\ cmdln # <<"?">>

(* Where the other ticket runners end, given where the path led (found: *)
(* "tree", "pod" or the pod lookup's error) and whether the pod's read or *)
(* write op handed back a RawRd / RawWr (podOp "ok") or nullptr ("fail").  *)
(*   TicketRunnerError: its error was set when made, the steps do nothing;*)
(*   TicketRunnerTree: OnLastStep continues to the tree (OnFoundTree);    *)
(*   Read / Write: a tree is refused; on a pod BeginRead / BeginWrite,     *)
(*     whose callback reaches the visitor with rd / wr, or OnError;       *)
(*     TicketRunnerWrite with AccessRight::Insert adds a missing key with  *)
(*     op.Add instead of looking it up;                                    *)
(*   Remove: a tree is refused; a key goes to ContinuePodForRemove, whose *)
(*     OnRemoved hands the result, an error included, to the visitor.     *)
TicketRemoveOutcome(found) ==
    IF found = "tree" THEN "not_supported_remove_pod" ELSE "OnTicketRunnerRemoved"
TicketOutcome(kind, found, podOp, insert) ==
    LET pod == found = "pod" \/ (kind = "Write" /\ insert) IN
    CASE kind = "Error"                       -> "preset_error"
      [] kind = "Tree"                        -> IF found = "tree" \/ found = "pod" THEN "OnFoundTree" ELSE found
      [] kind = "Remove"                      -> TicketRemoveOutcome(found)
      [] found = "tree"                       -> IF kind = "Read" THEN "not_supported_read"
                                                 ELSE "not_supported_write"
      [] ~pod                                 -> found
      [] podOp = "fail"                       -> "pod_op_error"
      [] kind = "Read"                        -> "OnTicketRunnerRead"
      [] OTHER                                -> "OnTicketRunnerWrite"

-----------------------------------------------------------------------------
(* ReqMaxRowCountT is int16_t, GridViewRequest::MaxRowCount_ uint16_t.    *)
Int16(x) == ((x + 32768) % 65536) - 32768
UnsignedCast16(x) == (x + 65536) % 65536

(* The TicketRunnerGridView constructor; the start key is copied to       *)
(* StartKeyBuf_ unless it is TextBegin or TextEnd, the same key value.    *)
NewGridView(r, startKey, tabName) ==
    [ReqMaxRowCount |-> r, StartKey |-> startKey, TabName |-> tabName, LastKey |-> ""]

(* Continue: the next request starts at the last key seen, and a          *)
(* backward request (negative count) becomes a forward one.               *)
GridViewContinue(t) ==
    [t EXCEPT !.StartKey = t.LastKey,
              !.ReqMaxRowCount = IF @ < 0 THEN Int16(-@) ELSE @]

(* Mutant: the offset of a backward request always moves past the start  *)
(* key, also when it is TextEnd.                                           *)
GridViewReqNoEndCheck(t) ==
    IF t.ReqMaxRowCount >= 0
    THEN [Offset |-> 0, MaxRowCount |-> UnsignedCast16(t.ReqMaxRowCount)]
    ELSE [Offset |-> t.ReqMaxRowCount + 1,
          MaxRowCount |-> UnsignedCast16(Int16(-t.ReqMaxRowCount))]

(* The row window of OnFoundTree: forward from the start key, or a        *)
(* negative offset that includes the start key unless it is TextEnd.      *)
GridViewReq(t) ==
    IF t.ReqMaxRowCount >= 0
    THEN [Offset |-> 0, MaxRowCount |-> UnsignedCast16(t.ReqMaxRowCount)]
    ELSE [Offset |-> t.ReqMaxRowCount + (IF t.StartKey = "TextEnd" THEN 0 ELSE 1),
          MaxRowCount |-> UnsignedCast16(Int16(-t.ReqMaxRowCount))]

(* OnFoundTree(opTree): the request, without a buffer limit when a row    *)
(* count is given (MaxBufferSize_ = 0), for the tab GetTabByNameOrFirst  *)
(* finds (the first for an empty name), or not_found_tab.  tabs: the tab  *)
(* names of the layout.                                                    *)
GridViewOnFoundTree(t, tabs) ==
    LET w   == GridViewReq(t)
        tab == IF t.TabName = "" THEN tabs[1] ELSE t.TabName
    IN  IF \A i \in DOMAIN tabs : tabs[i] # tab THEN [err |-> "not_found_tab"]
        ELSE [err |-> "no_error", StartKey |-> t.StartKey, Tab |-> tab,
              Offset |-> w.Offset, MaxRowCount |-> w.MaxRowCount,
              BufferUnlimited |-> w.MaxRowCount # 0]

(* OnGridViewOp(res): on success LastKey_ is the last key of the result.  *)
OnGridViewOp(t, res) ==
    IF res.err # "no_error" THEN t ELSE [t EXCEPT !.LastKey = res.LastKey]
====
