--------------------------- MODULE ExgMcFmtSSToRts ---------------------------
(***************************************************************************)
(* The I084 snapshot parsers of src/f9twf/ExgMcFmtSSToRts.cpp.  Each runs  *)
(* its whole product loop under the symbol map's lock, so a parser is one *)
(* operator from the message and the symbol table to what it publishes.   *)
(*                                                                         *)
(* An 'O' message packs variable-length entries: a product header         *)
(* (ProdId_, NoMdEntries_, LastProdMsgSeq_) followed by NoMdEntries_ book  *)
(* entries; Entry_ is that packing as a sequence of cells, and the parser  *)
(* walks it by position as the code walks it by pointer.  A 'P' message    *)
(* has fixed-size entries.  The BCD fields are given as the numbers        *)
(* PackBcdTo reads.  A symbol is its LvUpLmt_/LvDnLmt_; what a publication *)
(* packs (ExgMdToSnapshotBS, MdRtsPackSnapshotBS, outside the sources) is  *)
(* the book entries and the sequence number it carries.                    *)
(***************************************************************************)
EXTENDS Integers, Sequences, TLC

(* FetchSymb: the symbol of an id, made (with zero limits) if it is new.  *)
NewSymb == [LvUpLmt_ |-> 0, LvDnLmt_ |-> 0]
FetchSymb(symbs, id) == IF id \in DOMAIN symbs THEN symbs ELSE symbs @@ (id :> NewSymb)

(* The ExgMcI083 that McI084SSParserO forwards, after lines 21-30 set its *)
(* head; the rest of the stack buffer holds whatever was there: -1 for a  *)
(* number, "?" for the id.                                                 *)
I083Head ==
    [MessageKind_ |-> "B", ChannelSeq_ |-> 0, VersionNo_ |-> 1, CalculatedFlag_ |-> "0",
     NoMdEntries_ |-> -1, MdEntry_ |-> <<>>, ProdId_ |-> "?", ProdMsgSeq_ |-> -1,
     BodyLength_ |-> -1]

(* Lines 51-58: the product's part of the I083 is written over the buffer *)
(* the previous product used; book entries past mdCount stay as they were.*)
(* BodyLength_ is kept as the number of book entries it covers.            *)
FillI083(buf, ent, md) ==
    [buf EXCEPT !.NoMdEntries_ = ent.NoMdEntries_,
                !.MdEntry_ = [k \in 1..(IF Len(md) > Len(buf.MdEntry_) THEN Len(md) ELSE Len(buf.MdEntry_)) |->
                                IF k <= Len(md) THEN md[k] ELSE buf.MdEntry_[k]],
                !.ProdId_ = ent.ProdId_,
                !.ProdMsgSeq_ = ent.LastProdMsgSeq_,
                !.BodyLength_ = ent.NoMdEntries_]

(* What a consumer of e083 reads: the head and the entries BodyLength_    *)
(* covers.                                                                  *)
ConsumerView(buf) == [buf EXCEPT !.MdEntry_ = SubSeq(@, 1, buf.BodyLength_)]

(* One product of an 'O' message (lines 40-63).                           *)
OEntry(st, ent, md, sessOk, notify) ==
    IF ent.LastProdMsgSeq_ = 0 THEN st
    ELSE LET p     == ent.ProdId_
             symbs == FetchSymb(st.symbs, p)
             buf   == FillI083(st.i083, ent, md)
         IN  IF p \notin sessOk THEN [st EXCEPT !.symbs = symbs]
             ELSE [st EXCEPT !.symbs = symbs,
                             !.pubs = Append(@, [symb |-> p, kind |-> "SnapshotBS",
                                                 bs |-> md, seq |-> ent.LastProdMsgSeq_]),
                             !.i083 = IF notify THEN buf ELSE @,
                             !.fwd = IF notify THEN Append(@, ConsumerView(buf)) ELSE @]

(* Mutant: the next product is taken to follow the header directly.       *)
NextEntryFixed(pos, mdCount) == pos + 1

(* Line 65: the next product header follows this one's book entries.     *)
NextEntry(pos, mdCount) == pos + 1 + mdCount

RECURSIVE OLoop(_, _, _, _, _, _, _)
OLoop(cells, prodL, prodCount, pos, st, sessOk, notify) ==
    IF prodL >= prodCount THEN st
    ELSE LET ent     == cells[pos]
             mdCount == ent.NoMdEntries_
         IN  OLoop(cells, prodL + 1, prodCount, NextEntry(pos, mdCount),
                   OEntry(st, ent, SubSeq(cells, pos + 1, pos + mdCount), sessOk, notify),
                   sessOk, notify)

(* sessOk: the symbols CheckSymbTradingSessionId accepts; notify:         *)
(* rtch.IsNeedsNotifyConsumer().                                           *)
McI084SSParserO(msg, symbs, sessOk, notify) ==
    OLoop(msg.Entry_, 0, msg.NoEntries_, 1,
          [symbs |-> symbs, pubs |-> <<>>, i083 |-> I083Head, fwd |-> <<>>], sessOk, notify)

-----------------------------------------------------------------------------
(* SetLvLmt: whether the level (one less, unless 0) differs from dst; the *)
(* new level is packed but never stored in dst.                            *)
SetLvLmt(dst, lv) == dst # (IF lv > 0 THEN lv - 1 ELSE lv)

(* Lines 98-109.  prodEntry is never advanced: every pass reads the first *)
(* entry.                                                                  *)
RECURSIVE PLoop(_, _, _)
PLoop(msg, prodL, st) ==
    IF prodL >= msg.NoEntries_ THEN st
    ELSE LET ent   == msg.Entry_[1]
             symbs == FetchSymb(st.symbs, ent.ProdId_)
             up    == SetLvLmt(symbs[ent.ProdId_].LvUpLmt_, ent.ExpandTypeLevelR_)
             dn    == SetLvLmt(symbs[ent.ProdId_].LvDnLmt_, ent.ExpandTypeLevelF_)
             rts   == {f \in {"LvUpLmt", "LvDnLmt"} : IF f = "LvUpLmt" THEN up ELSE dn}
         IN  PLoop(msg, prodL + 1,
                   [st EXCEPT !.symbs = symbs,
                              !.pubs = IF up \/ dn
                                       THEN Append(@, [symb |-> ent.ProdId_, kind |-> "FieldValue_AndInfoTime",
                                                       fields |-> rts])
                                       ELSE @])

McI084SSParserP(msg, symbs) ==
    PLoop(msg, 0, [symbs |-> symbs, pubs |-> <<>>, i083 |-> I083Head, fwd |-> <<>>])

(* The dispatch on MessageType_; 'A', 'S' and 'Z' are not handled.        *)
I084SSParserToRts(msg, symbs, sessOk, notify) ==
    CASE msg.MessageType_ = "O" -> McI084SSParserO(msg, symbs, sessOk, notify)
      [] msg.MessageType_ = "P" -> McI084SSParserP(msg, symbs)
      [] OTHER -> [symbs |-> symbs, pubs |-> <<>>, i083 |-> I083Head, fwd |-> <<>>]
====
