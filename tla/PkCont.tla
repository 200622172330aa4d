------------------------------- MODULE PkCont -------------------------------
(***************************************************************************)
(* fon9::PkContFeeder (src/fon9/PkCont.hpp): restores the continuity of a  *)
(* sequenced packet stream fed by several sources (e.g. the primary and    *)
(* the secondary multicast feed of an exchange).  A packet whose sequence  *)
(* is below NextSeq_ is a duplicate and is dropped; the expected packet    *)
(* (or any packet while NextSeq_ = 0) is delivered and then the buffered   *)
(* packets that became contiguous are delivered; any other packet is       *)
(* buffered and the wait timer is (re)armed.  When the timer fires the     *)
(* gap is given up: the earliest buffered packet is force-delivered.       *)
(*                                                                         *)
(* FeedPacket, PkContOnTimer and Clear live in PkCont.cpp, which is not    *)
(* part of the sources: they are modelled from the specification.          *)
(* CallOnReceived is translated from PkCont.hpp.                           *)
(*                                                                         *)
(* FeedPacket and the timer both run under the PkPendings_ lock (MustLock),*)
(* so each of them is one atomic step; the interleaving of the feeds and   *)
(* the timer thread is the interleaving of these steps.                    *)
(***************************************************************************)
EXTENDS Naturals, Sequences, FiniteSets, FiniteSetsExt, SequencesExt

CONSTANTS
    Feeds,      \* the sources feeding the same feeder (model values)
    MaxSeq,     \* sequence numbers of a day are 1..MaxSeq
    Span,       \* Span[s]: sequence numbers packet s covers; PkContOnReceived
                \* may raise AfterNextSeq_ past seq + 1 (a multi-message packet)
    MaxDays     \* bound on the daily Clear() calls

ASSUME MaxSeq \in Nat \ {0}
ASSUME Span \in [1..MaxSeq -> Nat \ {0}]
ASSUME MaxDays \in Nat

SeqNo == 1..MaxSeq

VARIABLES
    fd,         \* the PkContFeeder members, see Feeder below
    fed,        \* <<feed, seq>> pairs already fed today (environment)
    day         \* number of Clear() calls so far

vars == <<fd, fed, day>>

(* The feeder's members.  Out is a history variable, not a member: the     *)
(* sequence numbers passed to PkContOnReceived since the last Clear().     *)
Feeder == [NextSeq: Nat, ReceivedCount: Nat, DroppedCount: Nat,
           LostCount: Nat, Pendings: SUBSET SeqNo, TimerArmed: BOOLEAN,
           Out: Seq(SeqNo)]

EmptyFeeder == [NextSeq |-> 0, ReceivedCount |-> 0, DroppedCount |-> 0,
                LostCount |-> 0, Pendings |-> {}, TimerArmed |-> FALSE,
                Out |-> <<>>]

-----------------------------------------------------------------------------
(* CallOnReceived: AfterNextSeq_ = seq + 1, the handler may move it         *)
(* (Span), then NextSeq_ = AfterNextSeq_ and ++ReceivedCount_.             *)
CallOnReceived(r, seq) ==
    [r EXCEPT !.NextSeq = seq + Span[seq],
              !.ReceivedCount = @ + 1,
              !.Out = Append(@, seq)]

(* Mutant: the drain loop also erases the first buffered packet that is  *)
(* not yet contiguous (erase(begin, ibeg + 1) instead of erase(begin,ibeg)).*)
RECURSIVE DrainPendingsEraseOne(_)
DrainPendingsEraseOne(r) ==
    IF r.Pendings = {} THEN r
    ELSE LET m == Min(r.Pendings)
             rest == [r EXCEPT !.Pendings = @ \ {m}]
         IN  IF m > r.NextSeq THEN rest
             ELSE IF m < r.NextSeq
                  THEN DrainPendingsEraseOne([rest EXCEPT !.DroppedCount = @ + 1])
                  ELSE DrainPendingsEraseOne(CallOnReceived(rest, m))

(* After a delivery, deliver the buffered packets that are now contiguous, *)
(* in increasing order; a buffered packet already covered by NextSeq_ is   *)
(* discarded as a duplicate.                                               *)
RECURSIVE DrainPendings(_)
DrainPendings(r) ==
    IF r.Pendings = {} THEN r
    ELSE LET m == Min(r.Pendings)
             rest == [r EXCEPT !.Pendings = @ \ {m}]
         IN  IF m > r.NextSeq THEN r
             ELSE IF m < r.NextSeq
                  THEN DrainPendings([rest EXCEPT !.DroppedCount = @ + 1])
                  ELSE DrainPendings(CallOnReceived(rest, m))

(* Mutant: no duplicate check, a stale packet goes to the gap branch.     *)
FeedPacketNoDupCheck(r, seq) ==
    IF seq = r.NextSeq \/ r.NextSeq = 0
    THEN DrainPendings(CallOnReceived(r, seq))
    ELSE [r EXCEPT !.Pendings = @ \cup {seq}, !.TimerArmed = TRUE]

(* FeedPacket(pk, pksz, seq), the whole call under the PkPendings_ lock.   *)
FeedPacket(r, seq) ==
    IF seq < r.NextSeq
    THEN [r EXCEPT !.DroppedCount = @ + 1]          \* + PkContOnDropped()
    ELSE IF seq = r.NextSeq \/ r.NextSeq = 0
    THEN DrainPendings(CallOnReceived(r, seq))
    ELSE [r EXCEPT !.Pendings = @ \cup {seq},       \* SortedVectorSet: no dup
                   !.TimerArmed = TRUE]             \* StartPkContTimer()

(* Mutant: LostCount_ counts the forced packet as lost too (off by one).  *)
PkContOnTimerLostOffByOne(r) ==
    IF r.Pendings = {} THEN [r EXCEPT !.TimerArmed = FALSE]
    ELSE LET m == Min(r.Pendings)
             forced == CallOnReceived(
                         [r EXCEPT !.Pendings = @ \ {m},
                                   !.LostCount = @ + (m - r.NextSeq) + 1], m)
             after == DrainPendings(forced)
         IN  [after EXCEPT !.TimerArmed = after.Pendings # {}]

(* Mutant: the operands of the unsigned gap subtraction swapped; SeqT     *)
(* wraps, which the model shows as a count below zero.                    *)
PkContOnTimerLostSwapped(r) ==
    IF r.Pendings = {} THEN [r EXCEPT !.TimerArmed = FALSE]
    ELSE LET m == Min(r.Pendings)
             forced == CallOnReceived(
                         [r EXCEPT !.Pendings = @ \ {m},
                                   !.LostCount = @ + (r.NextSeq - m)], m)
             after == DrainPendings(forced)
         IN  [after EXCEPT !.TimerArmed = after.Pendings # {}]

(* Mutant: the timer is not re-armed after a forced advance.              *)
PkContOnTimerNoRearm(r) ==
    IF r.Pendings = {} THEN [r EXCEPT !.TimerArmed = FALSE]
    ELSE LET m == Min(r.Pendings)
             forced == CallOnReceived(
                         [r EXCEPT !.Pendings = @ \ {m},
                                   !.LostCount = @ + (m - r.NextSeq)], m)
         IN  [DrainPendings(forced) EXCEPT !.TimerArmed = FALSE]

(* PkContOnTimer: the one-shot timer has fired.  If packets are still      *)
(* buffered, give up the gap: LostCount_ grows by the skipped numbers, the *)
(* earliest buffered packet is delivered, the contiguous ones follow, and  *)
(* the timer is re-armed while something is still buffered.                *)
PkContOnTimer(r) ==
    IF r.Pendings = {} THEN [r EXCEPT !.TimerArmed = FALSE]
    ELSE LET m == Min(r.Pendings)
             forced == CallOnReceived(
                         [r EXCEPT !.Pendings = @ \ {m},
                                   !.LostCount = @ + (m - r.NextSeq)], m)
             after == DrainPendings(forced)
         IN  [after EXCEPT !.TimerArmed = after.Pendings # {}]

-----------------------------------------------------------------------------
Init ==
    /\ fd = EmptyFeeder
    /\ fed = {}
    /\ day = 0

(* One source hands packet seq to OnPkReceived -> FeedPacket.  Each source *)
(* carries each sequence number at most once a day, in any order; a pair   *)
(* never fed is a packet that source lost.                                 *)
Feed(f, seq) ==
    /\ <<f, seq>> \notin fed
    /\ fed' = fed \cup {<<f, seq>>}
    /\ fd' = FeedPacket(fd, seq)
    /\ UNCHANGED day

(* EmitOnTimer -> PkContOnTimer(lock), on the timer thread.                *)
TimerFires ==
    /\ fd.TimerArmed
    /\ fd' = PkContOnTimer(fd)
    /\ UNCHANGED <<fed, day>>

(* DailyClear() -> Clear(): stop the timer, forget every buffered packet   *)
(* and reset the sequence and the counters; the next day starts again.    *)
Clear ==
    /\ day < MaxDays
    /\ fd' = EmptyFeeder
    /\ fed' = {}
    /\ day' = day + 1

Next ==
    \/ \E f \in Feeds, seq \in SeqNo : Feed(f, seq)
    \/ TimerFires
    \/ Clear

(* The timer thread: an armed timer fires after WaitInterval_.             *)
Spec == Init /\ [][Next]_vars /\ WF_vars(TimerFires)

-----------------------------------------------------------------------------
TypeOK ==
    /\ fd \in Feeder
    /\ fed \subseteq Feeds \X SeqNo
    /\ day \in 0..MaxDays

(* PkContOnReceived sees each day's packets in strictly increasing order  *)
(* and never sees a sequence number twice, even when a packet covers      *)
(* several numbers, whatever the order and duplication of the feeds.      *)
DeliveredInOrder ==
    \A i \in 1..(Len(fd.Out) - 1) : fd.Out[i] + Span[fd.Out[i]] <= fd.Out[i + 1]

(* A packet that can still be delivered in order is never thrown away:    *)
(* every number fed today at or above NextSeq_ is buffered.               *)
NothingAheadDiscarded ==
    fd.NextSeq # 0 =>
        \A p \in fed : p[2] >= fd.NextSeq => p[2] \in fd.Pendings

(* LostCount_ counts exactly the numbers skipped since the first packet:  *)
(* NextSeq_ = first delivered + numbers delivered + numbers lost.         *)
Covered(s) == FoldSeq(LAMBDA x, acc : acc + Span[x], 0, s)
LostAccounting ==
    fd.Out # <<>> => fd.NextSeq = fd.Out[1] + Covered(fd.Out) + fd.LostCount

(* Bounded wait: a buffered packet does not stay buffered forever, the    *)
(* wait timer eventually gives the gap up.                                *)
GapsResolved == fd.Pendings # {} ~> fd.Pendings = {}

=============================================================================
