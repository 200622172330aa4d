----------------------------- MODULE PkReceiver -----------------------------
(***************************************************************************)
(* fon9::PkReceiver::FeedBuffer (src/fon9/PkReceiver.cpp): the framer    *)
(* that cuts a received byte stream into packets                          *)
(*    leader, header (PkHeadSize_ bytes in all), body, checksum, CR, LF.  *)
(* The loop is the RECURSIVE operator FeedLoop over the unconsumed bytes   *)
(* rx (the DcQueue); the socket appends bytes and calls FeedBuffer at     *)
(* whatever points the reads happen to end.                               *)
(*                                                                         *)
(* Bytes are abstracted to Leader, CR, LF, Bad (a byte that spoils the    *)
(* checksum) and small numbers; GetPkSize reads the number in the last    *)
(* header byte, and CalcCheckSum is zero exactly when no Bad byte is in   *)
(* the packet.  Both are protocol-specific and not among the sources.     *)
(* FixedSizePkReceiver::FeedBuffer, which cuts the same kind of stream   *)
(* into packets of PkSize_ bytes, is fed the same bytes.                  *)
(* The stream is made of whole tokens (a packet, a packet with a bad      *)
(* checksum, a short candidate, stray bytes) delivered a byte at a time.  *)
(***************************************************************************)
EXTENDS Naturals, Sequences, SequencesExt

CONSTANTS
    Leader, CR, LF, Bad,   \* byte classes (model values)
    PkHeadSize,            \* PkHeadSize_, leader included
    MaxPacketSize,         \* kMaxPacketSize
    DgramModes,            \* the values IsDgram_ is constructed with
    StopSize,              \* OnPkReceived asks to stop after a packet of this size
    Tokens,                \* what the peer may send
    MaxTokens,             \* bound on how many tokens the peer sends
    FixedPkSize            \* PkSize_ of the FixedSizePkReceiver

ASSUME PkHeadSize \in Nat /\ PkHeadSize >= 2 /\ MaxPacketSize \in Nat

VARIABLES
    pend,     \* bytes of the current token not yet read by the socket
    arrived,  \* every byte read so far (history)
    ntok,     \* tokens sent
    fr,       \* the receiver: see NewRcv
    isDgram,  \* IsDgram_, fixed when the receiver is constructed
    fx        \* the FixedSizePkReceiver: see NewFixed

vars == <<pend, arrived, ntok, fr, isDgram, fx>>

(* rx = the DcQueue; out = packets passed to OnPkReceived; recv =         *)
(* ReceivedCount_; chk = ChkSumErrCount_; drop = DroppedBytes_; chkBytes  *)
(* and rejected are history: bytes of checksum-failed packets, and the    *)
(* lengths the length test refused; stop = the last FeedBuffer returned  *)
(* false.                                                                  *)
NewRcv(bytes) == [rx |-> bytes, out |-> <<>>, recv |-> 0, chk |-> 0,
                  drop |-> 0, chkBytes |-> 0, rejected |-> {}, stop |-> FALSE]

-----------------------------------------------------------------------------
GetPkSize(hd) == IF hd[PkHeadSize] \in Nat THEN hd[PkHeadSize] ELSE 0

CalcCheckSumIsZero(pk) == \A i \in DOMAIN pk : pk[i] # Bad

OnPkReceived(pk) == Len(pk) # StopSize

Drop(s, n) == SubSeq(s, n + 1, Len(s))

(* rxbuf.PopUnknownChar(kPkHeadLeader): drop everything before the next  *)
(* leader, counting it in DroppedBytes_.                                  *)
PopUnknownChar(r) ==
    LET lead == {i \in DOMAIN r.rx : r.rx[i] = Leader}
        k    == IF lead = {} THEN Len(r.rx) ELSE Min(lead) - 1
    IN  [r EXCEPT !.rx = Drop(@, k), !.drop = @ + k]

(* Mutant: the byte skipped after a bad candidate is not counted.        *)
PopOneUncounted(r) == [r EXCEPT !.rx = Drop(@, 1)]

(* rxbuf.PopConsumed(1); ++DroppedBytes_: skip a leader that does not    *)
(* start a packet.                                                        *)
PopOne(r) == [r EXCEPT !.rx = Drop(@, 1), !.drop = @ + 1]

PkSizeOK(n) == PkHeadSize + 2 < n /\ n < MaxPacketSize

(* Mutant: ++ReceivedCount_ left out of the delivery path.               *)
RECURSIVE FeedLoopNoReceivedCount(_)
FeedLoopNoReceivedCount(r) ==
    IF Len(r.rx) < PkHeadSize THEN r
    ELSE IF r.rx[1] # Leader THEN FeedLoopNoReceivedCount(PopUnknownChar(r))
    ELSE LET n == GetPkSize(SubSeq(r.rx, 1, PkHeadSize)) IN
         IF ~PkSizeOK(n)
         THEN FeedLoopNoReceivedCount(PopUnknownChar(PopOne([r EXCEPT !.rejected = @ \cup {n}])))
         ELSE IF Len(r.rx) < n THEN r
         ELSE LET pk == SubSeq(r.rx, 1, n) IN
              IF pk[n - 1] # CR \/ pk[n] # LF
              THEN FeedLoopNoReceivedCount(PopUnknownChar(PopOne(r)))
              ELSE IF ~CalcCheckSumIsZero(pk)
              THEN FeedLoopNoReceivedCount([r EXCEPT !.rx = Drop(@, n), !.chk = @ + 1,
                                                     !.chkBytes = @ + n])
              ELSE LET r1 == [r EXCEPT !.rx = Drop(@, n), !.out = Append(@, pk)]
                   IN  IF OnPkReceived(pk) THEN FeedLoopNoReceivedCount(r1)
                       ELSE [r1 EXCEPT !.stop = TRUE]

(* The while loop of FeedBuffer, up to its break or return false.        *)
RECURSIVE FeedLoop(_)
FeedLoop(r) ==
    IF Len(r.rx) < PkHeadSize THEN r                      \* Peek fails
    ELSE IF r.rx[1] # Leader THEN FeedLoop(PopUnknownChar(r))
    ELSE LET n == GetPkSize(SubSeq(r.rx, 1, PkHeadSize)) IN
         IF ~PkSizeOK(n)
         THEN FeedLoop(PopUnknownChar(PopOne([r EXCEPT !.rejected = @ \cup {n}])))
         ELSE IF Len(r.rx) < n THEN r                     \* wait for more
         ELSE LET pk == SubSeq(r.rx, 1, n) IN
              IF pk[n - 1] # CR \/ pk[n] # LF
              THEN FeedLoop(PopUnknownChar(PopOne(r)))
              ELSE IF ~CalcCheckSumIsZero(pk)
              THEN FeedLoop([r EXCEPT !.rx = Drop(@, n), !.chk = @ + 1,
                                      !.chkBytes = @ + n])
              ELSE LET r1 == [r EXCEPT !.rx = Drop(@, n), !.recv = @ + 1,
                                       !.out = Append(@, pk)]
                   IN  IF OnPkReceived(pk) THEN FeedLoop(r1)
                       ELSE [r1 EXCEPT !.stop = TRUE]

(* Mutant: the remainder dropped whether or not the receiver is a         *)
(* datagram one.                                                           *)
FeedBufferAlwaysDgram(r) ==
    LET r1 == FeedLoop([r EXCEPT !.stop = FALSE])
    IN  IF ~r1.stop /\ r1.rx # <<>>
        THEN [r1 EXCEPT !.rx = <<>>, !.drop = @ + Len(r1.rx)]
        ELSE r1

(* FeedBuffer: the loop, then a datagram receiver drops what is left.    *)
FeedBuffer(r) ==
    LET r1 == FeedLoop([r EXCEPT !.stop = FALSE])
    IN  IF ~r1.stop /\ isDgram /\ r1.rx # <<>>
        THEN [r1 EXCEPT !.rx = <<>>, !.drop = @ + Len(r1.rx)]
        ELSE r1

(* FeedBuffer called again after it returned false, until it returns     *)
(* true: what the receiver makes of everything it holds.                  *)
RECURSIVE FeedAll(_)
FeedAll(r) == LET r1 == FeedBuffer(r) IN IF r1.stop THEN FeedAll(r1) ELSE r1

-----------------------------------------------------------------------------
(* rx = its DcQueue; buf = PkBuffer_, ofs = PkBufOfs_, count = PkCount_;  *)
(* out = the packets its caller has handled.                              *)
NewFixed == [rx |-> <<>>, buf |-> <<>>, ofs |-> 0, count |-> 0, out |-> <<>>]

(* Mutant: the rest of a packet read as PkSize_ bytes, not PkSize_ -      *)
(* PkBufOfs_.                                                              *)
FixedFeedBufferWholeRead(f) ==
    IF f.ofs > 0
    THEN LET k   == IF Len(f.rx) < FixedPkSize THEN Len(f.rx) ELSE FixedPkSize
             buf == SubSeq(f.buf, 1, f.ofs) \o SubSeq(f.rx, 1, k)
         IN  IF f.ofs + k < FixedPkSize
             THEN [f |-> [f EXCEPT !.rx = Drop(@, k), !.buf = buf, !.ofs = @ + k], pk |-> <<>>, peeked |-> FALSE]
             ELSE [f |-> [f EXCEPT !.rx = Drop(@, k), !.buf = buf, !.ofs = 0, !.count = @ + 1],
                   pk |-> buf, peeked |-> FALSE]
    ELSE IF Len(f.rx) < FixedPkSize
    THEN [f |-> [f EXCEPT !.buf = f.rx, !.ofs = Len(f.rx), !.rx = <<>>], pk |-> <<>>, peeked |-> FALSE]
    ELSE [f |-> [f EXCEPT !.count = @ + 1], pk |-> SubSeq(f.rx, 1, FixedPkSize), peeked |-> TRUE]

(* FixedSizePkReceiver::FeedBuffer: the receiver after the call, the      *)
(* packet it returns (<<>> for nullptr) and whether that packet was only  *)
(* peeked in rxbuf (peeked) or read out into PkBuffer_.  A partial packet *)
(* is read into PkBuffer_ and completed by later calls.                   *)
FixedFeedBuffer(f) ==
    IF f.ofs > 0
    THEN LET sz  == FixedPkSize - f.ofs
             k   == IF Len(f.rx) < sz THEN Len(f.rx) ELSE sz
             buf == SubSeq(f.buf, 1, f.ofs) \o SubSeq(f.rx, 1, k)
         IN  IF f.ofs + k < FixedPkSize
             THEN [f |-> [f EXCEPT !.rx = Drop(@, k), !.buf = buf, !.ofs = @ + k], pk |-> <<>>, peeked |-> FALSE]
             ELSE [f |-> [f EXCEPT !.rx = Drop(@, k), !.buf = buf, !.ofs = 0, !.count = @ + 1],
                   pk |-> buf, peeked |-> FALSE]
    ELSE IF Len(f.rx) < FixedPkSize
    THEN [f |-> [f EXCEPT !.buf = f.rx, !.ofs = Len(f.rx), !.rx = <<>>], pk |-> <<>>, peeked |-> FALSE]
    ELSE [f |-> [f EXCEPT !.count = @ + 1], pk |-> SubSeq(f.rx, 1, FixedPkSize), peeked |-> TRUE]

(* Its caller: FeedBuffer until it returns nullptr, handling each packet *)
(* and popping the PkSize_ bytes of a peeked one from rxbuf.              *)
RECURSIVE FixedFeedAll(_)
FixedFeedAll(f) ==
    LET r == FixedFeedBuffer(f) IN
    IF r.pk = <<>> THEN r.f
    ELSE FixedFeedAll([r.f EXCEPT !.out = Append(@, r.pk),
                                  !.rx = IF r.peeked THEN Drop(@, FixedPkSize) ELSE @])

-----------------------------------------------------------------------------
Init ==
    /\ pend = <<>> /\ arrived = <<>> /\ ntok = 0
    /\ fr = NewRcv(<<>>)
    /\ isDgram \in DgramModes
    /\ fx = NewFixed

(* The peer starts sending another token.                                 *)
Send ==
    /\ pend = <<>> /\ ntok < MaxTokens
    /\ \E t \in Tokens : pend' = t
    /\ ntok' = ntok + 1
    /\ UNCHANGED <<arrived, fr, isDgram, fx>>

(* The socket reads the next byte into the receive buffer.                *)
Arrive ==
    /\ pend # <<>>
    /\ fr' = [fr EXCEPT !.rx = Append(@, Head(pend))]
    /\ fx' = [fx EXCEPT !.rx = Append(@, Head(pend))]
    /\ arrived' = Append(arrived, Head(pend))
    /\ pend' = Tail(pend)
    /\ UNCHANGED <<ntok, isDgram>>

(* The receive event hands the buffer to FeedBuffer.                      *)
Feed ==
    /\ fr.rx # <<>>
    /\ fr' = FeedBuffer(fr)
    /\ UNCHANGED <<pend, arrived, ntok, isDgram, fx>>

(* The fixed-size receiver's receive event.                               *)
FeedFixed ==
    /\ fx.rx # <<>>
    /\ fx' = FixedFeedAll(fx)
    /\ UNCHANGED <<pend, arrived, ntok, isDgram, fr>>

Next == Send \/ Arrive \/ Feed \/ FeedFixed

Spec == Init /\ [][Next]_vars

-----------------------------------------------------------------------------
TypeOK ==
    /\ pend \in Seq(UNION {Range(t) : t \in Tokens})
    /\ ntok \in 0..MaxTokens /\ isDgram \in BOOLEAN
    /\ fr.recv = Len(fr.out) /\ fr.stop \in BOOLEAN
    /\ {fr.chk, fr.drop, fr.chkBytes} \subseteq Nat
    /\ fx.count = Len(fx.out) /\ fx.ofs \in 0..FixedPkSize - 1

(* Every byte read is either still buffered, dropped, part of a packet    *)
(* delivered, or part of a packet refused for its checksum.               *)
ByteAccounting ==
    Len(arrived) = Len(fr.rx) + fr.drop + fr.chkBytes
                   + FoldSeq(LAMBDA p, acc : acc + Len(p), 0, fr.out)

(* For a stream receiver, how the bytes were split into reads does not    *)
(* matter: the packets delivered and the checksum failures are those of   *)
(* feeding everything read so far in one call, and so is the number of   *)
(* bytes dropped or still buffered (fewer than a header's worth of stray  *)
(* bytes waits in the buffer until more arrives).                         *)
ChunkingInvariance ==
    LET whole == FeedAll(NewRcv(arrived))
        parts == FeedAll(fr)
    IN  ~isDgram =>
        /\ parts.out = whole.out /\ parts.chk = whole.chk
        /\ parts.drop + Len(parts.rx) = whole.drop + Len(whole.rx)

(* The fixed-size receiver hands its caller the bytes read, in order, cut *)
(* into packets of exactly PkSize_ bytes, however the reads and the calls *)
(* fall: the packets, then the partial one in PkBuffer_, then what is     *)
(* still in rxbuf, are the stream read so far.                            *)
FixedSizeFraming ==
    /\ \A i \in DOMAIN fx.out : Len(fx.out[i]) = FixedPkSize
    /\ FlattenSeq(fx.out) \o SubSeq(fx.buf, 1, fx.ofs) \o fx.rx = arrived

(* The length test accepts every length in [PkHeadSize + 2,               *)
(* kMaxPacketSize), as the framing contract states.                       *)
AcceptsContractLengths ==
    \A n \in fr.rejected : ~(PkHeadSize + 2 <= n /\ n < MaxPacketSize)
====
