----------------------------- MODULE SendBuffer -----------------------------
(***************************************************************************)
(* fon9::io::SendBuffer (src/fon9/io/SendBuffer.hpp) with the callers the *)
(* class comment prescribes: a sender locks the op queue (ALocker) and     *)
(* either wins the Empty -> Sending switch (ToSendingAndUnlock), fills the *)
(* returned Sending_ after the unlock and starts the one write, or, when   *)
(* a write is under way, appends to Queue_ (GetQueueForPush); a sender     *)
(* that may not work in place while the buffer is Empty posts its send to  *)
(* the op queue.  The write completion calls OpImpl_ContinueSend, which   *)
(* moves Queue_ behind what is left of Sending_ and starts the next write *)
(* or returns to Empty.  ForceClearBuffer drops everything at destruction. *)
(*                                                                         *)
(* Data is abstracted to messages <<sender, n>>; a write writes a prefix  *)
(* of Sending_ (a partial write consumes fewer than it was given).        *)
(***************************************************************************)
EXTENDS Sequences, SequencesExt, Naturals

CONSTANTS
    Senders,    \* application threads sending on the device
    MsgsEach,   \* messages each of them sends, in order
    MaxOpTasks  \* bound on the other tasks the op thread runs

Msgs == Senders \X (1..MsgsEach)

VARIABLES
    status,     \* Status_: "Empty" or "Sending"
    queue,      \* Queue_
    sending,    \* Sending_
    writes,     \* writes handed to the socket and not yet completed
    inflight,   \* how many messages of Sending_ the outstanding write holds
    opq,        \* send tasks posted to the op queue
    opBusy,     \* the op thread is running some other task of the device
    optasks,    \* other tasks it has run
    spc,        \* each sender: "idle", or "fill" after winning Sending
    sent,       \* each sender: messages it has handed to the device
    wire,       \* what the peer has received, in order
    dropped,    \* what ForceClearBuffer consumed with an error
    closed      \* ForceClearBuffer has run

vars == <<status, queue, sending, writes, inflight, opq, opBusy, optasks, spc, sent, wire,
          dropped, closed>>

Msg(s) == <<s, sent[s] + 1>>

-----------------------------------------------------------------------------
(* Mutant: the Empty test dropped from ToSendingAndUnlock.                 *)
ToSendingAndUnlockAnyStatus(allow, st) == allow

(* ToSendingAndUnlock(alocker): succeeds only in place and when Empty.    *)
ToSendingAndUnlock(allow, st) == allow /\ st = "Empty"

(* Mutant: the new data put in front of what Sending_ still holds.       *)
OpImpl_CheckSendQueueSwapped(snd, que) ==
    IF que \o snd = <<>> THEN [status |-> "Empty", sending |-> <<>>]
    ELSE [status |-> "Sending", sending |-> que \o snd]

(* Mutant: Queue_ not moved into Sending_.                                *)
OpImpl_CheckSendQueueNoMove(snd, que) ==
    IF snd = <<>> THEN [status |-> "Empty", sending |-> <<>>]
    ELSE [status |-> "Sending", sending |-> snd]

(* OpImpl_CheckSendQueue: Sending_.push_back(move(Queue_)); Empty when    *)
(* nothing is left, else the caller writes Sending_.                       *)
OpImpl_CheckSendQueue(snd, que) ==
    IF snd \o que = <<>> THEN [status |-> "Empty", sending |-> <<>>]
    ELSE [status |-> "Sending", sending |-> snd \o que]

-----------------------------------------------------------------------------
Init ==
    /\ status = "Empty" /\ queue = <<>> /\ sending = <<>>
    /\ writes = 0 /\ inflight = 0 /\ opq = <<>> /\ opBusy = FALSE /\ optasks = 0
    /\ spc = [s \in Senders |-> "idle"]
    /\ sent = [s \in Senders |-> 0]
    /\ wire = <<>> /\ dropped = <<>> /\ closed = FALSE

(* Sender s, holding ALocker: in place only when the op queue is idle.    *)
(* In place it wins Sending_ or appends to Queue_ behind the write under  *)
(* way; otherwise it posts the send, so a send never overtakes one posted *)
(* before it.                                                              *)
Send(s) ==
    /\ ~closed /\ spc[s] = "idle" /\ sent[s] < MsgsEach
    /\ LET allow == opq = <<>> /\ ~opBusy IN
       IF ToSendingAndUnlock(allow, status)
       THEN /\ status' = "Sending" /\ spc' = [spc EXCEPT ![s] = "fill"]
            /\ UNCHANGED <<queue, opq>>
       ELSE IF allow
       THEN /\ queue' = Append(queue, Msg(s))
            /\ UNCHANGED <<status, spc, opq>>
       ELSE /\ opq' = Append(opq, Msg(s))
            /\ UNCHANGED <<status, spc, queue>>
    /\ sent' = [sent EXCEPT ![s] = @ + 1]
    /\ UNCHANGED <<sending, writes, inflight, opBusy, optasks, wire, dropped, closed>>

(* After the unlock: fill the returned Sending_ and write it.             *)
Fill(s) ==
    /\ spc[s] = "fill"
    /\ sending' = Append(sending, <<s, sent[s]>>)
    /\ writes' = writes + 1 /\ inflight' = Len(sending')
    /\ spc' = [spc EXCEPT ![s] = "idle"]
    /\ UNCHANGED <<status, queue, opq, opBusy, optasks, sent, wire, dropped, closed>>

(* The op thread runs a posted send: it is in place.                      *)
RunPosted ==
    /\ opq # <<>> /\ ~closed /\ ~opBusy
    /\ IF ToSendingAndUnlock(TRUE, status)
       THEN /\ status' = "Sending" /\ sending' = <<Head(opq)>>
            /\ writes' = writes + 1 /\ inflight' = 1
            /\ UNCHANGED queue
       ELSE /\ queue' = Append(queue, Head(opq))
            /\ UNCHANGED <<status, sending, writes, inflight>>
    /\ opq' = Tail(opq)
    /\ UNCHANGED <<opBusy, optasks, spc, sent, wire, dropped, closed>>

(* The op thread takes up, and finishes, some other task of the device   *)
(* (a received packet, a state change).                                   *)
OpTaskBegin ==
    /\ ~opBusy /\ ~closed /\ optasks < MaxOpTasks
    /\ opBusy' = TRUE /\ optasks' = optasks + 1
    /\ UNCHANGED <<status, queue, sending, writes, inflight, opq, spc, sent,
                   wire, dropped, closed>>

OpTaskEnd ==
    /\ opBusy
    /\ opBusy' = FALSE
    /\ UNCHANGED <<status, queue, sending, writes, inflight, opq, optasks, spc,
                   sent, wire, dropped, closed>>

(* Mutant: the next write given the length Sending_ had before the pop   *)
(* and the push_back (a stale size).                                       *)
WriteDoneStaleInflight ==
    /\ writes > 0 /\ ~closed
    /\ \E n \in 1..inflight :
          LET r == OpImpl_CheckSendQueue(SubSeq(sending, n + 1, Len(sending)), queue)
          IN  /\ wire' = wire \o SubSeq(sending, 1, n)
              /\ status' = r.status /\ sending' = r.sending
              /\ queue' = <<>>
              /\ writes' = IF r.status = "Sending" THEN writes ELSE writes - 1
              /\ inflight' = IF r.status = "Sending" THEN Len(sending) ELSE 0
    /\ UNCHANGED <<opq, opBusy, optasks, spc, sent, dropped, closed>>

(* The write completes with n of its messages sent: OpImpl_ContinueSend   *)
(* pops them, then OpImpl_CheckSendQueue; a non-empty Sending_ is written *)
(* again at once.                                                          *)
WriteDone ==
    /\ writes > 0 /\ ~closed
    /\ \E n \in 1..inflight :
          LET r == OpImpl_CheckSendQueue(SubSeq(sending, n + 1, Len(sending)), queue)
          IN  /\ wire' = wire \o SubSeq(sending, 1, n)
              /\ status' = r.status /\ sending' = r.sending
              /\ queue' = <<>>
              /\ writes' = IF r.status = "Sending" THEN writes ELSE writes - 1
              /\ inflight' = IF r.status = "Sending" THEN Len(r.sending) ELSE 0
    /\ UNCHANGED <<opq, opBusy, optasks, spc, sent, dropped, closed>>

(* ForceClearBuffer at destruction, when no sender is inside a call.      *)
ForceClearBuffer ==
    /\ ~closed /\ \A s \in Senders : spc[s] = "idle"
    /\ dropped' = sending \o queue
    /\ sending' = <<>> /\ queue' = <<>> /\ status' = "Empty"
    /\ writes' = 0 /\ inflight' = 0 /\ closed' = TRUE
    /\ UNCHANGED <<opq, opBusy, optasks, spc, sent, wire>>

Next ==
    \/ \E s \in Senders : Send(s) \/ Fill(s)
    \/ RunPosted
    \/ OpTaskBegin \/ OpTaskEnd
    \/ WriteDone
    \/ ForceClearBuffer

(* A sender finishes its call, the op thread runs what is posted, and the *)
(* socket completes a write; sending more and destruction are optional.   *)
Spec ==
    /\ Init /\ [][Next]_vars
    /\ \A s \in Senders : WF_vars(Fill(s))
    /\ WF_vars(RunPosted) /\ WF_vars(OpTaskEnd) /\ WF_vars(WriteDone)

-----------------------------------------------------------------------------
TypeOK ==
    /\ status \in {"Empty", "Sending"}
    /\ queue \in Seq(Msgs) /\ sending \in Seq(Msgs) /\ opq \in Seq(Msgs)
    /\ wire \in Seq(Msgs) /\ dropped \in Seq(Msgs)
    /\ writes \in Nat
    /\ inflight \in 0..Len(sending)   \* the write holds a prefix of Sending_
    /\ spc \in [Senders -> {"idle", "fill"}]
    /\ sent \in [Senders -> 0..MsgsEach]
    /\ opBusy \in BOOLEAN /\ optasks \in 0..MaxOpTasks /\ closed \in BOOLEAN

(* At most one write is outstanding on the socket, whichever thread      *)
(* started it (a sender in place, the op thread, or the completion).      *)
OneWriteAtATime == writes <= 1

(* Each sender's messages reach the peer once each and in the order it   *)
(* sent them, across the in-place, queued and posted paths and partial   *)
(* writes.                                                                 *)
SendFIFO ==
    \A s \in Senders :
        LET mine == SelectSeq(wire, LAMBDA m : m[1] = s)
        IN  \A i \in 1..Len(mine) : mine[i][2] = i

(* Every message a sender hands over reaches the peer unless the buffer   *)
(* is force-cleared first: nothing is stranded in Queue_ or Sending_.     *)
NothingStranded ==
    \A m \in Msgs :
        (sent[m[1]] >= m[2]) ~>
            (\E i \in DOMAIN wire : wire[i] = m) \/ closed
====
