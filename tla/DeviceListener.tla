--------------------------- MODULE DeviceListener ---------------------------
(***************************************************************************)
(* fon9::io::DeviceListener and DeviceAcceptedClient (src/fon9/io/        *)
(* Server.cpp): the registry AcceptedClients_ of accepted client devices,  *)
(* kept sorted by AcceptedClientSeq_, filled by the accept path and        *)
(* emptied by the clients' own state changes and by Dispose.               *)
(*                                                                         *)
(* Threads.  One accept thread runs AddAcceptedClient for one connection   *)
(* at a time, in four steps (push under the lock, add_ref, Initialize,     *)
(* AsyncOpen).  The thread that disposes the listener runs Dispose in      *)
(* three steps (set IsDisposing_, swap the registry out under the lock,    *)
(* AsyncDispose and release each swapped device).  Every client device    *)
(* runs its own op queue, one task per step; a state change that leaves  *)
(* LinkReady or below calls RemoveAcceptedClient inside that task.  Each  *)
(* registry access holds the registry lock, so it is one step.            *)
(*                                                                         *)
(* refs counts the references the registry took (add_ref) minus those it   *)
(* gave back (release); the references other owners hold are left out.    *)
(* The client's timer is left out: OpImpl_Reopen of an accepted client     *)
(* does nothing, so a reopen timer cannot change it.  Its send buffer is   *)
(* taken to be empty, so LingerClose closes at once.                       *)
(***************************************************************************)
EXTENDS Device, Sequences, FiniteSetsExt

CONSTANTS
    Clients,    \* the connections the listener accepts, one device each
    NoClient,   \* no device is being added
    MaxCmds     \* bound on close commands and peer disconnects

ClientTasks == {"Open", "Close", "LingerClose", "Dispose", "Broken"}

VARIABLES
    reg,        \* AcceptedClients_, in registry order
    seqOf,      \* AcceptedClientSeq_ of each device (0: not yet assigned)
    st,         \* State_ of each device
    q,          \* OpQueue_ of each device
    refs,       \* the registry's own references to each device
    apc,        \* where the accept thread is in AddAcceptedClient
    acur,       \* the device it is adding
    accepted,   \* devices the accept thread has begun to add
    disposing,  \* IsDisposing_
    dpc,        \* where the disposing thread is in Dispose
    dlist,      \* devs, the registry swapped out by Dispose
    cmds        \* environment events so far

vars == <<reg, seqOf, st, q, refs, apc, acur, accepted, disposing, dpc,
          dlist, cmds>>

ASSUME NoClient \notin Clients

-----------------------------------------------------------------------------
(* AcceptedClientsImpl::find(seq): lower_bound over the sorted registry,   *)
(* then an equality test; 0 when not found, else the position.             *)
FindSeq(r, s) ==
    LET ge == {i \in DOMAIN r : seqOf[r[i]] >= s}
        lb == IF ge = {} THEN 0 ELSE Min(ge)
    IN  IF lb # 0 /\ seqOf[r[lb]] = s THEN lb ELSE 0

RemoveAt(s, i) == [j \in 1..(Len(s) - 1) |-> IF j < i THEN s[j] ELSE s[j + 1]]

(* Mutant: the next sequence number counted from the registry's size.  *)
NextAcceptedClientSeqBySize(r) == Len(r) + 1

(* AddAcceptedClient: one past the last registered device, 1 if none.    *)
NextAcceptedClientSeq(r) == IF r = <<>> THEN 1 ELSE seqOf[r[Len(r)]] + 1

(* The state a client's task works on: its own State_ and the shared      *)
(* registry with the registry's references.                               *)
(* Mutant: intrusive_ptr_add_ref called where the release belongs.       *)
RemoveAcceptedClientAddsRef(w, c) ==
    IF disposing THEN w
    ELSE LET i == FindSeq(w.reg, seqOf[c])
         IN  IF i # 0 /\ w.reg[i] = c
             THEN [w EXCEPT !.reg = RemoveAt(@, i), !.refs[c] = @ + 1]
             ELSE w

(* DeviceListener::RemoveAcceptedClient(dev).                              *)
RemoveAcceptedClient(w, c) ==
    IF disposing THEN w
    ELSE LET i == FindSeq(w.reg, seqOf[c])
         IN  IF i # 0 /\ w.reg[i] = c
             THEN [w EXCEPT !.reg = RemoveAt(@, i), !.refs[c] = @ - 1]
             ELSE w

(* Mutant: the registry leaves only after the device has left LinkReady. *)
OpImpl_StateChangedLate(w, c, bf, af) ==
    IF bf < LinkReady /\ LinkReady < af THEN RemoveAcceptedClient(w, c) ELSE w

(* DeviceAcceptedClient::OpImpl_StateChanged.                              *)
OpImpl_StateChanged(w, c, bf, af) ==
    IF bf <= LinkReady /\ LinkReady < af THEN RemoveAcceptedClient(w, c) ELSE w

(* Device::OpImpl_SetState for an accepted client (no timer).             *)
OpImpl_SetState(w, c, af) ==
    IF w.st[c] = af \/ SetStateRefused(w.st[c], af) THEN w
    ELSE OpImpl_StateChanged([w EXCEPT !.st[c] = af], c, w.st[c], af)

(* OpImpl_Close of the accepted socket: the socket is closed and the     *)
(* device becomes Closed.                                                  *)
OpImpl_Close(w, c) == OpImpl_SetState(w, c, Closed)

OpThr_Close(w, c) == IF w.st[c] < Closing THEN OpImpl_Close(w, c) ELSE w

(* OpThr_Open(dev, connId) with a non-empty connId, then                  *)
(* DeviceAcceptedClient::OpImpl_Open: OpThr_SetLinkReady below LinkReady.  *)
OpThr_Open(w, c) ==
    IF OpenKind(w.st[c], "connId") = "Open" /\ w.st[c] < LinkReady
    THEN OpImpl_SetState(w, c, LinkReady)
    ELSE w

OpThr_LingerClose(w, c) ==
    IF w.st[c] = LinkReady
    THEN OpImpl_Close(OpImpl_SetState(w, c, Lingering), c)  \* buffer empty
    ELSE IF w.st[c] < Lingering THEN OpImpl_Close(w, c) ELSE w

OpThr_Dispose(w, c) == OpImpl_SetState(OpThr_Close(w, c), c, Disposing)

OpThr_SetBrokenState(w, c) ==
    IF BrokenCloses(w.st[c]) THEN OpThr_Close(w, c)
    ELSE IF BrokenTarget(w.st[c]) = w.st[c] THEN w
    ELSE OpImpl_SetState(w, c, BrokenTarget(w.st[c]))

RunTask(w, c, k) ==
    CASE k = "Open"        -> OpThr_Open(w, c)
      [] k = "Close"       -> OpThr_Close(w, c)
      [] k = "LingerClose" -> OpThr_LingerClose(w, c)
      [] k = "Dispose"     -> OpThr_Dispose(w, c)
      [] k = "Broken"      -> OpThr_SetBrokenState(w, c)

-----------------------------------------------------------------------------
Init ==
    /\ reg = <<>>
    /\ seqOf = [c \in Clients |-> 0]
    /\ st = [c \in Clients |-> Initializing]
    /\ q = [c \in Clients |-> <<>>]
    /\ refs = [c \in Clients |-> 0]
    /\ apc = "idle" /\ acur = NoClient /\ accepted = {}
    /\ disposing = FALSE /\ dpc = "idle" /\ dlist = <<>>
    /\ cmds = 0

(* The listening socket hands over a new connection; it stops doing so   *)
(* once Dispose has begun (OnListener_Dispose).                            *)
AcceptBegin ==
    /\ apc = "idle" /\ dpc = "idle"
    /\ \E c \in Clients \ accepted :
          /\ acur' = c
          /\ accepted' = accepted \cup {c}
    /\ apc' = "accepted"
    /\ UNCHANGED <<reg, seqOf, st, q, refs, disposing, dpc, dlist, cmds>>

(* AddAcceptedClient, under the registry lock: number and push.           *)
AcceptPush ==
    /\ apc = "accepted"
    /\ seqOf' = [seqOf EXCEPT ![acur] = NextAcceptedClientSeq(reg)]
    /\ reg' = Append(reg, acur)
    /\ apc' = "pushed"
    /\ UNCHANGED <<st, q, refs, acur, accepted, disposing, dpc, dlist, cmds>>

(* intrusive_ptr_add_ref, after the lock is released.                     *)
AcceptAddRef ==
    /\ apc = "pushed"
    /\ refs' = [refs EXCEPT ![acur] = @ + 1]
    /\ apc' = "reffed"
    /\ UNCHANGED <<reg, seqOf, st, q, acur, accepted, disposing, dpc, dlist, cmds>>

(* Manager OnDevice_Accepted, then Device::Initialize, which assigns      *)
(* State_ = Initialized on the accept thread, not through SetState.       *)
AcceptInitialize ==
    /\ apc = "reffed"
    /\ st' = [st EXCEPT ![acur] = Initialized]
    /\ apc' = "inited"
    /\ UNCHANGED <<reg, seqOf, q, refs, acur, accepted, disposing, dpc, dlist, cmds>>

(* AsyncOpen(connId): the Open task is queued.                            *)
AcceptOpen ==
    /\ apc = "inited"
    /\ q' = [q EXCEPT ![acur] = Append(@, "Open")]
    /\ apc' = "idle" /\ acur' = NoClient
    /\ UNCHANGED <<reg, seqOf, st, refs, accepted, disposing, dpc, dlist, cmds>>

(* The op thread of device c runs its first task.                         *)
ClientRuns(c) ==
    /\ q[c] # <<>>
    /\ LET w == RunTask([st |-> st, reg |-> reg, refs |-> refs], c, Head(q[c]))
       IN  /\ st' = w.st
           /\ reg' = w.reg
           /\ refs' = w.refs
    /\ q' = [q EXCEPT ![c] = Tail(@)]
    /\ UNCHANGED <<seqOf, apc, acur, accepted, disposing, dpc, dlist, cmds>>

(* The peer disconnects a linked client: OpThr_SetBrokenState is queued. *)
PeerCloses(c) ==
    /\ cmds < MaxCmds
    /\ st[c] = LinkReady
    /\ q' = [q EXCEPT ![c] = Append(@, "Broken")]
    /\ cmds' = cmds + 1
    /\ UNCHANGED <<reg, seqOf, st, refs, apc, acur, accepted, disposing, dpc, dlist>>

(* OpImpl_CloseAcceptedClient / OpImpl_LingerCloseAcceptedClient("seq"): *)
(* GetAcceptedClient finds the device under the lock, then AsyncClose or  *)
(* AsyncLingerClose queues the task.                                       *)
CloseCommand(s, k) ==
    /\ cmds < MaxCmds
    /\ FindSeq(reg, s) # 0
    /\ q' = [q EXCEPT ![reg[FindSeq(reg, s)]] = Append(@, k)]
    /\ cmds' = cmds + 1
    /\ UNCHANGED <<reg, seqOf, st, refs, apc, acur, accepted, disposing, dpc, dlist>>

(* DeviceListener::Dispose: IsDisposing_ is set, OnListener_Dispose.       *)
DisposeBegin ==
    /\ dpc = "idle"
    /\ disposing' = TRUE
    /\ dpc' = "flagged"
    /\ UNCHANGED <<reg, seqOf, st, q, refs, apc, acur, accepted, dlist, cmds>>

(* devs.swap(lkdevs) under the registry lock.                             *)
DisposeSwap ==
    /\ dpc = "flagged"
    /\ dlist' = reg
    /\ reg' = <<>>
    /\ dpc' = IF reg = <<>> THEN "done" ELSE "releasing"
    /\ UNCHANGED <<seqOf, st, q, refs, apc, acur, accepted, disposing, cmds>>

(* Mutant: the swapped device released without AsyncDispose.            *)
AsyncDisposeQueueSkipped(c) == q

(* dev->AsyncDispose(cause); intrusive_ptr_release(dev).                   *)
AsyncDisposeQueue(c) == [q EXCEPT ![c] = Append(@, "Dispose")]

DisposeOne ==
    /\ dpc = "releasing"
    /\ q' = AsyncDisposeQueue(Head(dlist))
    /\ refs' = [refs EXCEPT ![Head(dlist)] = @ - 1]
    /\ dlist' = Tail(dlist)
    /\ dpc' = IF Tail(dlist) = <<>> THEN "done" ELSE "releasing"
    /\ UNCHANGED <<reg, seqOf, st, apc, acur, accepted, disposing, cmds>>

AcceptStep == AcceptPush \/ AcceptAddRef \/ AcceptInitialize \/ AcceptOpen
DisposeStep == DisposeSwap \/ DisposeOne

Next ==
    \/ AcceptBegin
    \/ AcceptStep
    \/ \E c \in Clients : ClientRuns(c) \/ PeerCloses(c)
    \/ \E s \in 1..Cardinality(Clients), k \in {"Close", "LingerClose"} :
          CloseCommand(s, k)
    \/ DisposeBegin
    \/ DisposeStep

(* A call, once made, runs to its end; the thread pool keeps running every *)
(* device's op queue.  Connections, peers, commands and Dispose itself are *)
(* up to the environment.                                                 *)
Spec ==
    /\ Init /\ [][Next]_vars
    /\ WF_vars(AcceptStep) /\ WF_vars(DisposeStep)
    /\ \A c \in Clients : WF_vars(ClientRuns(c))

-----------------------------------------------------------------------------
TypeOK ==
    /\ reg \in Seq(Clients) /\ dlist \in Seq(Clients)
    /\ seqOf \in [Clients -> Nat] /\ st \in [Clients -> States]
    /\ q \in [Clients -> Seq(ClientTasks)]
    /\ refs \in [Clients -> -1..1]   \* -1: released before add_ref
    /\ apc \in {"idle", "accepted", "pushed", "reffed", "inited"}
    /\ dpc \in {"idle", "flagged", "releasing", "done"}
    /\ acur \in Clients \cup {NoClient} /\ accepted \subseteq Clients
    /\ disposing \in BOOLEAN /\ cmds \in 0..MaxCmds

(* find() is a binary search: the registry stays sorted by strictly      *)
(* increasing AcceptedClientSeq_ through adds and removals from anywhere. *)
RegistrySorted ==
    \A i \in 1..(Len(reg) - 1) : seqOf[reg[i]] < seqOf[reg[i + 1]]

(* While the listener is not disposing, every registered device is at     *)
(* LinkReady or below: a device that goes past LinkReady has removed      *)
(* itself in the same op-queue task.                                      *)
RegisteredAreOpen ==
    ~disposing => \A i \in DOMAIN reg : st[reg[i]] <= LinkReady

(* Every device Dispose swapped out of the registry is disposed.          *)
SwappedAreDisposed ==
    \A c \in Clients :
        (\E i \in DOMAIN dlist : dlist[i] = c) ~> st[c] >= Disposing

(* The registry never gives back a reference it has not taken.            *)
RegistryRefsNonNegative == \A c \in Clients : refs[c] >= 0

(* A device at Disposing or beyond never moves back (Device.State is     *)
(* monotone past Disposing).                                             *)
NoResurrection ==
    [][\A c \in Clients : st[c] >= Disposing => st'[c] >= st[c]]_vars

(* When Dispose has finished and no accept is in progress, the registry   *)
(* is empty, as ~DeviceListener assumes.                                  *)
RegistryEmptyAfterDispose ==
    (dpc = "done" /\ apc = "idle") => reg = <<>>
====
