------------------------- MODULE SocketClientDevice -------------------------
(***************************************************************************)
(* fon9::io::SocketClientDevice (src/fon9/io/SocketClientDevice.cpp) on  *)
(* top of fon9::io::Device (src/fon9/io/Device.cpp).                       *)
(*                                                                         *)
(* Every mutating operation runs as a task of the device's OpQueue_: one   *)
(* task at a time, so a task is one atomic step of the op thread.  Other   *)
(* threads only append tasks: the application (AsyncOpen, AsyncClose,      *)
(* AsyncLingerClose, AsyncDispose), the timer thread (EmitOnCommonTimer),  *)
(* the DNS resolver callback, the socket's connect completion, a peer      *)
(* closing the link, the end of a send.  The one-shot CommonTimer_ is      *)
(* shared by the connect timeout and the reopen retry.                     *)
(*                                                                         *)
(* Abstractions.  Addresses, device ids, causes and messages are left out; *)
(* the address list is its length and NextAddrIndex_ a cursor into it.     *)
(* DnReqId_ and the socket being connected are identities from Ids: a      *)
(* completion queued for an identity that is no longer current is marked  *)
(* stale (id 0), which is what the DnReqId_ != id test of                  *)
(* OpImpl_OnDnQueryDone amounts to since request ids are never reused.     *)
(***************************************************************************)
EXTENDS Device, Sequences, FiniteSets

CONSTANTS
    CfgAddrRemote,   \* Config_.AddrRemote_ is set
    CfgDomainNames,  \* Config_.DomainNames_ is set
    MaxDnAddrs,      \* a DNS answer carries 0..MaxDnAddrs addresses
    MaxCmds          \* bound on the application's commands

ASSUME CfgAddrRemote \in BOOLEAN /\ CfgDomainNames \in BOOLEAN
ASSUME MaxDnAddrs \in Nat /\ MaxCmds \in Nat

Ids == {1, 2}
NewId(old) == IF old = 1 THEN 2 ELSE 1

(* How an attempt in OpImpl_ConnectToNext ends on the op thread:         *)
(* CreateSocket/SetSocketOptions fails, OpImpl_SocketConnect fails at     *)
(* once, or the connect is started and completes later.                   *)
Outcomes == {"Started", "CreateFail", "ConnectFail"}

CfgStrs == {"", "cfg", "bad"}   \* "bad": OpThr_DeviceParseConfig rejects it

TaskKinds == {"Open", "Close", "LingerClose", "Dispose",       \* application
              "GetInfo", "SetProperty",                       \* blocking calls
              "TimerReopen", "ClientTimer",                   \* timer thread
              "DnDone", "Connected", "ConnFailed",             \* completions
              "Broken", "CheckLinger"}                        \* socket events
Task(k, c, i, n) == [kind |-> k, cfg |-> c, id |-> i, n |-> n]
Tasks == [kind: TaskKinds, cfg: CfgStrs, id: {0} \cup Ids, n: 0..MaxDnAddrs]

MaxAddrs == (IF CfgAddrRemote THEN 1 ELSE 0) + MaxDnAddrs

VARIABLES
    dev,    \* the device's members, see DevRec
    opq,    \* OpQueue_: tasks waiting for the op thread
    cmds,   \* commands the application has issued
    waiter  \* what the application thread is blocked in: "info"
            \* (WaitGetDeviceInfo), "set" (WaitSetProperty) or "none"

vars == <<dev, opq, cmds, waiter>>

(* st = State_, timer = CommonTimer_ is armed, addrs = AddrList_.size(),  *)
(* nextAddr = NextAddrIndex_, dnReq = DnReqId_ (0: none), sock = the      *)
(* socket whose connect is in progress (0: none), linked = a connected    *)
(* socket is open, sendEmpty = IsSendBufferEmpty().  expired is a history *)
(* variable: the timer has fired since it was last armed.                  *)
DevRec == [st: States, timer: BOOLEAN, expired: BOOLEAN,
           addrs: 0..MaxAddrs, nextAddr: 0..MaxAddrs,
           dnReq: {0} \cup Ids, sock: {0} \cup Ids,
           linked: BOOLEAN, sendEmpty: BOOLEAN]

-----------------------------------------------------------------------------
(* CommonTimer_.RunAfter() and CommonTimer_.StopNoWait().                  *)
RunAfter(d) == [d EXCEPT !.timer = TRUE, !.expired = FALSE]
StopTimer(d) == [d EXCEPT !.timer = FALSE]

(* Mutant: AddrList_ not cleared, a reopen appends the addresses again.   *)
OpImpl_SocketClearLinkingKeepsAddrs(d) ==
    [d EXCEPT !.dnReq = 0, !.nextAddr = 0, !.sock = 0, !.timer = FALSE]

(* OpImpl_SocketClearLinking: cancel the DN query, forget the addresses,  *)
(* stop the timer; the socket being connected is abandoned with them.     *)
OpImpl_SocketClearLinking(d) ==
    [d EXCEPT !.dnReq = 0, !.nextAddr = 0, !.addrs = 0, !.sock = 0,
              !.timer = FALSE]

(* OpImpl_SocketLinkBroken (derived socket class): close the linked       *)
(* socket; what was still buffered for sending is discarded.              *)
OpImpl_SocketLinkBroken(d) == [d EXCEPT !.linked = FALSE, !.sendEmpty = TRUE]

(* SocketClientDevice::OpImpl_StateChanged.  IsAllowContinueSend(st) is   *)
(* st = LinkReady or st = Lingering.                                      *)
OpImpl_StateChanged(d, bf, af) ==
    IF bf \in {LinkReady, Lingering}
    THEN IF af # Lingering THEN OpImpl_SocketLinkBroken(d) ELSE d
    ELSE IF bf = Linking /\ af # LinkReady
    THEN OpImpl_SocketClearLinking(d)
    ELSE d

(* Mutant: the retry timer armed before OpImpl_StateChanged runs.        *)
OpImpl_SetStateTimerFirst(d, af) ==
    IF d.st = af
    THEN IF af < Disposing /\ HasRetryTimer(af) THEN RunAfter(d) ELSE d
    ELSE IF SetStateRefused(d.st, af) THEN d
    ELSE LET d1 == IF HasRetryTimer(af) THEN RunAfter([d EXCEPT !.st = af])
                   ELSE StopTimer([d EXCEPT !.st = af])
         IN  OpImpl_StateChanged(d1, d.st, af)

(* Device::OpImpl_SetState(afst).  Same state: re-arm the retry timer and *)
(* notify again.  Past Disposing: refused.  Otherwise: change, run the    *)
(* hook, then arm the retry timer of the new state or stop the timer.     *)
OpImpl_SetState(d, af) ==
    IF d.st = af
    THEN IF af < Disposing /\ HasRetryTimer(af) THEN RunAfter(d) ELSE d
    ELSE IF SetStateRefused(d.st, af) THEN d
    ELSE LET d1 == OpImpl_StateChanged([d EXCEPT !.st = af], d.st, af)
         IN  IF HasRetryTimer(af) THEN RunAfter(d1) ELSE StopTimer(d1)

StateChanges(d, af) == d.st # af /\ ~SetStateRefused(d.st, af)

(* Mutant: the connect started without StartConnectTimer.               *)
OpImpl_ConnectToNextNoTimer(d, o) ==
    IF d.nextAddr >= d.addrs
    THEN OpImpl_SetState([d EXCEPT !.nextAddr = 0],
                         IF d.st = LinkReady THEN LinkBroken ELSE LinkError)
    ELSE LET d1 == [d EXCEPT !.nextAddr = @ + 1]
             linking == OpImpl_SetState(d1, Linking)
         IN  CASE o = "CreateFail"  -> OpImpl_SetState(d1, LinkError)
               [] o = "ConnectFail" -> OpImpl_SetState(linking, LinkError)
               [] o = "Started"     -> [linking EXCEPT !.sock = NewId(d.sock)]

(* OpImpl_ConnectToNext(lastError).                                       *)
OpImpl_ConnectToNext(d, o) ==
    IF d.nextAddr >= d.addrs
    THEN OpImpl_SetState([d EXCEPT !.nextAddr = 0],
                         IF d.st = LinkReady THEN LinkBroken ELSE LinkError)
    ELSE LET d1 == [d EXCEPT !.nextAddr = @ + 1]
             linking == RunAfter(OpImpl_SetState(d1, Linking)) \* StartConnectTimer
         IN  CASE o = "CreateFail"  -> OpImpl_SetState(d1, LinkError)
               [] o = "ConnectFail" -> OpImpl_SetState(linking, LinkError)
               [] o = "Started"     -> [linking EXCEPT !.sock = NewId(d.sock)]

(* OpImpl_ReopenImpl: AddrRemote_ first, then either a DN query (Linking, *)
(* connect timer armed) or the first address.                             *)
OpImpl_ReopenImpl(d, o) ==
    LET d1 == [d EXCEPT !.addrs = IF CfgAddrRemote THEN @ + 1 ELSE @]
    IN  IF CfgDomainNames
        THEN [RunAfter(OpImpl_SetState(d1, Linking)) EXCEPT !.dnReq = NewId(d.dnReq)]
        ELSE IF d1.addrs = 0
        THEN OpImpl_SetState(d1, ConfigError)        \* OpImpl_OnAddrListEmpty
        ELSE OpImpl_ConnectToNext(d1, o)

(* OpImpl_Open(cfgstr): a rejected config ends in ConfigError.            *)
OpImpl_Open(d, cfgstr, o) ==
    LET d1 == OpImpl_SocketClearLinking(d)
    IN  IF cfgstr = "bad" THEN OpImpl_SetState(d1, ConfigError)
        ELSE OpImpl_ReopenImpl(d1, o)

OpImpl_Reopen(d, o) == OpImpl_ReopenImpl(OpImpl_SocketClearLinking(d), o)

OpThr_Open(d, cfgstr, o) ==
    CASE OpenKind(d.st, cfgstr) = "Open"   -> OpImpl_Open(d, cfgstr, o)
      [] OpenKind(d.st, cfgstr) = "Reopen" -> OpImpl_Reopen(d, o)
      [] OTHER                             -> d

(* SocketClientDevice::OpImpl_Close: the device id reset is left out.     *)
OpImpl_Close(d) == OpImpl_SetState(OpImpl_SocketClearLinking(d), Closed)

OpThr_Close(d) == IF d.st < Closing THEN OpImpl_Close(d) ELSE d

OpThr_CheckLingerClose(d) ==
    IF d.st = Lingering /\ d.sendEmpty THEN OpImpl_Close(d) ELSE d

OpThr_LingerClose(d) ==
    IF d.st = LinkReady
    THEN OpThr_CheckLingerClose(OpImpl_SetState(d, Lingering))
    ELSE IF d.st < Lingering THEN OpImpl_Close(d) ELSE d

(* OpThr_Dispose = OpThr_Close, then OpThr_DisposeNoClose; OpImpl_Dispose *)
(* does nothing for this device.                                          *)
OpThr_Dispose(d) == OpImpl_SetState(OpThr_Close(d), Disposing)

(* OpThr_SetLinkReady: once LinkReady, stop the timer (StopAndWait).      *)
OpThr_SetLinkReady(d) ==
    LET d1 == OpImpl_SetState(d, LinkReady)
    IN  IF StateChanges(d, LinkReady) /\ d1.st = LinkReady THEN StopTimer(d1)
        ELSE d1

(* OpImpl_SetConnected: the connecting socket is now the linked socket.   *)
OpImpl_SetConnected(d) ==
    OpThr_SetLinkReady([d EXCEPT !.sock = 0, !.linked = TRUE])

OpThr_SetBrokenState(d) ==
    IF BrokenCloses(d.st) THEN OpThr_Close(d)
    ELSE IF BrokenTarget(d.st) = d.st THEN d
    ELSE OpImpl_SetState(d, BrokenTarget(d.st))

(* The task SocketClientDevice::OnCommonTimer posts: a pending DN query   *)
(* times out, or the connect to the current address does.                *)
OnCommonTimerTask(d, o) ==
    IF d.dnReq # 0 THEN OpThr_SetBrokenState([d EXCEPT !.dnReq = 0])
    ELSE IF d.st = Linking THEN OpImpl_ConnectToNext(d, o)
    ELSE d

(* Mutant: the reopen task trusts the state the timer thread saw.       *)
ReopenTaskNoRecheck(d, o) == OpThr_Open(d, "", o)

(* The task EmitOnCommonTimer posts for StateTimerAct::Reopen: checks the *)
(* state again, then OpThr_Open(dev, "").                                  *)
ReopenTask(d, o) ==
    IF GetStateTimerAct(d.st) = "Reopen" THEN OpThr_Open(d, "", o) ELSE d

(* OpImpl_OnDnQueryDone(id, res).                                          *)
OpImpl_OnDnQueryDone(d, id, n, o) ==
    IF id = 0 \/ d.dnReq # id THEN d
    ELSE OpImpl_ConnectToNext([d EXCEPT !.dnReq = 0, !.addrs = @ + n], o)

(* The derived socket's connect completion: success -> OpImpl_SetConnected,*)
(* failure -> OpImpl_ConnectToNext with the error; one of a superseded    *)
(* socket is discarded.                                                    *)
OnConnected(d, id) == IF id = 0 \/ d.sock # id THEN d ELSE OpImpl_SetConnected(d)
OnConnectFailed(d, id, o) ==
    IF id = 0 \/ d.sock # id THEN d
    ELSE OpImpl_ConnectToNext([d EXCEPT !.sock = 0], o)

ExecTask(d, t, o) ==
    CASE t.kind = "Open"        -> OpThr_Open(d, t.cfg, o)
      [] t.kind = "Close"       -> OpThr_Close(d)
      [] t.kind = "LingerClose" -> OpThr_LingerClose(d)
      [] t.kind = "Dispose"     -> OpThr_Dispose(d)
      [] t.kind = "TimerReopen" -> ReopenTask(d, o)
      [] t.kind = "ClientTimer" -> OnCommonTimerTask(d, o)
      [] t.kind = "DnDone"      -> OpImpl_OnDnQueryDone(d, t.id, t.n, o)
      [] t.kind = "Connected"   -> OnConnected(d, t.id)
      [] t.kind = "ConnFailed"  -> OnConnectFailed(d, t.id, o)
      [] t.kind = "Broken"      -> OpThr_SetBrokenState(d)
      [] t.kind = "CheckLinger" -> OpThr_CheckLingerClose(d)
      [] t.kind = "GetInfo"     -> d   \* reads State_, DeviceId_, the info
      [] t.kind = "SetProperty" -> d   \* OpImpl_SetProperty: Options_ only

(* Completions queued for a DN request or a socket that is no longer the  *)
(* current one can never match again.                                     *)
MarkStale(q, d) ==
    [i \in DOMAIN q |->
        IF \/ q[i].kind = "DnDone" /\ q[i].id # d.dnReq
           \/ q[i].kind \in {"Connected", "ConnFailed"} /\ q[i].id # d.sock
        THEN [q[i] EXCEPT !.id = 0] ELSE q[i]]
-----------------------------------------------------------------------------
Init ==
    /\ dev = [st |-> Initializing, timer |-> FALSE, expired |-> FALSE,
              addrs |-> 0, nextAddr |-> 0, dnReq |-> 0, sock |-> 0,
              linked |-> FALSE, sendEmpty |-> TRUE]
    /\ opq = <<>>
    /\ cmds = 0
    /\ waiter = "none"

(* Device::Initialize, called by the creator before the device is used.   *)
Initialize ==
    /\ dev.st = Initializing
    /\ dev' = [dev EXCEPT !.st = Initialized]
    /\ UNCHANGED <<opq, cmds, waiter>>

(* The first word DeviceCommand fetches from a command line ("bad" for  *)
(* a word OnDevice_Command does not know); only "open" is given a         *)
(* parameter, its config string.                                          *)
CmdWords == {"open", "close", "lclose", "dispose", "info", "set", "ses", "?", "bad"}

(* WaitGetDeviceInfo: OpQueue_.InplaceOrWait(Get, ...) reads the device  *)
(* in place when the op queue is idle; otherwise it queues the reading   *)
(* and blocks until the op thread has run it.                              *)
WaitGetDeviceInfo ==
    IF opq = <<>> THEN <<opq, "none">>
    ELSE <<Append(opq, Task("GetInfo", "", 0, 0)), "info">>

(* OnDevice_Command on the caller's thread, as <<OpQueue_, waiter>>: the  *)
(* Async* commands only add a task; "set" adds the parser task and waits  *)
(* on Waiter_; "ses", "?" and unknown words touch no device state.        *)
OnDevice_Command(cmd, param) ==
    CASE cmd = "open"    -> <<Append(opq, Task("Open", param, 0, 0)), "none">>
      [] cmd = "close"   -> <<Append(opq, Task("Close", "", 0, 0)), "none">>
      [] cmd = "lclose"  -> <<Append(opq, Task("LingerClose", "", 0, 0)), "none">>
      [] cmd = "dispose" -> <<Append(opq, Task("Dispose", "", 0, 0)), "none">>
      [] cmd = "info"    -> WaitGetDeviceInfo
      [] cmd = "set"     -> <<Append(opq, Task("SetProperty", "", 0, 0)), "set">>
      [] OTHER           -> <<opq, "none">>

(* Device::DeviceCommand from the application's thread, which is not      *)
(* blocked in an earlier call.                                            *)
DeviceCommand ==
    /\ dev.st # Initializing
    /\ waiter = "none"
    /\ cmds < MaxCmds
    /\ \E cmd \in CmdWords, param \in CfgStrs :
          /\ param # "" => cmd = "open"
          /\ LET r == OnDevice_Command(cmd, param) IN opq' = r[1] /\ waiter' = r[2]
    /\ cmds' = cmds + 1
    /\ UNCHANGED dev

(* Mutant: the parser task of WaitSetProperty never wakes its caller.     *)
WakeWaiterGetOnly(t, w) == IF t.kind = "GetInfo" THEN "none" ELSE w

(* The end of the task of WaitGetDeviceInfo (InplaceOrWait returns) or of *)
(* WaitSetProperty (Waiter_.ForceWakeUp()) wakes the blocked caller.      *)
WakeWaiter(t, w) == IF t.kind \in {"GetInfo", "SetProperty"} THEN "none" ELSE w

(* The op thread (MakeCallForWork -> OpQueue_.TakeCall) runs the first    *)
(* task to its end.                                                        *)
OpThreadRuns ==
    /\ opq # <<>>
    /\ \E o \in Outcomes :
          LET d2 == ExecTask(dev, Head(opq), o)
          IN  /\ dev' = d2
              /\ opq' = MarkStale(Tail(opq), d2)
    /\ waiter' = WakeWaiter(Head(opq), waiter)
    /\ UNCHANGED cmds

(* EmitOnCommonTimer on the timer thread, with the State_ it reads there. *)
TimerFires ==
    /\ dev.timer
    /\ dev' = [dev EXCEPT !.timer = FALSE, !.expired = TRUE]
    /\ LET act == GetStateTimerAct(dev.st)
       IN  opq' = CASE act = "Reopen"    -> Append(opq, Task("TimerReopen", "", 0, 0))
                    [] act = "ToDerived" -> Append(opq, Task("ClientTimer", "", 0, 0))
                    [] OTHER             -> opq        \* Ignore, ToSession
    /\ UNCHANGED <<cmds, waiter>>

Queued(k, id) == \E i \in DOMAIN opq : opq[i].kind = k /\ opq[i].id = id

(* The resolver's callback posts OpImpl_OnDnQueryDone(id, res).           *)
DnAnswers ==
    /\ dev.dnReq # 0
    /\ ~Queued("DnDone", dev.dnReq)
    /\ \E n \in 0..MaxDnAddrs : opq' = Append(opq, Task("DnDone", "", dev.dnReq, n))
    /\ UNCHANGED <<dev, cmds, waiter>>

(* The connecting socket completes, successfully or not.                  *)
ConnectCompletes ==
    /\ dev.sock # 0
    /\ ~Queued("Connected", dev.sock) /\ ~Queued("ConnFailed", dev.sock)
    /\ \E k \in {"Connected", "ConnFailed"} :
          opq' = Append(opq, Task(k, "", dev.sock, 0))
    /\ UNCHANGED <<dev, cmds, waiter>>

(* The peer closes the link or a receive fails: OpThr_SetBrokenState.     *)
PeerCloses ==
    /\ dev.linked
    /\ ~Queued("Broken", 0)
    /\ opq' = Append(opq, Task("Broken", "", 0, 0))
    /\ UNCHANGED <<dev, cmds, waiter>>

(* The application sends while the link is ready.                         *)
AppSends ==
    /\ dev.linked /\ dev.st = LinkReady /\ dev.sendEmpty
    /\ dev' = [dev EXCEPT !.sendEmpty = FALSE]
    /\ UNCHANGED <<opq, cmds, waiter>>

(* The last buffered byte is sent; a lingering device is asked to check  *)
(* whether it can close now (OpThr_CheckLingerClose).                     *)
SendDrains ==
    /\ dev.linked /\ ~dev.sendEmpty
    /\ dev' = [dev EXCEPT !.sendEmpty = TRUE]
    /\ opq' = IF dev.st = Lingering
              THEN Append(opq, Task("CheckLinger", "", 0, 0)) ELSE opq
    /\ UNCHANGED <<cmds, waiter>>

Next ==
    \/ Initialize
    \/ DeviceCommand
    \/ OpThreadRuns
    \/ TimerFires
    \/ DnAnswers
    \/ ConnectCompletes
    \/ PeerCloses
    \/ AppSends
    \/ SendDrains

(* The thread pool keeps draining the op queue; an armed timer fires.     *)
(* Resolver, sockets, peer and application owe nothing.                   *)
Spec == Init /\ [][Next]_vars /\ WF_vars(OpThreadRuns) /\ WF_vars(TimerFires)

-----------------------------------------------------------------------------
TypeOK ==
    /\ dev \in DevRec
    /\ opq \in Seq(Tasks)
    /\ cmds \in 0..MaxCmds
    /\ waiter \in {"none", "info", "set"}

(* A device in LinkError or LinkBroken with a non-zero retry interval is  *)
(* never left without a way back: its timer is armed or the reopen task   *)
(* the timer posted is queued.                                            *)
RetryNeverLost ==
    HasRetryTimer(dev.st) =>
        dev.timer \/ \E i \in DOMAIN opq : opq[i].kind = "TimerReopen"

(* The op thread runs the first queued task in this step.                 *)
RunsTask(k) == opq # <<>> /\ Head(opq).kind \in k /\ Len(opq') = Len(opq) - 1

(* A device the user closed (ClosedReopenInterval = 0) stays Closed until *)
(* the user opens or disposes it: no late timer task, DN answer or connect*)
(* completion queued before the close reopens it.                         *)
UserCloseIsFinal ==
    [][GetStateTimerAct(Closed) = "Ignore" /\ dev.st = Closed /\ dev'.st # Closed
        => RunsTask({"Open", "Dispose"})]_vars

(* The connect timeout moves to the next address only when the timer     *)
(* armed for the current attempt has expired.                             *)
ConnectTimeoutIsReal ==
    [][RunsTask({"ClientTimer"}) /\ dev.dnReq = 0 /\ dev.st = Linking
        => dev.expired]_vars

(* The socket client implements the Device lifecycle: every change of    *)
(* State_ is a move DeviceLifecycle allows.                               *)
Lifecycle == INSTANCE DeviceLifecycle WITH state <- dev.st
ImplementsLifecycle == Lifecycle!Spec

(* Linking always ends: connected, or every address failed or timed out.  *)
LinkingResolves == dev.st = Linking ~> dev.st # Linking

(* A caller blocked in WaitGetDeviceInfo or WaitSetProperty is always     *)
(* woken: the op thread reaches its task behind whatever was queued       *)
(* before it, in every state of the device, Disposing included.           *)
CallerWoken == waiter # "none" ~> waiter = "none"
=============================================================================
