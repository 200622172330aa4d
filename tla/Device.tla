------------------------------- MODULE Device -------------------------------
(***************************************************************************)
(* The parts of fon9::io::Device (src/fon9/io/Device.cpp) every kind of   *)
(* device shares: the ordered State enum, the timer policy of SetState and *)
(* of EmitOnCommonTimer, and the decisions OpThr_Open, OpThr_Close,        *)
(* OpThr_LingerClose and OpThr_SetBrokenState take from the current state. *)
(* A concrete device (SocketClientDevice, DeviceAcceptedClient) EXTENDS    *)
(* this module and supplies the OpImpl_* hooks.                            *)
(*                                                                         *)
(* The State enum is declared in io/IoState.hpp, which is not among the    *)
(* sources: its order is taken from the specification.                    *)
(***************************************************************************)
EXTENDS Naturals

CONSTANTS
    LinkErrorRetryInterval,     \* DeviceOptions, milliseconds, 0 = no retry
    LinkBrokenReopenInterval,
    ClosedReopenInterval

ASSUME {LinkErrorRetryInterval, LinkBrokenReopenInterval,
        ClosedReopenInterval} \subseteq Nat

(* enum class State, in declaration order: comparisons are on this order. *)
Initializing == 0
Initialized  == 1
Opening      == 2
WaitingLinkIn == 3
Linking      == 4
LinkReady    == 5
Lingering    == 6
Listening    == 7
ConfigError  == 8
LinkError    == 9
LinkBroken   == 10
ListenBroken == 11
Closing      == 12
Closed       == 13
Disposing    == 14
Destructing  == 15

States == 0..15

(* Aux::CheckStartTimer: the retry interval SetState arms the common      *)
(* timer with on entering st; 0 when st has none.                          *)
RetryInterval(st) ==
    CASE st \in {LinkBroken, ListenBroken} -> LinkBrokenReopenInterval
      [] st = LinkError                    -> LinkErrorRetryInterval
      [] st = Closed                       -> ClosedReopenInterval
      [] OTHER                             -> 0

HasRetryTimer(st) == RetryInterval(st) > 0

(* GetStateTimerAct: what a firing common timer does in state st.         *)
GetStateTimerAct(st) ==
    CASE st \in {Initializing, ConfigError, Disposing, Destructing} -> "Ignore"
      [] st \in {LinkError, LinkBroken, ListenBroken, Closed} ->
            IF HasRetryTimer(st) THEN "Reopen" ELSE "Ignore"
      [] st \in {Initialized, LinkReady} -> "ToSession"
      [] OTHER -> "ToDerived"

(* OpThr_Open(dev, cfgstr), the decision part (OnDevice_BeforeOpen is    *)
(* taken to accept): "Open" = OpImpl_Open(cfgstr), "Reopen" =             *)
(* OpImpl_Reopen(), "None" = return.                                       *)
OpenKind(st, cfgstr) ==
    IF st >= Disposing THEN "None"
    ELSE IF st <= Initialized \/ cfgstr # "" THEN "Open"
    ELSE IF st \in {Listening, LinkReady, WaitingLinkIn, ConfigError} THEN "None"
    ELSE "Reopen"

(* OpThr_SetBrokenState, the decision part: a lingering device is       *)
(* closed (OpThr_Close), a connecting, linked or listening one is moved   *)
(* to its broken state; any other state ignores the event.               *)
BrokenCloses(st) == st = Lingering

(* Mutant: the broken states of a link attempt and of a ready link swapped.*)
BrokenTargetSwapped(st) ==
    CASE st \in {Opening, WaitingLinkIn, Linking} -> LinkBroken
      [] st = LinkReady                          -> LinkError
      [] st = Listening                          -> ListenBroken
      [] OTHER                                   -> st

BrokenTarget(st) ==
    CASE st \in {Opening, WaitingLinkIn, Linking} -> LinkError
      [] st = LinkReady                          -> LinkBroken
      [] st = Listening                          -> ListenBroken
      [] OTHER                                   -> st   \* ignored

(* The refusal of OpImpl_SetState: past Disposing there is no way back.  *)
SetStateRefused(bf, af) == bf >= Disposing /\ af < bf
=============================================================================
