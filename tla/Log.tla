-------------------------------- MODULE Log --------------------------------
(***************************************************************************)
(* The log globals of src/fon9/Log.cpp: FnLogWriter_, LogTimeZoneAdjust_,  *)
(* FnLogFlusher_ and LogLevel_, written by a configuring thread            *)
(* (SetLogWriter, UnsetLogWriter, fon9_SetLogLevel) with no lock while a   *)
(* logging thread reads them (the fon9_LOG macro, AddLogHeader, LogWrite,  *)
(* WaitLogFlush).  Log.hpp calls SetLogWriter "NOT thread safe", so there  *)
(* is one configuring thread; each unlocked read or store is a step.       *)
(*                                                                         *)
(* The stores of one call race with the reads, which is undefined          *)
(* behaviour: the compiler may emit them in any order, so each pending     *)
(* store is an action of its own, taken in any order.                      *)
(*                                                                         *)
(* A writer and a flusher are names; the time and the thread id of the    *)
(* header are left out, the zone it adds is kept.  What the logging thread *)
(* hands over (a record, a flusher call, the waiter of WaitLogFlush) is    *)
(* collected in out.                                                        *)
(***************************************************************************)
EXTENDS Integers, FiniteSets

CONSTANTS
    Writers,    \* FnLogWriter values a program passes to SetLogWriter
    Flushers,   \* FnLogFlusher values
    Zones,      \* TimeZoneOffset values, in minutes, other than 0
    LogLevels,  \* levels the logging thread logs at
    SetLevels,  \* values passed to fon9_SetLogLevel
    MaxCalls,   \* bound on the configuring thread's calls
    MaxOps      \* bound on the logging thread's calls

NullPtr == "nullptr"
LogWriteToStdout == "LogWriteToStdout"

(* LogLevel::Trace .. Fatal are 0 .. 6; Count is 7.                      *)
Count == 7
CstrLevelMap == <<"[TRACE]", "[DEBUG]", "[INFO ]", "[IMP  ]", "[WARN ]", "[ERROR]",
                  "[FATAL]", "[?????]">>
GetLevelStr(level) == CstrLevelMap[(IF level < Count THEN level ELSE Count) + 1]

VARIABLES
    FnLogWriter_, LogTimeZoneAdjust_, FnLogFlusher_, LogLevel_,
    cfg,   \* the configuring thread: pc, the stores still to make, calls made
    thr,   \* the logging thread: pc and what it has read so far
    out    \* what the logging thread handed to a writer or flusher

logvars == <<FnLogWriter_, LogTimeZoneAdjust_, FnLogFlusher_, LogLevel_, cfg, thr, out>>

(* The static initialisers of Log.cpp; LogLevel_ is zero-initialised.     *)
IdleCfg == [pc |-> "idle", pend |-> <<>>, calls |-> 0]
IdleThr == [pc |-> "idle", ops |-> 0, level |-> 0, zone |-> 0, flusher |-> NullPtr]

Init ==
    /\ FnLogWriter_ = LogWriteToStdout
    /\ LogTimeZoneAdjust_ = 0
    /\ FnLogFlusher_ = NullPtr
    /\ LogLevel_ = 0
    /\ cfg = IdleCfg
    /\ thr = IdleThr
    /\ out = {}

-----------------------------------------------------------------------------
(* The configuring thread.                                                 *)

(* A call begins: the stores it will make, one per global.               *)
BeginStores(w, z, f) ==
    cfg' = [pc |-> "storing", calls |-> cfg.calls + 1,
            pend |-> [g \in {"FnLogWriter_", "LogTimeZoneAdjust_", "FnLogFlusher_"} |->
                        CASE g = "FnLogWriter_" -> w
                          [] g = "LogTimeZoneAdjust_" -> z
                          [] g = "FnLogFlusher_" -> f]]

SetLogWriter(fnLogWriter, tzadj, fnLogFlusher) ==
    /\ cfg.pc = "idle" /\ cfg.calls < MaxCalls
    /\ BeginStores(IF fnLogWriter # NullPtr THEN fnLogWriter ELSE LogWriteToStdout,
                   tzadj, fnLogFlusher)
    /\ UNCHANGED <<FnLogWriter_, LogTimeZoneAdjust_, FnLogFlusher_, LogLevel_, thr, out>>

(* Only the current writer is unset; the test reads FnLogWriter_, which   *)
(* no other thread writes.                                                 *)
UnsetLogWriter(fnLogWriter) ==
    /\ cfg.pc = "idle" /\ cfg.calls < MaxCalls
    /\ IF FnLogWriter_ = fnLogWriter
         THEN BeginStores(LogWriteToStdout, 0, NullPtr)
         ELSE cfg' = [cfg EXCEPT !.calls = @ + 1]
    /\ UNCHANGED <<FnLogWriter_, LogTimeZoneAdjust_, FnLogFlusher_, LogLevel_, thr, out>>

(* One pending store lands.                                                *)
Stored(g) ==
    /\ cfg' = [cfg EXCEPT !.pend = [x \in DOMAIN @ \ {g} |-> @[x]],
                          !.pc = IF DOMAIN cfg.pend = {g} THEN "idle" ELSE "storing"]
    /\ UNCHANGED <<LogLevel_, thr, out>>

StoreWriter ==
    /\ "FnLogWriter_" \in DOMAIN cfg.pend
    /\ FnLogWriter_' = cfg.pend["FnLogWriter_"]
    /\ Stored("FnLogWriter_")
    /\ UNCHANGED <<LogTimeZoneAdjust_, FnLogFlusher_>>

StoreZone ==
    /\ "LogTimeZoneAdjust_" \in DOMAIN cfg.pend
    /\ LogTimeZoneAdjust_' = cfg.pend["LogTimeZoneAdjust_"]
    /\ Stored("LogTimeZoneAdjust_")
    /\ UNCHANGED <<FnLogWriter_, FnLogFlusher_>>

StoreFlusher ==
    /\ "FnLogFlusher_" \in DOMAIN cfg.pend
    /\ FnLogFlusher_' = cfg.pend["FnLogFlusher_"]
    /\ Stored("FnLogFlusher_")
    /\ UNCHANGED <<FnLogWriter_, LogTimeZoneAdjust_>>

(* fon9_SetLogLevel ignores a level that is not below Count.              *)
fon9_SetLogLevel(lv) ==
    /\ cfg.pc = "idle" /\ cfg.calls < MaxCalls
    /\ LogLevel_' = IF lv < Count THEN lv ELSE LogLevel_
    /\ cfg' = [cfg EXCEPT !.calls = @ + 1]
    /\ UNCHANGED <<FnLogWriter_, LogTimeZoneAdjust_, FnLogFlusher_, thr, out>>

-----------------------------------------------------------------------------
(* The logging thread.                                                     *)

(* fon9_LOG: the level test reads LogLevel_; a record that passes goes on *)
(* to LogWrite(level, rbuf).                                               *)
fon9_LOG(level) ==
    /\ thr.pc = "idle" /\ thr.ops < MaxOps
    /\ thr' = IF level >= LogLevel_
              THEN [thr EXCEPT !.pc = "header", !.level = level, !.ops = @ + 1]
              ELSE [thr EXCEPT !.ops = @ + 1]
    /\ UNCHANGED <<FnLogWriter_, LogTimeZoneAdjust_, FnLogFlusher_, LogLevel_, cfg, out>>

(* AddLogHeader reads LogTimeZoneAdjust_ for the header's time.           *)
AddLogHeader ==
    /\ thr.pc = "header"
    /\ thr' = [thr EXCEPT !.pc = "write", !.zone = LogTimeZoneAdjust_]
    /\ UNCHANGED <<FnLogWriter_, LogTimeZoneAdjust_, FnLogFlusher_, LogLevel_, cfg, out>>

(* LogWrite then calls FnLogWriter_ with the record.                      *)
LogWrite ==
    /\ thr.pc = "write"
    /\ out' = out \cup {[what |-> "record", to |-> FnLogWriter_, zone |-> thr.zone,
                         tag |-> GetLevelStr(thr.level)]}
    /\ thr' = [thr EXCEPT !.pc = "idle"]
    /\ UNCHANGED <<FnLogWriter_, LogTimeZoneAdjust_, FnLogFlusher_, LogLevel_, cfg>>

(* WaitLogFlush tests FnLogFlusher_: a flusher is called, else a waiter   *)
(* node is written through LogWrite(la, buf).                              *)
WaitLogFlush ==
    /\ thr.pc = "idle" /\ thr.ops < MaxOps
    /\ thr' = [thr EXCEPT !.pc = IF FnLogFlusher_ # NullPtr THEN "flush" ELSE "waiter",
                          !.flusher = FnLogFlusher_, !.ops = @ + 1]
    /\ UNCHANGED <<FnLogWriter_, LogTimeZoneAdjust_, FnLogFlusher_, LogLevel_, cfg, out>>

(* Line 75 calls FnLogFlusher_ again; under the race the build may load   *)
(* it anew or reuse the value it tested.                                   *)
CallFlusher ==
    /\ thr.pc = "flush"
    /\ \E f \in {thr.flusher, FnLogFlusher_} :
          out' = out \cup {[what |-> "flush", to |-> f, zone |-> 0, tag |-> ""]}
    /\ thr' = [thr EXCEPT !.pc = "idle"]
    /\ UNCHANGED <<FnLogWriter_, LogTimeZoneAdjust_, FnLogFlusher_, LogLevel_, cfg>>

(* The waiter goes to FnLogWriter_ with no header; waiter.Wait() returns  *)
(* when the writer has taken it.                                           *)
WriteWaiter ==
    /\ thr.pc = "waiter"
    /\ out' = out \cup {[what |-> "waiter", to |-> FnLogWriter_, zone |-> 0, tag |-> ""]}
    /\ thr' = [thr EXCEPT !.pc = "idle"]
    /\ UNCHANGED <<FnLogWriter_, LogTimeZoneAdjust_, FnLogFlusher_, LogLevel_, cfg>>

-----------------------------------------------------------------------------
Next ==
    \/ \E w \in Writers \cup {NullPtr}, z \in Zones \cup {0}, f \in Flushers \cup {NullPtr} :
          SetLogWriter(w, z, f)
    \/ \E w \in Writers : UnsetLogWriter(w)
    \/ StoreWriter \/ StoreZone \/ StoreFlusher
    \/ \E lv \in SetLevels : fon9_SetLogLevel(lv)
    \/ \E lv \in LogLevels : fon9_LOG(lv)
    \/ AddLogHeader \/ LogWrite \/ WaitLogFlush \/ CallFlusher \/ WriteWaiter

Spec == Init /\ [][Next]_logvars

(* Both threads have used up their calls and are between calls.           *)
Quiescent ==
    /\ cfg.pc = "idle" /\ cfg.calls = MaxCalls
    /\ thr.pc = "idle" /\ thr.ops = MaxOps

(* A new run of the program from the static initialisers.                 *)
Restart ==
    /\ Quiescent
    /\ FnLogWriter_' = LogWriteToStdout /\ LogTimeZoneAdjust_' = 0
    /\ FnLogFlusher_' = NullPtr /\ LogLevel_' = 0
    /\ cfg' = IdleCfg /\ thr' = IdleThr /\ out' = {}

====
