# TLA+ models of libfon9's I/O, packet, seed and text layers

This directory holds TLA+ models of the parts of libfon9 (`src/fon9`) in which
threads, callbacks and timers meet: the Device state machine and its socket
client, the listener's registry of accepted clients, the send buffer, the packet
framer and the sequence-continuity feeder, the seed visitor's subscriptions,
and the text conversions and parsers of `ToStr`, `FieldMaker`, the seed tickets
and the rc client's layout. TLC checks each model. Every
definition is translated from the source lines that `PROJECT.json` ("map") names.
Code that is not among the sources (PkCont.cpp, the socket classes, CalcCheckSum)
is modelled from `spec.md` and marked `spec_modelled`.

## The system and how its parts interact

* **Device** (`io/Device.cpp`) is the base of every connection.
  * Every operation runs as a task on the device's op queue (`OpQueue_`), one at a time, on a thread-pool thread: `AsyncOpen`, `AsyncClose`, `AsyncLingerClose`, `AsyncDispose`, and the events of the socket and the resolver.
  * `OpImpl_SetState` changes `State_`, calls the derived class's `OpImpl_StateChanged` hook, and then arms or stops the common timer. The timer is armed for LinkError, LinkBroken and Closed when the matching retry interval is non-zero.
  * The timer fires on the timer thread. `EmitOnCommonTimer` reads `State_` there and either posts a reopen task or calls the derived `OnCommonTimer`.
* **SocketClientDevice** (`io/SocketClientDevice.cpp`) runs the connect sequence:
  1. It resolves `DomainNames_` with an asynchronous DN query. The answer is posted back to the op queue.
  2. It walks the address list in `OpImpl_ConnectToNext`, arming a connect timer for each attempt.
  3. The connect completes as `OpImpl_SetConnected`, or it fails or times out. A failure or timeout moves on to the next address.
* **DeviceListener / DeviceAcceptedClient** (`io/Server.cpp`):
  * The accept thread registers each accepted client in `AcceptedClients_`. The registry is sorted by `AcceptedClientSeq_`.
  * A client removes itself from the registry when its state goes past LinkReady.
  * `Dispose` swaps the registry out and disposes every client in it.
  * A close command finds a client by seq.
* **SendBuffer** (`io/SendBuffer.hpp`):
  * Senders take the op-queue lock. The one that finds the buffer Empty gets `Sending_` and writes it. The others append to `Queue_`, or post their send to the op queue.
  * Each write completion (`OpImpl_ContinueSend`) moves `Queue_` behind what is left of `Sending_` and writes again.
* **PkReceiver** (`PkReceiver.cpp`) cuts the received bytes into framed packets (leader, header, body, checksum, CR LF). `FixedSizePkReceiver` cuts them into packets of one size.
* **PkContFeeder** (`PkCont.hpp`):
  * It takes the packets of one or more feeds and passes them on in sequence order.
  * It buffers a packet that arrives after a gap. When the gap timer fires, it gives up on the gap.

* **SeedVisitor** (`seed/SeedVisitor.cpp`) runs a session's requests on a seed tree as tickets:
  * A subscribe request replaces the visitor's current subscription `Subr_` (under its lock) and unsubscribes the old one. Its ticket later finds the tree, on the thread that finds it, and subscribes. A `<u>` request unsubscribes a given subr. `Tree_` and `SubConn_` of a subr are not locked.
  * The command, read, write, remove and grid-view tickets check the session's rights, then hand over to the tree's `PodOp`; the write ticket parses `name=value|...`.
* **FieldMaker** (`seed/FieldMaker.cpp`) reads and writes a tree's field configuration as text. **RcSvc** (`rc/RcSvc.cpp`) reads the layout (the tabs with their fields) that the server sends to an rc client, and keeps the client's pods.
* **ToStr** (`ToStr.cpp`) writes numbers backwards into a buffer: hex, grouped decimals, automatic precision.

## Modules

| module | models | state | actions |
|---|---|---|---|
| `Device` | the pure parts of `Device.cpp` shared by the device models | state numbers `Initializing`..`Destructing` (the `State` enum order) | operators: `OpenKind` (OpThr_Open's choice), `BrokenTarget`/`BrokenCloses` (OpThr_SetBrokenState's switch), `GetStateTimerAct`, `RetryInterval`/`HasRetryTimer` (Aux::CheckStartTimer), `SetStateRefused` |
| `DeviceLifecycle` | the abstract Device: the state moves a device may make | `state` | one `Next` over the allowed moves |
| `SocketClientDevice` | Device + SocketClientDevice | `dev` (State_, timer, DnReqId_, AddrList_ size, NextAddrIndex_, the connecting socket, the linked socket, whether the send buffer is empty), `opq` (OpQueue_), `cmds` | `Initialize`, `AppCommand`, `OpThreadRuns` (the op thread runs one task: `ExecTask` dispatches to `OpThr_Open`, `OpThr_Close`, `OpThr_LingerClose`, `OpThr_Dispose`, `ReopenTask`, `OnCommonTimerTask`, `OpImpl_OnDnQueryDone`, the connect completions, `OpThr_SetBrokenState` and `OpThr_CheckLingerClose`, each translated whole), `TimerFires` (EmitOnCommonTimer), `DnAnswers`, `ConnectCompletes`, `PeerCloses`, `AppSends`, `SendDrains` |
| `DeviceListener` | Server.cpp's registry plus the accepted clients' op queues | `reg`, `seqOf`, `st`, `q`, `refs`, the accept thread's position (`apc`, `acur`), the disposing thread's position (`dpc`, `dlist`), `disposing` | `AcceptBegin`, `AcceptPush`, `AcceptAddRef`, `AcceptInitialize`, `AcceptOpen` (the steps of AddAcceptedClient), `ClientRuns(c)`, `PeerCloses(c)`, `CloseCommand(seq, kind)`, `DisposeBegin`, `DisposeSwap`, `DisposeOne` |
| `SendBuffer` | SendBuffer with its prescribed callers | `status`, `queue`, `sending`, outstanding `writes`, `opq`, the op thread's other tasks, each sender's position, `wire` | `Send(s)`, `Fill(s)`, `RunPosted`, `OpTaskBegin`/`OpTaskEnd`, `WriteDone` (OpImpl_ContinueSend with a partial write), `ForceClearBuffer` |
| `PkReceiver` | PkReceiver::FeedBuffer | `fr` (rxbuf and the counters), `arrived` (history), the peer's pending token | `Send`, `Arrive` (one byte is read), `Feed` (FeedBuffer; its loop is the RECURSIVE operator `FeedLoop`) |
| `PkCont` | PkContFeeder | `fd` (NextSeq_, the counters, PkPendings_, the timer), `fed`, `day` | `Feed(f, seq)` (FeedPacket under the lock), `TimerFires` (PkContOnTimer), `Clear` |
| `SeedVisitorSubr` | the subscription of SeedVisitor.cpp (lines 332-407) | `cur` (Subr_), `sr` (whether each subr's `Tree_`/`SubConn_` is set), `subs` (the subscriptions registered in the tree), `released` (tree references released per subr), `job` (the frame of the session, of each subscribe ticket's OnFoundTree and of each `<u>` ticket), the request counters `nsub`, `nuns` | `NewSubscribe`, `RequestUnsubscribe`, `FoundTree(k)`, `RegisterSubscription(k)`, `CheckSuperseded(k)`, `CompareCurrent(i)`, `TakeCurrent(i)`, and VisitorSubr::Unsubscribe split at each unlocked access (`UnsubReadTree`, `UnsubClearTree`, `UnsubTakeConn`, `UnsubOnTreeOp`) |
| `ToStr` | ToStr.cpp | none (pure) | RECURSIVE operators `HexToStrRev`, `HexLeadRev`, `UIntToStrRev_IntSep`, `PutAutoPrecision` |
| `FieldMaker` | FieldMaker.cpp | none (pure) | `MakeField`, `Parse` (FieldsMaker::Parse with its redefinition rule), `AppendFieldConfig`/`AppendFieldsConfig` |
| `SeedVisitorText` | the text handling of the seed tickets | none (pure) | `CheckCommandRight`, `CommandOutcome`/`CommandLogged` (TicketRunnerCommand), `TicketOutcome` (where the error, tree, read, write and remove tickets end), `ParseSetValues` with `NbspLoop`, the grid-view request (`NewGridView`, `GridViewContinue`, `GridViewReq`, `GridViewOnFoundTree`, `OnGridViewOp`) |
| `RcSvcLayout` | TreeRec of RcSvc.cpp | none (pure) | `ParseLayout` (`ParseTabs`, `ParseTab`), `MakeSeed`, `MakePod`, `FetchPod` |
| `TimeStampConv` | the inline conversions of TimeStamp.hpp | none (pure) | `ToEpochSeconds`, `stdtm_AssignYYYYMMDD`/`stdtm_AssignHHMMSS`/`stdtm_ToEpochSeconds`, `GetYYYYMMDDHHMMSS`, `GetDayTime`, `GetWeekday`, `YYYYMMDDHHMMSS_ToTimeStamp`, `TimeStampResetHHMMSS`, `NumToEpochSeconds`, `TsToStrRev`, `ToStrRev_Date_Time_us`, `FromOffsetHHMM`, `TsAddZone`/`TsSubZone` |
| `Log` | the log globals of Log.cpp and the calls that use them | `FnLogWriter_`, `LogTimeZoneAdjust_`, `FnLogFlusher_`, `LogLevel_`; `cfg` (the configuring thread: its stores still to land), `thr` (the logging thread: where it is and what it has read), `out` (the records, flusher calls and waiters handed over) | `SetLogWriter`, `UnsetLogWriter`, `StoreWriter`/`StoreZone`/`StoreFlusher` (one unlocked store lands, in any order), `fon9_SetLogLevel`, `fon9_LOG` (the level test), `AddLogHeader` (reads the zone), `LogWrite` (calls the writer), `WaitLogFlush` (tests the flusher), `CallFlusher` (line 75 loads it again or reuses it), `WriteWaiter` |
| `ExgMcFmtSSToRts` | the I084 snapshot parsers of ExgMcFmtSSToRts.cpp | none (pure): a symbol table maps an id to its `LvUpLmt_`/`LvDnLmt_`; a parser returns the table, what it publishes, and the I083s it forwards | `I084SSParserToRts` (the dispatch on MessageType_), `McI084SSParserO` (the RECURSIVE walk `OLoop` over the packed entries, `OEntry` for one product, `FillI083` writing over the one I083 buffer, `ConsumerView`), `McI084SSParserP` (`PLoop`, `SetLvLmt`) |
| `FieldDecimal` | FieldDecimalDyScale of FieldDecimal.hpp | none (pure): a field is `[sign, size, scale]`, a cell the integer it holds | `CellRevPrint`, `CellToBitv`, `BitvToCell`, `GetNumber`, `PutNumber` (with the `static_cast<ValueT>` wrap `ValueCast`), `SetNull`, `IsNull`, `Compare`, `AppendRawBytes`, `CompareRawBytes` |

`SocketClientDevice` also has `DeviceCommand` (OnDevice_Command's dispatch)
and the blocking `WaitGetDeviceInfo`/`WaitSetProperty`, whose caller waits in
`waiter` until the op thread runs its task.

`MCPkCont`, `MCDeviceListener`, `MCSendBuffer`, `MCPkReceiver` and
`MCSeedVisitorSubr` give the constants their model values. `MCText` is a state
machine over test cases: `Init` picks a case (a number, a text, a field config,
a layout, a grid-view request, a TimeStamp, a decimal cell, an I084 snapshot message), and `Next` moves to a neighbouring case, so that
the invariants compare each operator with its reference definition on every
case. The one exception is the `log` case, which runs the `Log` state machine: a
configuring thread and a logging thread race on the log globals. When both have
used up their calls, `Restart` starts the program again from the static
initialisers. In the `i084` case a symbol table also evolves: each step either
flips whether consumers are to be notified or applies an arriving 'O', 'P' or
'S' message to it through `I084SSParserToRts`.

Each locked section of the code, and each op-queue task, is one action. A step
that the code performs after releasing a lock is an action of its own. Examples:
the add_ref in AddAcceptedClient, the fill after `ToSendingAndUnlock`, and
Dispose's loop.

Data is abstracted as follows:
* A message is `<<sender, n>>`.
* A byte is one of Leader, CR, LF, Bad, or a small number.
* An address list is its size.
* A DN request id and a socket are one of two ids. Reusing an id is safe, because a superseded completion is marked stale when the id is replaced (`MarkStale`).

## Runs

| run | cfg | result | what it shows |
|---|---|---|---|
| `pkcont` | `MCPkCont.cfg` | pass | See below. |
| `socket_client` | `MCSocketClientDevice.cfg` | pass | See below. |
| `connect_timeout` | `MCConnectTimeout.cfg` | **violation** | A stale connect timeout abandons a fresh connect. |
| `listener` | `MCDeviceListener.cfg` | pass | See below. |
| `listener_refs` | `MCRegistryRefsNonNegative.cfg` | **violation** | The registry releases a client before its add_ref. |
| `sendbuffer` | `MCSendBuffer.cfg` | pass | See below. |
| `pkreceiver` | `MCPkReceiver.cfg` | pass | See below. |
| `pkreceiver_length` | `MCPkReceiverLength.cfg` | **violation** | A packet of PkHeadSize+2 bytes is refused, though the contract accepts it. |
| `seedvisitor_subr` | `MCSeedVisitorSubr.cfg` | pass | See below. |
| `seedvisitor_leak` | `MCNoLeakedSubscription.cfg` | **violation** | A superseded subscription stays registered after every request is handled. |
| `seedvisitor_unsub_target` | `MCUnsubscribeHitsTarget.cfg` | **violation** | A `<u>` request cancels the newer subscription instead of its own. |
| `text` | `MCText.cfg` | pass | See below. |

Three more configs reproduce counterexamples of the same races that the runs
above already stand for. They are kept for a reader who wants the trace:
* `MCNoResurrection.cfg` (listener): `Initialize` moves a Disposing client back to Initialized.
* `MCRegistryEmptyAfterDispose.cfg` (listener): a client accepted during Dispose stays registered.
* `MCTreeReleasedOnce.cfg` (seed visitor): two threads unsubscribing one subr both release its tree reference.

What the passing runs check:

* **pkcont:**
  * `DeliveredInOrder`: each number is delivered once, in order, including multi-number packets.
  * `NothingAheadDiscarded`: nothing that can still be delivered is thrown away.
  * `LostAccounting`: `LostCount_` is exact.
  * `GapsResolved`: every gap is eventually given up.
* **socket_client:**
  * `RetryNeverLost`: a LinkError or LinkBroken device always has a way back.
  * `UserCloseIsFinal`: a closed device is not reopened by a late task.
  * `LinkingResolves`: Linking ends.
  * `ImplementsLifecycle`: every state change is a `DeviceLifecycle` move (refinement).
  * `CallerWoken`: a caller blocked in `WaitGetDeviceInfo` or `WaitSetProperty` is always woken, in every state of the device, Disposing included.
* **listener:**
  * `RegistrySorted`: the registry stays sorted by seq.
  * `RegisteredAreOpen`: it holds only clients at LinkReady or below.
  * `SwappedAreDisposed`: every client Dispose swaps out is disposed.
* **sendbuffer:**
  * `OneWriteAtATime`: at most one write is outstanding.
  * `SendFIFO`: each sender's messages reach the wire in order.
  * `NothingStranded`: every message sent reaches the wire or is force-cleared.
* **pkreceiver** (a stream receiver and a datagram receiver, and a FixedSizePkReceiver):
  * `ByteAccounting`: every byte is accounted for, including the rest of a datagram read that is dropped.
  * `ChunkingInvariance`: for a stream, how the bytes are split into reads changes nothing.
  * `FixedSizeFraming`: the fixed-size receiver cuts the stream into whole packets across reads.
* **seedvisitor_subr:**
  * `CurrentStaysSubscribed`: once the current subscription's ticket has subscribed, no unsubscribe, superseded ticket or `<u>` request removes it while it is still `Subr_`.
* **text** (each operator against a reference definition on every bounded case):
  * `HexLiteralReadBack`: the hex digits of HexToStrRev/HexLeadRev read back as the number.
  * `IntSepMatchesGrouping`: UIntToStrRev_IntSep groups digits by the numpunct grouping rule.
  * `AutoPrecisionMatches`: PutAutoPrecision keeps the value and drops only trailing zeros.
  * `SetValuesParsed`: TicketRunnerWrite::ParseSetValues splits `name=value|...` (quotes, unknown fields) and turns every C2 A0 into a space.
  * `CommandRightByLastSegment`: CheckCommandRight, the command dispatch and its logging, and where the read, write and remove tickets end.
  * `FieldConfigRoundTrip`: what AppendFieldsConfig writes, FieldsMaker::Parse reads back.
  * `ParseFollowsRedefinitionRule`: Parse's rule for a field defined twice.
  * `GridViewWindow`: the 16-bit request of TicketRunnerGridView (forward, backward, continue, the edges of int16).
  * `LayoutRoundTrip`: TreeRec::ParseLayout reads back the layout the server writes; FetchPod makes a pod once.
  * `TimeStampConversions`: the YYYYMMDDHHMMSS, weekday and time of day of a TimeStamp agree with a reference calendar, in which a year starts after 365 days for each year before it plus one for each leap year among them, and a month after the days of the months before it; NumToEpochSeconds keeps every epoch number up to 2286-11-20 17:46:39 and maps a YYYYMMDDHHMMSS number back to its second; TimeStampResetHHMMSS keeps the day; the log header text `YYYYMMDD-HHMMSS.uuuuuu`; a time zone added and taken off again.
  * `DecimalCellConversions`: a FieldDecimalDyScale cell survives the Bitv and raw-byte round trips; a Null Bitv makes it Null and raw bytes of another length compare as Null; GetNumber and CellRevPrint report Null exactly when IsNull does; PutNumber stores the number wrapped to the cell's width (so a number that wraps onto kOrigNull makes the cell Null), reads back every number in range, and Compare orders cells as their numbers; a negative Bitv number leaves an unsigned cell unchanged and raises.

Every property of a passing run also has a mutant in `PROJECT.json`. A mutant is
a plausible bug in the mapped code: a dropped guard, a missing reset, a swapped
order, or a stale value. TLC finds the property violated under each mutant.

### What the violations show

* **`connect_timeout`** (SocketClientDevice.cpp:19 with lines 66-67 and 87-93). The sequence is:
  1. The DN query is outstanding.
  2. The connect timer fires, and the timer thread queues the `OnCommonTimer` task.
  3. Before that task runs, the DN answer runs `OpImpl_ConnectToNext`, which starts a connect and re-arms the timer.
  4. The stale timer task now finds Linking with no DN query and calls `OpImpl_ConnectToNext("Connect timeout.")`, abandoning the connect it just started.

  The spec says the timeout fires only when no completion arrives in time.
* **`listener_refs`** (Server.cpp:95). `intrusive_ptr_add_ref` runs after the registry lock is released. A close by seq in that window removes the client and releases a reference the registry has not taken yet. Dispose can do the same.
* **`listener_resurrection`** (Server.cpp:98, Device.cpp:26). The registry publishes the client before `Initialize`. Dispose swaps the client out and its Dispose task runs first. Then `Initialize` assigns `State_ = Initialized`, moving the client back from Disposing.
* **`listener_leak`** (Server.cpp:89-94). `AddAcceptedClient` ignores `IsDisposing_`. A client pushed after Dispose's swap stays in the registry. The destructor comment says the registry is empty by then.
* **`pkreceiver_length`** (PkReceiver.cpp:14). The test `PkHeadSize_ + 2 < pksz` refuses a packet of exactly header + 2 bytes, which the contract's range `[headerSize+2, max)` allows. The contract's framing section also asks for a checksum byte, which such a packet has no room for, so the specification is inconsistent at this one length; the run shows that the code takes the stricter reading.
* **`seedvisitor_leak`** (SeedVisitor.cpp:366-390). `VisitorSubr::Subscribe` and `Unsubscribe` touch `Tree_` and `SubConn_` without a lock. `NewSubscribe` unsubscribes the old subr on the session thread while that subr's ticket may be inside `OnFoundTree`. If the unsubscribe moves `Tree_` out before Subscribe sets it, or runs between `Tree_.reset` (line 372) and the write of `SubConn_` (line 373), it unsubscribes nothing. The ticket's check at lines 358-359 then finds `Tree_` null, and the superseded subscription stays registered.
* **`seedvisitor_unsub_target`** (SeedVisitor.cpp:346-347, 393). The `<u>` branch compares `Subr_` with its subr under one lock (line 346), then calls `SeedVisitor::Unsubscribe` (line 347), which takes `Subr_` under a second lock (line 393). A `NewSubscribe` between the two makes the request cancel the new subscription.

  * `I084SnapshotsFollowEntries`: for an 'O' message packed from a list of products, each with its own book entries, the parser makes a symbol for every product with a sequence number and leaves every known symbol as it was; it publishes, in order, exactly the products with a sequence number that the trading session accepts, each with its own book entries and sequence number; and each I083 it forwards to consumers, though written into the one buffer the products before it used, shows that product's id, count, sequence number and book entries. A walk that steps over the product headers only (the stride McI084SSParserP has) breaks it.

## Bounds and why they are enough

* **pkcont:**
  * Two feeds and five sequence numbers, with packet 4 covering two numbers, and one daily Clear.
  * Every order, duplication and loss of the feeds is explored: each feed may carry or lose each number.
  * Gaps of one and of several numbers both occur, and a covered number arrives while buffered.
* **socket_client:**
  * The config has a remote address and a domain name, and a DN answer carries 0 or 1 addresses. Address lists of 0, 1 and 2 therefore occur, and the walk reaches both its end and its middle.
  * There are three application commands, from open, "bad" open, reopen, close, linger close and dispose.
  * The LinkError and LinkBroken retries are on and the Closed reopen is off. This makes a user close final.
* **connect_timeout:** uses DN answers of up to 2 addresses and no fixed address.
* **listener:**
  * Three clients, so a removal from the middle of the registry and a seq reused after the last leaves both happen.
  * One close command or peer disconnect. Two did not finish within the time limit, and every finding needs only one.
  * The violation runs use two clients.
* **sendbuffer:**
  * Two senders with two messages each: enough for a queue behind a write, a posted send, and one sender overtaking another.
  * Two other op-queue tasks, enough to force the posted path.
* **pkreceiver:**
  * A header of 2 bytes and packets shorter than 7.
  * Up to three tokens: good packets of 5 and 6 bytes, a bad checksum, a short candidate, and stray leader and bad bytes.
  * Each token arrives a byte at a time, so every split into reads happens.
  * An OnPkReceived that stops after 6-byte packets.
  * A FixedSizePkReceiver with packets of 3 bytes, so that reads end inside a packet, on its edge and across two.
* **seedvisitor_subr:**
  * Three subscribe requests and one `<u>` request of one session. A ticket is then superseded twice, the session can unsubscribe a replaced subr while its ticket is inside `OnFoundTree`, and a `<u>` can race a newer subscribe.
  * The two violation runs need only two subscribe requests.
* **text:**
  * Hex: every number up to 300, with each prefix form. Grouping: ten values from 0 to 10 000 000 under every grouping of up to three group sizes from 0 to 3. Auto precision: every value up to 1200 at scales 0 to 4.
  * Write values: up to two items, each a known, unknown or blank-padded name and a value of up to two of C2, A0, `b` and `|`, quoted or not.
  * Commands: texts of up to 5 characters over `/`, `^`, `:` and letters, each kind of target and each command line; every ticket kind with each pod outcome and Insert right.
  * Grid view: the counts -32768, -32767, -3, -1, 0, 1 and 32767, so that both ends of int16 and the sign flip of a backward request occur.
  * Text with non-breaking spaces: every text of up to 5 of C2, A0 and `b`.
  * Field configs: every shape MakeField can make (each type, sign, size and scale class) with each set of flags, name and title; sequences of up to three of the field lines that FieldMaker.hpp documents, so that a field is defined twice.
  * TimeStamps: days 0, 59 (1970-03-01), 11016 and 11017 (2000-02-29 and 03-01), 47541 (2100-03-01, a non-leap century), 115740 and 115741 (the days of 2286-11-20, where NumToEpochSeconds' bound 9999999999 falls), at seconds 0, 63999 and 64000 (the bound and one past it) and 86399, with 0 and 999999 microseconds, three reset times and the zones +08:00 and -03:30. 64-bit numbers exceed TLC's integers, so a number n is the pair `[hi |-> n \div 10^6, lo |-> n % 10^6]`; for YYYYMMDDHHMMSS that is the date and the time.
  * Decimal cells: the fields `S1.2`, `U1.0` and `S2.3`, every cell value of the one-byte fields and both ends of the two-byte one, numbers from -32769 to 65535 around each type's edges, written at scales 0 to 3, and Bitv numbers -1, 0 and 1234 at scales 0 to 3 and Null. Both ends of each type, kOrigNull and the wrap onto it occur.
  * Log: one custom writer `W1` with flusher `F1`, the zones 0 and +08:00, and records at Info and Warn. `fon9_SetLogLevel` receives Important, which filters Info, and Count, which it refuses. Each thread makes two calls: enough for a SetLogWriter followed by an UnsetLogWriter, with a record or a flush overlapping either one or running after both.
  * I084: 'O' messages of up to three products, each `A` or `B` with 0 to 2 book entries and a sequence number 0 (skipped) or 6+j (distinct by position, so a stale one shows), trading session accepting both or only `A`, with and without consumers to notify. Products repeat, so a buffer is written over by a product with fewer entries. The arrivals are a 'P' message of two products, an 'O' message of one product, and an 'S' message, which is not handled.
  * Layouts: three tree flags, two key fields, and one or two tabs of up to two fields each, with hex flags 0 and 171 (`ab`).

## Fairness

* The thread pool keeps running every device's op queue (`WF` on `OpThreadRuns` and on `ClientRuns(c)`), and an armed timer fires (`WF TimerFires`).
* A call in progress runs to its end: the AddAcceptedClient and Dispose steps, a sender's fill, the posted send, and the write completion are all weakly fair.
* The environment owes nothing: the peer, the resolver, the application, the accepts and Dispose itself. This is why the liveness properties speak only of what the code must finish.
* Most runs set `CHECK_DEADLOCK FALSE`, because the system may stop. All commands may be spent, and a closed device with no reopen interval stays closed.

## Not modelled, and why

* The DeviceServer `Send*` stubs (Server.cpp 8-26) only return errors.
* The text that `OnDevice_Command`, `WaitGetDeviceInfo` and `WaitSetProperty` produce is formatting and config parsing; their dispatch and blocking are modelled.
* The tree's `PodOp` and `TreeOp::GridView`, which the tickets hand over to, are not among the sources; only where each ticket ends is modelled.
* rc: `NamedToC`/`FieldToC` copy into C structs (only the counts are kept); `RxSubrData` decodes subscription data into the session's maps, outside the sources.
* TimeStamp.hpp: `UtcNow` reads the clock; `timegm`, `EpochSecondsInfo` and `ToStrRev_Full` are implemented outside the sources and are modelled as the proleptic Gregorian calendar; the FIX formats and TimeZoneOffset parsing are declared only.
* FieldDecimal.hpp: `StrToCell` (StrTo is outside the sources) and `Copy` (a memcpy); `AdjustDecScale`, `DecToBitv` and `DecimalAux::OrigNull` are in Decimal.hpp, outside the sources, and are modelled from their use: a scaling by a power of ten that truncates toward zero, a number with its kind and scale, and the least value of a signed type or the largest of an unsigned one. `DecimalCellConversions` writes numbers only at scales up to the field's, where the 64-bit scaling cannot overflow.
* `IoManager.hpp` declares the device table; its implementation is not among the sources.
* Log.cpp has no property. Log.hpp calls SetLogWriter "NOT thread safe", so the code promises nothing to a logging call that a configuring call overlaps: with the stores landing in any order, a record can go to the new writer with the old zone, and WaitLogFlush can call nullptr (the flusher is tested at line 74 and loaded again at line 75). A logging call that no configuring call overlaps sees the last stores, which is the assignments themselves. The model still runs every interleaving of the two threads in the text run.
* Log.cpp: `LogWriteToStdout`'s fwrite loop is I/O, so a writer is a name; the header's time and thread id are left out, and only the zone it adds is kept. `gWaitLogSystemReady` is declared but no source sets it.
* f9twf: `ExgMrRecover.hpp` and `ExgMdContracts.hpp` are declarations whose implementation is not among the sources, and `TwfSymbRef.cpp` only lists fields. `ExgMdToSnapshotBS` and the publication it feeds are outside the sources, so a publication is the entries and sequence number it carries. `CheckSymbTradingSessionId` is an input set, and an I083's BodyLength is the number of book entries it covers. `McI084SSParserP` never advances `prodEntry`, and `SetLvLmt` never stores the new level. Both are modelled as written and are listed as a hazard in `PROJECT.json`; no run is left for a violation run of them.
* MustLock: its bookkeeping could go wrong only through `unlock`, `Relock` or a move-assign of a locker, and no source uses them.
* These components are listed in `PROJECT.json` with the reason they are left out: `BufferList`, `MustLock`, `IoManager`, `fmkt`, `auth` and `web`.
