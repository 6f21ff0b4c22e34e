# TLA+ models of DeskFerry

DeskFerry lets a Home PC reach a Work PC through a relay that both dial out
to. This directory holds TLA+ modules that model its parts, TLC
configurations that check them on small instances, and theorems about them
that TLAPS proves for every value of the constants.

## 1. Inventory of the system

| Part | Code | State it keeps | Operations | What makes it hard |
|---|---|---|---|---|
| Resumable byte stream | `internal/tunnel/resumable.go` | per end: replay buffer (`sendBase`, `sendEnd`, `sendBuffer`), receive buffer and `recvOffset`, current transport (`ws`, `generation`), `closed`, `terminalErr` | `Write`, `Read`, `Close`; `connectionLoop`, `attachTransport`, `readTransport`, `heartbeatTransport`, `checkAckProgress` | five kinds of goroutine around two locks; transports lost at any time; old readers; replay |
| Relay resume session | `relay/go/main.go` 1674-2256 | two endpoints with generations, two attachment queues, two pumps, `done` | `Attach`, `Run`, `RunRecovered`, `run`, `waitForAttachments`, `latestAttachment`, `keepLive`, `Finish`, `pumpResumable` | barrier across both sides, stale pumps, dead attachments |
| Relay agent control | `relay/go/main.go` 511-868 | control connection per room and service, pending offers, capacity | `ServeAgentControl`, `ServeV2Client`, `serveOnDemandClient`, `ServeAgentSession` | offers racing timeouts, replacement of the control connection |
| Relay rooms, legacy pairing | `relay/go/main.go` 869-1673 | room proof, counters, queue of waiting agents | `ServeAgent`, `ServeClient`, `AuthorizeAgent`, `TryPair`, `Cancel` | check and use under different locks |
| HTTP stream transport | `internal/tunnel/http_stream.go` | send queue with sequence numbers, acknowledged and received sequence, reorder buffer, claims of parallel GETs | `Write`, `Read`, `clientUpLoop`, `clientDownLoop`, `serveUpload`, `serveDownload*` | requests repeated after lost answers, parallel downloads |
| WebSocket client, proxy tunnelling | `internal/tunnel/websocket.go`, `proxy.go` | three marks of what a proxy can do, saved by the Home client | `DialMessageConnWithHeaders`, `Dial*`, `proxy_capabilities.go` | marks that are out of date, shared by all dials |
| Pipe, connection group | `internal/tunnel/pipe.go`, `conn_group.go` | open connections | `Pipe`, `Begin`, `Close` | begin against close, half-close |
| Work agent | `windows/workservice/main.go` | one control loop per relay, places for sessions | control loop, `serveOfferedSession`, service, update | offers of two controls, one limit |
| Logging | `internal/diaglog`, `internal/remotelog` | the day's file, a backlog, a position per target | `Write`, `rotate`, `batch`, `upload` | failures between two file operations; eviction while an upload is in flight |
| Home client for Windows | `windows/home` | config and profiles, one tunnel, connections, a WinRM process, screen viewers | handlers of the window, accept loops, timers | goroutines that finish after the window has gone on |
| Screen view | `internal/screenview`, `windows/workservice/screen_helper_windows.go` | the last image at both ends, a helper process | `RunCaptureHelper`, `Receive`, `RunCLI` | captures that fail, helpers that end while frames are under way |
| Setup | `windows/setup`, `windows/workui`, the service's updater | two services, executables, config files, the hosts entry | install, configure, uninstall, update | several processes, steps that fail half-way |
| Other Home clients | `home-agent/macos`, `home-agent/android` | one tunnel | start, stop | re-implementations of the above |
| Everything else | `windows/uikit`, `windows/networkservice`, `internal/winservice`, `wincred`, other relays | - | - | drawing, operating system calls, re-implementations |

How they interact: a Home client and the Work agent each dial the relay over a
WebSocket or an HTTP stream (both are a `MessageConn`); the relay pairs them and
pumps messages between the two `MessageConn`s. Over that, each end runs a
resumable byte stream (`NewResumableWebSocketConn`), to which `Pipe` copies a
local TCP connection. When a transport fails, both ends dial the relay with the
role `resume`; `ResumeSession` aborts both old sockets, waits for a new one from
each side, and sends both a resume message.

What has to hold, by part:

- *Resumable stream*: the bytes read are the bytes written, whatever transports
  died; no byte that may still be needed is freed; a transport in order is
  not given up because of a late acknowledgement; buffers do not grow past their
  limit and full buffers do not block both ends for good; an end that is over
  stays over and its peer learns of it; an orderly end of stream means that all
  has arrived.
- *Resume session*: both sides are always on the same generation; every
  attachment is released, and closed, whatever ends the wait; an old pump never
  disturbs a new bridge or blocks; the bridge comes back when sockets stop failing;
  a session that one side ends is finished at the relay.
- *Relays of a room together*: a session that moves between relays is refused by
  none of them as long as its ends are alive.
- *Agent control*: an offer leads to at most one data connection, a reservation
  is released exactly once, on the connection it was made on.
- *Relay, protocol 1*: a client that takes a waiting socket is paired or turned
  away, whoever replaces, cancels or breaks that socket meanwhile.
- *HTTP stream*: messages arrive once and in order across repeated requests, and
  what is freed has arrived.
- *Dialing*: what was learned of a proxy never keeps a program from a relay it
  could reach.
- *Logging*: the files hold the latest lines in order; what the backlog holds gets
  to every relay.
- *Home client*: the tunnel, the connections and the profiles that are shown are
  the ones that are; settings survive a restart; a WinRM command gets its own
  answer.
- *Screen view*: what is shown is what was captured, to the last image.
- *Setup*: what is installed is of one install, and the Work service runs on.

## 2. Modules

| Module | What it is |
|---|---|
| `ByteRuns` | bytes named by their position in the stream; runs, prefixes, suffixes |
| `ByteStream` | abstract specification: what two users of a session may see |
| `ResumableStream` | the two ends of `resumable.go`, the network between them and the relay's barrier |
| `MCResumableStream` | the module TLC runs |
| `RelaySession` | the relay's `ResumeSession`: runner, pumps, attachments, with the two sides as environment |
| `MCRelaySession` | the module TLC runs |
| `MessageChannel` | abstract specification: what two users of a `MessageConn` may see |
| `HTTPStream` | both ends of `http_stream.go`, their requests, the relay's table |
| `MCHTTPStream` | the module TLC runs, with its plans |
| `AgentControl` | the relay's handlers of controls, clients and data sockets |
| `WorkAgent` | the agents, composed with `AgentControl` (EXTENDS) |
| `MCWorkAgent` | the module TLC runs, with its plans |
| `RelayDialing` | reaching a relay through a proxy, and what is saved of the proxy |
| `DiagnosticLog` | the day's file, the backlog, the uploads and the relay's end of them |
| `LegacyPairing` | waiting sockets of protocol 1, their replacement and pairing |
| `HomeWindow` | tunnels, local connections, the check and the saving of a login |
| `HomeProfiles` | the destination editor, the config, the file |
| `ProductSetup` | the programs that install, update, configure and remove the product |
| `WinRMSession` | the manager of a PowerShell process, its commands and timer |
| `ScreenView` | capture, frames, the pipe to the relay, the viewer and the command line |
| `Programs` | those eight, by INSTANCE, one of them in every behaviour |
| `MCPrograms` | the module TLC runs, with the plans of the parts |
| `ResumableStreamProofs` | lemmas about runs, the inductive invariant of the sending half, type correctness |
| `ResumableStreamReceiving` | acknowledgements, delivery, refinement of `ByteStream`, finality of an end |
| `ResumableStreamAcks` | the order of acknowledgements, which `applyAck` relies on |
| `RelaySessionProofs` | types, the generation barrier, the release of attachments, the pumps' reports, the order of what pumps carry over |
| `WorkAgentProofs` | types, the places on a control, the agreement of who is paired |
| `HTTPStreamProofs` | types, what is freed, refinement of `MessageChannel` |
| `ProgramsSetupProofs` | the inductive invariant of `ProductSetup` |
| `ProgramsProofs` | the inductive invariants of the other parts, the safety properties of all |

Operators named as mutants (`FreshUncut`, `BarrierForBoth`, ...) are wrong on
purpose: each breaks a property when it takes the place of the operator below
it, which shows that the property can fail. No specification uses them.

### ResumableStream

State and code. `ws[s]` is `c.ws` by the path it belongs to (0: nil); a *path* is
one pairing of two sockets by the relay and stands for the pair
`(ws, generation)` that the code compares. `sendBase`, `sendEnd`, `sendBuffer`,
`recvOffset`, `recvBuffer`, `closed`, `terminal` are the fields of the same (or
nearly the same) name. `chunk[s]` is the chunk that `sendDataUntilAccepted` is
working on, `attach[s]` the copy of the replay buffer inside `attachTransport`,
`reader[s][p]` the goroutine `readTransport` of path `p` with the frame it holds.
`delivered[s]` is history: what `Read` has returned. `wire[p][s]` holds the
frames in flight, in sockets and in the relay.

| Action | Code |
|---|---|
| `Write`, `SendChunk` | `Write` with `queueSend`; `sendDataUntilAccepted` with `waitTransport`, `writeFrame`, `dropTransport` |
| `Read`, `Close` | `Read`, `Close` |
| `AttachTransport`, `ReplayChunk`, `AttachDone` | `attachTransport` under its locks and with its acknowledgement; each replayed chunk; its end |
| `Expire` | the ends of `connectionLoop`: the resume window, a terminal error of the relay |
| `ReadFrame`, `ReadClose`, `ReadError`, `ApplyAck`, `ApplyData`, `Unpark`, `WriteAck` | `readTransport` with `applyAck` and `applyData`; `Unpark` is what follows `cond.Wait` |
| `Drop` | `heartbeatTransport` and `checkAckProgress` when they give a transport up |
| `LosePath` | a network or proxy that stops carrying a path |
| `Barrier`, `Resume` | `ResumeSession.run`: both endpoints aborted; both replaced and told to resume |

Locks. What the code does under `mu` in one piece is one action. `writeMu` is
held through an attach: `MayWrite` is its being free. A wait on `cond` is a state
(`chunk`, `parked`) with an action of its own that looks at the variables again.

Lost data. A frame written to a path that is still up joins the wire. On a lost
path the write may fail or may succeed and vanish in a socket buffer. When the
relay replaces its endpoints it may have delivered any prefix, may have thrown
away a middle part (binary messages that an end skips while it waits for the
resume message), and may write up to `MaxCarry` further frames of the old socket
to the new one (`pumpResumable` reads the destination after it has read a
message), ahead of anything new.

Abstractions. Ping and pong frames carry no stream state; their effect is
`Drop`. A byte is its position, so `data` of a frame is a sequence of numbers and
a lost or repeated byte is a break in a run. Message loss inside a path is not
modelled: a `MessageConn` delivers a prefix of what it took. Dial attempts,
backoff and the choice between relays decide only when the next path comes.

The two modules meet at the barrier: `Barrier`, `Resume` and `Carried` of
`ResumableStream` are what `RelaySession` lets the two ends see of the relay: both
sockets of a pair aborted together, both replaced together, and messages of an
old socket written to a new one. `OneGeneration` and `OldBeforeNew` are the
facts about the relay that this abstraction relies on.

### RelaySession

State and code. The sockets of a side are numbered in the order in which it
opens them. `pc`, `bridged`, `held`, `endpoint`, `running` and `results` are the
state of `run` and `RunRecovered`: where the runner is (`bridged` tells `run` from
`RunRecovered`), `agentAttachment` and `clientAttachment`, the two
`resumableEndpoint`s with their generations, `running` and `pumpDone`. `pump[s]` holds
the pumps that read from side `s`: a set, so that two of them would be seen.
`queue[s]` is `s.agent` or `s.client`; `handler[s][n]` the `ServeResume` call of an
attachment (its being "released" is `attachment.Done`, or `s.done` seen); `noticed[s][n]`
is `readAheadConn.done`. `open[s][n]` says that the relay has not closed the
socket, `peer[s][n]` what its side has done with it. `told` and `got` are history.

| Action | Code |
|---|---|
| `Enqueue`, `Release` | the two `select`s of `Attach`, and what `ServeResume` does after it |
| `Notice` | `readLoop` |
| `TakeResult` | `case result := <-pumpDone`: a session close ends `run`, a stale report restarts the pump, another one is a failure |
| `TakeEarly` | an attachment that arrives while the bridge works |
| `TakeAttachment`, `DropDead`, `WindowExpires`, `WaitEnds` | the cases of `waitForAttachments`; `latestAttachment`, `isDead` and `keepLive` after it |
| `Pair`, `TellAgent`, `TellClient` | `Replace` of both endpoints, the two resume messages, the retry, the start of the pumps |
| `Finish` | the deferred calls of `run` and `RunRecovered` |
| `PumpRead`, `PumpReadFails`, `PumpWrite`, `PumpWriteFails` | `pumpResumable` and `readAheadConn.Read` |
| `ReportEnd` | `ServeAgentControl` on a session-closed message |
| `Dial`, `GiveUp`, `SilentExpires`, `Send`, `CloseSession`, `Refused` | a side's `connectionLoop`, `dropTransport`, `Close` |

Interleavings kept: the runner looks at the queues, at dead attachments and
at its timer in any order that `select` allows; a side can leave its socket between
any two steps; a pump can be anywhere between its read and its write when the
runner aborts or replaces its sockets. A pump looks up its destination and
writes to it in one action: `Abort` cancels a write that is under way, and a report that
comes late because of it waits for the runner in `results` as it would in the pump.
A generation counts pairings, those of `RunRecovered` that had to be retried
included, which the code does not number.

### HTTPStream

Records are numbered; `nextSend`, `sendBase`, `recvNext`, `recvAhead` are the fields of
`HTTPStreamConn`, `got` is what entered `recvQueue` and `taken` what `Read` returned of it.
`upload` and `download` are the requests in flight with the records that are still to
be read; an upload that the client has given up may be carried out later (`"late"`), a
download whose client has gone still claims records (`stray`).

| Action | Code |
|---|---|
| `Write`, `Read`, `Close`, `CloseEnds`, `CloseNow` | the methods; `Close` queues its record and `CloseEnds` is the end of its wait |
| `Post`, `ResendUnacknowledged`, `UploadSucceeds`, `UploadFails` | `clientUpLoop`: a new upload, the resend timer, the result and `Rewind` |
| `UploadAck`, `UploadData`, `UploadTooFar`, `UploadReset`, `UploadIgnored` | `Serve` and `serveUpload`, record by record; `resetLostSendSequence` |
| `Get`, `DownloadAck`, `DownloadData`, `DownloadTooFar` | `clientDownLoop`, `clientDownPipelineLoop`, `downloadOnce` |
| `ServeDownload`, `ServeAck`, `ServeResend`, `ServeClosed`, `ServeStray` | `serveDownloadBatch` and `claimDownloadLocked` |
| `LoseUpload`, `TruncateUpload`, `LoseDownload` | the proxy and the network |
| `Sweep`, `Restart` | the hub's table of streams |

A *plan* names what may happen in a behaviour at most (messages of each end, losses,
restarts, who closes): TLC then explores all interleavings of one thing that goes
wrong at a time, rather than few of everything at once. The same device is used in the
modules below. A restart loses the relay's end. The abstract channel's promise is
void from then on (`lost`); what is still checked is `AbortIsSeen` and the types.

### AgentControl and WorkAgent

A session has its client's name. `control`, `client`, `data` and `session` say where the
handlers `ServeAgentControl`, `ServeV2Client`, `ServeAgentSession` and the agent's
`serveOfferedSession` stand; a step is what each does between two locks, channel operations or
messages, so that a control can be replaced, an offer run out or a proof be reset
between any two of them. `active[c]` are the places taken on a control, `pending` the hub's
table, `response` its channel with room for one answer. `notices`, `sending` and `shown` are a
dashboard connection: the notification, the snapshot that is being written, what arrived. `Snapshot`
is what `RoomSnapshot` shows of a room's state: its counters, the sessions that are active by service,
the rejections. The last two change apart from the counters (`ServiceSessionEnded` when `run` has
returned, `RecordRejection` when a client is refused), hence the client's state `"ending"`.

### Programs and its parts

The parts around the tunnel's core share no state with each other, and none
with the core beyond what an outcome says (a dial succeeds, a connection breaks). So
`Programs` runs one part per behaviour: the others' variables are `Off`, and its state
space is the sum of the parts', not their product. A part is a complete module with a
specification of its own; where two parts use one name for different things
`Programs` renames it (`INSTANCE ... WITH`). Each part states its constants' assumptions
as definitions, which `ProgramsAssumption` assumes. A property of a part is restated in
`Programs` under the condition that the part runs.

| Part | State and code |
|---|---|
| `RelayDialing` | `preferred`, `unsupported`, `candidate`: the three stores of `websocket.go`. An attempt has its outcome in one step, with the marks it sets: first the HTTP stream if preferred, else the WebSocket, then the stream (`DialMessageConnWithHeaders`). `relays[d]`: the list of a loop, a profile's in the Home client, one relay in the Work agent; the marks are shared by all loops. `Save` writes a `snapshot` taken before the lock |
| `DiagnosticLog` | `date`, `opened`, `size`: `dailyWriter`; each failure of a file operation is an action of its own (`FailRotation`, `FailClosed`, `FailReopen`, `FailWrite`, `FailNextDay`). `low`, `next`, `token`: the hub's backlog and `notify`; `acked[t]`, `from[t]`, `count[t]`: `runTarget` |
| `LegacyPairing` | `shut`, `taken`: the two atomics of `WaitingAgent`, which `TryPair` tests and swaps apart (`TestClosed`, `SwapPaired`). `Streamed`: the sockets that are HTTP streams, whose context ends when they are closed or swept (`ContextEnded`); a handler that waits then leaves (`Cancelled`, `GiveUp`). The context of a WebSocket does not end before its handler |
| `HomeWindow` | a handler of the window is one action (`StartTunnel`, `StopTunnel`, `SaveFromUI`, `PersistDestinationSelection`: a destination that is renamed or deleted); `Check`, `Checked` and `BeginLogin`, `FinishLogin` are the goroutines that come back to it; `serving`, `conn`: accept loops and connections with `ConnGroup` |
| `HomeProfiles` | `destinations`, `fields`: the editor; `cfg`, `settings`: what is worked with and what is on disk; `Loaded` is `loadConfig` with `ensureDestinations` |
| `ProductSetup` | `pc[p]`: a process's place in `Steps(kind)`; each step changes one service or one kind of file and may fail, half done where the code can leave it so; `Fails`, `RestoreNetwork`, `RestoreWork`: the deferred calls |
| `WinRMSession` | `holder`: `m.mu`; `input`, `output`: the process's pipes; a timer is named for the use it was armed after |
| `ScreenView` | `taken[k]`, `canvas[k]`: the images captured and the image put together; `pipe`, `wire`: `PipeWithResult`; `frame`, `posted`, `bitmap`: `showFrame` and the UI thread; `undrawn`: an image could not be made a bitmap; a receiver that could not write its file has `"failed"` |

## 3. Properties and runs

| Run | Bounds | Properties | What it shows |
|---|---|---|---|
| `StreamDelivery` | 2 bytes from agent to client, chunks and buffers of 2, 2 paths, fairness | `TypeOK`, `StreamIntact`, `UnreceivedIsKept`, `WrittenIsDelivered` | nothing lost, repeated or freed early across a lost path; all that is written is read once paths stop failing |
| `StreamEnds` | 1 byte, 2 paths, 1 carried frame, the agent may close, both ends may expire, fairness | `ImplementsByteStream`, `EndReachesPeer`, `AckNeverRefused` | the users see a `ByteStream`; no end waits for ever for a peer that is over; stale frames cost no transport |
| `StreamBackpressure` | 3 bytes each way, send and receive buffers of 1, 1 path, the client may close, the agent may expire, fairness | `WaitForRoomEnds`, `ClosedIsFinal` | users that wait to write in both directions, behind readers that wait for room, do not block each other; readers that wait do not revive an end |
| `StreamFullBuffer` | 2 bytes, receive buffer of 1, 2 paths | `StreamIntact`, violated | finding 1 |
| `StreamCloseInReplay` | 1 byte, 2 paths, the agent may close | `EofMeansComplete`, violated | finding 2 |
| `RelayPairing` | 3 sockets of each side, 1 failure, queues of 1, window may end, the agent may close, fairness | `TypeOK`, `OneGeneration`, `ReleasedIsClosed`, `EndsWithASide` | the barrier holds, no attachment is left behind, sessions do not pile up at the relay |
| `RelayRecovery` | 3 sockets of each side, 1 failure, 2 messages of the agent, fairness | `OldBeforeNew`, `PumpsNeverBlock`, `Recovers`, `AbandonedIsReleased` | late pumps do no harm, there is no endless round of resumes, no handler leaks |
| `RelayFinish` | 2 sockets of each side, 1 failure, the agent may close | `FinishedIsClosed`, violated | finding 3 |
| `HTTPStreamChannel` | buffers of 3 records, reorder limit 1, 2 parallel uploads and downloads, batches of 1, up to 3 messages, 1 loss, 2 lives of the relay, 8 plans, fairness | `TypeOK`, `FreedIsReceived`, `ImplementsMessageChannel`, `WrittenIsRead`, `AbortIsSeen` | repeated, late and truncated requests neither lose, repeat nor reorder a message |
| `HTTPStreamSwept` | the relay aborts | `AcceptedOnce`, violated | finding 4 |
| `WorkAgentControl` | 2 controls, 2 clients, 1 pending offer, 7 plans, fairness | `TypeOK`, `PlacesAreHeld`, `PairAgrees`, `AttemptsSettle`, `DashboardCatchesUp` | a place is held exactly as long as its client needs it; who is paired agrees on proof and service; nobody waits for ever; a dashboard comes to show what is announced |
| `Programs` | see below | the thirteen of the table below | the parts keep what each promises |

| Property of `Programs` | Part | What could break it |
|---|---|---|
| `TypeOK` | all | a limit that is passed: of a file, the backlog, a batch |
| `RelayIsReached` | `RelayDialing` | a mark that outlives the condition it was set in, or that a loop for another relay set |
| `FilesKeepTheLatest` | `DiagnosticLog` | a rotation that fails between its two renames |
| `BacklogIsUploaded` | `DiagnosticLog` | an acknowledgement that counts lines which have been dropped meanwhile |
| `CallerIsServed` | `LegacyPairing` | a socket cancelled, or whose stream ends, between the test and the swap of `TryPair` |
| `ShownConnectionsExist` | `HomeWindow` | connections that end after a stop has forgotten them |
| `OnlyStraysAreMiscounted` | `HomeWindow` | a late end, of a connection that an earlier tunnel left, taken off the count more than once or in place of others; a route that a start or a check forgets |
| `StoppedTunnelDrains` | `HomeWindow` | a connection whose dial succeeds while its tunnel stops or its listener fails |
| `SettingsSurviveRestart` | `HomeProfiles` | a top level that overrides a profile other than its own; a proof of a former room |
| `InstallsAgree` | `ProductSetup` | two installs at once, or one after a failed one |
| `WorkSurvives` | `ProductSetup` | a failed step after the service was stopped |
| `CommandIsAnswered` | `WinRMSession` | an answer of an earlier command; a timer that expires a process in use |
| `ScreenIsShown` | `ScreenView` | a delta against an image the other end does not have; an end that overtakes frames |

Some properties are weaker than one might wish, and say where the code is:

- `ShownConnectionsExist` bounds the count that is shown from above only. `localConnDone` takes a
  connection off the count whichever tunnel it belonged to (main.go:1754-1763), so the end of one that a stopped
  tunnel left makes the running tunnel's count too low. `OnlyStraysAreMiscounted` bounds the error: one for
  each such late end.
- No property says that the tunnel is of the saved config, because it need not be: the saving of a login
  takes its config when it begins and writes it back when it ends (main.go:1904-2014), and a
  destination that is renamed or deleted changes the config without a restart (1111-1158). The window
  turns the buttons for the latter off while a tunnel runs, but `setDestinations` turns them on when a login has been
  saved. Both are actions of `HomeWindow`.
- `RelayIsReached` excepts a loop that is `ShutOut`. Marks are a proxy's, and a dial to a relay with TLS is refused
  untried while both are set (websocket.go:368). A loop that has no relay without TLS (the Work agent has a
  loop for each relay) can be refused so by marks that another loop set, or that were loaded from the
  file, on a network that would let it through; only a dial of another loop can clear them.
- `CallerIsServed` excepts a client that is `LeftBehind`. If a waiting agent's HTTP stream ends after a client has
  taken it from the list and before its handler takes the client, the handler may leave by `ctx.Done()`
  (main.go:898) without telling the client, which waits at main.go:964-980 until its own stream ends; that of a
  WebSocket does not.
- `DashboardCatchesUp` is about what is announced. `RecordRejection` for a client that has had no
  offer (694, 713, 948) is followed by no notification, and `ServiceSessionEnded` (783, 1847) comes after the
  last one of its session (1864, 1476): until something else happens in the room a dashboard goes without that
  rejection and shows that session, though it "receives live status" (the repository's `README.md`:681). The property asks for
  the counters, every session that runs, and every other rejection.
- `WorkSurvives` is about behaviours in which one step fails at most, and not about a
  stop that took effect after its wait had failed (`late`). It excepts two cases in which an
  install takes the service's program away: a copy that breaks off half-way, and a move of the product out of
  the directory that the service runs from (`removeSupersededInstall`).
- `ScreenIsShown` asks the last image of a stream that was neither cancelled nor cut and whose files could be
  written: `Receive` returns when a PNG cannot be (client.go:142-156). Its last part holds for a viewer with one
  stream, as `showFrame` does not ask whether the stream that it shows is still the viewer's
  (screen_viewer.go:570), and while the last image could be made a bitmap: otherwise the older one
  stays (581-585).
- `BacklogIsUploaded` does not rest on the shared wake-up: the uploader's timer always fires in the end. A wake-up
  that one uploader takes from another delays a batch and no more.
- `StoppedTunnelDrains` is about Remote Desktop connections. The accept loop has ended before its group
  closes, so the branch of `Begin` that refuses a connection is never taken; when the RDP listener
  fails the WinRM listener stays open (`ResetTunnel`), and no property asks otherwise.
- `InstallsAgree` and `WorkSurvives` except behaviours in which a configure, an uninstall or
  a Work installer overlaps something else (`mixed`): only an install of the product takes
  the setup mutex. A crash of setup itself between two steps is not modelled.

Bounds. Two paths are enough for a loss with everything around it: the first
path and its replacement, an old reader beside a new one, frames carried over.
Two bytes are the fewest with a split chunk, a partial acknowledgement, and a gap.
The bound on paths is also the bound on failures: `LosePath` and `Drop` stop when
the last path is in use, which is "once the paths stop failing" of the
liveness properties. `StreamBackpressure` has buffers of one byte and three bytes each way: one that the reader's
user has yet to take, one in the hands of a reader that waits for room, one in the replay buffer with
its writer waiting for more; so both ends can be stuck at once on everything that can
be full, with the acknowledgements that would free them queued behind data. It has one path because a second
one meets finding 1. Deadlock is not checked because these systems stop: when
all bytes are delivered and no path may be lost any more, or both ends are over.

For the relay, three sockets of a side are a first socket, its replacement and
one that supersedes the replacement while it is queued or held. With queues of 1
`RelayPairing` meets a full queue, which two would need a fourth socket for.
`RelayRecovery` gives each side two new sockets for its one failure and no more:
`Recovers` then also says that this is enough. Both kinds of start are in both
runs, a session begun at this relay (`Run`) and one rebuilt from attachments
(`RunRecovered`). A resume window that may end could end at once, so recovery is
checked with `WindowEnds = FALSE`, and ends with `WindowEnds = TRUE`. A carried frame
(`MaxCarry`) costs a path when it makes an end drop its transport, so delivery is
checked without one.

For the HTTP stream, two requests at a time are the fewest that can overtake each
other, a reorder limit of 1 the smallest that can be reached, and three records
fill a buffer of 3. One loss leaves a gap, an early record, a resend and a late
request; a second loss would make the resend be lost, which repeats the first.
Parallel downloads are in the plans where the relay writes, one download loop in
the others.

For agent control, two controls are a control and the one that replaces it, or those of two
agents; a limit of one offer is reached by the second client. The seven plans are a plain
agent, a control that is replaced, a session that fails to start, two agents with
different proofs, two with different services, and a dashboard without and with
a client that is refused.

For `Programs`, by part. *Dialing*: two loops, two relays (one with TLS), each loop
with a list of both or of the one with TLS, five networks and
one change of network, one restart: the marks that one network or one loop leaves meet every other.
*Log*: files of 2 lines, a backlog of 3, batches of 2, so five lines rotate twice and
evict; two targets share a wake-up; two faults of either kind. *Pairing*: two sockets
of one slot, the second of which replaces the first, two clients, one broken connection; one of the sockets and one of
the clients are HTTP streams, so that every pairing of the two transports occurs.
*Window*: two configs of one destination and one of another, two tunnels, two saves, two
connections. *Profiles*: five edits of up to three profiles, which is a rename after
a deletion after an addition. *Setup*: pairs of programs, with one fault, over what was
installed before. *WinRM*: two commands of one login and one of another, two processes, one
failure, one close. *Screen*: two streams, three frames, two tries. Most parts end
when their plan is used up, hence `CHECK_DEADLOCK FALSE` there too.

Fairness (`Fairness`). In `ResumableStream`: every goroutine of an end that can go on does so (weak
fairness of `SendChunk`, `AttachTransport`, `ReplayChunk`, `AttachDone`, `Expire`
and of each `ReadTransport`): they are Go routines that block only on what
their guards say. The relay does what it can (`Barrier`, `Resume`). The user of an
end keeps reading (`Read`): `Pipe` does. Nothing forces a `Write`, a `Close`, a
`Drop` or a `LosePath`.
In `RelaySession`: the runner, the pumps, the handlers and the readLoops go on when they can, and a
side dials again while the session lasts (`connectionLoop`). A pump that writes
to a socket its side has left in silence may hang until the socket is aborted
or expires (`PumpGoesOn`); such a socket does expire (`SilentExpires`: the HTTP
stream's idle limit). Nothing forces a `Send`, a `GiveUp`, a `CloseSession` or the control
message `ReportEnd`, which may be lost with its connection. `EndsWithASide` rests on the
window: `WindowExpires` is a step of the runner.

In `HTTPStream`: readers read, upload and download loops go on. The two resend clocks
(`ResendUnacknowledged`, `ServeResend`) have strong fairness: a clock is only set back by an
acknowledgement, so while requests come and go a resend that stays due does take place.
In `WorkAgent` one weak fairness of all steps that are not the environment's
(`Settling`): every one of them brings some handler nearer to its end, and a plan bounds
how often one can begin, so that none can be passed over for ever. The parts of `Programs`
have the fairness of their goroutines: a loop that dials (`Step(d)`), an uploader
(`UploadStep(t)`), the handlers of protocol 1 (`Handling`), accept loops and connections
(`Serving`). No user acts by fairness, and no network changes by it.

### Findings

1. **A full receive buffer can repeat bytes** (`StreamFullBuffer`). `applyData`
   (resumable.go:757-781) compares the frame with `recvOffset` and cuts off what it
   has, then waits for room, then appends. When the transport is replaced while
   it waits, the peer replays the same bytes on the new path and a second reader
   waits with them. When there is room both append. The stream repeats bytes and
   `recvOffset` is ahead of what the peer has written, so later frames are taken
   for duplicates. It needs 8 MiB unread and a transport lost at that time, which
   a slow local reader makes likely. The cut belongs after the wait.
2. **An orderly end may be a truncated stream** (`StreamCloseInReplay`).
   `Write` returns when a transport has taken the bytes. If that transport was
   already dead, the bytes come with the replay on the next one; a `Close` during
   the replay sends "session closed" ahead of them, since `Close` does not wait for
   `writeMu`. The peer then reports a clean `io.EOF`.
3. **A resume socket that waits when the session finishes is not closed**
   (`RelayFinish`). `Finish`, called for the agent's session-closed message, makes `Attach`
   return true for queued and held attachments (main.go:1820) and
   `waitForAttachments` return (2044); neither closes the socket, and `ServeResume`
   closes only what was not attached (1072). The side keeps waiting for a resume message for
   the rest of its window instead of being rejected at once
   (`CHANGELOG.md`, 0.10.15).
4. **An aborted HTTP stream may be opened again** (`HTTPStreamSwept`). `CloseNow` at the
   relay queues a close record "that the client's next download receives"
   (http_stream.go:553), but the stream is closed at once, and `sweep` (1484) deletes
   streams that are closed. If it runs before the next download, that request
   finds no stream and opens a new one, which is accepted like a new connection; the
   close record is gone. The window is small: `sweep` runs once a minute.

Smaller observations that no property is about: after a day's file could not be
opened, `dailyWriter` writes nothing until the date changes or the program restarts;
the two exceptions of `WorkSurvives`; the loss of a config that a late login overwrites; a local listener for WinRM
that stays when the one for Remote Desktop has failed.

## 4. Proofs

### The stream

The theorems hold for every number of bytes and paths, every chunk and buffer
size and every `MaxCarry`, under `EndsAssumption` (two distinct ends) and
`SizeAssumption` (the sizes are natural numbers and a chunk fits a buffer).

- `TypeCorrect`: `Spec => []TypeOK`.
- `UnreceivedIsAlwaysKept`: `Spec => []UnreceivedIsKept`.
- `IntactUnlessFull`: `Spec /\ []NobodyWaits => []StreamIntact`. By finding 1 the
  hypothesis is needed; the theorem says that the wait for room is the only way
  to damage the stream.
- `SmallStreamsIntact`: `Spec => []StreamIntact` if a receive buffer can hold all
  that is written.
- `ByteStreamUnlessFull`: `Spec /\ []NobodyWaits => ImplementsByteStream`.
- `OverForGood`: `Spec => ClosedIsFinal`.
- `AcksAcceptedUnlessFull`: `Spec /\ []NobodyWaits => []AckNeverRefused`, and
  `SmallStreamsAcksAccepted`: `Spec => []AckNeverRefused` for streams that a receive
  buffer can hold.

The argument. `SendInv` says that data is sound wherever it is: the replay buffer
is the run from `sendBase` to `sendEnd`; the copy inside an attach, the chunk being
sent, each data frame on a wire or in a reader is a run of the bytes its offset
names, none past `sendEnd`. It is needed because the frame that `applyData` accepts
may come from any of these, from any path. It is inductive with `TypeOK` (a
cut of a buffer has its type only because the offset lies in it). `AckInv` says
the same of acknowledgements: each names no more than its sender has received;
with it `sendBase` never passes the peer's `recvOffset`. `DeliveryInv` splits
`StreamIntact` at what has been read; its step uses that the bytes accepted start
at `recvOffset`, which is true of a reader that did not wait. `OverInv` (an end that
is over has no transport) carries `ClosedIsFinal`. What the wires hold after a step
is argued once, in `WiresStay`, for any property of frames.

`AckNeverRefused` compares an acknowledgement with `sendBase`, which the acknowledgements
before it have moved, so its invariant (`OrderInv`) is about their order. `Pending`
numbers those on their way to an end on a path: the one its reader holds, then those on the wire.
`InOrder`: along a path, and from an older path to a newer one, offsets do not
decrease. It survives `Resume` because what a pump carries over was behind what it
left. `NotBehind`: on the newest path none is behind `sendBase`, and the answer that a reader
is about to write there is behind none that is on its way. `NewestPath` says that no
other path is written to. Two facts close the step: a new answer names all that has
been received (`AnswerIsNew`), and what is acknowledged is past (`AckInv`). The upper end of
the comparison needs `DeliveryInv`, hence the same hypothesis as above.

### The relay session

The theorems hold for every number of sockets, failures and messages and every
queue capacity, under `SidesAssumption` and `SizesAssumption`.

- `RelayTypeCorrect`: `Spec => []TypeOK`.
- `RelayOneGeneration`: `Spec => []OneGeneration`.
- `RelayReleasedIsClosed`: `Spec => []ReleasedIsClosed`.
- `RelayPumpsNeverBlock`: `Spec => []PumpsNeverBlock`.
- `RelayOldBeforeNew`: `Spec => []OldBeforeNew`.

The argument. `ToldIsEndpoint` says that an open socket that was told to go on is its
side's endpoint and carries the endpoints' common generation, and that there is none
while the relay waits: so `Pair` may raise the generation. Closing both endpoints keeps
it, whatever else is closed (`ShutAll`); telling a held attachment keeps it because
the attachment is the endpoint (`HeldIsEndpoint`); a new socket keeps it because the relay has
never told it anything (`Opened`). For `ReleasedIsClosed`: what is released is either closed in the same step
(the bridge's attachments are its endpoints, once more `HeldIsEndpoint`) or was noticed
dead (`NoticedIsOver`); and what is out of use stays so (`StaysOutOfUse`), because only a
socket that the relay has never seen comes into use.

For `PumpsNeverBlock`: by `OnePump` a side that is running has one pump or one report in
`results`, not both, and a side that is not running has neither; two sides, two
places in the channel. It survives a retry and a late report because both start a pump
only where there is none (`Startable`). `OldBeforeNew` follows from `OrderInv`: a socket is
told to go on once, with the generation of its endpoint (`ToldIsTaken`), because it is
queued or held once (`QueuedOnce`); a pump reads from a socket of its own generation
(`PumpIsTold`); and what has been written to a socket is no newer than any pump that
may still write there (`GotIsOld`).

### The agents

The theorems hold for every number of agents, controls, clients, plans and places, under
`NamesAssumption`, `BoundsAssumption`, `PlansAssumption`, and `ClientsAssumption` (finitely many
clients: places are counted).

- `WorkAgentTypeCorrect`: `Spec => []TypeOK`.
- `WorkAgentPlacesAreHeld`: `Spec => []PlacesAreHeld`.
- `WorkAgentPairAgrees`: `Spec => []PairAgrees`.

The argument. That a counter stays a natural number is not a matter of types: it is counted
down by a step that does not look at it. So `Counted` says what each counts (the controls
that are connected, the pending offers, the sessions that run), as a cardinality, and
`Placed` the same of `active[c]`: it is the number of clients that hold a place on control `c`. `Owned` and
`PendingAre` say in which states a client has a place and an entry in the table, so that each step
that counts down has one to give back. `Agreed` follows an offer from the control it was
sent on to the agent, the session it begins and the data socket that comes back: each names the
same control, and the proof compared at the data socket is the client's, which no reset of
the room's proof can change afterwards.

### The HTTP stream

The theorems hold for every size of buffer, reorder limit, batch, number of parallel
requests, of messages, losses and lives, and every plan, under `EndsAssumption`,
`LimitsAssumption` and `PlansAssumption`.

- `HTTPStreamTypeCorrect`: `Spec => []TypeOK`.
- `HTTPStreamFreedIsReceived`: `Spec => []FreedIsReceived`.
- `HTTPStreamIsChannel`: `Spec => ImplementsMessageChannel`.

The argument. `ChannelInv` is `Shape`, which holds always, and `FirstLife`, which holds until
the relay has lost the stream: after that an upload in flight names records that the new
end of the relay knows nothing of, and the channel's promise is void. `Shape` adds to the types what
they rest on: records held early are finitely many (their number is compared with the reorder
limit), a stray download counts as a loss, an answer that is being read has a record left.
`FirstLife` has four parts. `CarriedSound`: a record is one that its sender has sent, whether an upload
or a download carries it, the first time or again, early or late, or the reorder buffer
holds it; so what is accepted in order is the next message. `ReceivedSound`: what an end
has received is the run of the other's messages below `recvNext`, and `sendBase` never passes it;
this is `FreedIsReceived`, and it needs `CarriedSound` of the acknowledgements. `CloseIsLast`:
nothing is numbered after a close record, so an end that has read it has read all. `Pristine`: a
stream that has not been accepted has no state at the relay, so that the first request that is accepted
begins from nothing. A step that receives may receive several records at once, what was held included
(`Sequel`); where they end is a least number, and that a set of numbers has one is proved from
the order's being well-founded.
The refinement maps what an end has sent to its records below `nextSend`, what it has read
to the first `taken` of `got`, and what is over to `closed`. The steps of requests, of losses and of
the clocks are stutters of the channel; the upload that begins a second life is its `Lose`.

### The parts of Programs

The theorems hold for every value of the parts' constants under `ProgramsAssumption`, which says of
them: the bounds are natural numbers, and positive where the code has a positive constant (the sizes
of the log, its backlog and batches, the frames and tries of the screen); connections are finitely many
(they are counted); `None` and the names of files are none of the other names;
the first profile has a room and no proof; a profile that is imported has no proof but of its own room.

- `LogFilesKeepTheLatest`: `Spec => []FilesKeepTheLatest`.
- `WindowShowsWhatIsThere`: `Spec => []ShownConnectionsExist`.
- `WindowMissesOnlyForStrays`: `Spec => []OnlyStraysAreMiscounted`.
- `HomeSettingsSurvive`: `Spec => []SettingsSurviveRestart`.
- `LastInstallIsWhole`: `Spec => []InstallsAgree`.
- `WorkServiceSurvives`: `Spec => []WorkSurvives`.
- `WinRMCommandsAreAnswered`: `Spec => []CommandIsAnswered`.
- `CapturedScreenIsShown`: `Spec => []ScreenIsShown`.
- `ProgramsTypeCorrect`: `Spec => [](part # "pairing" => TypeOK)`.

`ProgramsInv` is the invariant of the part that runs; a step of another part does not
change its variables. By part:

*Log* (`LogInv`). `LogFiles` says in terms of indices that the older file and the newer one hold the
latest lines of those that were accepted; a line that is written is added at the end
of both (`LatestWritten`), a rotation drops the older file (`LatestRotated`). It also needs that `size` is the length of the
file whenever it is open, and that the days to come have no files yet: the first
is what a failed rename could have broken, the second what a change of date relies on.
`LogUploads` bounds a batch under way by `next` and not by `low`, which may pass it.

*Window* (`WindowInv`). `Counted` strengthens `ShownConnectionsExist` by nothing but `RemoteDesktop`: only
connections to Remote Desktop are counted. A step that ends a connection removes it from those that
are there and counts it down in the same breath, or finds the counter already set back by a stop.
`Missed` bounds the count from below. A tunnel that starts sets
the count back and has no connection yet, and those that the tunnel before left become strays as they
end; a connection that ends takes one off the count and is either one of the tunnel's, which leaves `Current`,
or one more stray.

*Profiles* (`ProfilesInv`). The editor's list is a `GoodList`: names are one profile's, and a
proof is of its profile's room. What is on disk is the config of a good list (`GoodConfig`), and
loading that gives it back (`LoadedIsSaved`). The step is that of a name: a profile that is added gets
the first number that no other name has, and there is one because there are fewer names than numbers
(`NameIsUnique`, a pigeonhole).

*Setup* (`SetupInv`). `Alone`: installs hold the mutex, and unless something was `mixed` no
process runs beside another. So one process matters at a time, the one that runs or the last that did
(`Seen`), and `Behind` says what it has behind it at each of its steps: `Installs`, what an install that has
not failed has written and started, file by file; `Restarts` and `Updates`, what becomes of the
service that it stopped. `Restarts` counts faults: if the service does not run after a failure, the only fault
is spent, so that the restart that follows does not fail as well. `RunningStarts` (a
service that runs has its program and its password) makes that restart possible; it is what the service
was found with, and what no step takes away but the two that the property names. `NoneFailedYet` is
the same fact of those that have not begun.

*WinRM* (`WinRMInv`). `Conversation`: the process's pipes hold at most one command, that of the
holder of the mutex, which has been asked and not answered, or answered; so an answer cannot be an earlier
one's. Every way out of a command with the answer still to come drops the process.

*Screen* (`ScreenInv`). For each stream, `Wire` says that the frames under way are those of
the captures that have not arrived, in order: the first captured frame is full and the
others are deltas between neighbours, so that a delta meets the image it was made against
(`Encoding`, `Arrived`). After the last capture an error may follow, and only when the helper has ended.
`Stage` ties receiver, helper and pipe together, which is what an end that overtakes frames would
break. `Viewed` follows the image from the receiver to the window, for a viewer's only stream.

*Dialing* has only its types here (`DialingInv`); what it promises is liveness. That a loop's place in its list is
one of the list's needs that no list is empty (`ListsHaveRelays`).

Proving these showed where the models had said less or more than the code. The start of the Work
service that ends a rollback now asks for its password like any other start
(`WorkStartsWith`): a service with a password that is gone does not start, whichever program it
has. An install in place begins only where its own program is whole, for it is that program that runs (`Begin`).

### Model-checked only

Safety: the types of `LegacyPairing` (`TypeOK` when `part = "pairing"`): its handlers filter the list
of waiting sockets with `SelectSeq`, a recursion about which the prover knows nothing. `AckNeverRefused` and
the delivery theorems when a reader waits for room: there they do not hold (finding 1) or only in the
instances checked.
Liveness: `WrittenIsDelivered`, `WaitForRoomEnds`, `EndReachesPeer`, `Recovers`, `AbandonedIsReleased`,
`EndsWithASide`, `WrittenIsRead`, `AbortIsSeen`, `AttemptsSettle`, `DashboardCatchesUp`,
`RelayIsReached`, `BacklogIsUploaded`, `CallerIsServed`, `StoppedTunnelDrains`: liveness under
fairness is beyond the prover.

## 5. Not modelled

- *Home agents for macOS and Android*: further clients around the same tunnel, the second a
  re-implementation in Java. Their state machines are smaller than the Windows
  client's; their user interfaces are I/O. *Relays in C# and Python*: re-implementations of
  the Go relay.
- *Drawing and layout* (`uikit`, most of `workui`), *the network service's adapter and
  routes*, *the SMB alias registry*, *credentials*: operating system calls without a protocol of
  their own. Setup has the network service as something that starts or does not.
- *Message formats* (`protocol_v2.go`): what messages carry is modelled where it is
  used; encodings are inverses of each other and are not interesting to a model
  checker at these bounds.
- *The relays of a room together*: the hub's tables of sessions and completed
  sessions, and the order in which the ends try several relays. A session that moves
  to another relay leaves an entry behind that expires into "completed", after which a
  resume there is terminal (main.go:1003, protocol_v2.go:264). It needs a clock shared
  by two relays.
- *The HTTP stream of older clients*: the streaming download and the single upload
  that the relay still serves.
- *The presence loop* of the Home client, which only reports.

## 6. Plan

1. The relays of a room together, as above.
2. An abstract specification of a session offer that `AgentControl` implements, and that
   it does.
