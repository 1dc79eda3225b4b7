# AudioGridder: specification and proofs

AudioGridder runs the DSP plugins of a digital audio workstation (the *host*)
on another machine. The host loads the AudioGridder plugin (`src/Plugin`); it
sends every audio block to an AudioGridder server (`src/Server`), which passes
it through a chain of real plugins, each one optionally in a process of its own,
and sends the processed block back. Editor windows of the real plugins are
captured on the server and shown in the host.

This directory holds TLA+ models of the parts of that system whose correctness
depends on the order in which threads, callbacks and messages meet, TLC
configurations that check them on small instances, and TLAPS proofs of the most
important facts for every instance. `PROJECT.json` maps every definition to the
source lines it stands for; line numbers below are of the same commit.

1. [The system](#1-the-system)
2. [The modules](#2-the-modules)
3. [The runs](#3-the-runs)
4. [The proofs](#4-the-proofs)
5. [Where the code disagrees with itself](#5-where-the-code-disagrees-with-itself)
6. [What is not modelled](#6-what-is-not-modelled)
7. [Plan](#7-plan)

## 1. The system

### Threads and connections

```
host process                                server process
------------------------------------        ----------------------------------
audio thread   processBlock()               Server::run     handshake, workers
message thread editor, settings             Worker::run     commands of a client
client thread  Client::run                  AudioWorker     blocks of a client
io thread      AudioStreamer::run           ScreenWorker    pictures of a client
screen thread  ScreenReceiver::run          message thread  loads plugins
tray, mDNS                                  ProcessorClient one per sandboxed plugin
```

A client keeps four TCP connections to its worker: commands of the client
(`m_cmdOut`, request and reply), commands of the server (`m_cmdIn`, parameter
changes and keys), audio, and screen. Every object that is called back from
another thread or posts closures to the message thread uses the *asynchronous
functors* of `Utils.hpp`, so that a closure does not run on a destroyed object.

### Inventory

| Component | State | Operations | Hard to get right | What makes it correct |
| --- | --- | --- | --- | --- |
| Audio streamer, buffered (`AudioStreamer.hpp`) | `m_writeQ`, `m_readQ`, `m_dropSamples`, `m_error`, thread state | `send`, `read`, `run`, `setError`, destructor | lock-free queues with condition variables beside them, skips when the backlog grows, timeouts followed by late blocks | blocks in order and never early; the latency error is what is still to be dropped; no wakeup lost; the audio thread always returns |
| Audio streamer, unbuffered (same file) | the socket, `m_ioThreadBusy`, `m_ioDataReady`, `m_readBuffer` | the same with `NUM_OF_BUFFERS = 0` | a condition variable without a predicate, an event reset by the reader, an answer nobody waits for any more, one that is cut by a timeout, a buffer without a lock | whole blocks in order; without the io thread, the answer to the block just sent |
| Asynchronous functors (`Utils.hpp`) | the shared flag and counter, the queue of the message thread | `safeLambda`, `runOnMsgThreadAsync/Sync`, `execute`, `stopAsyncFunctors` | the flag is tested before the counter is incremented; the application may quit while a destructor waits | no functor runs on a destroyed object; the destructor returns |
| Client connection (`Client.cpp`) | `m_ready`, `m_error`, `m_needsReconnect`, sockets, streamer, screen thread | `run`, `init`, `isReady`, `close`, `setServer`, `reconnect` | flags written with and without the lock, partial failure of `init`, destruction while connecting | ready means connected to the selected server with the announced format; nothing survives the plugin; it gets connected in the end |
| Client requests (`Client.cpp`, `Message.hpp`) | `m_cmdOut` as a byte stream, `m_clientMtx`, `m_error` | `addPlugin`, `delPlugin`, `getPluginSettings`, ... | replies carry no number; a request that gave up leaves its reply in the stream, some give up without `m_error` | a reply is taken by the request it answers, the mutex is given back |
| Loaded plugins (`PluginProcessor.cpp`) | `m_loadedPlugins`, `m_loadedPluginsOk`, active plugin, automation slots | `loadPlugin`, `unloadPlugin`, `exchangePlugins`, `setState`, `sync`, on-connect | the list and the chain of the server are changed one after the other, a reconnect falls in between | list and chain agree whenever the plugin takes itself for loaded |
| Server, workers (`Server.cpp`, `Worker.cpp`, `Sandbox.cpp`) | `m_sandboxes`, `SandboxDeleter`, `m_sandboxHasScreen`, worker list | handshake, sandbox launch, messages and loss of sandboxes, shutdown, message loop | sandboxes that die during the handshake, clients that give up, a screen shared by sandboxes | every client gets its own worker; the map holds no dead one; no process outlives its purpose |
| Plugin scan (`Server.cpp`) | plugin list, blacklist, error, crash and cache files of each scan thread | `scanForPlugins`, `scanNextPlugin`, `scanPlugin`, `processScanResults` | a plugin that crashes or hangs its scan process; a server that crashes while it scans | it ends, every plugin is listed or blacklisted, and no innocent one is |
| Audio worker (`AudioWorker.cpp`) | chain, recent list per host | `run`, `addPlugin`, `addToRecentsList` | chain edits while blocks are processed | one answer per block, in order |
| Processor chain (`ProcessorChain.cpp`) | processors, chain indexes, latency | add, delete, exchange, `update`, `processBlock` | latency computed in two ways, chain indexes after a deletion | index and position agree; the latency is that of the processors that run |
| Sandboxed plugin (`ProcessorClient.cpp`, `Processor.cpp`) | process, sockets, `m_loaded`, `m_lastSettings` | `run`, `init`, `load`, `unload`, requests | the process crashes at any point and is restarted by another thread with the last settings, while the plugin may be unloaded | a loaded plugin is loaded again with its settings; no restart causes another; no process is left |
| Screen capture (`ScreenWorker.cpp`, `ProcessorWindow.cpp`) | current picture, active editor | show, hide, run | editor window deleted under the worker | pictures of the active editor only |
| Discovery (`ServiceReceiver.cpp`, `mDNS.cpp`) | servers with the time they were seen | receive, expire, query | expiry against refresh | a server that answers stays listed |
| Shared instances (`SharedInstance.hpp`, `Metrics.hpp`) | reference counts, meters | initialize, cleanup | creation and deletion from several plugin instances | created once, deleted with the last user |
| Channel sets and buffers (`ChannelSet.hpp`, `ChannelMapper.hpp`, `AudioRingBuffer.hpp`) | bit sets, index maps, a ring | set and map channels, read and write | boundaries: 64 channels, wrap-around | maps are injective, the ring is a queue |
| Tray, user interface, diagnostics, platform code, vendored JSON | - | - | see section 6 | - |

### How the parts interact

* `PluginProcessor::processBlockInternal` (749-790) takes a shared pointer to the
  streamer from the client, calls `send()` and then `read()`, and drops the
  pointer; the audio thread may thus be the last owner and run the destructor.
* `AudioStreamer::setError` and `ScreenReceiver::run` write `Client::m_error`;
  the client thread finds it in `isReady()`, closes everything and reconnects.
* The client thread calls `onConnect`/`onClose`, functors of the processor, which
  load the plugins on the server and mark them unloaded.
* The destructor of the processor first stops its functors, so that no callback
  reaches it any more, then signals, closes and joins the client thread.
* Each request of the editor or the host takes `m_clientMtx`, as `init()` and
  `close()` do.
* The message thread edits the plugin list: a request to the server first, the
  list `m_loadedPlugins` second. The client thread loads the whole list into the
  chain of a new session. Plugins are addressed by their position in both, in
  what the server reports (`m_cmdIn`), in the automation slots and in the
  callbacks of editor windows.
* Requests and replies share `m_cmdOut`; only the order on the stream says which
  reply belongs to which request.
* With chain isolation, the default, the server starts one process per client,
  keeps it in `m_sandboxes`, sends it the client's configuration and passes its
  port to the client. Whoever finds that a sandbox is lost, or that its client
  is, gives it to the `SandboxDeleter` thread, which kills it.
* With plugin isolation each processor is a `ProcessorClient`, a client of a
  server process with one plugin; its thread watches the process.
* The plugin scan runs each plugin in a process of its own. Files named after
  the scan thread carry results, and marks that tell the server what the
  process was doing when it died.

## 2. The modules

| Module | Models | Extends |
| --- | --- | --- |
| `BlockChannel` | what a buffered streamer promises: a lossy, ordered channel | |
| `AudioStreamer` | `AudioStreamer.hpp` with `NUM_OF_BUFFERS > 0` | instance of `BlockChannel` |
| `MCAudioStreamer` | values of the constants for TLC | `AudioStreamer` |
| `AudioStreamer_proofs` | inductive invariant, theorems, refinement of `BlockChannel` | `AudioStreamer` |
| `LiveStreamer` | `AudioStreamer.hpp` with `NUM_OF_BUFFERS = 0` | |
| `LiveStreamer_proofs` | the unbuffered stream: the order of the blocks, the places of the channels | `LiveStreamer`, `ChannelRouting` |
| `SampleStream` | `AudioStreamer.hpp` with `NUM_OF_BUFFERS > 0`, sample by sample | |
| `SampleStream_proofs` | where every sample is, and where it will be heard | `SampleStream` |
| `ChannelRouting` | channel sets and channel maps of the plugin and the audio worker | |
| `AsyncFunctors` | the asynchronous functors of `Utils.hpp` | |
| `ClientConnection` | `Client.cpp`: connecting, errors, destruction | |
| `ClientConnection_proofs` | what a ready client may rely on; the barrier argument of the functors; what a position stands for | `ClientConnection`, `AsyncFunctors`, `PluginIndexes` |
| `PluginChain` | plugin list of the client against chain of the server | |
| `MCPluginChain` | the symmetry set for TLC | `PluginChain` |
| `PluginChain_proofs` | which processor belongs to which entry of the list | `PluginChain` |
| `CommandProtocol` | requests and replies between `Client.cpp` and `Worker.cpp` | |
| `CommandProtocol_proofs` | which call reads which reply | `CommandProtocol` |
| `PluginIndexes` | positions of plugins kept beyond an edit of the list | |
| `SandboxServer` | `Server.cpp` with chain isolation, both ends of `Sandbox.cpp` | |
| `SandboxServer_proofs` | the map of sandboxes, the editor on the screen; what becomes of every plugin of a scan | `SandboxServer`, `PluginScan` |
| `ProcessorClient` | `ProcessorClient.cpp`: a plugin in its own process | |
| `ProcessorClient_proofs` | restarts, sockets, settings | `ProcessorClient` |
| `PluginScan` | the plugin scan of `Server.cpp` | |

In every module a variable per thread (`daw`, `io`, `client`, `host`, `ui`,
`owner`, `msg`) says where the thread is; an action is the code between two
points at which another thread can see a difference. The other variables carry
the name of the member they stand for in a comment. Variables under "History" are
no part of the code: actions read them only to number blocks and to respect the
bounds. Operators under
"Plausible mistakes" are wrong versions of the definition in front of which they
stand. No specification uses them; they show that a property notices the mistake.

### AudioStreamer

Unit of data is a block of the announced size, identified by its number: the
first `NUM_OF_BUFFERS` ones are the silence the constructor puts into `m_readQ`,
the k-th `send()` makes block `NUM_OF_BUFFERS + k`. `send()` is split before
the push (`Send`: the high-water mark is compared with a stale size) and before
the notification (`SendPush`, `NotifyWrite`); `read()` into the test of the queue,
the wait and the pop (`Read`, `ReadWoken`, `ReadTimeout`, `ReadPop`); `run()`
into ten steps from `Loop` to `WaitWrite`. `m_dropSamples` is read, taken with
`exchange(0)` and put back in separate steps (`TakeDrops`, `PutBackDrops`), as
in lines 97-106. The queues are bounded as in the code and drop what does not
fit (`Push`, history `lost`). The server is the pair `SendInternal`,
`ReadInternal`; either may fail, which leads to `SetError`.

### LiveStreamer

Without buffers there are no queues but a socket, read either by the audio
thread or, in `LIVE_MODE`, by the io thread, which hands over through
`m_ioThreadBusy`, `m_ioDataReady` and `m_readBuffer`. Every access to those is
a step; `live` is the mode, fixed for a stream. `notifyRead()` is modelled without
memory: it wakes the io thread if that sleeps and does nothing otherwise, because
`waitRead()` waits without looking at a condition (line 619). Blocks carry the number of the call; 0
stands for a block that `read()` returns without having written to it.

An answer is read in parts, each with a timeout of its own (`Message.hpp:268`), and the
io thread takes no timeout for an error (line 127). So a read may end before anything
came (`IoReadTimeout`), within the audio or before the MIDI events (`IoReadCut`), or
with the block (`ReadAudio`, `ReadMidi`). After a cut the rest of the answer is in
front of the stream (`partial`), and the next read takes it for a header (`Misread`),
which may swallow answers and end in anything. What is left in `m_readBuffer` then
is `Mixed`. The event of one read may still be set during the next, and then both
threads use the buffer, which has no lock: `read()` may allocate it anew under the io
thread (`Prepare`), or copy and shrink it (`DeliverShared`); what each finds there is
any of what was there, `Mixed` or nothing. `working` is whether a read succeeded
since the last delivery: otherwise `read()` delivers what the buffer has and leaves it.
History: `spoiled` says that a read of the io thread was cut or failed, or that
both threads used the buffer at once.

Assumed: the blocks of the host have one size, and the condition variable of
`waitRead()` does not wake without a reason. That two threads use memory that one of
them frees is undefined; the model has the outcomes in which the samples are wrong,
not those in which the process ends.

### SampleStream

`AudioStreamer` has blocks of one size; here the host chooses the size of every
block. Samples carry their number, 0 is silence. `Send` fills `m_writeBuffer` and
takes from it either everything or, with `FIXED_OUTBOUND_BUFFER`, one block of
the announced size; `SwitchFixed` turns that option while the stream runs.
`Skip` is the record that `send()` queues instead of a block when the backlog is
too long. `Pop` collects blocks in `m_readBuffer` until `Deliver` has as many
samples as the host wants; `WaitTimeout` and `GiveUp` are a `read()` that returns
without them and owes them (`dropSamples`). The io thread is one step per access
to the shared counter (`Fetch`, `TakeDrops`, `PutBackDrops`, `PushRead`); the
network answers every block. Both queues hold a number of blocks, whatever their
size, and `Push` refuses the next one (`Full`). History: what was sent, played and
heard last, the samples that a skip or a failed read held up (`held`), and how many
met a full queue (`lost`).

### ChannelRouting

A channel carries a value that says where it comes from: `Dry(c)` is channel `c`
of the host, `Wet(c)` channel `c` of the chain, `Silent`. `ChannelSet` is a view:
the active bits and the numbers of channels; a channel map is a function from
places to places, `Ranks` for the reduced buffer and `Back` for its inverse, from
which the plugin (`PluginMapping`) and the worker (`ServerMapping`) take their two
directions. A block is five steps of the audio thread: `PrepareBlock` (what is
cleared and how large the reduced buffer is), `Map`, the worker (`ServeBlock` or
`Refuse`) and `MapReverse`. Between them the menu of the editor changes the bits, the mapping
and the reconnect flag one by one (`SetActive` to `Reconnect`), the host changes
its layout (`NumChannelsChanged`, `PrepareToPlay`), and the client thread closes
and opens the session. `block.settled` is history: nothing changed meanwhile.

### AsyncFunctors

`owner` is the life of the object, `flag` the shared flag, `count` the counter,
`queue` the queue of the message thread, `ctx` the threads that hold an
`__AsyncContext`. A functor tests the flag (`Dispatch`), counts itself in
(`Enter`) and out (`Leave`) in three steps. `StopAsyncFunctors` clears the flag,
`PostBarrier`/`EndBarrier` is the empty `runOnMsgThreadSync()`, skipped on the
message thread or if the application quit, and `EndCounting` the spin on the
counter.

### ClientConnection

`client` walks through `run()`, `isReady()`, `close()` and `init()`, `host`
through the calls of the processor and the destructor. `lock` is `m_clientMtx`.
The sockets and threads of a connection are `cmdOut`, `screen`, `screenSocket`,
`streamer`; `session` records with which server and format they were made.
`close()` is two steps, `ClearReady` without the lock and `TearDown` with it;
`init()` reads the server before it takes the lock (`ReadServer`) and may fail
at each socket. `overtaken` is history: a `setServer()` or `reconnect()` fell
into an `init()`, whose last line clears `m_needsReconnect` whatever set it.

### PluginChain

`loaded` is `m_loadedPlugins` with the outcome of the last load (`ok`, an error
that `autoRetry()` takes for a passing one, another error), the bypass flag and
whose settings were stored. `chain` is what the server runs, a failed plugin
included, as `addPluginProcessor` pushes it in either case. `holder` is
`m_loadedPluginsSyncMtx`. Each call of the message thread is the test of
`isReadyLockFree()`, the request, and the change of the list, in that order;
a request is one step because it keeps `m_clientMtx`. `getState()` is taken to
run on the message thread. The client thread is the loop of `run()` with the
connection reduced to success or failure. `overlap` is history: an edit of the
list and the loading of the list on a new session overlapped.

### CommandProtocol

`Requirement` lists the requests with the replies each one reads and whether it
sets `m_error` when one fails to come; that difference decides what happens to
the next request. A call is `Begin` (the test of `isReadyLockFree()`, made before
the lock), `Request`/`Send` (lock and request), a `Step` per reply, `Return`.
`requests` and `replies` are the two directions of the stream. `Take` reads the
expected message; `WrongType` stops after the header and leaves the body
(`Beheaded`), which the next read takes for a header (`Misread`); `Timeout` and
`BodyTimeout` leave what comes later. The worker answers in order; the
`Handle...` operators give the replies of each handler, errors included. The
client thread uses the same stream for the plugin list and the CPU load, and
replaces it in `Close` and `Connect` when it finds `m_error`. History: the calls
that ended without their answer (`abandoned`), those of them that said nothing
(`silent`), and the answers that reached another call (`stale`).
Answers say of which plugin they are (`of`): for `getParameterValue()` that is the
one with the number of the channel (`Worker.cpp:536` passes channel and index in each
other's place).

### PluginIndexes

Here plugins have identities, and everything else has positions: `list` and
`param` (automation slots), `active` (`m_activePlugin`), the functors posted to
the message thread, the requests to the worker, the notifications `notes` it
sends, `chain` with the `m_chainIdx` of each processor, `editor`
(`m_activeEditorIdx`) and the index that `window` reports when it is closed. A
message or functor carries the position it was made with and, as history, the
plugin that was meant. `UnloadPlugin` and `ErasePlugin` are the two halves of
`unloadPlugin()`. `NewSession` is a reconnect: the functors of the old one
remain. `wrong` collects the values that arrived at another plugin, with the
reason: a change while it was under way, or a slot or processor behind an
unloaded plugin, which nothing renumbers.

### SandboxServer

`server` walks through one iteration of the accept loop: `Launch`, `SetCallback`,
`Configure`, `Insert`. Between any two of these the connection thread of the new
sandbox may deliver its port (`ReceivePort`), a message, or its loss (`Lost`).
`entries` is `m_sandboxes`, including the `nullptr` that `operator[]` makes for
an absent id (0). `master` is the `SandboxMaster` of each launch, `process` the process:
starting, waiting for its configuration (`wait`), running a worker (`run`), gone.
`EditPlugin` and `ShowEditor` are the three steps of the handler (tell the
server, show, remember the index), between which `HideForOther` may come.
`Leave` is a client that gives up or disconnects, `Crash` a sandbox that
crashes. History: sandboxes that were lost or told their port before the server
was ready for it (`early`), and those that could not be asked to hide (`missed`).

### ProcessorClient

`run` is the thread of the client, `worker` the thread of the session that loads,
uses and unloads the plugin; a command holds `m_cmdMtx` throughout and is one
step, with its outcomes. `sandbox` is the process, with the settings of the
plugin in it; `cmdOut` is `stale` when the process is gone and nobody noticed.
Settings are numbers; `lastSettings` are what a restart restores. `Channels`
is the number of instances (multi-mono). `getAllParameterValues()` reads as many answers
as the plugin had parameters when it was loaded first: with several instances it
leaves some in the socket (`unread`), and in a restarted sandbox that has not got the
plugin yet it waits for answers that nobody sends and closes the socket
(`GetAllParameterValuesEarly`). History: `miscounts` counts these calls, `restarts` the
processes the thread started. `shutdown()`, the
join and the rest of `unload()` are steps of the worker, so that the thread may
start a process in between.

### PluginScan

A plugin is a file. `scanForPlugins()` gives the plugins to `Threads` scan threads
(`Scan`), joins them and merges their results (`Join`, `ProcessScanResults`),
after it merged what an earlier server left (`Leftover`). `thread` is
`scanNextPlugin()`, `child` its process, `scanPlugin()`, and `files` the cache,
crash and error files they exchange. A process dies at any step (`Dies`), hangs
(`Hangs`) until one of the three ways to kill it applies, or fails
to start; the server crashes at any step (`ServerCrash`) and starts again with the
files as they are. History: the plugins that failed themselves (`guilty`), those
that a file of an earlier plugin speaks against (`misled`), and the results that
were stored and those that were lost.

## 3. The runs

Bounds are constants of the modules: `MaxSends`, `MaxCalls`, `MaxPosts`,
`MaxChanges`, `MaxEdits` limit what the environment does, `MaxFaults` what goes
wrong, `MaxSessions` connections. `CHECK_DEADLOCK FALSE` is set where the
system may stop: the host need not call again and the streamer ends with an
error, the object or the plugin is gone. The client thread of `PluginChain` never
stops, so its runs check for deadlock. `MaxLaunches`, `MaxNotes` and
`MaxCrashes`, `MaxServerCrashes` bound processes, notifications and crashes.

| Run | Bounds | Shows |
| --- | --- | --- |
| `streamer_stream` | 1 buffer (queues of 8), mode switched at any time, 9 sends | `TypeOK`, `LatencyAccounted`, `NeverEarly`, `AudioNeverLost`, `NoLostWakeup`, `PopFindsBlock`; `ImplementsChannel`; `CallsReturn` (audio thread and destructor) |
| `live_stream` | both modes, 4 calls | `InOrder`, `ProcessBlockReturns`, `DeliversCurrentBlock` |
| `sample_sizes` | 1 buffer, announced blocks of 2, host blocks of 1 or 2 samples, 9 samples, 1 switch | `SamplesAccounted`, `InPlace` |
| `channels` | up to 3 inputs and outputs, every active set, 1 extra channel, 1 edit, 1 new layout | `Routing`, `ChannelsCurrent` |
| `functors_safe` | 3 functors, 2 contexts, may quit | `NoUseAfterDestroy`, `SyncWhileWaiting`, `DestructorReturns` |
| `connection` | 2 servers, 2 formats, 4 calls, 2 faults | `SessionCurrent` (format, server, locks, screen thread, nothing left), `AnnouncedState`; `GetsConnected`, `PluginGoes` |
| `chain` | 2 plugins, 2 calls, 2 sessions, 1 fault, with `sync()` | `ListAndChain` (plugins, bypass), `SavesOwnSettings`; no deadlock |
| `requests` | 2 threads, 3 calls, 2 connections, 1 lost connection | `OneAnswerPerCall`, `StaleAnswersExplained`; `CallReturns` |
| `indexes` | 3 plugins, 2 slots, 3 calls, 1 notification, 1 reconnect | `IndexesFollow`, `MisdirectionsExplained`, `EditorShown` |
| `server` | 2 clients, 2 launches, 2 edits, 1 crash | `MapTracksSandboxes`, `OneEditor`; `ClientAnswered`, `NoOrphan` |
| `sandbox` | 1 or 2 instances, 2 settings, 3 faults, 2 miscounts | `SandboxOwned`, `ComesBackAsItWas`; `UnloadEnds` |
| `scan` | 2 plugins, 2 threads, 3 faults, 1 crash of the server | `NothingMissed`, `BlacklistedDeserve`; `ScanEnds` |

A module with several invariants about one piece of state joins them, with its
type invariant, in one named conjunction (`InOrder`, `SessionCurrent`,
`ListAndChain`, `OneAnswerPerCall`, `IndexesFollow`,
`MapTracksSandboxes`, `SandboxOwned`, `ComesBackAsItWas`, `NothingMissed`, `SamplesAccounted`,
`InPlace`, `Routing`, `ChannelsCurrent`); the comment in front of each part says
what it is about, and `PROJECT.json` has a mutant for most parts. The passing runs have between 7,000 and 4.8
million states and take between a second and two minutes each.

Why the bounds are enough. With one buffer the write queue holds 8 blocks and
the live high-water mark is 1, so nine sends reach skipping, a time-out, drops in
the same and in a later round, and a full queue; the proofs cover all other
sizes. In `LiveStreamer` one call can only meet the answer of
an earlier one, so four calls contain a late or a cut answer, its late delivery or the
misread that follows it, a call that waits for the io thread still busy with it, and
whole blocks behind them. In `SampleStream` nine
samples make up to nine blocks, enough to skip, to give up, to drop, and to meet a
full queue with the ninth, which upsets the latency (section 5). In
`ChannelRouting` a third channel gives a place in front of, between and behind the
active ones; the first connection is under way when the run begins, so one edit
suffices to fall into an `init()`. The functors need one in
the queue before the barrier, one behind it and one running. In `ClientConnection`
a change has to fall into an `init()` that was itself started by a change or
a fault: four changes and two faults allow two rounds of that before the
destructor starts. In `PluginChain` positions can disagree from two plugins on;
two calls are a restored project and an edit or the saving of it, and a second
session shows what a reconnect makes of it. The same properties hold with three
calls, without `sync()`, in 12.7 million states. In `CommandProtocol` one call gives up, the second takes what
it left, and the third shows what that does to the call after it; the second
connection shows that a call that looked at the old one may arrive there. In
`PluginIndexes` three plugins give a position in front of, between and behind an
edit, and three calls are: open or automate a plugin, move or remove another
one, use it. Two sandboxes of one client need different ids, two of different clients
compete for the screen; `SandboxServer` has both with two clients and two
launches. In `ProcessorClient` three faults are a crash, one during the restart
and one during the reload that follows; two miscounts are one before and one after the
restart that the first one causes. `MaxMiscounts` bounds them. In `PluginScan` two plugins on two
threads share one thread or run side by side; three faults are a first run, its
second run, and the next plugin on the same thread, or two plugins at once.

What the properties depend on:

* `LatencyAccounted`, `NeverEarly` hold as long as no queue overflowed (`lost = 0`):
  section 5 says why that condition is there.
* `ServerCurrent` excludes a selection that falls into an `init()` (`overtaken`):
  `init()` forgets it. No document says otherwise, so there is no run for it.
* `NoUseAfterDestroy` holds until the application quits: then `runOnMsgThreadSync()`
  returns at once, by design. It is about functors on the message thread. A callback of
  a context on another thread looks at the flag before it is counted as well, and no
  barrier covers that.
* `ChainMatches`, `BypassMatches` hold when nothing is under way and no edit
  overlapped the loading of the list; section 5 says what happens else.
  A request of settings tests the connection and is sent in one step there; that it may
  reach the next session is in `CommandProtocol`.
  `SavesOwnSettings` also excludes a requested reconnect, which replaces the
  chain within a second.
* `OneAnswerPerCall` holds in a session in which no call gave up.
  `StaleAnswersExplained` says what happens else: an answer reaches the wrong
  call only after one that gave up silently, or if that call had tested the
  connection before. `ValueOfOwnPlugin` does not hold, for another reason:
  section 5.
* `DeliveredOnce`, in `InOrder`, holds until the io thread reads out of step or both
  threads use `m_readBuffer` (`spoiled`). `DeliveredInOrder` holds ever after: what is
  in pieces, or was never written, has no place in an order, and a block that is
  delivered again follows itself.
* `Aligned`, in `InPlace`, excuses the samples in `held`, and all samples once a
  queue was full (`lost`); section 5 says why. `Conservation` and `HeardInOrder` hold
  then as well.
* `Routed` is about effects with the same inputs and outputs active, and about
  instruments; section 5 says what happens else.
  `NoCrossTalk` asks that the chain adds no channels. `StaleSessionReplaced`
  excuses a `reconnect()` that fell into an `init()` (`overtaken`) and a host that
  came back to its layout (`probed`).
* `IndexesFollow` excuses the automation slots behind an unloaded plugin
  (`stale`), which `unloadPlugin()` does not renumber;
  `MisdirectionsExplained` says that apart from messages crossing an edit these
  are the only cause of a misdirected value that the positions have. The answer to
  `getParameterValue()` is misdirected by its handler (section 5), outside that module.
* `OneEditor` excuses a sandbox that was asked to hide its editor before it was
  shown, or could not be asked (`missed`): it is not in `m_sandboxes` yet, which
  includes that its id has a `nullptr` there already (`Server.cpp:1601-1609` sends
  only to an entry that is one). The run is too small for the second case; the proof
  found it (section 4). `ClientAnswered` and the map excuse
  messages that come before the server set its callback or made the entry (`early`).
* `RestartsHaveCauses`, in `SandboxOwned`, counts the calls of `getAllParameterValues()`
  that expect other answers than come beside the faults: each of them may cost a
  restart of its own. `RestoresSettings`
  excludes settings that were asked of a restarted sandbox before the plugin
  was in it.
* `BlacklistedDeserve` excuses a plugin whose process did not begin while an
  error file of an earlier plugin was there (`misled`), and `NothingMissed` the
  results that were merged but not saved when the server crashed, and plugins
  whose process did not start.

Fairness. Weak fairness of the audio and the io thread (`DawStep`, `IoStep`): all
their waits are `wait_for` or socket operations with a timeout. Nothing obliges the
host to call `send()` or the client to close. Functors end, and the message thread
runs what is posted until the application quits. The client thread goes on: every
socket operation and the sleep in its loop have a timeout. In `CommandProtocol` a
thread that reads an answer goes on, with the answer or a timeout; the worker owes
nothing. In `SandboxServer` the server thread, the connection threads, the
deleter and the processes are scheduled; nothing obliges a client to leave or a
sandbox to crash. In `ProcessorClient` the same holds of the client's thread, of
the worker once it unloads, and of a process that was told to end. In
`PluginScan` threads and processes go on, a process may hang for ever, and a
second run that hangs is ended by the user, to whom the scan offers that
(`enableCancelScan`): without it `ScanEnds` does not hold. The runs `chain`,
`indexes`, `sample_sizes` and `channels` check safety only and state no fairness.

## 4. The proofs

TLAPS checks the theorems below for every value of the constants that the named
assumptions of the module allow: any number of plugins, threads, processes,
blocks, calls and faults. The assumptions say that bounds are natural numbers
(`SendsAssumption`, `CallsAssumption`, `StreamAssumption`, `BoundsAssumption`, `ChainBounds`,
`ProtocolBounds`, `ServerBounds`, `ClientBounds`, `ScanBounds`, `IndexBounds`), that there is a
buffer of at least one sample, a client, a plugin, an automation slot and a scan thread, a finite set of contexts (`ContextAssumption`), that
the client thread is a thread (`ClientThreadAssumption`), and that the value for
"nobody" or "none" is no thread, server, plugin or format. The functors
and the positions share a proof module with the client connection, the channels
theirs with the unbuffered stream, and the scan its own with the server, which is why
the standard names of these modules have a prefix (`FunctorsInit`, `IndexesNext`,
`RoutingNext`, `ScanSpec`).

Each theorem about a state follows from an inductive invariant `IInv` of its
proof module (`FunctorsInv` for `AsyncFunctors`, `IndexInv` for `PluginIndexes`, `RoutingInv` for
`ChannelRouting`, `ScanIInv` for `PluginScan`, `StreamInv` for `SampleStream`): it holds initially, every action keeps it (a lemma, or a case, per
action), and it implies the property. The parts of each `IInv` were checked by TLC
on the runs' bounds before they were proved.

| Module | Theorem | States |
| --- | --- | --- |
| `AudioStreamer_proofs` | `Invariance`, `TypeCorrect` | `[]IInv`, `[]TypeOK`; in particular `m_dropSamples` never becomes negative |
| | `LatencyIsAccounted` | `LatencyAccounted` |
| | `BlocksNeverEarly` | `NeverEarly` |
| | `NoAudioLost` | `AudioNeverLost` |
| | `WakeupsKept` | `NoLostWakeup` |
| | `ReadsFindBlocks` | `PopFindsBlock` |
| | `StreamerIsChannel` | `ImplementsChannel`: every behaviour of the streamer is one of `BlockChannel` |
| `SampleStream_proofs` | `SamplesAreAccounted` | `SamplesAccounted` |
| | `SamplesAreInPlace` | `InPlace` |
| `LiveStreamer_proofs` | `BlocksInOrder` | `InOrder` |
| | `CurrentBlockDelivered` | `DeliversCurrentBlock`, about steps |
| | `ChannelsAreCurrent` | `ChannelsCurrent` of `ChannelRouting` |
| | `ChannelsAreRouted` | `Routing` of `ChannelRouting` |
| `ClientConnection_proofs` | `SessionIsCurrent` | `SessionCurrent` |
| | `StateIsAnnounced` | `AnnouncedState` |
| | `FunctorsSafe` | `FunctorsTypeOK`, `NoUseAfterDestroy` of `AsyncFunctors` |
| | `SyncRunsWhileWaiting` | `SyncWhileWaiting` of `AsyncFunctors`, about steps |
| | `IndexesFollowPlugins` | `IndexesFollow` of `PluginIndexes` |
| | `MisdirectionsAreExplained` | `MisdirectionsExplained` of `PluginIndexes` |
| | `EditorIsShown` | `EditorShown` of `PluginIndexes` |
| `PluginChain_proofs` | `ListMatchesChain` | `ListAndChain` |
| | `SavedSettingsAreOwn` | `SavesOwnSettings` |
| `CommandProtocol_proofs` | `AnswersMatchCalls` | `OneAnswerPerCall` |
| | `LateAnswersExplained` | `StaleAnswersExplained` |
| `SandboxServer_proofs` | `MapIsTrue` | `MapTracksSandboxes` |
| | `OneEditorOnScreen` | `OneEditor` |
| | `ScanMissesNothing` | `NothingMissed` of `PluginScan` |
| | `BlacklistIsDeserved` | `BlacklistedDeserve` of `PluginScan` |
| `ProcessorClient_proofs` | `SandboxIsOwned` | `SandboxOwned` |
| | `ReturnsAsItWas` | `ComesBackAsItWas`, about states and steps |

**AudioStreamer.** None of the properties is inductive. `IInv` adds:

* `Accounting`, a balance of all blocks: those delivered or missed, in the
  queues, with the io thread, lost or about to be pushed are the initial ones plus those
  sent plus the drops still owed. Each action moves a block from one term to another.
* `WriteOrder`, `BufOrder`, `ReadOrder`: the number of a block follows from the
  number of blocks behind it. With `Accounting` this gives the latency.
* `CurInv`, `BufInv`, `WriteIds`: what each thread holds at each of its steps.
* `Pace`: the host calls `send()` and `read()` in turn, so it is at most one
  block ahead; this bounds the read queue and gives `AudioFits`, the reason why
  the read queue has room for each block with audio.
* `ExitInv`: the destructor starts after the client gave up its reference.

One lemma (`ControlInv`) is about the steps that only move a thread on or set a
flag; each action that moves a block or a drop has its own. For the refinement
the contents of the channel are the read queue, the block of the io thread, the
write queue and the block that `send()` is about to push, in this order
(`Pipe`). Each step leaves that sequence alone, adds a block at its end, takes
the first one or removes one: moving a block from queue to thread to queue
changes nothing that can be seen.

**SampleStream.** What waits in `m_readBuffer`, `m_readQ`, the hands of the io thread,
`m_writeQ` and `m_writeBuffer` is one line of samples. `Risen` puts bounds that only
rise between its parts and between the blocks of a queue: every sample of one lies
between its two bounds, whatever was skipped, dropped or refused, and this is the
order in which samples are heard. `Placed` gives each block a place, the one behind
the block in front of it (`Offsets`), and says that the line ends at the latency, less
what was lost; as long as nothing was lost, each sample `Fits` its place or is late
and in `held`. A `read()` that gives up moves the places past the drops on, and the new
drops keep those behind them; a block in the hands of the io thread stands before
or after the drops, depending on its step. Both bounds and places are only said to exist
(`\E r, w`), so a step shows the new ones next to the old ones. How many samples a queue
has is computed by a recursive function (`Total`), about which the provers have no
induction; `TotalIs` finds its value from the places all the same, by the least
position at which the two would differ (`Smallest`, from the well-foundedness of `<`).

The first version of this module kept its queues from being filled by its bound of
eight samples, and `InPlace` said nothing of full queues. The balance of the
samples could not be proved for other bounds, because it was false for them: the
queues refuse blocks by their number, whatever their size. The history `lost` and
the condition in `Aligned` come from that attempt, and the run now fills a queue.

**LiveStreamer.** What was delivered, `m_readBuffer`, the answers and the requests
form one rising line of numbers (`OutOrder`, `BufferOrder`, `NetworkOrder`), and a
step takes a block to the near end of the next part or loses it. Of what was delivered and
of the buffer only whole blocks count; a misread takes answers off the near end and adds none.
As long as nothing was cut or shared the line rises strictly, and no piece is in it
(`OnceInv`): then a block in the buffer was not delivered yet, or is gone with its
delivery. Without
`LIVE_MODE` nothing but the block of the call is on the network (`CurrentInv`),
because only the audio thread reads there (`ModeInv`).

**ChannelRouting.** What a block holds at each of its steps is a function of the build,
the channel view of the plugin and the number of extra channels (`Passed`, `Sent`,
`Chain`, `Answered`, `Returned`). `BlockInv` says that an undisturbed block holds just
that; it rests on `MenuInv` (the mapping is that of the view) and on the session being
that of the view. What remains is about these functions alone: ranks tell channels
apart and stay below the number of active ones (`RanksInjective`), `Back` inverts them
(`BackInverts`), the reduced buffer is as large as the number of active channels when
inputs and outputs are alike (`AlikeNumbers`), and with all channels active the ranks
are the channels (`RanksOfAll`), which is what makes the case without a mapping agree
with a worker that needs one for its extra channels. `SessionInv` gives
`ChannelsCurrent`: during an `init()` it is known already whether its end forgets an
edit.

**AsyncFunctors.** The counter does not suffice, since a functor is counted after it
tested the flag. The argument is about the queue: a barrier is only ever in the
queue when the flag is cleared already (`BarrierLate`), so when the barrier has run
the message thread is between two functors and every functor still queued finds
the flag cleared (`IdleInv`). `CountInv` says that the counter is the number of
functors that run; it keeps the counter from becoming negative.

**ClientConnection.** What makes a ready client agree with the host is that `m_error`
is set from the moment `init()` has the lock to its end (`InitInv`), so that no
`isReady()` can take a half made connection for one. `TrustInv` says what the
flags promise when neither asks for a reconnect, `JoinInv` that the client thread is
joined before the last `close()`, `AnnouncedInv` that a processor which was told of
a connection has `lastState` set, so that each of the two places that announce
the end does so once.

**PluginChain.** The two properties speak of moments when nothing is under way, but list
and chain differ during every edit and every load. `AgreeInv` says how: while the list is
loaded the chain is its beginning, up to the position of the client thread
(`LoadInv`); during an edit it is what the list is going to be, one entry longer,
shorter or exchanged (`EditInv`, where `Origin` names the entry that ends up at a
position). It holds of a session that is `Usable`: connected, with no error and no
reconnect asked for. Only `init()` makes a session usable, and then the chain is
empty, so that whatever goes wrong ends the obligation and never has to be undone.
`OverlapInv` says that an edit during a load is noted in `overlap`, which both properties
exclude: the run of `OwnSettings` (section 5) shows what happens then. `UiOK` and
`ClientOK` keep the positions that both threads have within the list, which
only the mutex makes true.

**PluginIndexes.** List and chain differ whenever a request is under way, and an index
may be read long after it was written. `TrailInv` says that the requests lead from
the chain through a series of lists: each request makes of its list the next one
(`LeadsTo`) and finds its plugin there (`Finds`), and the last list is that of the client,
without the plugin that `unloadPlugin()` waits for. Versions count the changes on either
side, so an index of a notification or a functor *denotes* a plugin (`Denotes`): if the
list still has the version at which the index was read, it has that plugin there. A
change makes all indexes older, and none of them wrong (`Known`, `Moves`). Hence a value
goes astray only across a change (`crossed`), or if its index was out of date when
it was read: the chain index of a processor is that of its place until one in front is
deleted (`PlaceInv`), and slots and parameters name each other until `stale` (`SlotInv`,
`SlotsAgree`). For `EditorShown`, `ShownInv` says where the editor of the active plugin
is, as long as that plugin keeps its place: a request for it is in the queue with
nothing behind it that would move or hide the plugin (`EditComes`, `Harmless`), or it is
on the screen and the queue leaves it there (`EditorOpen`, `Calm`), or the client is going
to learn that it was closed (`HideComes`). It rests on the trail, since a request
to edit is never about a plugin that moved in the meantime, and on `NamesInv`: no plugin is
in the list or in the chain twice, so that deleting one takes no other window away.

**CommandProtocol.** Two arguments. The first counts: as long as no call gave up,
either the request of the call with the mutex is the last one and nothing is answered
(`Asked`), or what is left of its answer is all there is (`Answered`), or nothing will
come (`Nothing`); `StepInv` says that one of them holds. The second follows the
numbers of the calls through the stream (`NumberInv`): the number of an
abandoned call is in it only if that call was silent, or if `m_error` keeps new calls
away (`TrustInv`), and the first read of a session has the stream for itself
(`ConnectInv`). `PairInv` says that the two messages of `setPluginSettings()` stay
together.

**SandboxServer.** `m_sandboxes` is right because a live sandbox is in the map or in
the hands of the server thread (`InMap`, `LaunchedInv`). Therefore an id that is
free in the map is not in use, and there is always a free one: every id in the
map is that of a sandbox, and a client has more numbers than there are sandboxes
(`FreeIdIsFree`, by the pigeonhole principle). For the same reason what
`getAndRemove()` takes out under the id of a live sandbox is that sandbox
(`RemoveEffect`). A sandbox that shows an editor has the screen, or a message to
the server under way whose last word is `SHOW_EDITOR`, or a request to hide the
editor coming (`Accounted`, `EditorRules`).

The attempt to prove `OneEditor` failed at first, for a reason: the entry of an id
may be the `nullptr` that an earlier look-up made when the sandbox with that id is
not in the map yet, and the server asks nobody to hide then. TLC finds such a
behaviour with three launches and four edits; it is 33 states long, and two edits, the
bound of the run, cannot reach it. The code does this, so the excuse of the property
(`missed`) now includes it. The theorem holds for all bounds.

**ProcessorClient.** Two threads change the sandbox, its sockets and the thread, and each
relies on what the other cannot have done. The thread restarts a sandbox only when
something is broken, and what is broken stays so until then: a restart that is
due (`Owed`), or will be once a command meets the answers of another (`Doomed`), has a
fault or a miscount that no restart answered (`Debts`). A socket is null only when
nothing uses it any more (`Sockets`). Between "down" and "ok" the thread passes a load
(`Told`), and the settings of that load are the latest ones (`Restorable`).

**PluginScan.** The scan threads share nothing but the list, so there is an invariant
of each thread with its process and its files, and one of the server thread that
starts and joins them. `PlaceInv` says where a thread and its process are,
`BlameInv` whom the marks in the files speak against, and `KeepInv` that a process
writes what it inherited and its own result. `ServerInv` and `AccountInv` say how far
the loop is: the plugins before `next` are in the list, in a cache, skipped or
being scanned.

What is only model-checked:

* liveness and whatever needs fairness or `ENABLED`, for which TLAPS has no rules:
  `CallsReturn`, `ProcessBlockReturns`, `DestructorReturns`, `GetsConnected`,
  `PluginGoes`, `CallReturns`, `ClientAnswered`, `NoOrphan`, `UnloadEnds`,
  `ScanEnds`.

## 5. Where the code disagrees with itself

Four properties state what a comment says, and TLC finds them violated. They are
no part of the runs of section 3; each has a configuration of its own:
`tlc -config MCAudioStreamer_overflow.cfg MCAudioStreamer`, and so on.

1. `LatencyRestored` (`MCAudioStreamer_overflow.cfg`, 15 sends in live mode: it takes
   a long stall). The results of `push()` on both queues are ignored
   (`AudioStreamer.hpp:166`, 208, 116). When a stall fills a queue, blocks
   vanish without being accounted for; `m_dropSamples` later drops blocks that
   are already gone, and the latency stays wrong although nothing is owed.
   Comments: "add a skip reqord to the queue" (161), "drop samples in case we
   had read error(s)" (97).
2. `OwnSettings` (`MCPluginChain_sync.cfg`). `loadPlugin()` changes the server first and the list later
   (`PluginProcessor.cpp:1125`). If the on-connect callback loads the list in
   between, the positions differ, and `sync()` ("resyncing the remote plugin
   settings", `PluginProcessor.hpp:261`) stores the settings of one plugin
   with another; the gap in `unloadPlugin()` and `exchangePlugins()` is the same.
3. `ActiveChannelsTravel` (`ChannelRouting_active.cfg`). For an effect the way back only has outputs whose input is
   active (`ChannelMapper.hpp:104`), and the worker, which inverts the maps, has
   only those on the way in. With all inputs off and an output on, nothing
   comes back; an active input whose output is off never reaches the chain. "Creates
   a mapping to copy channels of one buffer to a reduced buffer containing only
   the active channels provided" (86).
4. `InactiveOutputsSilent` (`ChannelRouting_inactive.cfg`). If the reduced buffer has as many channels as the host's,
   no mapping is used, and inactive outputs are cleared before the block is
   sent (`PluginProcessor.cpp:714`): the input is lost and the output carries
   what the server put there. "clear inactive outputs if we need no mapping, as
   the mapper takes care otherwise" (713).

### Observations

These came up while modelling. Where a property is named, it is stated in the
module, no run has it, and TLC finds a counterexample when it is checked.

Streamer and connection

* `TimedOutBlocksAreDropped` (`LiveStreamer`): in unbuffered live mode a `read()`
  that times out logs "read timeout, dropping samples" (342) but drops nothing; a
  later call delivers the answer.
* In unbuffered live mode a timeout within an answer (a slow network, or a server that is
  late with the second half) is logged and forgotten (127): the rest of the answer is taken for
  a header, the stream stays out of step without `m_error`, and nothing reconnects
  it before a read fails in another way. A `DeliveredOnce` without its condition fails this way.
* `m_readBuffer` belongs to both threads in live mode: the event of the read before
  may be set when the io thread reads again, and `read()` then copies, shrinks or
  (`setSize()`) allocates a buffer that is being written. After a read that timed
  out, `workingSamples` is still 0 and the same samples are delivered once more.
* `ValueOfOwnPlugin` (`CommandProtocol`): the worker answers `getParameterValue()` with
  `getParameterValue(channel, idx, paramIdx)` (`Worker.cpp:536`) of a function that takes
  the index first (`AudioWorker.hpp:70`). The answer has the index that was asked for, so
  the client takes it, and the value of the processor with the number of the channel.
* `ContextAssertion` (`AsyncFunctors`): `getAsyncContext()` asserts
  `nullptr == __m_asyncExecFlag` (`Utils.hpp:288`), the opposite of what its
  callers have.
* `CloseUnloads` (`PluginChain`): `isReady()` clears `m_ready` before `close()`
  asks for it (`Client.cpp:497`), so after an error the callback to "handle
  connection close" (`PluginProcessor.cpp:168`) does not run, and
  `m_loadedPluginsOk` stays true until the new session has loaded the plugins.
* The queues hold `NUM_OF_BUFFERS * 8` blocks of any size (`AudioStreamer.hpp:26`). The
  latency is `NUM_OF_BUFFERS` announced blocks, so a host whose blocks are smaller than
  an eighth of the announced size fills `m_readQ` without any stall. `push()` (116)
  refuses the next block, nothing drops for it, and all later samples are early
  for good: `Aligned` is false without its condition on `lost`.
* After a `read()` that gave up the host keeps the samples it passed, its own
  input. With `FIXED_OUTBOUND_BUFFER` the rest in `m_writeBuffer` comes late after a
  skip, and stays there when the option is turned off. `send()` reads the option
  twice (186, 188); turned on in between, it takes a block out of less than one.
* `unloadPlugin()` recomputes `m_loadedPluginsOk` from the list, also when the
  client is disconnected.
* `Worker::run()` tests `m_cmdIn` where it means the `m_cmdOut` it just accepted
  (`Worker.cpp:89`), and its early returns do not undo `runCount++`.

Channels

* `reconnect()` during an `init()` is forgotten (its last line clears the flag), and
  the worker keeps the channels it was told before; a host that probes another
  layout and comes back resets the active channels without a reconnect, because
  `Client::init` compares the numbers of channels only.
* For an effect without inputs the worker reads the bits of the inputs as those of
  the outputs (`AudioWorker.cpp:43-48`).
* With extra channels of the chain and different inputs and outputs active, the
  worker maps where the client does not, and channels change places.
* `m_channelMapper` is rebuilt while the audio thread looks up channels in it.

Positions

* A window that is shown already keeps the index it was opened with
  (`ScreenWorker.cpp:198`). After an exchange, closing it reports the
  old index, and the client ignores the message or hides another plugin.
* Neither exchanging nor deleting plugins renumbers `m_activeEditorIdx`; deleting
  one renumbers neither chain indexes nor automation slots.

Server and sandboxes

* `ShutsDown` (`SandboxServer`): `m_sandboxHasScreen` keeps the id of a sandbox
  whose client left. The next sandbox that shows an editor looks it up with
  `m_sandboxes[...]` (`Server.cpp:1605`), which enters a `nullptr`; the loop at the
  end of `runServer()` (1364) dereferences it.
* When the launch or the configuration fails (1308, 1311), nothing answers the
  client and nothing closes its socket.
* A sandbox that is lost before it is entered into the map (1306) stays there.
* A request to hide an editor that arrives between `sandboxShowEditor()` and
  `m_activeEditorIdx = idx` (`Worker.cpp:371-374`) is ignored, and two editors are
  shown.

Isolated plugins

* `KeepsLastSettings` (`ProcessorClient`): a `GetPluginSettings` that reaches a
  restarted sandbox before the plugin does gets an empty answer, which the
  sandbox logs as "failed to read plugin settings: invalid index"
  (`Worker.cpp:466`); it replaces `m_lastSettings`, and the reload restores
  nothing.
* With several instances, `getAllParameterValues()` leaves answers in the socket,
  and the command that meets them takes the sandbox for broken. With one, a call that
  meets a restarted sandbox before the plugin is in it gets no answer (`Worker.cpp:542`),
  waits for those of `m_parameters`, which is still that of the first load, and closes the
  socket (`ProcessorClient.cpp:762-771`): a single crash costs two restarts, or
  more if the values are asked for each time.
* Settings that were set, and the mono channels, are not kept for a restart;
  deleting a plugin whose sandbox is down does not join the thread of its client.

Plugin scan

* `ResultsSurvive` (`PluginScan`): `processScanResults()` deletes the files of a
  thread, and the merged list is in memory until the scan is over: a crash in
  between loses results that an earlier crash would not have lost ("check for scan
  results after a crash", `Server.cpp:878`).
* `newBlacklistedPlugins` holds names and is asked for ids (943), so a plugin
  named in a crash file is reported, but not skipped.
* Nothing but the user ends a second run that hangs (797).

## 6. What is not modelled

`PROJECT.json` lists every component with its status. In short: messages as bytes
(`Message.cpp`), pictures, discovery, shared instances, the tray, and the latency of
a chain with its ring buffer are not modelled. What reading them showed:
the lists and counters of discovery and of shared instances are each guarded by a
mutex; a picture that replaces one not sent yet leaves the client with a wrong
difference until the next full one, every twentieth (`ScreenWorker.cpp:97`).

Left out for good are the user interface
(layout and dialogs), diagnostics (logging, tracing, crash reports), input and
window handling (calls into the operating system), image and audio encoding
(external libraries) and the vendored JSON library, which is more than a third
of the lines under `src/`.

Within the modelled parts:

* MIDI events, which follow the samples;
* the channel maps of a sandbox client, mono channels, the recent plugins that the
  audio worker stores;
* a change of `NUM_OF_BUFFERS` or, without buffers, `LIVE_MODE` in a running stream;
* what else may come of the unsynchronized access to `m_readBuffer` beside wrong samples:
  `setSize()` may free the memory that the other thread uses. Its MIDI events are
  shared in the same way;
* other sizes of the host's blocks without buffers, and condition variables that wake
  without a reason;
* parameter values, presets and settings beyond whose they are;
* the server without sandboxes, the start of plugin isolation, metrics;
* shells (files with several plugins), exclusion lists, `addPlugins()` beside a
  running scan;
* keyboard, mouse and clipboard messages of an editor;
* time: a timeout may come at any moment.

## 7. Plan

Every invariant and action property of the runs is proved; liveness is model-checked
(section 4). What is left is breadth.

Modules that would add most: the latency of a chain and `AudioRingBuffer`,
the pictures of the `ScreenWorker`, `ServiceReceiver`.
