-------------------------- MODULE ClientConnection --------------------------
(***************************************************************************)
(* How the plugin keeps its connection to a server: run(), init(),         *)
(* isReady() and close() of Plugin/Source/Client.cpp, with the threads     *)
(* that interfere with them.                                               *)
(*                                                                         *)
(* The client thread checks the connection once per loop and rebuilds it   *)
(* when it is broken or when a reconnect was requested.  The threads of    *)
(* the host change the audio format, switch the server, request a          *)
(* reconnect, send requests to the server and finally destroy the plugin.  *)
(* The threads of the connection itself, the audio streamer and the screen *)
(* receiver, report errors.                                                *)
(*                                                                         *)
(* m_clientMtx protects the sockets and the audio format; m_ready, m_error *)
(* and m_needsReconnect are also written without it.                       *)
(***************************************************************************)
EXTENDS Naturals

CONSTANTS
  Server,      (* Servers the plugin may be connected to.                  *)
  Format,      (* Audio formats the host may announce.                     *)
  MaxChanges,  (* Bound on the calls of the host.                          *)
  MaxFaults    (* Bound on what the network and the server do wrong.       *)

ASSUME BoundsAssumption == MaxChanges \in Nat /\ MaxFaults \in Nat

(* Nothing announced or selected yet.                                      *)
None == "none"
ASSUME NoneAssumption == None \notin Server \cup Format

VARIABLES
  client,          (* Where the client thread is.                          *)
  host,            (* Where the host is: the destructor, or a request.     *)
  lock,            (* Who holds m_clientMtx.                               *)
  ready,           (* m_ready                                              *)
  error,           (* m_error                                              *)
  needsReconnect,  (* m_needsReconnect                                     *)
  srvInfo,         (* m_srvInfo                                            *)
  format,          (* m_channelsIn, m_sampleRate and so on.                *)
  target,          (* The server init() connects to.                       *)
  cmdOut,          (* m_cmdOut                                             *)
  screen,          (* m_screenWorker and its thread.                       *)
  screenSocket,    (* m_screenSocket                                       *)
  streamer,        (* m_audioStreamerF or m_audioStreamerD.                *)
  old,             (* The audio thread keeps a closed streamer alive.      *)
  lastState,       (* lastState of run().                                  *)
  exit             (* threadShouldExit()                                   *)

(* History.                                                                *)
VARIABLES
  session,         (* Server and format of the last handshake.             *)
  announced,       (* What the last callback told the processor.           *)
  overtaken,       (* A reconnect was requested during an init().          *)
  changes, faults  (* For the bounds.                                      *)

flags == <<ready, error, needsReconnect>>
conn == <<cmdOut, screen, screenSocket, streamer, old>>
wishes == <<srvInfo, format>>
bounds == <<changes, faults>>
vars == <<client, host, lock, flags, wishes, target, conn, lastState, exit,
          session, announced, overtaken, bounds>>

Init ==
  /\ client = "loop" /\ host = "idle" /\ lock = None
  /\ ready = FALSE /\ error = FALSE /\ needsReconnect = FALSE
  /\ srvInfo = None /\ format = None /\ target = None
  /\ cmdOut = None /\ screen = None /\ screenSocket = None /\ streamer = None
  /\ old = FALSE
  /\ lastState = FALSE /\ exit = FALSE
  /\ session = [server |-> None, format |-> None]
  /\ announced = FALSE /\ overtaken = FALSE
  /\ changes = 0 /\ faults = 0

(* The callbacks of the processor are functors that ~PluginProcessor()     *)
(* stopped (AsyncFunctors).                                                *)
CallbacksOn == host \in {"idle", "request"}
Announce(state) == announced' = IF CallbacksOn THEN state ELSE announced

Connected ==
  /\ cmdOut = "open" /\ screen = "running" /\ screenSocket = "open"
  /\ streamer = "ok"

-----------------------------------------------------------------------------
(* Plausible mistakes, see AudioStreamer.                                  *)

(* The outer loop does not look at the exit flag.                          *)
Loop_NoExit ==
  /\ client = "loop"
  /\ client' = "check"
  /\ UNCHANGED <<host, lock, flags, wishes, target, conn, lastState, exit,
                 session, announced, overtaken, bounds>>

(* init() goes on without a screen connection.                             *)
ScreenConnectFails_GoesOn ==
  /\ client = "connect"
  /\ faults < MaxFaults
  /\ faults' = faults + 1
  /\ client' = "list"
  /\ cmdOut' = "open" /\ screenSocket' = None /\ streamer' = "ok"
  /\ UNCHANGED <<host, lock, flags, wishes, target, screen, old, lastState,
                 exit, session, announced, overtaken, changes>>

(* m_error stays set.                                                      *)
InitDone_KeepsError ==
  /\ client = "list"
  /\ ready' = TRUE /\ needsReconnect' = FALSE
  /\ lock' = None
  /\ client' = "state"
  /\ UNCHANGED <<host, error, wishes, target, conn, lastState, exit, session,
                 announced, overtaken, bounds>>

(* run() leaves the announcement to close().                               *)
OnClose_Silent ==
  /\ client = "closed"
  /\ lastState' = FALSE
  /\ client' = "loop"
  /\ UNCHANGED <<host, lock, flags, wishes, target, conn, exit, session,
                 announced, overtaken, bounds>>

(* The audio format is changed without the lock.                           *)
SetFormat_NoLock(f) ==
  /\ host = "idle"
  /\ changes < MaxChanges
  /\ changes' = changes + 1
  /\ format' = f
  /\ needsReconnect' = TRUE
  /\ ready' = FALSE
  /\ UNCHANGED <<client, host, lock, error, srvInfo, target, conn, lastState,
                 exit, session, announced, overtaken, faults>>

-----------------------------------------------------------------------------
(* The client thread.                                                      *)

Loop ==
  /\ client = "loop"
  /\ client' = IF exit THEN "done" ELSE "check"
  /\ UNCHANGED <<host, lock, flags, wishes, target, conn, lastState, exit,
                 session, announced, overtaken, bounds>>

(* What happens at the top of the loop: the settings changed, a plugin has *)
(* to be loaded again, or mDNS found the first server or a new address.    *)
LoopReconnect ==
  /\ client = "loop"
  /\ ~exit
  /\ changes < MaxChanges
  /\ changes' = changes + 1
  /\ srvInfo' \in {srvInfo} \cup Server
  /\ needsReconnect' = TRUE
  /\ client' = "check"
  /\ UNCHANGED <<host, lock, ready, error, format, target, conn, lastState,
                 exit, session, announced, overtaken, faults>>

(* isReady() gives up after its timeout when it does not get the lock, and *)
(* leaves m_ready alone.                                                   *)
Check ==
  /\ client = "check"
  /\ IF lock = None
       THEN /\ ready' = (~error /\ ~needsReconnect /\ Connected)
            /\ error' = error
       ELSE /\ error' = TRUE
            /\ ready' = ready
  /\ client' = IF /\ ~(~error' /\ ready') \/ needsReconnect
                  /\ srvInfo # None
                  /\ ~exit
               THEN "clear" ELSE "loop"
  /\ UNCHANGED <<host, lock, needsReconnect, wishes, target, conn, lastState,
                 exit, session, announced, overtaken, bounds>>

(* close() up to its lock.                                                 *)
ClearReady ==
  /\ ready' = FALSE
  /\ IF ready THEN Announce(FALSE) ELSE UNCHANGED announced
  /\ UNCHANGED <<lock, error, needsReconnect, wishes, target, conn, lastState,
                 exit, session, overtaken, bounds>>

(* close() with its lock.  What still runs is thrown away; a thread that   *)
(* reported an error may or may not have ended.  The screen receiver sets  *)
(* m_error when it ends, and close() waits for it.  The streamer is not    *)
(* waited for if the audio thread uses it.                                 *)
TearDown ==
  /\ lock = None
  /\ cmdOut' = None
  /\ screen' \in IF screen = "running" THEN {None} ELSE {None, screen}
  /\ screenSocket' = IF screenSocket = None \/ screen' # screen
                     THEN None ELSE "closed"
  /\ error' = (error \/ screen = "running")
  /\ streamer' \in IF streamer = "ok" THEN {None} ELSE {None, streamer}
  /\ old' \in IF streamer = "ok" THEN {old, TRUE} ELSE {old}
  /\ UNCHANGED <<lock, ready, needsReconnect, wishes, target, lastState, exit,
                 session, announced, overtaken, bounds>>

ClientStep(from, to) ==
  /\ client = from
  /\ client' = to
  /\ UNCHANGED host

ClientClear == ClientStep("clear", "teardown") /\ ClearReady
ClientTearDown == ClientStep("teardown", "init") /\ TearDown

(* init() reads the server before it takes the lock.                       *)
ReadServer ==
  /\ client = "init"
  /\ target' = srvInfo
  /\ overtaken' = FALSE
  /\ client' = "lock"
  /\ UNCHANGED <<host, lock, flags, wishes, conn, lastState, exit, session,
                 announced, bounds>>

(* Without a format there is nothing to connect yet.                       *)
InitLock ==
  /\ client = "lock"
  /\ lock = None
  /\ IF format = None
       THEN client' = "state" /\ UNCHANGED <<lock, error>>
       ELSE client' = "connect" /\ lock' = "client" /\ error' = TRUE
  /\ UNCHANGED <<host, ready, needsReconnect, wishes, target, conn, lastState,
                 exit, session, announced, overtaken, bounds>>

(* All sockets are connected and both threads run.  The handshake carries  *)
(* the format.                                                             *)
Connect ==
  /\ client = "connect"
  /\ session' = [server |-> target, format |-> format]
  /\ cmdOut' = "open" /\ screen' = "running" /\ screenSocket' = "open"
  /\ streamer' = "ok"
  /\ client' = "list"
  /\ UNCHANGED <<host, lock, flags, wishes, target, old, lastState, exit,
                 announced, overtaken, bounds>>

InitFails ==
  /\ client = "connect"
  /\ faults < MaxFaults
  /\ faults' = faults + 1
  /\ client' = "state"
  /\ lock' = None
  /\ UNCHANGED <<host, flags, wishes, target, old, lastState, exit, session,
                 announced, overtaken, changes>>

(* No handshake, or no worker at the port the server named.                *)
ConnectFails ==
  /\ InitFails
  /\ cmdOut' \in {None, "closed"}
  /\ UNCHANGED <<screen, screenSocket, streamer>>

(* The audio connection fails.                                             *)
AudioConnectFails ==
  /\ InitFails
  /\ cmdOut' = "open"
  /\ screenSocket' \in {None, "open"}
  /\ UNCHANGED <<screen, streamer>>

(* Only the screen connection fails: the streamer is left running.         *)
ScreenConnectFails ==
  /\ InitFails
  /\ cmdOut' = "open"
  /\ screenSocket' = None
  /\ streamer' = "ok"
  /\ UNCHANGED screen

(* The plugin list was received, or not: the end of init().                *)
InitDone ==
  /\ client = "list"
  /\ ready' = TRUE /\ error' = FALSE /\ needsReconnect' = FALSE
  /\ lock' = None
  /\ client' = "state"
  /\ UNCHANGED <<host, wishes, target, conn, lastState, exit, session,
                 announced, overtaken, bounds>>

(* Back in run(), m_ready is read again.                                   *)
ReadState ==
  /\ client = "state"
  /\ client' = IF ready THEN "connected" ELSE "closed"
  /\ UNCHANGED <<host, lock, flags, wishes, target, conn, lastState, exit,
                 session, announced, overtaken, bounds>>

OnConnect ==
  /\ client = "connected"
  /\ Announce(TRUE)
  /\ lastState' = TRUE
  /\ client' = "loop"
  /\ UNCHANGED <<host, lock, flags, wishes, target, conn, exit, session,
                 overtaken, bounds>>

OnClose ==
  /\ client = "closed"
  /\ IF lastState THEN Announce(FALSE) ELSE UNCHANGED announced
  /\ lastState' = FALSE
  /\ client' = "loop"
  /\ UNCHANGED <<host, lock, flags, wishes, target, conn, exit, session,
                 overtaken, bounds>>

-----------------------------------------------------------------------------
(* The threads of the connection.                                          *)

(* AudioStreamer::setError()                                               *)
StreamerFails ==
  /\ streamer = "ok"
  /\ faults < MaxFaults
  /\ faults' = faults + 1
  /\ streamer' = "failed"
  /\ error' = TRUE
  /\ UNCHANGED <<client, host, lock, ready, needsReconnect, wishes, target,
                 cmdOut, screen, screenSocket, old, lastState, exit, session,
                 announced, overtaken, changes>>

(* A streamer that close() gave up fails or just ends; its error goes to   *)
(* the same flag.                                                          *)
OldStreamerEnds ==
  /\ old
  /\ old' = FALSE
  /\ error' \in {error, TRUE}
  /\ UNCHANGED <<client, host, lock, ready, needsReconnect, wishes, target,
                 cmdOut, screen, screenSocket, streamer, lastState, exit,
                 session, announced, overtaken, bounds>>

ScreenFails ==
  /\ screen = "running"
  /\ faults < MaxFaults
  /\ faults' = faults + 1
  /\ screen' = "ended"
  /\ error' = TRUE
  /\ UNCHANGED <<client, host, lock, ready, needsReconnect, wishes, target,
                 cmdOut, screenSocket, streamer, old, lastState, exit,
                 session, announced, overtaken, changes>>

-----------------------------------------------------------------------------
(* The host.                                                               *)

InInit == client \in {"lock", "connect", "list"}

(* A call of the host that is not the destructor.                          *)
HostCall ==
  /\ host = "idle"
  /\ changes < MaxChanges
  /\ changes' = changes + 1

(* prepareToPlay(): init(channelsIn, ...) takes the lock.                  *)
SetFormat(f) ==
  /\ HostCall
  /\ lock = None
  /\ IF ~ready \/ format # f
       THEN /\ format' = f
            /\ needsReconnect' = TRUE
            /\ ready' = FALSE
       ELSE UNCHANGED <<format, needsReconnect, ready>>
  /\ UNCHANGED <<client, host, lock, error, srvInfo, target, conn, lastState,
                 exit, session, announced, overtaken, faults>>

(* setServer() does not.                                                   *)
SetServer(s) ==
  /\ HostCall
  /\ srvInfo # s
  /\ srvInfo' = s
  /\ needsReconnect' = TRUE
  /\ overtaken' = (overtaken \/ InInit)
  /\ UNCHANGED <<client, host, lock, ready, error, format, target, conn,
                 lastState, exit, session, announced, faults>>

Reconnect ==
  /\ HostCall
  /\ needsReconnect' = TRUE
  /\ overtaken' = (overtaken \/ InInit)
  /\ UNCHANGED <<client, host, lock, ready, error, wishes, target, conn,
                 lastState, exit, session, announced, faults>>

(* A request of the processor, getPluginSettings() for example, finds the  *)
(* client ready and then waits for the lock.                               *)
Request ==
  /\ HostCall
  /\ lock = None
  /\ ready /\ ~error
  /\ lock' = "host"
  /\ host' = "request"
  /\ UNCHANGED <<client, flags, wishes, target, conn, lastState, exit, session,
                 announced, overtaken, faults>>

(* It sets m_error when it fails.                                          *)
RequestEnds ==
  /\ host = "request"
  /\ lock' = None
  /\ host' = "idle"
  /\ \/ UNCHANGED <<error, faults>>
     \/ faults < MaxFaults /\ faults' = faults + 1 /\ error' = TRUE
  /\ UNCHANGED <<client, ready, needsReconnect, wishes, target, conn,
                 lastState, exit, session, announced, overtaken, changes>>

(* ~PluginProcessor() stops its functors, signals the client thread,       *)
(* closes the connection and joins the thread.  ~Client() closes again.    *)
HostStep(from, to) ==
  /\ host = from
  /\ host' = to
  /\ UNCHANGED client

StopFunctors ==
  /\ HostStep("idle", "signal")
  /\ UNCHANGED <<lock, flags, wishes, target, conn, lastState, exit, session,
                 announced, overtaken, bounds>>

SignalExit ==
  /\ HostStep("signal", "clear")
  /\ exit' = TRUE
  /\ UNCHANGED <<lock, flags, wishes, target, conn, lastState, session,
                 announced, overtaken, bounds>>

HostClear == HostStep("clear", "teardown") /\ ClearReady
HostTearDown == HostStep("teardown", "join") /\ TearDown

Join ==
  /\ client = "done"
  /\ HostStep("join", "clear2")
  /\ UNCHANGED <<lock, flags, wishes, target, conn, lastState, exit, session,
                 announced, overtaken, bounds>>

DestructorClear == HostStep("clear2", "teardown2") /\ ClearReady
DestructorTearDown == HostStep("teardown2", "gone") /\ TearDown

-----------------------------------------------------------------------------
ClientThread ==
  \/ Loop \/ LoopReconnect \/ Check \/ ClientClear \/ ClientTearDown
  \/ ReadServer \/ InitLock
  \/ Connect \/ ConnectFails \/ AudioConnectFails \/ ScreenConnectFails
  \/ InitDone \/ ReadState \/ OnConnect \/ OnClose

Destructor ==
  \/ SignalExit \/ HostClear \/ HostTearDown \/ Join
  \/ DestructorClear \/ DestructorTearDown

Next ==
  \/ ClientThread
  \/ StreamerFails \/ OldStreamerEnds \/ ScreenFails
  \/ \E f \in Format : SetFormat(f)
  \/ \E s \in Server : SetServer(s)
  \/ Reconnect \/ Request \/ RequestEnds
  \/ StopFunctors \/ Destructor

Spec == Init /\ [][Next]_vars

(* Every timeout of the client thread is finite, and so is a request.      *)
FairSpec ==
  /\ Spec
  /\ WF_vars(ClientThread)
  /\ WF_vars(RequestEnds)
  /\ WF_vars(Destructor)

-----------------------------------------------------------------------------
(* Properties.                                                             *)

Socket == {None, "open", "closed"}

(* Everything has its type, and m_clientMtx is held where the code says.   *)
TypeOK ==
  /\ client \in {"loop", "check", "clear", "teardown", "init", "lock",
                 "connect", "list", "state", "connected", "closed", "done"}
  /\ host \in {"idle", "request", "signal", "clear", "teardown", "join",
               "clear2", "teardown2", "gone"}
  /\ lock \in {None, "client", "host"}
  /\ lock = "client" <=> client \in {"connect", "list"}
  /\ lock = "host" <=> host = "request"
  /\ ready \in BOOLEAN /\ error \in BOOLEAN /\ needsReconnect \in BOOLEAN
  /\ srvInfo \in Server \cup {None} /\ format \in Format \cup {None}
  /\ target \in Server \cup {None}
  /\ cmdOut \in Socket /\ screenSocket \in Socket
  /\ screen \in {None, "running", "ended"}
  /\ streamer \in {None, "ok", "failed"}
  /\ old \in BOOLEAN /\ lastState \in BOOLEAN /\ exit \in BOOLEAN
  /\ session \in [server : Server \cup {None}, format : Format \cup {None}]
  /\ announced \in BOOLEAN /\ overtaken \in BOOLEAN
  /\ changes \in 0..MaxChanges /\ faults \in 0..MaxFaults

(* isReady() dereferences m_screenWorker without a test: whenever it gets  *)
(* that far there is one, although init() may fail before it makes one.    *)
ScreenWorkerExists ==
  lock = None /\ ~error /\ ~needsReconnect /\ cmdOut = "open" => screen # None

(* A client that takes itself for ready works with the audio format that   *)
(* the host announced last, however the announcement and the connecting    *)
(* thread overlap.                                                         *)
FormatCurrent ==
  ready /\ ~error /\ ~needsReconnect => session.format = format

(* It is connected to the selected server, unless the selection, which     *)
(* does not take the lock, fell into an init().                            *)
ServerCurrent ==
  ready /\ ~error /\ ~needsReconnect /\ ~overtaken => session.server = srvInfo

(* Between two connection attempts the processor has been told what run()  *)
(* found last, although both run() and close() announce a closed           *)
(* connection.                                                             *)
AnnouncedState ==
  CallbacksOn /\ client \in {"loop", "check"} => announced = lastState

(* Nothing of a connection is left when the plugin is gone, although the   *)
(* client thread may complete a connection after it was told to exit.      *)
NothingLeft ==
  host = "gone" => cmdOut = None /\ screen # "running" /\ streamer # "ok"

(* When the faults end, the client gets ready.                             *)
GetsConnected ==
  srvInfo # None /\ format # None ~> (ready /\ ~error) \/ ~CallbacksOn

(* The plugin can always be destroyed.                                     *)
PluginGoes == host = "signal" ~> host = "gone"

(* A connection is of one piece: whatever failed half-way, overlapped or   *)
(* was given up, m_clientMtx is with the thread that init() or a request   *)
(* runs on, a ready client has the format and the server of the last       *)
(* selection, a client that tests itself has its screen thread, and the    *)
(* destructor leaves no socket or thread.                                  *)
SessionCurrent ==
  TypeOK /\ FormatCurrent /\ ServerCurrent /\ ScreenWorkerExists /\ NothingLeft
=============================================================================
