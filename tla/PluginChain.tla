---------------------------- MODULE PluginChain -----------------------------
(***************************************************************************)
(* The plugins a user loaded, as two lists that have to agree: the list    *)
(* m_loadedPlugins of Plugin/Source/PluginProcessor.cpp, which is saved    *)
(* with the project of the host, and the chain of processors the server    *)
(* runs for the current session, Server/Source/ProcessorChain.cpp.         *)
(*                                                                         *)
(* The message thread edits both, one after the other: first a request to  *)
(* the server, then its own list under m_loadedPluginsSyncMtx.  The client *)
(* thread reconnects (ClientConnection has the details) and then loads the *)
(* whole list into the empty chain of the new session; it also polls the   *)
(* settings of all plugins.  Plugins are addressed by their position.      *)
(*                                                                         *)
(* A request holds m_clientMtx until its reply is there, so it is a single *)
(* step; that a thread found isReadyLockFree() true before is a step of    *)
(* its own.                                                                *)
(***************************************************************************)
EXTENDS Naturals, SequencesExt

CONSTANTS
  Plugin,       (* Plugins of the server.                                  *)
  SyncRemote,   (* m_syncRemote is SYNC_ALWAYS, not SYNC_DISABLED.         *)
  MaxRetries,   (* Automatic reconnects, 3 in autoRetry().                 *)
  MaxEdits,     (* Bound on what the user and the host do.                 *)
  MaxSessions,  (* Bound on the connections.                               *)
  MaxFaults     (* Bound on what the network does.                         *)

ASSUME ChainBounds ==
  /\ SyncRemote \in BOOLEAN /\ MaxRetries \in Nat
  /\ MaxEdits \in Nat /\ MaxSessions \in Nat /\ MaxFaults \in Nat

None == "none"
ASSUME NoneIsNoPlugin == None \notin Plugin

VARIABLES
  loaded,          (* m_loadedPlugins                                      *)
  loadedOk,        (* m_loadedPluginsOk                                    *)
  holder,          (* Who holds m_loadedPluginsSyncMtx.                    *)
  ui,              (* The call the message thread is in.                   *)
  client,          (* Where the client thread is.                          *)
  retries,         (* m_autoReconnects                                     *)
  lastState,       (* lastState of Client::run()                           *)
  ready,           (* m_ready                                              *)
  error,           (* m_error                                              *)
  needsReconnect,  (* m_needsReconnect                                     *)
  connected,       (* The command connection works.                        *)
  chain            (* m_processors of the server, for this session.        *)

(* History.                                                                *)
VARIABLES
  overlap,                (* An edit overlapped the loading of the list.   *)
  edits, sessions, faults (* For the bounds.                               *)

flags == <<ready, error, needsReconnect>>
list == <<loaded, loadedOk>>
server == <<connected, chain>>
bounds == <<edits, sessions, faults>>
vars == <<list, holder, ui, client, retries, lastState, flags, server,
          overlap, bounds>>

(* A plugin of the client: whether it was loaded, and if not, whether      *)
(* autoRetry() takes the error for a passing one; the plugin whose         *)
(* settings were stored last.                                              *)
Loaded == [p : Plugin, status : {"ok", "retry", "failed"},
           bypassed : BOOLEAN, settings : Plugin \cup {None}]

(* A processor of the server.  One that failed to load stays in the chain. *)
Processor == [p : Plugin, up : BOOLEAN, suspended : BOOLEAN]

IsReadyLockFree == ready /\ ~error

Entry(p, status) ==
  [p |-> p, status |-> status, bypassed |-> FALSE, settings |-> None]

(* What a saved project may hold.                                          *)
Saved(p) ==
  [p |-> p, status |-> "failed", bypassed |-> FALSE, settings |-> p]
Projects == {<<Saved(p)>> : p \in Plugin}
            \cup {<<Saved(p), Saved(q)>> : p \in Plugin, q \in Plugin}

Idle == [at |-> "idle"]

Init ==
  /\ loaded = <<>> /\ loadedOk = FALSE /\ holder = None
  /\ ui = Idle /\ client = [at |-> "check"]
  /\ retries = 0 /\ lastState = FALSE
  /\ ready = FALSE /\ error = FALSE /\ needsReconnect = FALSE
  /\ connected = FALSE /\ chain = <<>>
  /\ overlap = FALSE
  /\ edits = 0 /\ sessions = 0 /\ faults = 0

-----------------------------------------------------------------------------
(* Plausible mistakes.                                                     *)

(* A plugin that failed to load is not added.                             *)
AddProcessor_OnlyUp(c, p, up) ==
  IF up THEN Append(c, [p |-> p, up |-> up, suspended |-> FALSE]) ELSE c

(* A plugin that was bypassed is only loaded again.                        *)
LoadResult_NoBypass(i, status) ==
  /\ loaded' = [loaded EXCEPT ![i].status = status]
  /\ client' = [client EXCEPT !.i = @ + 1, !.ok = @ /\ status = "ok"]

(* The connection is not given up before the next one is made.             *)
Close_KeepsSession ==
  /\ client.at = "close"
  /\ client' = [at |-> "init"]
  /\ loadedOk' = (loadedOk /\ ~ready)
  /\ ready' = FALSE
  /\ UNCHANGED <<loaded, holder, ui, retries, lastState, error,
                 needsReconnect, server, bounds>>

-----------------------------------------------------------------------------
(* The chain of the server.                                                *)

AddProcessor(c, p, up) ==
  Append(c, [p |-> p, up |-> up, suspended |-> FALSE])

(* Indexes out of range are ignored.                                       *)
DelProcessor(c, i) == IF i \in DOMAIN c THEN RemoveAt(c, i) ELSE c

ExchangeProcessors(c, i, j) ==
  IF {i, j} \subseteq DOMAIN c THEN [c EXCEPT ![i] = c[j], ![j] = c[i]] ELSE c

Suspend(c, i, b) ==
  IF i \in DOMAIN c THEN [c EXCEPT ![i].suspended = b] ELSE c

(* addPlugin() on the server, for a request whose reply is status: "retry" *)
(* includes a timeout of the client, which says nothing about the server.  *)
AddResults == [status : {"ok"}, up : {TRUE}]
              \cup [status : {"retry", "failed"}, up : {FALSE}]
              \cup [status : {"retry"}, up : {TRUE}]

-----------------------------------------------------------------------------
(* The message thread.  Every call starts at "idle" and ends there.        *)

Begin(call) ==
  /\ ui = Idle
  /\ edits < MaxEdits
  /\ edits' = edits + 1
  /\ ui' = call

(* loadPlugin(): addPlugin() gives up at once when the client is not ready *)
(* and otherwise sends the request, on whatever connection there is then.  *)
LoadPlugin(p) ==
  /\ IF IsReadyLockFree
       THEN Begin([at |-> "add", p |-> p]) /\ UNCHANGED loadedOk
       ELSE /\ Begin([at |-> "append", p |-> p, status |-> "failed"])
            /\ loadedOk' = FALSE
  /\ UNCHANGED <<loaded, holder, client, retries, lastState, flags, server,
                 sessions, faults>>

AddPlugin ==
  /\ ui.at = "add"
  /\ IF connected
       THEN \E r \in AddResults :
              /\ chain' = AddProcessor(chain, ui.p, r.up)
              /\ ui' = [at |-> "append", p |-> ui.p, status |-> r.status]
       ELSE \E s \in {"retry", "failed"} :
              /\ ui' = [at |-> "append", p |-> ui.p, status |-> s]
              /\ UNCHANGED chain
  /\ loadedOk' = (loadedOk /\ ui'.status = "ok")
  /\ UNCHANGED <<loaded, holder, client, retries, lastState, flags, connected,
                 bounds>>

AppendPlugin ==
  /\ ui.at = "append"
  /\ holder = None
  /\ loaded' = Append(loaded, Entry(ui.p, ui.status))
  /\ ui' = Idle
  /\ UNCHANGED <<loadedOk, holder, client, retries, lastState, flags, server,
                 bounds>>

(* unloadPlugin(), exchangePlugins(), bypassPlugin(): a request is only    *)
(* sent by a client that is ready; the others go on.                       *)
UnloadPlugin(i) ==
  /\ holder = None
  /\ Begin([at |-> IF IsReadyLockFree THEN "del" ELSE "erase", i |-> i])
  /\ UNCHANGED <<list, holder, client, retries, lastState, flags, server,
                 sessions, faults>>

ExchangePlugins(i) ==
  /\ holder = None
  /\ Begin([at |-> IF IsReadyLockFree THEN "exchange" ELSE "swap", i |-> i])
  /\ UNCHANGED <<list, holder, client, retries, lastState, flags, server,
                 sessions, faults>>

BypassPlugin(i) ==
  /\ holder = None
  /\ Begin([at |-> "bypass", i |-> i])
  /\ loaded' = [loaded EXCEPT ![i].bypassed = ~@]
  /\ UNCHANGED <<loadedOk, holder, client, retries, lastState, flags, server,
                 sessions, faults>>

Requested(i) ==
  CASE ui.at = "del"      -> DelProcessor(chain, i)
    [] ui.at = "exchange" -> ExchangeProcessors(chain, i, i + 1)
    [] ui.at = "bypass"   -> IF IsReadyLockFree
                               THEN Suspend(chain, i, loaded[i].bypassed)
                               ELSE chain

AfterRequest ==
  CASE ui.at = "del"      -> [ui EXCEPT !.at = "erase"]
    [] ui.at = "exchange" -> [ui EXCEPT !.at = "swap"]
    [] ui.at = "bypass"   -> Idle

UiRequest ==
  /\ ui.at \in {"del", "exchange", "bypass"}
  /\ chain' = Requested(ui.i)
  /\ ui' = AfterRequest
  /\ UNCHANGED <<list, holder, client, retries, lastState, flags, connected,
                 bounds>>

ErasePlugin ==
  /\ ui.at = "erase"
  /\ holder = None
  /\ loaded' = RemoveAt(loaded, ui.i)
  /\ loadedOk' = \A i \in DOMAIN loaded' : loaded'[i].status = "ok"
  /\ ui' = Idle
  /\ UNCHANGED <<holder, client, retries, lastState, flags, server, bounds>>

SwapPlugins ==
  /\ ui.at = "swap"
  /\ holder = None
  /\ loaded' = [loaded EXCEPT ![ui.i] = loaded[ui.i + 1],
                              ![ui.i + 1] = loaded[ui.i]]
  /\ ui' = Idle
  /\ UNCHANGED <<loadedOk, holder, client, retries, lastState, flags, server,
                 bounds>>

(* The host restores a project, in two steps.  A project that names a      *)
(* server reconnects, another one only if the client is ready.             *)
SetState(project) ==
  /\ holder = None
  /\ Begin([at |-> "restored"])
  /\ loaded' = project
  /\ loadedOk' = FALSE
  /\ UNCHANGED <<holder, client, retries, lastState, flags, server, sessions,
                 faults>>

ReconnectRestored ==
  /\ ui.at = "restored"
  /\ ui' = Idle
  /\ needsReconnect' \in {TRUE} \cup (IF IsReadyLockFree THEN {}
                                      ELSE {needsReconnect})
  /\ UNCHANGED <<list, holder, client, retries, lastState, ready, error,
                 server, bounds>>

(* The host saves its project: getState() keeps the mutex while it reads   *)
(* the settings of all plugins.                                            *)
GetState ==
  /\ holder = None
  /\ Begin([at |-> "save", i |-> 1])
  /\ holder' = "ui"
  /\ UNCHANGED <<list, client, retries, lastState, flags, server, sessions,
                 faults>>

(* getPluginSettings() and what its caller does with the answer.  Without  *)
(* an answer, m_error is set and the stored settings stay.                 *)
ReadSettings(i) ==
  /\ loaded' = IF connected /\ i \in DOMAIN chain /\ chain[i].up
                 THEN [loaded EXCEPT ![i].settings = chain[i].p]
                 ELSE loaded
  /\ error' = (error \/ ~connected)

SaveNext ==
  /\ ui.at = "save"
  /\ ui.i <= Len(loaded)
  /\ IF loadedOk /\ IsReadyLockFree
       THEN ReadSettings(ui.i)
       ELSE UNCHANGED <<loaded, error>>
  /\ ui' = [ui EXCEPT !.i = @ + 1]
  /\ UNCHANGED <<loadedOk, holder, client, retries, lastState, ready,
                 needsReconnect, server, bounds>>

SaveDone ==
  /\ ui.at = "save"
  /\ ui.i > Len(loaded)
  /\ ui' = Idle
  /\ holder' = None
  /\ UNCHANGED <<list, client, retries, lastState, flags, server, bounds>>

(* The user selects a server again, or the host announces another format.  *)
SelectServer ==
  /\ ui = Idle /\ edits < MaxEdits /\ edits' = edits + 1
  /\ needsReconnect' = TRUE
  /\ retries' = 0
  /\ UNCHANGED <<list, holder, ui, client, lastState, ready, error, server,
                 sessions, faults>>

SetFormat ==
  /\ ui = Idle /\ edits < MaxEdits /\ edits' = edits + 1
  /\ needsReconnect' = TRUE
  /\ ready' = FALSE
  /\ UNCHANGED <<list, holder, ui, client, retries, lastState, error, server,
                 sessions, faults>>

-----------------------------------------------------------------------------
(* The client thread: Client::run().                                       *)

Goto(from, to) ==
  /\ client.at = from
  /\ client' = [at |-> to]
  /\ UNCHANGED <<ui, edits>>

(* isReady(), which sets m_ready; it waits for the lock longer than a      *)
(* request may take.  m_needsReconnect is looked at again afterwards.      *)
Check ==
  /\ ready' = (~error /\ ~needsReconnect /\ connected)
  /\ Goto("check", IF ready' THEN "checked" ELSE "close")
  /\ UNCHANGED <<list, holder, retries, lastState, error, needsReconnect,
                 server, sessions, faults>>

CheckReconnect ==
  /\ Goto("checked", IF needsReconnect THEN "close" ELSE "work")
  /\ UNCHANGED <<list, holder, retries, lastState, flags, server, sessions,
                 faults>>

(* close() announces the end only of a connection that is still ready.     *)
Close ==
  /\ Goto("close", "init")
  /\ loadedOk' = (loadedOk /\ ~ready)
  /\ ready' = FALSE
  /\ connected' = FALSE
  /\ chain' = <<>>
  /\ UNCHANGED <<loaded, holder, retries, lastState, error, needsReconnect,
                 sessions, faults>>

InitOk ==
  /\ Goto("init", "state")
  /\ sessions < MaxSessions
  /\ sessions' = sessions + 1
  /\ connected' = TRUE
  /\ ready' = TRUE /\ error' = FALSE /\ needsReconnect' = FALSE
  /\ UNCHANGED <<list, holder, retries, lastState, chain, faults>>

InitFails ==
  /\ Goto("init", "state")
  /\ UNCHANGED <<list, holder, retries, lastState, flags, server, sessions,
                 faults>>

ReadState ==
  /\ Goto("state", IF ready THEN "callback" ELSE "work")
  /\ lastState' = ready
  /\ loadedOk' = (loadedOk /\ (ready \/ ~lastState))
  /\ UNCHANGED <<loaded, holder, retries, flags, server, sessions, faults>>

(* The on-connect callback keeps the mutex while it loads the whole list.  *)
OnConnect ==
  /\ client.at = "callback"
  /\ holder = None
  /\ holder' = "client"
  /\ client' = [at |-> "load", i |-> 1, ok |-> TRUE]
  /\ UNCHANGED <<list, ui, retries, lastState, flags, server, bounds>>

LoadResult(i, status) ==
  /\ loaded' = [loaded EXCEPT ![i].status = status]
  /\ client' = IF status = "ok" /\ loaded[i].bypassed
                 THEN [client EXCEPT !.at = "loadbypass"]
                 ELSE [client EXCEPT !.i = @ + 1, !.ok = @ /\ status = "ok"]

LoadNext ==
  /\ client.at = "load"
  /\ client.i <= Len(loaded)
  /\ \/ /\ IsReadyLockFree /\ connected
        /\ \E r \in AddResults :
             /\ chain' = AddProcessor(chain, loaded[client.i].p, r.up)
             /\ LoadResult(client.i, r.status)
     \/ /\ ~(IsReadyLockFree /\ connected)
        /\ \E s \in {"failed"} \cup (IF IsReadyLockFree THEN {"retry"} ELSE {}) :
             LoadResult(client.i, s)
        /\ UNCHANGED chain
  /\ UNCHANGED <<loadedOk, ui, holder, retries, lastState, flags, connected,
                 bounds>>

LoadBypass ==
  /\ client.at = "loadbypass"
  /\ chain' = IF IsReadyLockFree THEN Suspend(chain, client.i, TRUE) ELSE chain
  /\ client' = [client EXCEPT !.at = "load", !.i = @ + 1]
  /\ UNCHANGED <<list, ui, holder, retries, lastState, flags, connected,
                 bounds>>

FinishLoad ==
  /\ client.at = "load"
  /\ client.i > Len(loaded)
  /\ loadedOk' = client.ok
  /\ holder' = None
  /\ client' = [at |-> "work"]
  /\ UNCHANGED <<loaded, ui, retries, lastState, flags, server, bounds>>

(* sync() every minute, or not at all.                                     *)
Sync ==
  /\ client.at = "work"
  /\ SyncRemote /\ IsReadyLockFree /\ loadedOk
  /\ holder = None
  /\ holder' = "client"
  /\ client' = [at |-> "sync", i |-> 1]
  /\ UNCHANGED <<list, ui, retries, lastState, flags, server, bounds>>

SyncNext ==
  /\ client.at = "sync"
  /\ client.i <= Len(loaded)
  /\ IF loaded[client.i].status = "ok" /\ IsReadyLockFree
       THEN ReadSettings(client.i)
       ELSE UNCHANGED <<loaded, error>>
  /\ client' = [client EXCEPT !.i = @ + 1]
  /\ UNCHANGED <<loadedOk, ui, holder, retries, lastState, ready,
                 needsReconnect, server, bounds>>

SyncDone ==
  /\ client.at = "sync"
  /\ client.i > Len(loaded)
  /\ holder' = None
  /\ client' = [at |-> "retry"]
  /\ UNCHANGED <<list, ui, retries, lastState, flags, server, bounds>>

NoSync ==
  /\ Goto("work", "retry")
  /\ UNCHANGED <<list, holder, retries, lastState, flags, server, sessions,
                 faults>>

(* Only if every error may be a passing one.                               *)
Retriable ==
  LET bad == {i \in DOMAIN loaded : loaded[i].status # "ok"}
  IN bad # {} /\ \A i \in bad : loaded[i].status = "retry"

AutoRetry ==
  /\ loadedOk \/ retries = MaxRetries \/ holder = None
  /\ Goto("retry", "check")
  /\ IF ~loadedOk /\ retries < MaxRetries /\ Retriable
       THEN retries' = retries + 1 /\ needsReconnect' = TRUE
       ELSE UNCHANGED <<retries, needsReconnect>>
  /\ UNCHANGED <<list, holder, lastState, ready, error, server, sessions,
                 faults>>

-----------------------------------------------------------------------------
(* The network and the server.                                             *)

Fault == faults < MaxFaults /\ faults' = faults + 1

Lose ==
  /\ Fault
  /\ connected
  /\ connected' = FALSE
  /\ chain' = <<>>
  /\ UNCHANGED <<list, holder, ui, client, retries, lastState, flags, edits,
                 sessions>>

(* A streamer, a screen receiver or a request that timed out sets m_error. *)
SetError ==
  /\ Fault
  /\ sessions > 0
  /\ error' = TRUE
  /\ UNCHANGED <<list, holder, ui, client, retries, lastState, ready,
                 needsReconnect, server, edits, sessions>>

-----------------------------------------------------------------------------
Call ==
  \/ \E p \in Plugin : LoadPlugin(p)
  \/ \E i \in DOMAIN loaded : UnloadPlugin(i) \/ BypassPlugin(i)
  \/ \E i \in DOMAIN loaded : i + 1 \in DOMAIN loaded /\ ExchangePlugins(i)
  \/ \E project \in Projects : SetState(project)
  \/ GetState \/ SelectServer \/ SetFormat

UiStep ==
  \/ AddPlugin \/ AppendPlugin \/ UiRequest \/ ErasePlugin \/ SwapPlugins
  \/ ReconnectRestored \/ SaveNext \/ SaveDone

ClientThread ==
  \/ Check \/ CheckReconnect \/ Close \/ InitOk \/ InitFails \/ ReadState
  \/ OnConnect \/ LoadNext \/ LoadBypass \/ FinishLoad
  \/ Sync \/ SyncNext \/ SyncDone \/ NoSync \/ AutoRetry

(* A new session is there but its plugins are not.                         *)
Loading == client.at \in {"state", "callback", "load", "loadbypass"}

Editing ==
  ui.at \in {"add", "append", "del", "erase", "exchange", "swap", "bypass"}

Next ==
  /\ Call \/ UiStep \/ ClientThread \/ Lose \/ SetError
  /\ overlap' = ((Editing /\ Loading)' \/ (overlap /\ sessions' = sessions))

Spec == Init /\ [][Next]_vars

(* Every request has a timeout, and the message thread gets the mutex: the *)
(* client thread does not take it again and again while somebody waits.    *)
FairSpec ==
  /\ Spec
  /\ WF_vars(UiStep /\ Next)
  /\ SF_vars((AppendPlugin \/ ErasePlugin \/ SwapPlugins) /\ Next)
  /\ WF_vars(ClientThread /\ Next)

-----------------------------------------------------------------------------
(* Properties.                                                             *)

(* Everything has its type, the mutex is held where the code says, and     *)
(* there is a chain only in a session.                                     *)
TypeOK ==
  /\ loaded \in Seq(Loaded) /\ loadedOk \in BOOLEAN
  /\ holder \in {None, "ui", "client"}
  /\ holder = "ui" <=> ui.at = "save"
  /\ holder = "client" <=> client.at \in {"load", "loadbypass", "sync"}
  /\ retries \in 0..MaxRetries /\ lastState \in BOOLEAN
  /\ ready \in BOOLEAN /\ error \in BOOLEAN /\ needsReconnect \in BOOLEAN
  /\ connected \in BOOLEAN /\ chain \in Seq(Processor)
  /\ ~connected => chain = <<>>
  /\ overlap \in BOOLEAN
  /\ edits \in 0..MaxEdits /\ sessions \in 0..MaxSessions
  /\ faults \in 0..MaxFaults

(* Nothing is under way, and nothing is known to be wrong.                 *)
Settled ==
  /\ ready /\ ~error /\ ~needsReconnect /\ connected
  /\ ~Editing /\ ui.at # "restored" /\ ~Loading

Names(s) == [i \in DOMAIN s |-> s[i].p]

(* The server runs the plugins of the list, in the order of the list,      *)
(* failed ones included: deletions and exchanges by position keep meaning  *)
(* the same plugin.  An edit that overlaps the loading of the list, when   *)
(* loadPlugin() adds to a chain that the on-connect callback then fills,   *)
(* may break this.                                                         *)
ChainMatches == Settled /\ ~overlap => Names(chain) = Names(loaded)

(* A plugin is bypassed on the server when it is in the list.              *)
BypassMatches ==
  Settled /\ ~overlap =>
    \A i \in DOMAIN loaded :
      loaded[i].status = "ok" => chain[i].suspended = loaded[i].bypassed

(* What getState() is about to store as the settings of a plugin are the   *)
(* settings of that plugin, unless a reconnect has been requested that     *)
(* replaces the chain anyway.                                              *)
SavesOwnSettings ==
  /\ ui.at = "save" /\ ui.i <= Len(loaded)
  /\ loadedOk /\ IsReadyLockFree /\ ~needsReconnect /\ ~overlap
  /\ ui.i \in DOMAIN chain
  => chain[ui.i].p = loaded[ui.i].p

(* A call of the message thread returns.                                   *)
CallReturns == ui.at # "idle" ~> ui.at = "idle"

(* "handle connection close" (PluginProcessor.cpp:168): a plugin whose     *)
(* connection was closed does not take its plugins for loaded.             *)
CloseUnloads == client.at = "init" => ~loadedOk

(* "resyncing the remote plugin settings" (PluginProcessor.hpp:261): the   *)
(* settings stored with a plugin are those of the plugin.                  *)
OwnSettings ==
  \A i \in DOMAIN loaded : loaded[i].settings \in {loaded[i].p, None}

(* The list, the mutex that guards it and the chain of the server agree,   *)
(* in the plugins and in which of them are bypassed.                       *)
ListAndChain == TypeOK /\ ChainMatches /\ BypassMatches
=============================================================================
