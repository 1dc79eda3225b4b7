-------------------------- MODULE ProcessorClient --------------------------
(***************************************************************************)
(* A plugin in a process of its own, Server/Source/ProcessorClient.cpp:    *)
(* the processor of the server is a client of a sandbox, which is a server *)
(* with a single plugin.  The thread run() notices that the sandbox is     *)
(* gone, starts another one and loads the plugin again with the last       *)
(* settings the server knows; meanwhile the worker of the session sends    *)
(* commands, and may unload the plugin.  The worker's side,                *)
(* Processor::load() and Processor::unload(), is in                        *)
(* Server/Source/Processor.cpp.                                            *)
(*                                                                         *)
(* A command holds m_cmdMtx from the request to the answer and is one      *)
(* step.  Settings are numbered in the order the plugin gets them, and 0   *)
(* are those of a plugin that was loaded with an empty string.             *)
(***************************************************************************)
EXTENDS Naturals

CONSTANTS
  Channels,   (* Numbers of instances of the plugin to consider; more than *)
              (* one with the layout Multi-Mono.                           *)
  MaxEdits,   (* Bound on the changes of the plugin's settings.            *)
  MaxFaults,  (* Bound on crashes and timeouts.                            *)
  MaxMiscounts (* Bound on the calls that expect more answers than come,   *)
              (* or less.                                                  *)

ASSUME ClientBounds ==
  Channels \subseteq Nat \ {0} /\ MaxEdits \in Nat \ {0} /\ MaxFaults \in Nat
  /\ MaxMiscounts \in Nat

VARIABLES
  channels,     (* Instances of the plugin in the sandbox.                 *)
  sandbox,      (* The process: up, has the plugin, with these settings.   *)
  cmdOut,       (* m_sockCmdOut; "stale" is connected to a dead process.   *)
  audio,        (* m_sockAudio is connected.                               *)
  unread,       (* m_sockCmdOut has answers that nobody read.              *)
  loaded,       (* m_loaded                                                *)
  lastSettings, (* m_lastSettings                                          *)
  error,        (* m_error is not empty.                                   *)
  run,          (* Where the thread of the client is.                      *)
  lastOk,       (* lastOk of run()                                         *)
  exit,         (* threadShouldExit()                                      *)
  worker        (* What the worker does with the processor.                *)

(* History.                                                                *)
VARIABLES
  saved,     (* The settings the server last loaded, or got of the plugin. *)
  raced,     (* They were last asked of a sandbox without the plugin.      *)
  told,      (* The last status the client of the session was told.        *)
  reloaded,  (* The plugin was loaded since it was told "down".            *)
  nullUse,   (* A command used m_sockCmdOut when it was null.              *)
  skipped,   (* unload() found that nothing was loaded.                    *)
  edits,     (* Number of the latest settings; the project has 1.          *)
  faults,
  miscounts, (* Calls of getAllParameterValues() that waited for more      *)
             (* answers than came, or left some.                           *)
  restarts   (* Counted until there is one too many.                       *)

link == <<cmdOut, audio, unread>>
known == <<loaded, lastSettings, error>>
thread == <<run, lastOk, exit>>
history == <<saved, raced, told, reloaded, nullUse, skipped>>
bounds == <<edits, faults, miscounts, restarts>>
vars == <<channels, sandbox, link, known, thread, worker, history, bounds>>

Down == [up |-> FALSE, loaded |-> FALSE, settings |-> 0]
Fresh == [Down EXCEPT !.up = TRUE]

Init ==
  /\ channels \in Channels
  /\ sandbox = Down
  /\ cmdOut = "null" /\ audio = FALSE /\ unread = FALSE
  /\ loaded = FALSE /\ lastSettings = 0 /\ error = FALSE
  /\ run = "none" /\ lastOk = TRUE /\ exit = FALSE
  /\ worker = "start"
  /\ saved = 0 /\ raced = FALSE /\ told = "ok" /\ reloaded = FALSE
  /\ nullUse = FALSE /\ skipped = FALSE
  /\ edits = 1 /\ faults = 0 /\ miscounts = 0 /\ restarts = 0

Connected == cmdOut \in {"open", "stale"}

IsOk == sandbox.up /\ Connected /\ audio

(* A command gets its answer.                                              *)
Answers == sandbox.up /\ cmdOut = "open" /\ ~unread

Closed == IF cmdOut = "null" THEN "null" ELSE "closed"

Fault ==
  /\ faults < MaxFaults
  /\ faults' = faults + 1

Miscount ==
  /\ miscounts < MaxMiscounts
  /\ miscounts' = miscounts + 1

-----------------------------------------------------------------------------
(* Plausible mistakes.  Each of these operators is what a bug would make   *)
(* of the operator it is named after; no action uses them.                 *)

(* The plugin is loaded without its settings.                              *)
LoadInto_Default(s) == [Fresh EXCEPT !.loaded = TRUE]

(* The answer to a command is left to the next one.                        *)
GetParameterValue_OneRead ==
  /\ worker = "idle"
  /\ Answers
  /\ unread' = TRUE
  /\ UNCHANGED <<channels, sandbox, cmdOut, audio, known, thread, worker,
                 history, bounds>>

(* A failed reload is only logged.                                         *)
ReloadFails_Quiet ==
  /\ run = "reload"
  /\ Fault
  /\ cmdOut' = "closed"
  /\ run' = "tell"
  /\ UNCHANGED <<channels, sandbox, audio, unread, known, lastOk, exit, worker,
                 history, edits, miscounts, restarts>>

(* The sandbox outlives its connections.                                   *)
SandboxEnds_Never ==
  /\ sandbox.up
  /\ cmdOut # "open"
  /\ worker # "gone"
  /\ sandbox' = Down
  /\ UNCHANGED <<channels, link, known, thread, worker, history, bounds>>

-----------------------------------------------------------------------------
(* startSandbox(), connectSandbox() and load(), on either thread.          *)

StartSandbox ==
  /\ sandbox' = Fresh
  /\ cmdOut' = IF cmdOut = "open" THEN "stale" ELSE cmdOut

ConnectSandbox ==
  /\ sandbox.up
  /\ cmdOut' = "open" /\ audio' = TRUE /\ unread' = FALSE
  /\ error' = FALSE

(* init() kills the process.  Both command sockets are reset, unless only  *)
(* the audio connection failed.                                            *)
ConnectSandboxFails ==
  /\ sandbox' = Down
  /\ \E left \in {"null", "stale"} : cmdOut' = left
  /\ audio' = FALSE
  /\ error' = TRUE

LoadInto(s) == [Fresh EXCEPT !.loaded = TRUE, !.settings = s]

Load(s) ==
  /\ IsOk
  /\ Answers
  /\ sandbox' = LoadInto(s)
  /\ loaded' = TRUE
  /\ lastSettings' = s
  /\ error' = FALSE

-----------------------------------------------------------------------------
(* Processor::load(): init(), load() and startThread() on the worker.      *)

FirstStart ==
  /\ worker = "start"
  /\ StartSandbox
  /\ worker' = "connect"
  /\ UNCHANGED <<channels, audio, unread, known, thread, history, bounds>>

FirstConnect ==
  /\ worker = "connect"
  /\ ConnectSandbox
  /\ worker' = "load"
  /\ UNCHANGED <<channels, sandbox, loaded, lastSettings, thread, history, bounds>>

(* "failed to initialize sandbox": the processor stays in the chain.       *)
FirstConnectFails ==
  /\ worker = "connect"
  /\ ConnectSandboxFails
  /\ worker' = "idle"
  /\ UNCHANGED <<channels, unread, loaded, lastSettings, thread, history, bounds>>

FirstLoad ==
  /\ worker = "load"
  /\ Load(edits)
  /\ run' = "check"
  /\ worker' = "idle"
  /\ saved' = edits
  /\ UNCHANGED <<channels, link, lastOk, exit, raced, told, reloaded, nullUse,
                 skipped, bounds>>

FirstLoadFails ==
  /\ worker = "load"
  /\ Fault
  /\ cmdOut' = "closed"
  /\ error' = TRUE
  /\ worker' = "idle"
  /\ UNCHANGED <<channels, sandbox, audio, unread, loaded, lastSettings, thread,
                 history, edits, miscounts, restarts>>

-----------------------------------------------------------------------------
(* The commands of the worker.                                             *)

(* A sandbox without the plugin answers with an empty string.              *)
GetStateInformation ==
  /\ worker = "idle"
  /\ Answers
  /\ lastSettings' = IF sandbox.loaded THEN sandbox.settings ELSE 0
  /\ saved' = IF sandbox.loaded THEN sandbox.settings ELSE saved
  /\ raced' = ~sandbox.loaded
  /\ UNCHANGED <<channels, sandbox, link, loaded, error, thread, worker, told,
                 reloaded, nullUse, skipped, bounds>>

(* No answer is expected, and m_lastSettings stays.  Edits of the user in  *)
(* the editor of the plugin do the same.                                   *)
SetStateInformation ==
  /\ worker = "idle"
  /\ edits < MaxEdits
  /\ edits' = edits + 1
  /\ sandbox' = IF cmdOut = "open" /\ sandbox.loaded
                  THEN [sandbox EXCEPT !.settings = edits + 1] ELSE sandbox
  /\ UNCHANGED <<channels, link, known, thread, worker, history, faults,
                 miscounts, restarts>>

GetParameterValue ==
  /\ worker = "idle"
  /\ Answers
  /\ UNCHANGED vars

(* As many answers are read as a single instance has parameters, but the   *)
(* sandbox sends those of all instances.  Answers that an earlier call     *)
(* left are taken for the ones to this call.                               *)
GetAllParameterValues ==
  /\ worker = "idle"
  /\ sandbox.loaded /\ cmdOut = "open"
  /\ run # "none"
  /\ unread' = (channels > 1)
  /\ IF unread' /\ ~unread THEN Miscount ELSE UNCHANGED miscounts
  /\ UNCHANGED <<channels, sandbox, cmdOut, audio, known, thread, worker,
                 history, edits, faults, restarts>>

(* A sandbox that was restarted sends no answer as long as it has not got  *)
(* the plugin; m_parameters still has those of the plugin that was loaded  *)
(* first, so the call waits for them, and closes the socket.               *)
GetAllParameterValuesEarly ==
  /\ worker = "idle"
  /\ Answers /\ ~sandbox.loaded
  /\ run # "none"
  /\ Miscount
  /\ cmdOut' = "closed"
  /\ UNCHANGED <<channels, sandbox, audio, unread, known, thread, worker,
                 history, edits, faults, restarts>>

(* A command that was sent gets no answer, or not the one it expects: the  *)
(* socket is closed.  When it works, that takes a fault.                   *)
CommandFails ==
  /\ worker = "idle"
  /\ cmdOut # "null"
  /\ IF Answers THEN Fault ELSE UNCHANGED faults
  /\ cmdOut' = "closed"
  /\ UNCHANGED <<channels, sandbox, audio, unread, known, thread, worker,
                 history, edits, miscounts, restarts>>

(* getParameterValue() closes the socket without a look at it.             *)
CommandWithoutSocket ==
  /\ worker = "idle"
  /\ cmdOut = "null"
  /\ nullUse' = TRUE
  /\ UNCHANGED <<channels, sandbox, link, known, thread, worker, saved, raced,
                 told, reloaded, skipped, bounds>>

Command ==
  \/ GetStateInformation \/ SetStateInformation \/ GetParameterValue
  \/ GetAllParameterValues \/ GetAllParameterValuesEarly
  \/ CommandFails \/ CommandWithoutSocket

-----------------------------------------------------------------------------
(* Processor::unload().                                                    *)

(* isLoaded() is false, and the destructor of the client follows.          *)
UnloadSkipped ==
  /\ worker = "idle"
  /\ ~(IsOk /\ loaded)
  /\ skipped' = TRUE
  /\ worker' = "gone"
  /\ cmdOut' = "null" /\ audio' = FALSE
  /\ UNCHANGED <<channels, sandbox, unread, known, thread, saved, raced, told,
                 reloaded, nullUse, bounds>>

Unload ==
  /\ worker = "idle"
  /\ IsOk /\ loaded
  /\ loaded' = FALSE
  /\ worker' = "delete"
  /\ UNCHANGED <<channels, sandbox, link, lastSettings, error, thread, history,
                 bounds>>

(* DelPlugin and its result.                                               *)
Delete ==
  /\ worker = "delete"
  /\ IF Answers
       THEN /\ sandbox' = [sandbox EXCEPT !.loaded = FALSE]
            /\ UNCHANGED cmdOut
       ELSE /\ cmdOut' = Closed
            /\ UNCHANGED sandbox
  /\ nullUse' = (nullUse \/ cmdOut = "null")
  /\ worker' = "shutdown"
  /\ UNCHANGED <<channels, audio, unread, known, thread, saved, raced, told,
                 reloaded, skipped, bounds>>

(* shutdown()                                                              *)
Shutdown ==
  /\ worker = "shutdown"
  /\ exit' = TRUE
  /\ cmdOut' = Closed
  /\ audio' = FALSE
  /\ sandbox' = Down
  /\ worker' = "join"
  /\ UNCHANGED <<channels, unread, known, run, lastOk, history, bounds>>

(* waitForThreadToExit(-1) and the destructor.                             *)
Join ==
  /\ worker = "join"
  /\ run = "done"
  /\ worker' = "gone"
  /\ cmdOut' = "null" /\ audio' = FALSE
  /\ UNCHANGED <<channels, sandbox, unread, known, thread, history, bounds>>

Worker ==
  \/ FirstStart \/ FirstConnect \/ FirstConnectFails \/ FirstLoad \/ FirstLoadFails
  \/ Delete \/ Shutdown \/ Join

-----------------------------------------------------------------------------
(* The thread.                                                             *)

Check ==
  /\ run = "check"
  /\ run' = IF exit THEN "done" ELSE IF IsOk THEN "tell" ELSE "start"
  /\ IF ~exit /\ ~IsOk /\ lastOk
       THEN /\ lastOk' = FALSE
            /\ told' = "down"
            /\ reloaded' = FALSE
       ELSE UNCHANGED <<lastOk, told, reloaded>>
  /\ UNCHANGED <<channels, sandbox, link, known, exit, worker, saved, raced,
                 nullUse, skipped, bounds>>

(* A sandbox that still runs is killed.                                    *)
Start ==
  /\ run = "start"
  /\ StartSandbox
  /\ restarts' = IF restarts > MaxFaults + MaxMiscounts
                   THEN restarts ELSE restarts + 1
  /\ run' = "connect"
  /\ UNCHANGED <<channels, audio, unread, known, lastOk, exit, worker, history,
                 edits, faults, miscounts>>

(* "failed to start sandbox process": the thread ends for good.            *)
StartFails ==
  /\ run = "start"
  /\ Fault
  /\ sandbox' = Down
  /\ cmdOut' = IF cmdOut = "open" THEN "stale" ELSE cmdOut
  /\ error' = TRUE
  /\ run' = "done"
  /\ UNCHANGED <<channels, audio, unread, loaded, lastSettings, lastOk, exit,
                 worker, history, edits, miscounts, restarts>>

Connect ==
  /\ run = "connect"
  /\ ConnectSandbox
  /\ run' = "verify"
  /\ UNCHANGED <<channels, sandbox, loaded, lastSettings, lastOk, exit, worker,
                 history, bounds>>

ConnectFails ==
  /\ run = "connect"
  /\ ConnectSandboxFails
  /\ run' = "done"
  /\ UNCHANGED <<channels, unread, loaded, lastSettings, lastOk, exit, worker,
                 history, bounds>>

Verify ==
  /\ run = "verify"
  /\ run' = IF ~IsOk THEN "check" ELSE IF loaded THEN "reload" ELSE "tell"
  /\ UNCHANGED <<channels, sandbox, link, known, lastOk, exit, worker, history,
                 bounds>>

(* unload() may have cleared m_loaded since; load() sets it again.         *)
Reload ==
  /\ run = "reload"
  /\ Load(lastSettings)
  /\ reloaded' = TRUE
  /\ run' = "tell"
  /\ UNCHANGED <<channels, link, lastOk, exit, worker, saved, raced, told,
                 nullUse, skipped, bounds>>

ReloadFails ==
  /\ run = "reload"
  /\ IF IsOk /\ Answers THEN Fault ELSE UNCHANGED faults
  /\ cmdOut' = IF IsOk THEN "closed" ELSE cmdOut
  /\ error' = TRUE
  /\ run' = "tell"
  /\ UNCHANGED <<channels, sandbox, audio, unread, loaded, lastSettings, lastOk,
                 exit, worker, history, edits, miscounts, restarts>>

Tell ==
  /\ run = "tell"
  /\ lastOk' = TRUE
  /\ told' = IF lastOk THEN told ELSE IF error THEN "down" ELSE "ok"
  /\ run' = "serve"
  /\ UNCHANGED <<channels, sandbox, link, known, exit, worker, saved, raced,
                 reloaded, nullUse, skipped, bounds>>

(* One second of messages from the sandbox.                                *)
Serve ==
  /\ run = "serve"
  /\ run' = "check"
  /\ UNCHANGED <<channels, sandbox, link, known, lastOk, exit, worker, history,
                 bounds>>

Thread ==
  /\ worker # "gone"
  /\ \/ Check \/ Start \/ StartFails \/ Connect \/ ConnectFails \/ Verify
     \/ Reload \/ ReloadFails \/ Tell \/ Serve

-----------------------------------------------------------------------------
(* The sandbox, and the audio thread of the server.                        *)

Crash ==
  /\ sandbox.up
  /\ Fault
  /\ sandbox' = Down
  /\ cmdOut' = IF cmdOut = "open" THEN "stale" ELSE cmdOut
  /\ UNCHANGED <<channels, audio, unread, known, thread, worker, history, edits,
                 miscounts, restarts>>

(* The worker of a sandbox ends with its connection, or when none comes,   *)
(* and the process with the worker.                                        *)
SandboxEnds ==
  /\ sandbox.up
  /\ cmdOut # "open"
  /\ sandbox' = Down
  /\ UNCHANGED <<channels, link, known, thread, worker, history, bounds>>

(* processBlock() closes m_sockAudio after any failure.                    *)
AudioFails ==
  /\ audio
  /\ IF sandbox.up THEN Fault ELSE UNCHANGED faults
  /\ audio' = FALSE
  /\ UNCHANGED <<channels, sandbox, cmdOut, unread, known, thread, worker,
                 history, edits, miscounts, restarts>>

-----------------------------------------------------------------------------
Next ==
  \/ Worker \/ Command \/ UnloadSkipped \/ Unload
  \/ Thread
  \/ Crash \/ SandboxEnds \/ AudioFails

Spec == Init /\ [][Next]_vars

FairSpec ==
  Spec /\ WF_vars(Worker) /\ WF_vars(Thread) /\ WF_vars(SandboxEnds)

-----------------------------------------------------------------------------
(* Properties.                                                             *)

Settings == 0..MaxEdits

(* The thread runs only for a plugin that was loaded once.                 *)
TypeOK ==
  /\ channels \in Channels
  /\ sandbox \in [up : BOOLEAN, loaded : BOOLEAN, settings : Settings]
  /\ ~sandbox.up => sandbox = Down
  /\ cmdOut \in {"null", "open", "stale", "closed"}
  /\ cmdOut = "open" => sandbox.up
  /\ audio \in BOOLEAN /\ unread \in BOOLEAN
  /\ loaded \in BOOLEAN /\ lastSettings \in Settings /\ error \in BOOLEAN
  /\ run \in {"none", "check", "start", "connect", "verify", "reload", "tell",
              "serve", "done"}
  /\ worker \in {"start", "connect", "load", "idle", "delete", "shutdown",
                 "join", "gone"}
  /\ loaded => run # "none"
  /\ lastOk \in BOOLEAN /\ exit \in BOOLEAN

(* A plugin that crashed comes back with the settings the server last      *)
(* loaded it with or got of it, provided none were asked of the new        *)
(* sandbox before the plugin was in it.                                    *)
RestoresSettings ==
  [][~sandbox.loaded /\ sandbox'.loaded /\ run = "reload" /\ ~raced =>
       sandbox'.settings = saved]_vars

(* An answer that the sandbox itself calls an error ("failed to read       *)
(* plugin settings: invalid index") does not replace the last settings.    *)
KeepsLastSettings == lastSettings = saved

(* The client of the session is told that a plugin that crashed works      *)
(* again only after it was loaded again.                                   *)
OkMeansReloaded ==
  [][told = "down" /\ told' = "ok" => reloaded \/ ~loaded]_vars

(* A plugin that crashed is back when the client hears so, and it is as it *)
(* was.                                                                    *)
ComesBackAsItWas == RestoresSettings /\ OkMeansReloaded

(* The process of a plugin is replaced at most once per fault and per call *)
(* of getAllParameterValues() that waited for more answers than came, or   *)
(* left some: no other call leaves an answer to the next, and no restart   *)
(* brings about another.                                                   *)
RestartsHaveCauses == restarts <= faults + miscounts

(* A command meets a null socket only when the client gave up on its       *)
(* sandbox: run() ended, or was never started.                             *)
NullAfterGivingUp == nullUse => run \in {"none", "done"}

(* The client is not destroyed under its thread, unless unload() found the *)
(* sandbox down and skipped the join.                                      *)
DestroyedAfterThread ==
  worker = "gone" /\ ~skipped => run = "done"

(* Unloading returns, although it waits for a thread that may be starting  *)
(* a sandbox.                                                              *)
UnloadReturns == worker = "delete" ~> worker = "gone"

(* No process outlives its plugin, also when the thread started one after  *)
(* shutdown() killed the other.                                            *)
NoOrphan == worker = "gone" ~> ~sandbox.up

(* Sandbox, socket and thread belong together: a restart has its own      *)
(* cause, a command meets no socket only after the client gave up, and the *)
(* object outlives its thread.                                             *)
SandboxOwned ==
  /\ TypeOK /\ RestartsHaveCauses
  /\ NullAfterGivingUp /\ DestroyedAfterThread

(* Unloading a plugin ends: for the worker that asked for it, and for the  *)
(* process.                                                                *)
UnloadEnds == UnloadReturns /\ NoOrphan
=============================================================================
