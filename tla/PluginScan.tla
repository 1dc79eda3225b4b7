------------------------------ MODULE PluginScan ------------------------------
(***************************************************************************)
(* The scan for plugins (Server/Source/Server.cpp scanForPlugins(),        *)
(* scanNextPlugin(), scanPlugin(), processScanResults()).  Each plugin is  *)
(* scanned by a process of its own, one per scan thread at a time, that    *)
(* leaves its results and its marks in files of the thread: the cache, the *)
(* crash file that names the plugin being read, the error file, and the    *)
(* error file for the test of the I/O layouts.  From these the thread      *)
(* finds out how the process ended: a plugin that fails only the test of   *)
(* its layouts gets a second run without it, others are blacklisted.  The  *)
(* results of all threads are merged into the list of the server, which is *)
(* stored when the scan is over.                                           *)
(*                                                                         *)
(* A plugin is its number and has one type.  When the server crashes its   *)
(* scan processes go with it, and it is started again.                     *)
(***************************************************************************)
EXTENDS Naturals, FiniteSets

CONSTANTS
  Plugins,          (* Number of plugins in the search paths.              *)
  Threads,          (* SCAN_WORKERS                                        *)
  MaxFaults,        (* Bound on what goes wrong with scan processes.       *)
  MaxServerCrashes  (* Bound on crashes of the server.                     *)

ASSUME ScanBounds ==
  /\ Plugins \in Nat \ {0} /\ Threads \in Nat \ {0}
  /\ MaxFaults \in Nat /\ MaxServerCrashes \in Nat

VARIABLES
  phase,    (* The server thread: off, leftover, loop, join, save or up.   *)
  next,     (* The plugin of the loop, or the thread that is joined.       *)
  list,     (* m_pluginList and m_jpluginLayouts: types, black, layouts.   *)
  saved,    (* The same, as stored.                                        *)
  reported, (* newBlacklistedPlugins                                       *)
  thread,   (* Per scan thread: plugin, second run or not, step.           *)
  child,    (* Its process: step, hung or not, and its lists.              *)
  files     (* Its files: the cache, crash, err and layoutErr.             *)

(* History.                                                                *)
VARIABLES
  guilty,   (* Plugins whose process died or failed, other than by the     *)
            (* test of the layouts in the first run.                       *)
  misled,   (* Plugins whose process died before it began, with a file of  *)
            (* another one present.                                        *)
  stale,    (* Threads with an error file of an earlier plugin.            *)
  skipped,  (* Plugins whose process did not get to scan.                  *)
  stored,   (* Plugins with a result in some file.                         *)
  lost,     (* Plugins whose results were in no file when the server died. *)
  faults, serverCrashes

scan == <<phase, next, list, saved, reported>>
history == <<guilty, misled, stale, skipped, stored, lost>>
scanVars == <<scan, thread, child, files, history, faults, serverCrashes>>

Plugin == 1..Plugins
Thread == 1..Threads
Empty == [types |-> {}, black |-> {}, layouts |-> {}]
NoFiles == [cache |-> Empty, crash |-> 0, err |-> FALSE, layoutErr |-> FALSE]
Idle == [plugin |-> 0, second |-> FALSE, step |-> "idle"]
NoChild == [step |-> "none", hung |-> FALSE, list |-> Empty]

ScanInit ==
  /\ phase = "off" /\ next = 1
  /\ list = Empty /\ saved = Empty /\ reported = {}
  /\ thread = [t \in Thread |-> Idle]
  /\ child = [t \in Thread |-> NoChild]
  /\ files = [t \in Thread |-> NoFiles]
  /\ guilty = {} /\ misled = {} /\ stale = {} /\ skipped = {}
  /\ stored = {} /\ lost = {}
  /\ faults = 0 /\ serverCrashes = 0

Known(l) == l.types \cup l.black
Merged(l, m) == [types |-> l.types \cup m.types, black |-> l.black \cup m.black,
                 layouts |-> l.layouts \cup m.layouts]
Fault == faults < MaxFaults /\ faults' = faults + 1

-----------------------------------------------------------------------------
(* Plausible mistakes.  Each of these operators is what a bug would make   *)
(* of the operator it is named after; no action uses them.                 *)

(* A process does not read what the one before it wrote.                   *)
Inherited_None(t) == Empty

(* Any process that died with the error file present is to blame.          *)
NeedsSecondRun_Never(t) == FALSE

(* Only the first run can be cancelled.                                    *)
CanCancel_First(t) == ~thread[t].second

-----------------------------------------------------------------------------
(* The server thread.                                                      *)

(* scanForPlugins(): loadKnownPluginList().                                *)
Start ==
  /\ phase = "off"
  /\ phase' = "leftover" /\ next' = 1
  /\ list' = saved /\ reported' = {}
  /\ UNCHANGED <<saved, thread, child, files, history, faults, serverCrashes>>

(* processScanResults()                                                    *)
ProcessScanResults(t) ==
  LET f == files[t] IN
    /\ list' = Merged(list, f.cache)
    /\ reported' = reported \cup (f.cache.black \ list.black)
                            \cup ({f.crash} \ {0})
    /\ files' = [files EXCEPT ![t].cache = Empty, ![t].crash = 0]

(* "check for scan results after a crash"                                  *)
Leftover ==
  /\ phase = "leftover"
  /\ ProcessScanResults(next)
  /\ IF next < Threads THEN next' = next + 1 /\ UNCHANGED phase
                       ELSE next' = 1 /\ phase' = "loop"
  /\ UNCHANGED <<saved, thread, child, history, faults, serverCrashes>>

Advance ==
  IF next < Plugins THEN next' = next + 1 /\ UNCHANGED phase
                    ELSE next' = 1 /\ phase' = "join"

(* The plugin is known.  The names in newBlacklistedPlugins match no id.   *)
Skip ==
  /\ phase = "loop"
  /\ next \in Known(list)
  /\ Advance
  /\ UNCHANGED <<list, saved, reported, thread, child, files, history, faults,
                 serverCrashes>>

(* Any thread that does not run takes it.                                  *)
Scan(t) ==
  /\ phase = "loop"
  /\ next \notin Known(list)
  /\ thread[t] = Idle
  /\ thread' = [thread EXCEPT ![t] = [plugin |-> next, second |-> FALSE,
                                      step |-> "start"]]
  /\ Advance
  /\ UNCHANGED <<list, saved, reported, child, files, history, faults,
                 serverCrashes>>

Joined(t) == thread[t] = Idle

Join ==
  /\ phase = "join"
  /\ Joined(next)
  /\ ProcessScanResults(next)
  /\ IF next < Threads THEN next' = next + 1 /\ UNCHANGED phase
                       ELSE next' = 1 /\ phase' = "save"
  /\ UNCHANGED <<saved, thread, child, history, faults, serverCrashes>>

(* saveKnownPluginList() of runServer() or addPlugins().                   *)
Save ==
  /\ phase = "save"
  /\ phase' = "up"
  /\ saved' = list
  /\ UNCHANGED <<next, list, reported, thread, child, files, history, faults,
                 serverCrashes>>

(* The server crashes.                                                     *)
ServerCrash ==
  /\ phase # "off" /\ serverCrashes < MaxServerCrashes
  /\ serverCrashes' = serverCrashes + 1
  /\ phase' = "off" /\ next' = 1 /\ list' = Empty /\ reported' = {}
  /\ thread' = [t \in Thread |-> Idle]
  /\ child' = [t \in Thread |-> NoChild]
  /\ guilty' = guilty \cup {thread[t].plugin : t \in {u \in Thread :
                                                 child[u].step = "scan"}}
  /\ stale' = {t \in Thread : files[t].err}
  /\ lost' = lost \cup (Known(list) \ (Known(saved) \cup
                          UNION {Known(files[t].cache) : t \in Thread}))
  /\ UNCHANGED <<saved, files, misled, skipped, stored, faults>>

-----------------------------------------------------------------------------
(* A scan thread: scanNextPlugin().                                        *)

Frame == UNCHANGED <<scan, serverCrashes>>

StartProcess(t) ==
  /\ thread[t].step = "start"
  /\ thread' = [thread EXCEPT ![t].step = "run"]
  /\ child' = [child EXCEPT ![t] = [NoChild EXCEPT !.step = "begin"]]
  /\ UNCHANGED <<files, history, faults>> /\ Frame

(* The error file of the first run stays when the second does not start.   *)
StartFails(t) ==
  /\ thread[t].step = "start"
  /\ Fault
  /\ thread' = [thread EXCEPT ![t] = Idle]
  /\ skipped' = skipped \cup {thread[t].plugin}
  /\ stale' = IF files[t].err THEN stale \cup {t} ELSE stale
  /\ UNCHANGED <<child, files, guilty, misled, stored, lost>> /\ Frame

Finished(t) == thread[t].step = "run" /\ child[t].step = "none"

NeedsSecondRun(t) == ~thread[t].second /\ files[t].layoutErr

SecondRun(t) ==
  /\ Finished(t) /\ NeedsSecondRun(t)
  /\ files' = [files EXCEPT ![t].layoutErr = FALSE]
  /\ thread' = [thread EXCEPT ![t].second = TRUE, ![t].step = "start"]
  /\ UNCHANGED <<child, history, faults>> /\ Frame

Done(t) ==
  /\ Finished(t) /\ ~NeedsSecondRun(t) /\ ~files[t].err
  /\ thread' = [thread EXCEPT ![t] = Idle]
  /\ UNCHANGED <<child, files, history, faults>> /\ Frame

(* "the plugin crashed the scanner probably"                               *)
Failed(t) ==
  /\ Finished(t) /\ ~NeedsSecondRun(t) /\ files[t].err
  /\ files' = [files EXCEPT ![t].err = FALSE]
  /\ thread' = [thread EXCEPT ![t].step = "blacklist"]
  /\ misled' = IF t \in stale THEN misled \cup {thread[t].plugin} ELSE misled
  /\ stale' = stale \ {t}
  /\ UNCHANGED <<child, guilty, skipped, stored, lost, faults>> /\ Frame

Blacklist(t) ==
  /\ thread[t].step = "blacklist"
  /\ files' = [files EXCEPT ![t].cache.black = @ \cup {thread[t].plugin}]
  /\ stored' = stored \cup {thread[t].plugin}
  /\ thread' = [thread EXCEPT ![t] = Idle]
  /\ UNCHANGED <<child, guilty, misled, stale, skipped, lost, faults>> /\ Frame

(* A process that hangs is killed: after 5 s while it loads the plugin,    *)
(* after ten rounds of 30 s in the first run, or by the user.              *)
Ends(t) ==
  /\ child' = [child EXCEPT ![t] = NoChild]
  /\ guilty' = IF child[t].step = "scan" \/ thread[t].second
                 THEN guilty \cup {thread[t].plugin} ELSE guilty
  /\ skipped' = IF child[t].step = "begin" THEN skipped \cup {thread[t].plugin}
                ELSE skipped

LoadTimeout(t) ==
  /\ child[t].hung /\ child[t].step = "load"
  /\ Ends(t)
  /\ UNCHANGED <<thread, files, misled, stale, stored, lost, faults>> /\ Frame

LastResort(t) ==
  /\ child[t].hung /\ ~thread[t].second
  /\ Ends(t)
  /\ UNCHANGED <<thread, files, misled, stale, stored, lost, faults>> /\ Frame

CanCancel(t) == TRUE

Cancel(t) ==
  /\ child[t].hung /\ CanCancel(t)
  /\ Ends(t)
  /\ UNCHANGED <<thread, files, misled, stale, stored, lost, faults>> /\ Frame

-----------------------------------------------------------------------------
(* The process: scanPlugin().                                              *)

ProcessAt(t, step) == child[t].step = step /\ ~child[t].hung

(* The lists of its thread, without those of the plugins before.           *)
Inherited(t) == files[t].cache

(* It reads the lists and makes its marks.                                 *)
Begin(t) ==
  /\ ProcessAt(t, "begin")
  /\ child' = [child EXCEPT ![t] = [step |-> "scan", hung |-> FALSE,
                                    list |-> Inherited(t)]]
  /\ files' = [files EXCEPT ![t].crash = thread[t].plugin, ![t].err = TRUE,
                            ![t].layoutErr = FALSE]
  /\ stale' = stale \ {t}
  /\ UNCHANGED <<thread, guilty, misled, skipped, stored, lost, faults>> /\ Frame

(* The description was read: the second run is through, and may know a     *)
(* layout; the first makes a mark and loads the plugin.                    *)
ScanOk(t) ==
  /\ ProcessAt(t, "scan")
  /\ \E mono \in BOOLEAN :
       /\ mono => thread[t].second
       /\ child' = [child EXCEPT
            ![t].list.types = @ \cup {thread[t].plugin},
            ![t].list.layouts = IF mono THEN @ \cup {thread[t].plugin} ELSE @,
            ![t].step = IF thread[t].second THEN "save" ELSE "load"]
  /\ files' = [files EXCEPT ![t].crash = 0,
                            ![t].layoutErr = ~thread[t].second]
  /\ UNCHANGED <<thread, history, faults>> /\ Frame

(* All tries fail.                                                         *)
ScanFails(t) ==
  /\ ProcessAt(t, "scan")
  /\ Fault
  /\ child' = [child EXCEPT ![t].list.black = @ \cup {thread[t].plugin},
                            ![t].step = "save"]
  /\ files' = [files EXCEPT ![t].crash = 0]
  /\ guilty' = guilty \cup {thread[t].plugin}
  /\ UNCHANGED <<thread, misled, stale, skipped, stored, lost>> /\ Frame

LoadOk(t) ==
  /\ ProcessAt(t, "load")
  /\ child' = [child EXCEPT ![t].list.layouts = @ \cup {thread[t].plugin},
                            ![t].step = "save"]
  /\ files' = [files EXCEPT ![t].layoutErr = FALSE]
  /\ UNCHANGED <<thread, history, faults>> /\ Frame

(* No instance: the mark stays.                                            *)
LoadFails(t) ==
  /\ ProcessAt(t, "load")
  /\ Fault
  /\ child' = [child EXCEPT ![t].step = "save"]
  /\ UNCHANGED <<thread, files, history>> /\ Frame

SaveList(t) ==
  /\ ProcessAt(t, "save")
  /\ files' = [files EXCEPT ![t].cache = child[t].list, ![t].err = FALSE]
  /\ child' = [child EXCEPT ![t] = NoChild]
  /\ stored' = stored \cup {thread[t].plugin}
  /\ UNCHANGED <<thread, guilty, misled, stale, skipped, lost, faults>> /\ Frame

(* The plugin crashes or hangs, or the process dies before it begins.      *)
Dies(t) ==
  /\ child[t].step \in {"begin", "scan", "load"} /\ ~child[t].hung
  /\ Fault
  /\ Ends(t)
  /\ UNCHANGED <<thread, files, misled, stale, stored, lost>> /\ Frame

Hangs(t) ==
  /\ child[t].step \in {"scan", "load"} /\ ~child[t].hung
  /\ Fault
  /\ child' = [child EXCEPT ![t].hung = TRUE]
  /\ UNCHANGED <<thread, files, history>> /\ Frame

-----------------------------------------------------------------------------
Server == Start \/ Leftover \/ Skip \/ (\E t \in Thread : Scan(t)) \/ Join \/ Save

ScanThread(t) ==
  \/ StartProcess(t) \/ SecondRun(t) \/ Done(t) \/ Failed(t) \/ Blacklist(t)
  \/ LoadTimeout(t) \/ LastResort(t)

ScanProcess(t) == Begin(t) \/ ScanOk(t) \/ LoadOk(t) \/ SaveList(t)

ScanNext ==
  \/ Server \/ ServerCrash
  \/ \E t \in Thread :
       \/ ScanThread(t) \/ ScanProcess(t) \/ Cancel(t)
       \/ StartFails(t) \/ ScanFails(t) \/ LoadFails(t) \/ Dies(t) \/ Hangs(t)

ScanSpec == ScanInit /\ [][ScanNext]_scanVars

(* A user cancels a scan that is offered for it.                           *)
ScanFairSpec ==
  /\ ScanSpec
  /\ WF_scanVars(Server)
  /\ \A t \in Thread :
       /\ WF_scanVars(ScanThread(t)) /\ WF_scanVars(ScanProcess(t))
       /\ WF_scanVars(Cancel(t))

-----------------------------------------------------------------------------
(* Properties.                                                             *)

(* A scan thread that does nothing has no process, and a process that has  *)
(* begun has its error file.                                               *)
ScanTypes ==
  /\ phase \in {"off", "leftover", "loop", "join", "save", "up"}
  /\ next \in 1..(Plugins + Threads)
  /\ Known(list) \cup Known(saved) \cup reported \subseteq Plugin
  /\ \A t \in Thread :
       /\ thread[t].step \in {"idle", "start", "run", "blacklist"}
       /\ thread[t].step # "run" => child[t] = NoChild
       /\ child[t].step \in {"scan", "load", "save"} => files[t].err
       /\ files[t].crash \in Plugin \cup {0}

(* A plugin is blacklisted, or reported to have failed, only when its own  *)
(* process failed, and not for the test of its layouts alone.  The file of *)
(* an earlier plugin may mislead about a process that never began.         *)
BlacklistedDeserve ==
  LET black == UNION {files[t].cache.black : t \in Thread} IN
    black \cup list.black \cup saved.black \cup reported
      \subseteq guilty \cup misled

(* A result that a process stored is in a file of its thread or in the     *)
(* list, until the server crashes with the list not stored.                *)
ResultsKept ==
  stored \subseteq lost \cup Known(list) \cup Known(saved)
                   \cup UNION {Known(files[t].cache) : t \in Thread}

(* When the scan is over every plugin is in the list or blacklisted,       *)
(* unless its process did not start or died before it began.               *)
AllAccounted == phase = "up" => Plugin \subseteq Known(list) \cup skipped

(* A scan comes to an end whatever the plugins do, if the server lives.    *)
ScanEnds == phase = "leftover" ~> phase \in {"up", "off"}

(* "check for scan results after a crash": no result that was stored is    *)
(* ever missing.                                                           *)
ResultsSurvive == lost = {}

(* The scan loses nothing: no result between file and list, and no plugin  *)
(* between the threads.                                                    *)
NothingMissed == ScanTypes /\ ResultsKept /\ AllAccounted
=============================================================================
