----------------------- MODULE ProcessorClient_proofs -----------------------
(***************************************************************************)
(* Theorems about the client of a sandbox, for every number of instances   *)
(* and every bound on edits, faults and miscounted answers.                *)
(*                                                                         *)
(* The sandbox, its sockets and the thread are changed by two threads, and *)
(* each relies on what the other cannot have done: the thread restarts a   *)
(* sandbox only when something is broken, and what is broken stays broken  *)
(* until it is restarted (Debts); a socket is null only when nothing uses  *)
(* it any more (Sockets); and between the moment the client of the session *)
(* hears "down" and the moment it hears "ok" the thread passes through a   *)
(* load of the plugin (Told).                                              *)
(***************************************************************************)
EXTENDS ProcessorClient, TLAPS

-----------------------------------------------------------------------------
(* The inductive invariant.                                                *)

(* The bounds and the history have their types.                            *)
Ranges ==
  /\ saved \in Settings /\ raced \in BOOLEAN /\ told \in {"ok", "down"}
  /\ reloaded \in BOOLEAN /\ nullUse \in BOOLEAN /\ skipped \in BOOLEAN
  /\ edits \in 1..MaxEdits /\ faults \in 0..MaxFaults
  /\ miscounts \in 0..MaxMiscounts /\ restarts \in Nat

(* Processor::load() starts the thread with its last step, and only        *)
(* unload(), which needs a loaded plugin, asks it to end.                  *)
Phases ==
  /\ worker \in {"start", "connect", "load"} => run = "none" /\ ~nullUse
  /\ run = "none" => lastOk /\ worker \in {"start", "connect", "load", "idle", "gone"}
  /\ exit => worker \in {"join", "gone"}

(* The link to the sandbox works in both directions.                       *)
Intact == sandbox.up /\ cmdOut = "open" /\ audio

(* The thread is about to start a sandbox, or will when it looks again:    *)
(* a fault that no restart answered yet.                                   *)
Owed ==
  /\ worker # "gone"
  /\ \/ run = "start"
     \/ run \in {"check", "verify", "reload", "tell", "serve"} /\ ~Intact /\ ~exit

(* The link works, but the next answer that comes is not the one to the    *)
(* command that reads it: a call whose cost is still to come.              *)
Doomed == Intact /\ unread

(* Every restart has a cause of its own, the one that is due or will be    *)
(* included.                                                               *)
Debts ==
  /\ run = "start" => ~Intact
  /\ restarts <= faults + miscounts
  /\ Owed \/ Doomed => restarts < faults + miscounts

(* The command socket is null only when the thread is not, or no longer,   *)
(* at work.                                                                *)
Sockets ==
  /\ cmdOut = "null" /\ worker # "gone" => run \in {"none", "done"}
  /\ nullUse => run \in {"none", "done"}

(* A status of "down" is taken back after a load, or for a plugin that was *)
(* unloaded.                                                               *)
Told ==
  /\ run = "check" /\ ~lastOk => ~IsOk
  /\ run = "serve" => lastOk
  /\ run = "tell" /\ ~lastOk => error \/ reloaded \/ ~loaded

(* The settings for the next load are the latest the server knows, unless  *)
(* a sandbox without the plugin was asked for them.                        *)
Restorable == raced \/ lastSettings = saved

IInv ==
  /\ TypeOK /\ Ranges /\ Phases
  /\ Debts /\ Sockets /\ DestroyedAfterThread
  /\ Told /\ Restorable
-----------------------------------------------------------------------------
(* The type invariant in two parts.                                        *)
ProcessOK ==
  /\ sandbox \in [up : BOOLEAN, loaded : BOOLEAN, settings : Settings]
  /\ ~sandbox.up => sandbox = Down

PlacesOK ==
  /\ channels \in Channels
  /\ cmdOut \in {"null", "open", "stale", "closed"}
  /\ cmdOut = "open" => sandbox.up
  /\ audio \in BOOLEAN /\ unread \in BOOLEAN
  /\ loaded \in BOOLEAN /\ lastSettings \in Settings /\ error \in BOOLEAN
  /\ run \in {"none", "check", "start", "connect", "verify", "reload", "tell",
              "serve", "done"}
  /\ worker \in {"start", "connect", "load", "idle", "delete", "shutdown",
                 "join", "gone"}
  /\ loaded => run # "none"
  /\ lastOk \in BOOLEAN /\ exit \in BOOLEAN

(* What the sandbox may be: not running, without the plugin, with it.      *)
LEMMA ProcessFacts ==
  /\ Down \in [up : BOOLEAN, loaded : BOOLEAN, settings : Settings]
  /\ Fresh \in [up : BOOLEAN, loaded : BOOLEAN, settings : Settings]
  /\ Fresh.up
  /\ \A s \in Settings :
       /\ LoadInto(s) \in [up : BOOLEAN, loaded : BOOLEAN, settings : Settings]
       /\ LoadInto(s).up /\ LoadInto(s).loaded /\ LoadInto(s).settings = s
<1> DEFINE Process == [up : BOOLEAN, loaded : BOOLEAN, settings : Settings]
<1>1. 0 \in Settings
  BY ClientBounds DEF Settings
<1>2. Down \in Process
  BY <1>1 DEF Down
<1>3. Fresh \in Process /\ Fresh.up
  BY <1>2 DEF Fresh
<1>4. ASSUME NEW s \in Settings
      PROVE  /\ LoadInto(s) \in Process
             /\ LoadInto(s).up /\ LoadInto(s).loaded /\ LoadInto(s).settings = s
  BY <1>3 DEF LoadInto
<1> QED
  BY <1>2, <1>3, <1>4

(* The invariant holds initially.                                          *)
LEMMA InitHolds == Init => IInv
<1> SUFFICES ASSUME Init
             PROVE  IInv
  OBVIOUS
<1>1. 0 \in Settings /\ 1 \in 1..MaxEdits /\ 0 \in 0..MaxFaults
      /\ 0 \in 0..MaxMiscounts
  BY ClientBounds DEF Settings
<1>2. TypeOK
  BY <1>1, ProcessFacts DEF Init, TypeOK
<1>3. Ranges
  BY <1>1 DEF Init, Ranges
<1>4. ~sandbox.up
  BY DEF Init, Down
<1> QED
  BY <1>2, <1>3, <1>4
     DEF Init, IInv, Phases, Debts, Owed, Doomed, Sockets,
         DestroyedAfterThread, Told,
         Restorable

(* The sandbox is one process or none.                                     *)
LEMMA ProcessKept == IInv /\ [Next]_vars => ProcessOK'
<1> SUFFICES ASSUME IInv, [Next]_vars
             PROVE  ProcessOK'
  OBVIOUS
<1> USE DEF vars, link, known, thread, history, bounds, IInv, TypeOK, Ranges,
            ProcessOK
<1>1. CASE FirstStart
  BY <1>1, ProcessFacts DEF FirstStart, StartSandbox
<1>2. CASE FirstConnect
  BY <1>2 DEF FirstConnect, ConnectSandbox
<1>3. CASE FirstConnectFails
  BY <1>3, ProcessFacts DEF FirstConnectFails, ConnectSandboxFails
<1>4. CASE FirstLoad
  <2>1. edits \in Settings
    BY ClientBounds DEF Settings
  <2> QED
    BY <1>4, <2>1, ProcessFacts DEF FirstLoad, Load
<1>5. CASE FirstLoadFails
  BY <1>5 DEF FirstLoadFails, Fault
<1>6. CASE GetStateInformation
  BY <1>6 DEF GetStateInformation
<1>7. CASE SetStateInformation
  <2>1. edits + 1 \in Settings
    BY <1>7, ClientBounds DEF SetStateInformation, Settings
  <2>2. sandbox' \in {sandbox, [sandbox EXCEPT !.settings = edits + 1]}
    BY <1>7 DEF SetStateInformation
  <2> QED
    BY <1>7, <2>1, <2>2 DEF SetStateInformation
<1>8. CASE GetParameterValue
  BY <1>8 DEF GetParameterValue
<1>9. CASE GetAllParameterValues
  BY <1>9 DEF GetAllParameterValues, Miscount
<1>9a. CASE GetAllParameterValuesEarly
  BY <1>9a DEF GetAllParameterValuesEarly, Miscount
<1>10. CASE CommandFails
  BY <1>10 DEF CommandFails, Fault
<1>11. CASE CommandWithoutSocket
  BY <1>11 DEF CommandWithoutSocket
<1>12. CASE UnloadSkipped
  BY <1>12 DEF UnloadSkipped
<1>13. CASE Unload
  BY <1>13 DEF Unload
<1>14. CASE Delete
  BY <1>14 DEF Delete, Answers, Closed
<1>15. CASE Shutdown
  BY <1>15, ProcessFacts DEF Shutdown, Closed
<1>16. CASE Join
  BY <1>16 DEF Join
<1>17. CASE worker # "gone" /\ Check
  BY <1>17 DEF Check
<1>18. CASE worker # "gone" /\ Start
  BY <1>18, ProcessFacts DEF Start, StartSandbox
<1>19. CASE worker # "gone" /\ StartFails
  BY <1>19, ProcessFacts DEF StartFails, Fault
<1>20. CASE worker # "gone" /\ Connect
  BY <1>20 DEF Connect, ConnectSandbox
<1>21. CASE worker # "gone" /\ ConnectFails
  BY <1>21, ProcessFacts DEF ConnectFails, ConnectSandboxFails
<1>22. CASE worker # "gone" /\ Verify
  BY <1>22 DEF Verify
<1>23. CASE worker # "gone" /\ Reload
  BY <1>23, ProcessFacts DEF Reload, Load
<1>24. CASE worker # "gone" /\ ReloadFails
  BY <1>24 DEF ReloadFails, Fault
<1>25. CASE worker # "gone" /\ Tell
  BY <1>25 DEF Tell
<1>26. CASE worker # "gone" /\ Serve
  BY <1>26 DEF Serve
<1>27. CASE Crash
  BY <1>27, ProcessFacts DEF Crash, Fault
<1>28. CASE SandboxEnds
  BY <1>28, ProcessFacts DEF SandboxEnds
<1>29. CASE AudioFails
  BY <1>29 DEF AudioFails, Fault
<1>30. CASE UNCHANGED vars
  BY <1>30
<1> QED
  BY <1>1, <1>2, <1>3, <1>4, <1>5, <1>6, <1>7, <1>8, <1>9, <1>9a,
     <1>10, <1>11,
     <1>12, <1>13, <1>14, <1>15, <1>16, <1>17, <1>18, <1>19, <1>20, <1>21,
     <1>22, <1>23, <1>24, <1>25, <1>26, <1>27, <1>28, <1>29, <1>30
     DEF Next, Worker, Command, Thread

(* The sockets and both threads.                                           *)
LEMMA PlacesKept == IInv /\ [Next]_vars => PlacesOK'
<1> SUFFICES ASSUME IInv, [Next]_vars
             PROVE  PlacesOK'
  OBVIOUS
<1> USE DEF vars, link, known, thread, history, bounds, IInv, TypeOK, Ranges,
            PlacesOK
<1>1. CASE FirstStart
  BY <1>1, ProcessFacts DEF FirstStart, StartSandbox
<1>2. CASE FirstConnect
  BY <1>2 DEF FirstConnect, ConnectSandbox
<1>3. CASE FirstConnectFails
  BY <1>3, ProcessFacts DEF FirstConnectFails, ConnectSandboxFails
<1>4. CASE FirstLoad
  <2>1. edits \in Settings
    BY ClientBounds DEF Settings
  <2> QED
    BY <1>4, <2>1, ProcessFacts DEF FirstLoad, Load
<1>5. CASE FirstLoadFails
  BY <1>5 DEF FirstLoadFails, Fault
<1>6. CASE GetStateInformation
  <2>1. 0 \in Settings
    BY ClientBounds DEF Settings
  <2> QED
    BY <1>6, <2>1 DEF GetStateInformation
<1>7. CASE SetStateInformation
  BY <1>7 DEF SetStateInformation
<1>8. CASE GetParameterValue
  BY <1>8 DEF GetParameterValue
<1>9. CASE GetAllParameterValues
  BY <1>9, ClientBounds DEF GetAllParameterValues, Miscount
<1>9a. CASE GetAllParameterValuesEarly
  BY <1>9a DEF GetAllParameterValuesEarly, Miscount
<1>10. CASE CommandFails
  BY <1>10 DEF CommandFails, Fault
<1>11. CASE CommandWithoutSocket
  BY <1>11 DEF CommandWithoutSocket
<1>12. CASE UnloadSkipped
  BY <1>12 DEF UnloadSkipped
<1>13. CASE Unload
  BY <1>13 DEF Unload
<1>14. CASE Delete
  BY <1>14 DEF Delete, Answers, Closed
<1>15. CASE Shutdown
  BY <1>15, ProcessFacts DEF Shutdown, Closed
<1>16. CASE Join
  BY <1>16 DEF Join
<1>17. CASE worker # "gone" /\ Check
  BY <1>17 DEF Check
<1>18. CASE worker # "gone" /\ Start
  BY <1>18, ProcessFacts DEF Start, StartSandbox
<1>19. CASE worker # "gone" /\ StartFails
  BY <1>19, ProcessFacts DEF StartFails, Fault
<1>20. CASE worker # "gone" /\ Connect
  BY <1>20 DEF Connect, ConnectSandbox
<1>21. CASE worker # "gone" /\ ConnectFails
  BY <1>21, ProcessFacts DEF ConnectFails, ConnectSandboxFails
<1>22. CASE worker # "gone" /\ Verify
  BY <1>22 DEF Verify
<1>23. CASE worker # "gone" /\ Reload
  BY <1>23, ProcessFacts DEF Reload, Load
<1>24. CASE worker # "gone" /\ ReloadFails
  BY <1>24 DEF ReloadFails, Fault
<1>25. CASE worker # "gone" /\ Tell
  BY <1>25 DEF Tell
<1>26. CASE worker # "gone" /\ Serve
  BY <1>26 DEF Serve
<1>27. CASE Crash
  BY <1>27, ProcessFacts DEF Crash, Fault
<1>28. CASE SandboxEnds
  BY <1>28, ProcessFacts DEF SandboxEnds
<1>29. CASE AudioFails
  BY <1>29, ZenonT(60) DEF AudioFails, Fault
<1>30. CASE UNCHANGED vars
  BY <1>30
<1> QED
  BY <1>1, <1>2, <1>3, <1>4, <1>5, <1>6, <1>7, <1>8, <1>9, <1>9a,
     <1>10, <1>11,
     <1>12, <1>13, <1>14, <1>15, <1>16, <1>17, <1>18, <1>19, <1>20, <1>21,
     <1>22, <1>23, <1>24, <1>25, <1>26, <1>27, <1>28, <1>29, <1>30
     DEF Next, Worker, Command, Thread

(* The bounds and the history.                                             *)
LEMMA RangesKept == IInv /\ [Next]_vars => Ranges'
<1> SUFFICES ASSUME IInv, [Next]_vars
             PROVE  Ranges'
  OBVIOUS
<1> USE DEF vars, link, known, thread, history, bounds, IInv, TypeOK, Ranges,
            Phases
<1>1. CASE FirstStart
  BY <1>1 DEF FirstStart, StartSandbox
<1>2. CASE FirstConnect
  BY <1>2 DEF FirstConnect, ConnectSandbox
<1>3. CASE FirstConnectFails
  BY <1>3 DEF FirstConnectFails, ConnectSandboxFails
<1>4. CASE FirstLoad
  <2>1. edits \in Settings
    BY ClientBounds DEF Settings
  <2> QED
    BY <1>4, <2>1, ProcessFacts DEF FirstLoad, Load
<1>5. CASE FirstLoadFails
  BY <1>5, ClientBounds DEF FirstLoadFails, Fault
<1>6. CASE GetStateInformation
  BY <1>6 DEF GetStateInformation
<1>7. CASE SetStateInformation
  BY <1>7, ClientBounds DEF SetStateInformation
<1>8. CASE GetParameterValue
  BY <1>8 DEF GetParameterValue
<1>9. CASE GetAllParameterValues
  BY <1>9, ClientBounds DEF GetAllParameterValues, Miscount
<1>9a. CASE GetAllParameterValuesEarly
  BY <1>9a, ClientBounds DEF GetAllParameterValuesEarly, Miscount
<1>10. CASE CommandFails
  BY <1>10, ClientBounds DEF CommandFails, Fault
<1>11. CASE CommandWithoutSocket
  BY <1>11 DEF CommandWithoutSocket
<1>12. CASE UnloadSkipped
  BY <1>12 DEF UnloadSkipped
<1>13. CASE Unload
  BY <1>13 DEF Unload
<1>14. CASE Delete
  BY <1>14 DEF Delete, Answers, Closed
<1>15. CASE Shutdown
  BY <1>15 DEF Shutdown, Closed
<1>16. CASE Join
  BY <1>16 DEF Join
<1>17. CASE worker # "gone" /\ Check
  BY <1>17 DEF Check
<1>18. CASE worker # "gone" /\ Start
  BY <1>18 DEF Start, StartSandbox
<1>19. CASE worker # "gone" /\ StartFails
  BY <1>19, ClientBounds DEF StartFails, Fault
<1>20. CASE worker # "gone" /\ Connect
  BY <1>20 DEF Connect, ConnectSandbox
<1>21. CASE worker # "gone" /\ ConnectFails
  BY <1>21 DEF ConnectFails, ConnectSandboxFails
<1>22. CASE worker # "gone" /\ Verify
  BY <1>22 DEF Verify
<1>23. CASE worker # "gone" /\ Reload
  BY <1>23 DEF Reload, Load
<1>24. CASE worker # "gone" /\ ReloadFails
  BY <1>24, ClientBounds DEF ReloadFails, Fault
<1>25. CASE worker # "gone" /\ Tell
  BY <1>25 DEF Tell
<1>26. CASE worker # "gone" /\ Serve
  BY <1>26 DEF Serve
<1>27. CASE Crash
  BY <1>27, ClientBounds DEF Crash, Fault
<1>28. CASE SandboxEnds
  BY <1>28 DEF SandboxEnds
<1>29. CASE AudioFails
  BY <1>29, ClientBounds DEF AudioFails, Fault
<1>30. CASE UNCHANGED vars
  BY <1>30
<1> QED
  BY <1>1, <1>2, <1>3, <1>4, <1>5, <1>6, <1>7, <1>8, <1>9, <1>9a,
     <1>10, <1>11,
     <1>12, <1>13, <1>14, <1>15, <1>16, <1>17, <1>18, <1>19, <1>20, <1>21,
     <1>22, <1>23, <1>24, <1>25, <1>26, <1>27, <1>28, <1>29, <1>30
     DEF Next, Worker, Command, Thread

(* How far the worker and the thread are.                                  *)
LEMMA PhasesKept == IInv /\ [Next]_vars => Phases'
<1> SUFFICES ASSUME IInv, [Next]_vars
             PROVE  Phases'
  OBVIOUS
<1> USE DEF vars, link, known, thread, history, bounds, IInv, TypeOK, Ranges,
            Phases, Sockets
<1>1. CASE Worker
  BY <1>1 DEF Worker, FirstStart, FirstConnect, FirstConnectFails, FirstLoad,
              FirstLoadFails, Delete, Shutdown, Join, StartSandbox,
              ConnectSandbox, ConnectSandboxFails, Load, Fault, Answers,
              Closed
<1>2. CASE Command
  BY <1>2 DEF Command, GetStateInformation, SetStateInformation,
              GetParameterValue, GetAllParameterValues,
              GetAllParameterValuesEarly, CommandFails,
              CommandWithoutSocket, Fault
<1>3. CASE UnloadSkipped \/ Unload
  BY <1>3 DEF UnloadSkipped, Unload
<1>4. CASE Thread
  BY <1>4 DEF Thread, Check, Start, StartFails, Connect, ConnectFails, Verify,
              Reload, ReloadFails, Tell, Serve, StartSandbox, Fault,
              ConnectSandbox, ConnectSandboxFails, Load
<1>5. CASE Crash \/ SandboxEnds \/ AudioFails
  BY <1>5 DEF Crash, SandboxEnds, AudioFails, Fault
<1>6. CASE UNCHANGED vars
  BY <1>6
<1> QED
  BY <1>1, <1>2, <1>3, <1>4, <1>5, <1>6 DEF Next

(* A fault pays for each restart.  What breaks an intact link is a fault:  *)
(* a crash, a command that fails although its answer is the next, or the   *)
(* audio thread closing its socket while the process runs.                 *)
LEMMA DebtsKept == IInv /\ [Next]_vars => Debts'
<1> SUFFICES ASSUME IInv, [Next]_vars
             PROVE  Debts'
  OBVIOUS
<1> USE DEF vars, link, known, thread, history, bounds, IInv, TypeOK, Ranges,
            Phases, Sockets, Debts, Owed, Doomed, Intact, IsOk, Connected, Answers
<1>1. CASE FirstStart
  BY <1>1, ProcessFacts DEF FirstStart, StartSandbox
<1>2. CASE FirstConnect
  BY <1>2 DEF FirstConnect, ConnectSandbox
<1>3. CASE FirstConnectFails
  BY <1>3 DEF FirstConnectFails, ConnectSandboxFails
<1>4. CASE FirstLoad
  <2>1. edits \in Settings
    BY ClientBounds DEF Settings
  <2> QED
    BY <1>4, <2>1, ProcessFacts DEF FirstLoad, Load
<1>5. CASE FirstLoadFails
  BY <1>5 DEF FirstLoadFails, Fault
<1>6. CASE GetStateInformation
  BY <1>6 DEF GetStateInformation
<1>7. CASE SetStateInformation
  BY <1>7 DEF SetStateInformation
<1>8. CASE GetParameterValue
  BY <1>8 DEF GetParameterValue
<1>9. CASE GetAllParameterValues
  BY <1>9 DEF GetAllParameterValues, Miscount
<1>9a. CASE GetAllParameterValuesEarly
  BY <1>9a DEF GetAllParameterValuesEarly, Miscount
<1>10. CASE CommandFails
  BY <1>10 DEF CommandFails, Fault
<1>11. CASE CommandWithoutSocket
  BY <1>11 DEF CommandWithoutSocket
<1>12. CASE UnloadSkipped
  BY <1>12 DEF UnloadSkipped
<1>13. CASE Unload
  BY <1>13 DEF Unload
<1>14. CASE Delete
  BY <1>14 DEF Delete, Answers, Closed
<1>15. CASE Shutdown
  BY <1>15, ProcessFacts DEF Shutdown, Closed
<1>16. CASE Join
  BY <1>16 DEF Join
<1>17. CASE worker # "gone" /\ Check
  BY <1>17 DEF Check
<1>18. CASE worker # "gone" /\ Start
  BY <1>18, ProcessFacts DEF Start, StartSandbox
<1>19. CASE worker # "gone" /\ StartFails
  BY <1>19 DEF StartFails, Fault
<1>20. CASE worker # "gone" /\ Connect
  BY <1>20 DEF Connect, ConnectSandbox
<1>21. CASE worker # "gone" /\ ConnectFails
  BY <1>21 DEF ConnectFails, ConnectSandboxFails
<1>22. CASE worker # "gone" /\ Verify
  BY <1>22 DEF Verify
<1>23. CASE worker # "gone" /\ Reload
  BY <1>23, ProcessFacts DEF Reload, Load
<1>24. CASE worker # "gone" /\ ReloadFails
  BY <1>24 DEF ReloadFails, Fault
<1>25. CASE worker # "gone" /\ Tell
  BY <1>25 DEF Tell
<1>26. CASE worker # "gone" /\ Serve
  BY <1>26 DEF Serve
<1>27. CASE Crash
  BY <1>27 DEF Crash, Fault
<1>28. CASE SandboxEnds
  BY <1>28 DEF SandboxEnds
<1>29. CASE AudioFails
  BY <1>29 DEF AudioFails, Fault
<1>30. CASE UNCHANGED vars
  BY <1>30
<1> QED
  BY <1>1, <1>2, <1>3, <1>4, <1>5, <1>6, <1>7, <1>8, <1>9, <1>9a,
     <1>10, <1>11,
     <1>12, <1>13, <1>14, <1>15, <1>16, <1>17, <1>18, <1>19, <1>20, <1>21,
     <1>22, <1>23, <1>24, <1>25, <1>26, <1>27, <1>28, <1>29, <1>30
     DEF Next, Worker, Command, Thread

(* The command socket is set for good when the thread is started, and      *)
(* dropped by the destructor or by a connection that fails.                *)
LEMMA SocketsKept == IInv /\ [Next]_vars => Sockets'
<1> SUFFICES ASSUME IInv, [Next]_vars
             PROVE  Sockets'
  OBVIOUS
<1> USE DEF vars, link, known, thread, history, bounds, IInv, TypeOK, Phases,
            Sockets, Closed, IsOk, Connected
<1>1. CASE Worker
  BY <1>1 DEF Worker, FirstStart, FirstConnect, FirstConnectFails, FirstLoad,
              FirstLoadFails, Delete, Shutdown, Join, StartSandbox,
              ConnectSandbox, ConnectSandboxFails, Load, Fault, Answers,
              Closed
<1>2. CASE Command
  BY <1>2 DEF Command, GetStateInformation, SetStateInformation,
              GetParameterValue, GetAllParameterValues,
              GetAllParameterValuesEarly, CommandFails,
              CommandWithoutSocket, Fault
<1>3. CASE UnloadSkipped \/ Unload
  BY <1>3 DEF UnloadSkipped, Unload
<1>4. CASE Thread
  BY <1>4 DEF Thread, Check, Start, StartFails, Connect, ConnectFails, Verify,
              Reload, ReloadFails, Tell, Serve, StartSandbox, Fault,
              ConnectSandbox, ConnectSandboxFails, Load
<1>5. CASE Crash \/ SandboxEnds \/ AudioFails
  BY <1>5 DEF Crash, SandboxEnds, AudioFails, Fault
<1>6. CASE UNCHANGED vars
  BY <1>6
<1> QED
  BY <1>1, <1>2, <1>3, <1>4, <1>5, <1>6 DEF Next

(* Only the destructor ends the worker, and it waits for the thread.       *)
LEMMA JoinKept == IInv /\ [Next]_vars => DestroyedAfterThread'
<1> SUFFICES ASSUME IInv, [Next]_vars
             PROVE  DestroyedAfterThread'
  OBVIOUS
<1> USE DEF vars, link, known, thread, history, bounds, IInv,
            DestroyedAfterThread
<1>1. CASE Worker
  BY <1>1 DEF Worker, FirstStart, FirstConnect, FirstConnectFails, FirstLoad,
              FirstLoadFails, Delete, Shutdown, Join, StartSandbox,
              ConnectSandbox, ConnectSandboxFails, Load, Fault, Answers,
              Closed
<1>2. CASE Command
  BY <1>2 DEF Command, GetStateInformation, SetStateInformation,
              GetParameterValue, GetAllParameterValues,
              GetAllParameterValuesEarly, CommandFails,
              CommandWithoutSocket, Fault
<1>3. CASE UnloadSkipped \/ Unload
  BY <1>3 DEF UnloadSkipped, Unload
<1>4. CASE Thread
  BY <1>4 DEF Thread, Check, Start, StartFails, Connect, ConnectFails, Verify,
              Reload, ReloadFails, Tell, Serve, StartSandbox, Fault,
              ConnectSandbox, ConnectSandboxFails, Load
<1>5. CASE Crash \/ SandboxEnds \/ AudioFails
  BY <1>5 DEF Crash, SandboxEnds, AudioFails, Fault
<1>6. CASE UNCHANGED vars
  BY <1>6
<1> QED
  BY <1>1, <1>2, <1>3, <1>4, <1>5, <1>6 DEF Next

(* What the thread will tell the client of the session.                    *)
LEMMA ToldKept == IInv /\ [Next]_vars => Told'
<1> SUFFICES ASSUME IInv, [Next]_vars
             PROVE  Told'
  OBVIOUS
<1> USE DEF vars, link, known, thread, history, bounds, IInv, TypeOK, Phases,
            Told, IsOk, Connected
<1>1. CASE FirstStart
  BY <1>1 DEF FirstStart, StartSandbox
<1>2. CASE FirstConnect
  BY <1>2 DEF FirstConnect, ConnectSandbox
<1>3. CASE FirstConnectFails
  BY <1>3 DEF FirstConnectFails, ConnectSandboxFails
<1>4. CASE FirstLoad
  BY <1>4, ProcessFacts DEF FirstLoad, Load
<1>5. CASE FirstLoadFails
  BY <1>5 DEF FirstLoadFails, Fault
<1>6. CASE GetStateInformation
  BY <1>6 DEF GetStateInformation
<1>7. CASE SetStateInformation
  BY <1>7, ProcessFacts DEF SetStateInformation
<1>8. CASE GetParameterValue
  BY <1>8 DEF GetParameterValue
<1>9. CASE GetAllParameterValues
  BY <1>9 DEF GetAllParameterValues, Miscount
<1>9a. CASE GetAllParameterValuesEarly
  BY <1>9a DEF GetAllParameterValuesEarly, Miscount
<1>10. CASE CommandFails
  BY <1>10 DEF CommandFails, Fault
<1>11. CASE CommandWithoutSocket
  BY <1>11 DEF CommandWithoutSocket
<1>12. CASE UnloadSkipped
  BY <1>12 DEF UnloadSkipped
<1>13. CASE Unload
  BY <1>13 DEF Unload
<1>14. CASE Delete
  BY <1>14 DEF Delete, Answers, Closed
<1>15. CASE Shutdown
  BY <1>15 DEF Shutdown, Closed
<1>16. CASE Join
  BY <1>16 DEF Join
<1>17. CASE worker # "gone" /\ Check
  BY <1>17 DEF Check
<1>18. CASE worker # "gone" /\ Start
  BY <1>18 DEF Start, StartSandbox
<1>19. CASE worker # "gone" /\ StartFails
  BY <1>19 DEF StartFails, Fault
<1>20. CASE worker # "gone" /\ Connect
  BY <1>20 DEF Connect, ConnectSandbox
<1>21. CASE worker # "gone" /\ ConnectFails
  BY <1>21 DEF ConnectFails, ConnectSandboxFails
<1>22. CASE worker # "gone" /\ Verify
  BY <1>22 DEF Verify
<1>23. CASE worker # "gone" /\ Reload
  BY <1>23, ProcessFacts DEF Reload, Load
<1>24. CASE worker # "gone" /\ ReloadFails
  BY <1>24 DEF ReloadFails, Fault
<1>25. CASE worker # "gone" /\ Tell
  BY <1>25 DEF Tell
<1>26. CASE worker # "gone" /\ Serve
  BY <1>26 DEF Serve
<1>27. CASE Crash
  BY <1>27 DEF Crash, Fault
<1>28. CASE SandboxEnds
  BY <1>28 DEF SandboxEnds
<1>29. CASE AudioFails
  BY <1>29 DEF AudioFails, Fault
<1>30. CASE UNCHANGED vars
  BY <1>30
<1> QED
  BY <1>1, <1>2, <1>3, <1>4, <1>5, <1>6, <1>7, <1>8, <1>9, <1>9a,
     <1>10, <1>11,
     <1>12, <1>13, <1>14, <1>15, <1>16, <1>17, <1>18, <1>19, <1>20, <1>21,
     <1>22, <1>23, <1>24, <1>25, <1>26, <1>27, <1>28, <1>29, <1>30
     DEF Next, Worker, Command, Thread

(* m_lastSettings follows what the server loads and what it is told.       *)
LEMMA RestorableKept == IInv /\ [Next]_vars => Restorable'
<1> SUFFICES ASSUME IInv, [Next]_vars
             PROVE  Restorable'
  OBVIOUS
<1> USE DEF vars, link, known, thread, history, bounds, IInv, TypeOK, Ranges,
            Restorable
<1>1. CASE FirstStart
  BY <1>1 DEF FirstStart, StartSandbox
<1>2. CASE FirstConnect
  BY <1>2 DEF FirstConnect, ConnectSandbox
<1>3. CASE FirstConnectFails
  BY <1>3 DEF FirstConnectFails, ConnectSandboxFails
<1>4. CASE FirstLoad
  BY <1>4 DEF FirstLoad, Load
<1>5. CASE FirstLoadFails
  BY <1>5 DEF FirstLoadFails, Fault
<1>6. CASE GetStateInformation
  BY <1>6 DEF GetStateInformation
<1>7. CASE SetStateInformation
  BY <1>7 DEF SetStateInformation
<1>8. CASE GetParameterValue
  BY <1>8 DEF GetParameterValue
<1>9. CASE GetAllParameterValues
  BY <1>9 DEF GetAllParameterValues, Miscount
<1>9a. CASE GetAllParameterValuesEarly
  BY <1>9a DEF GetAllParameterValuesEarly, Miscount
<1>10. CASE CommandFails
  BY <1>10 DEF CommandFails, Fault
<1>11. CASE CommandWithoutSocket
  BY <1>11 DEF CommandWithoutSocket
<1>12. CASE UnloadSkipped
  BY <1>12 DEF UnloadSkipped
<1>13. CASE Unload
  BY <1>13 DEF Unload
<1>14. CASE Delete
  BY <1>14 DEF Delete, Answers, Closed
<1>15. CASE Shutdown
  BY <1>15 DEF Shutdown, Closed
<1>16. CASE Join
  BY <1>16 DEF Join
<1>17. CASE worker # "gone" /\ Check
  BY <1>17 DEF Check
<1>18. CASE worker # "gone" /\ Start
  BY <1>18 DEF Start, StartSandbox
<1>19. CASE worker # "gone" /\ StartFails
  BY <1>19 DEF StartFails, Fault
<1>20. CASE worker # "gone" /\ Connect
  BY <1>20 DEF Connect, ConnectSandbox
<1>21. CASE worker # "gone" /\ ConnectFails
  BY <1>21 DEF ConnectFails, ConnectSandboxFails
<1>22. CASE worker # "gone" /\ Verify
  BY <1>22 DEF Verify
<1>23. CASE worker # "gone" /\ Reload
  BY <1>23 DEF Reload, Load
<1>24. CASE worker # "gone" /\ ReloadFails
  BY <1>24 DEF ReloadFails, Fault
<1>25. CASE worker # "gone" /\ Tell
  BY <1>25 DEF Tell
<1>26. CASE worker # "gone" /\ Serve
  BY <1>26 DEF Serve
<1>27. CASE Crash
  BY <1>27 DEF Crash, Fault
<1>28. CASE SandboxEnds
  BY <1>28 DEF SandboxEnds
<1>29. CASE AudioFails
  BY <1>29 DEF AudioFails, Fault
<1>30. CASE UNCHANGED vars
  BY <1>30
<1> QED
  BY <1>1, <1>2, <1>3, <1>4, <1>5, <1>6, <1>7, <1>8, <1>9, <1>9a,
     <1>10, <1>11,
     <1>12, <1>13, <1>14, <1>15, <1>16, <1>17, <1>18, <1>19, <1>20, <1>21,
     <1>22, <1>23, <1>24, <1>25, <1>26, <1>27, <1>28, <1>29, <1>30
     DEF Next, Worker, Command, Thread

(* Every step keeps the invariant.                                         *)
LEMMA StepHolds == IInv /\ [Next]_vars => IInv'
<1> SUFFICES ASSUME IInv, [Next]_vars
             PROVE  IInv'
  OBVIOUS
<1>1. TypeOK'
  BY ProcessKept, PlacesKept DEF ProcessOK, PlacesOK, TypeOK
<1> QED
  BY <1>1, RangesKept, PhasesKept, DebtsKept, SocketsKept, JoinKept, ToldKept,
     RestorableKept DEF IInv

LEMMA AlwaysIInv == Spec => []IInv
<1> QED
  BY InitHolds, StepHolds, PTL DEF Spec

-----------------------------------------------------------------------------
(* Sandbox, socket and thread belong together, for any number of           *)
(* instances, edits and faults: every restart has a fault, or a call that  *)
(* expected other answers than came, of its own, no command meets a null   *)
(* socket while the client still tries, and its thread is joined before    *)
(* the client is destroyed.                                                *)
THEOREM SandboxIsOwned == Spec => []SandboxOwned
<1>1. IInv => SandboxOwned
  BY DEF IInv, SandboxOwned, Debts, Sockets, RestartsHaveCauses,
         NullAfterGivingUp
<1> QED
  BY <1>1, AlwaysIInv, PTL

(* The thread that restarts a sandbox loads the plugin with the settings   *)
(* the server knows.                                                       *)
LEMMA ReloadRestores ==
  ASSUME IInv, [Next]_vars, ~sandbox.loaded, sandbox'.loaded, run = "reload", ~raced
  PROVE  sandbox'.settings = saved
<1> USE DEF vars, link, known, thread, history, bounds, IInv, TypeOK, Phases,
            Restorable
<1>1. CASE FirstLoad \/ FirstStart \/ FirstConnect \/ FirstConnectFails
           \/ FirstLoadFails
  BY <1>1 DEF FirstLoad, FirstStart, FirstConnect, FirstConnectFails,
              FirstLoadFails
<1>2. CASE Reload
  <2>1. lastSettings \in Settings /\ lastSettings = saved
    OBVIOUS
  <2> QED
    BY <1>2, <2>1, ProcessFacts DEF Reload, Load
<1>3. CASE Command
  BY <1>3 DEF Command, GetStateInformation, SetStateInformation,
              GetParameterValue, GetAllParameterValues,
              GetAllParameterValuesEarly, CommandFails,
              CommandWithoutSocket
<1>4. CASE UnloadSkipped \/ Unload \/ Delete \/ Join \/ UNCHANGED vars
  BY <1>4 DEF UnloadSkipped, Unload, Delete, Join
<1>5. CASE Shutdown \/ Crash \/ SandboxEnds
  BY <1>5 DEF Shutdown, Crash, SandboxEnds, Down
<1>6. CASE Check \/ Start \/ StartFails \/ Connect \/ ConnectFails \/ Verify
           \/ ReloadFails \/ Tell \/ Serve \/ AudioFails
  BY <1>6 DEF Check, Start, StartFails, Connect, ConnectFails, Verify,
              ReloadFails, Tell, Serve, AudioFails
<1> QED
  BY <1>1, <1>2, <1>3, <1>4, <1>5, <1>6 DEF Next, Worker, Thread

(* Only the thread takes "down" back.                                      *)
LEMMA OkAfterReload ==
  ASSUME IInv, [Next]_vars, told = "down", told' = "ok"
  PROVE  reloaded \/ ~loaded
<1> USE DEF vars, link, known, thread, history, bounds, IInv, Told
<1>1. CASE Tell
  BY <1>1 DEF Tell
<1>2. CASE Worker \/ Command \/ UnloadSkipped \/ Unload
  BY <1>2 DEF Worker, FirstStart, FirstConnect, FirstConnectFails, FirstLoad,
              FirstLoadFails, Delete, Shutdown, Join, Command,
              GetStateInformation, SetStateInformation, GetParameterValue,
              GetAllParameterValues,
              GetAllParameterValuesEarly, CommandFails, CommandWithoutSocket,
              UnloadSkipped, Unload
<1>3. CASE Check \/ Start \/ StartFails \/ Connect \/ ConnectFails \/ Verify
           \/ Reload \/ ReloadFails \/ Serve
  BY <1>3 DEF Check, Start, StartFails, Connect, ConnectFails, Verify, Reload,
              ReloadFails, Serve
<1>4. CASE Crash \/ SandboxEnds \/ AudioFails \/ UNCHANGED vars
  BY <1>4 DEF Crash, SandboxEnds, AudioFails
<1> QED
  BY <1>1, <1>2, <1>3, <1>4 DEF Next, Thread

(* A plugin that crashed is as it was when its sandbox is restarted, and   *)
(* the client of the session is told that it works again only afterwards.  *)
THEOREM ReturnsAsItWas == Spec => ComesBackAsItWas
<1>1. IInv /\ [Next]_vars =>
        [~sandbox.loaded /\ sandbox'.loaded /\ run = "reload" /\ ~raced =>
           sandbox'.settings = saved]_vars
  BY ReloadRestores
<1>2. IInv /\ [Next]_vars =>
        [told = "down" /\ told' = "ok" => reloaded \/ ~loaded]_vars
  BY OkAfterReload
<1> QED
  BY <1>1, <1>2, AlwaysIInv, PTL
     DEF Spec, ComesBackAsItWas, RestoresSettings, OkMeansReloaded
=============================================================================
