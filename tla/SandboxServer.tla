---------------------------- MODULE SandboxServer ----------------------------
(***************************************************************************)
(* Chain isolation: a server that starts a sandbox process for each client *)
(* (Server/Source/Server.cpp runServer(), runSandboxChain(); Sandbox.cpp). *)
(* The server thread accepts a client, launches the process, installs the  *)
(* callback that answers the client, sends the configuration and enters    *)
(* the sandbox into m_sandboxes.  Messages and the loss of a sandbox are   *)
(* handled on the thread of its connection, between any two of these       *)
(* steps, and the SandboxDeleter kills what was taken out of m_sandboxes.  *)
(*                                                                         *)
(* A sandbox tells the server before it shows an editor, and the server    *)
(* asks the sandbox that has the screen to hide its own.                   *)
(*                                                                         *)
(* Clients and sandboxes are numbers; 0 is nullptr or none.                *)
(***************************************************************************)
EXTENDS Naturals, Sequences, Functions

CONSTANTS
  Clients,     (* Number of clients.                                       *)
  MaxLaunches, (* Bound on processes that are started.                     *)
  MaxEdits,    (* Bound on editors that are opened or hidden.              *)
  MaxCrashes   (* Bound on processes that crash.                           *)

ASSUME ServerBounds ==
  /\ Clients \in Nat \ {0} /\ MaxLaunches \in Nat \ {0}
  /\ MaxEdits \in Nat /\ MaxCrashes \in Nat

VARIABLES
  client,    (* The sandbox each client is connected to, waits for, or 0.  *)
  server,    (* The server thread: its step and the sandbox it launches.   *)
  entries,   (* m_sandboxes: a function of ids to sandboxes or nullptr.    *)
  deleting,  (* SandboxDeleter::sandboxes                                  *)
  hasScreen, (* m_sandboxHasScreen                                         *)
  master,    (* SandboxMaster of each sandbox: its id, onPortReceived,     *)
             (* the socket of its client, m_terminated, if it was lost.    *)
  process,   (* Process of each sandbox: its state, m_sandboxReady, the    *)
             (* step of an EditPlugin, m_activeEditorIdx, its window.      *)
  up, down   (* Messages of a sandbox to the server and back.              *)

(* History.                                                                *)
VARIABLES
  early,     (* Sandboxes that were lost, or told their port, too early.   *)
  missed,    (* Sandboxes that a request to hide their editor missed.      *)
  launches, edits, crashes

bounds == <<launches, edits, crashes>>
vars == <<client, server, entries, deleting, hasScreen, master, process, up,
          down, early, missed, bounds>>

Sandboxes == 1..MaxLaunches
NoId == <<0, 0>>
Unused == [id |-> NoId, callback |-> FALSE, socket |-> "none",
           terminated |-> FALSE, lost |-> FALSE]
NoProcess == [state |-> "none", ready |-> FALSE, edit |-> "idle",
              active |-> FALSE, window |-> FALSE]

Init ==
  /\ client = [c \in 1..Clients |-> 0]
  /\ server = [step |-> "accept", launched |-> 0]
  /\ entries = <<>> /\ deleting = {} /\ hasScreen = NoId
  /\ master = [s \in Sandboxes |-> Unused]
  /\ process = [s \in Sandboxes |-> NoProcess]
  /\ up = [s \in Sandboxes |-> <<>>] /\ down = [s \in Sandboxes |-> <<>>]
  /\ early = {} /\ missed = {}
  /\ launches = 0 /\ edits = 0 /\ crashes = 0

Exit(s, state) ==
  process' = [process EXCEPT ![s] = [NoProcess EXCEPT !.state = state]]
Alive(s) == process[s].state \in {"init", "wait", "run"}
Stopping == server.step \in {"stopped", "down", "crashed"}
Running == server.step \notin {"down", "crashed"}

-----------------------------------------------------------------------------
(* Plausible mistakes.  Each of these operators is what a bug would make   *)
(* of the operator it is named after; no action uses them.                 *)

(* The callback answers only when the sandbox is in the map already.       *)
Answers_Entered(s) == master[s].callback /\ master[s].id \in DOMAIN entries

(* A sandbox that is terminated stays in the map.                          *)
Without_Keep(id) == entries

(* A worker waits for its client as long as it takes.                      *)
ClientGone_Came(s) == client[master[s].id[1]] # s /\ master[s].socket = "done"

(* The owner of the screen is replaced before it is asked to hide.         *)
Displaced_After(s) == master[s].id

-----------------------------------------------------------------------------
(* The server thread.                                                      *)

At(step) == server.step = step

(* The smallest number that no sandbox of the client has.                  *)
FreeId(c) ==
  CHOOSE id \in {<<c, n>> : n \in 0..MaxLaunches} :
    /\ id \notin DOMAIN entries
    /\ \A n \in 0..id[2] : n < id[2] => <<c, n>> \in DOMAIN entries

(* A client connects; launchWorkerProcess() starts the sandbox.            *)
Launch(c) ==
  LET s == launches + 1 IN
    /\ At("accept") /\ client[c] = 0 /\ launches < MaxLaunches
    /\ launches' = s
    /\ client' = [client EXCEPT ![c] = s]
    /\ master' = [master EXCEPT ![s] = [Unused EXCEPT !.id = FreeId(c),
                                                      !.socket = "open"]]
    /\ process' = [process EXCEPT ![s].state = "init"]
    /\ server' = [step |-> "launched", launched |-> s]
    /\ UNCHANGED <<entries, deleting, hasScreen, up, down, early, missed, edits,
                   crashes>>

(* It fails: nothing answers the client and nothing closes its socket.     *)
LaunchFails(c) ==
  LET s == launches + 1 IN
    /\ At("accept") /\ client[c] = 0 /\ launches < MaxLaunches
    /\ crashes < MaxCrashes
    /\ launches' = s /\ crashes' = crashes + 1
    /\ client' = [client EXCEPT ![c] = s]
    /\ master' = [master EXCEPT ![s] = [Unused EXCEPT !.socket = "open",
                                                      !.terminated = TRUE]]
    /\ Exit(s, "crashed")
    /\ UNCHANGED <<server, entries, deleting, hasScreen, up, down, early, missed,
                   edits>>

SetCallback ==
  /\ At("launched")
  /\ master' = [master EXCEPT ![server.launched].callback = TRUE]
  /\ server' = [server EXCEPT !.step = "configure"]
  /\ UNCHANGED <<client, entries, deleting, hasScreen, process, up, down, early,
                 missed, bounds>>

(* A configuration that cannot be sent: the SandboxMaster goes out of      *)
(* scope, which kills the process.                                         *)
Configure ==
  LET s == server.launched IN
    /\ At("configure")
    /\ IF Alive(s)
         THEN /\ down' = [down EXCEPT ![s] = Append(@, "CONFIG")]
              /\ server' = [server EXCEPT !.step = "insert"]
              /\ UNCHANGED master
         ELSE /\ master' = [master EXCEPT ![s].terminated = TRUE]
              /\ server' = [step |-> "accept", launched |-> 0]
              /\ UNCHANGED down
    /\ UNCHANGED <<client, entries, deleting, hasScreen, process, up, early,
                   missed, bounds>>

With(id, s) ==
  [e \in DOMAIN entries \cup {id} |-> IF e = id THEN s ELSE entries[e]]

Insert ==
  LET s == server.launched IN
    /\ At("insert")
    /\ entries' = With(master[s].id, s)
    /\ server' = [step |-> "accept", launched |-> 0]
    /\ UNCHANGED <<client, deleting, hasScreen, master, process, up, down, early,
                   missed, bounds>>

(* The end of runServer(): all sandboxes go to the deleter, which ends     *)
(* after it killed them.  There is no test for a nullptr in the map.       *)
Stop ==
  LET left == {entries[id] : id \in DOMAIN entries} IN
    /\ At("accept")
    /\ IF 0 \in left
         THEN server' = [server EXCEPT !.step = "crashed"]
         ELSE server' = [server EXCEPT !.step = "stopped"]
    /\ master' = [s \in Sandboxes |->
                    IF s \in left THEN [master[s] EXCEPT !.terminated = TRUE]
                                  ELSE master[s]]
    /\ deleting' = deleting \cup (left \ {0})
    /\ entries' = <<>>
    /\ UNCHANGED <<client, hasScreen, process, up, down, early, missed, bounds>>

Down ==
  /\ At("stopped") /\ deleting = {}
  /\ server' = [server EXCEPT !.step = "down"]
  /\ UNCHANGED <<client, entries, deleting, hasScreen, master, process, up, down,
                 early, missed, bounds>>

(* SandboxDeleter::clear(): killWorkerProcess().                           *)
Kill(s) ==
  /\ Running
  /\ s \in deleting
  /\ deleting' = deleting \ {s}
  /\ Exit(s, IF Alive(s) THEN "ended" ELSE process[s].state)
  /\ UNCHANGED <<client, server, entries, hasScreen, master, up, down, early,
                 missed, bounds>>

-----------------------------------------------------------------------------
(* The thread of a sandbox's connection in the server.                     *)

Handler(s) == Running /\ ~master[s].terminated /\ ~master[s].lost

Without(id) == Restrict(entries, DOMAIN entries \ {id})

GiveToDeleter(s) == deleting' = deleting \cup {s}

Terminated(m, s) == [m EXCEPT ![s].terminated = TRUE]

(* getAndRemove(), terminate() and SandboxDeleter::add(), with m being the *)
(* masters otherwise.  The entry may be a nullptr.                         *)
Remove(id, m) ==
  IF id \notin DOMAIN entries
    THEN master' = m /\ UNCHANGED <<entries, deleting, server>>
  ELSE IF entries[id] = 0
    THEN /\ server' = [server EXCEPT !.step = "crashed"]
         /\ master' = m
         /\ UNCHANGED <<entries, deleting>>
  ELSE /\ entries' = Without(id)
       /\ GiveToDeleter(entries[id])
       /\ master' = Terminated(m, entries[id])
       /\ UNCHANGED server

Receive(s, type) ==
  /\ Handler(s)
  /\ up[s] # <<>> /\ Head(up[s]) = type
  /\ up' = [up EXCEPT ![s] = Tail(@)]

Answers(s) == master[s].callback

(* The port: onPortReceived answers the client, if it is set by then and   *)
(* the client still waits.  A send may go through even if it does not.     *)
ReceivePort(s) ==
  /\ Receive(s, "PORT")
  /\ LET answered == [master EXCEPT ![s].socket = "done"] IN
       IF ~Answers(s)
         THEN /\ early' = IF master[s].callback THEN early ELSE early \cup {s}
              /\ UNCHANGED <<master, entries, deleting, server>>
       ELSE /\ UNCHANGED early
            /\ \/ /\ master' = answered
                  /\ UNCHANGED <<entries, deleting, server>>
               \/ /\ master[s].socket = "closed"
                  /\ Remove(master[s].id, answered)
  /\ UNCHANGED <<client, hasScreen, process, down, missed, bounds>>

Displaced(s) == hasScreen

Entered(id) == id \in DOMAIN entries /\ entries[id] # 0

(* m_sandboxes[...] makes a nullptr for an id that is not in the map, and  *)
(* a sandbox that is not in the map yet is not asked, also when its id has *)
(* such a nullptr already.                                                 *)
ReceiveShow(s) ==
  LET other == Displaced(s) IN
    /\ Receive(s, "SHOW")
    /\ hasScreen' = master[s].id
    /\ IF other \in {NoId, master[s].id}
         THEN UNCHANGED <<entries, down, missed>>
       ELSE IF Entered(other)
         THEN /\ down' = [down EXCEPT ![entries[other]] = Append(@, "HIDE")]
              /\ UNCHANGED <<entries, missed>>
       ELSE /\ entries' = With(other, 0)
            /\ missed' = missed \cup {t \in Sandboxes : master[t].id = other}
            /\ UNCHANGED down
    /\ UNCHANGED <<client, server, deleting, master, process, early, bounds>>

ReceiveHide(s) ==
  /\ Receive(s, "HIDE")
  /\ hasScreen' = IF hasScreen = master[s].id THEN NoId ELSE hasScreen
  /\ UNCHANGED <<client, server, entries, deleting, master, process, down, early,
                 missed, bounds>>

(* handleDisconnectFromSandbox()                                           *)
Lost(s) ==
  /\ Handler(s) /\ s <= launches
  /\ ~Alive(s) /\ up[s] = <<>>
  /\ Remove(master[s].id, [master EXCEPT ![s].lost = TRUE])
  /\ early' = IF server.launched = s THEN early \cup {s} ELSE early
  /\ UNCHANGED <<client, hasScreen, process, up, down, missed, bounds>>

-----------------------------------------------------------------------------
(* The sandbox process.                                                    *)

Connected(s) == Running /\ ~(master[s].terminated /\ s \notin deleting)

Tell(s, type) == up' = [up EXCEPT ![s] = Append(@, type)]

(* It is connected to the server and tells its port.                       *)
TellPort(s) ==
  /\ process[s].state = "init" /\ Connected(s)
  /\ process' = [process EXCEPT ![s].state = "wait"]
  /\ Tell(s, "PORT")
  /\ UNCHANGED <<client, server, entries, deleting, hasScreen, master, down,
                 early, missed, bounds>>

(* Its connection thread: handleMessageFromMaster(), CONFIG.               *)
ReceiveConfig(s) ==
  /\ Alive(s)
  /\ down[s] # <<>> /\ Head(down[s]) = "CONFIG"
  /\ down' = [down EXCEPT ![s] = Tail(@)]
  /\ process' = [process EXCEPT ![s].ready = TRUE]
  /\ UNCHANGED <<client, server, entries, deleting, hasScreen, master, up, early,
                 missed, bounds>>

StartWorker(s) ==
  /\ process[s].state = "wait" /\ process[s].ready
  /\ process' = [process EXCEPT ![s].state = "run"]
  /\ UNCHANGED <<client, server, entries, deleting, hasScreen, master, up, down,
                 early, missed, bounds>>

(* The client uses its worker.                                             *)
Serves(s) ==
  /\ process[s].state = "run"
  /\ master[s].socket = "done"
  /\ client[master[s].id[1]] = s

(* handleMessage(EditPlugin): sandboxShowEditor(), which blocks.            *)
EditPlugin(s) ==
  /\ Serves(s)
  /\ process[s].edit = "idle" /\ edits < MaxEdits
  /\ edits' = edits + 1
  /\ Tell(s, "SHOW")
  /\ process' = [process EXCEPT ![s].edit = "told"]
  /\ missed' = missed \ {s}
  /\ UNCHANGED <<client, server, entries, deleting, hasScreen, master, down,
                 early, launches, crashes>>

(* The rest of it: showEditor(), then m_activeEditorIdx = idx.             *)
ShowEditor(s) ==
  /\ \/ /\ process[s].edit = "told"
        /\ process' = [process EXCEPT
                         ![s] = [@ EXCEPT !.edit = "shown", !.window = TRUE]]
     \/ /\ process[s].edit = "shown"
        /\ process' = [process EXCEPT
                         ![s] = [@ EXCEPT !.edit = "idle", !.active = TRUE]]
  /\ UNCHANGED <<client, server, entries, deleting, hasScreen, master, up, down,
                 early, missed, bounds>>

(* handleMessage(HidePlugin) of the client.                                *)
HidePlugin(s) ==
  /\ Serves(s)
  /\ process[s].edit = "idle" /\ process[s].active /\ edits < MaxEdits
  /\ edits' = edits + 1
  /\ Tell(s, "HIDE")
  /\ process' = [process EXCEPT
                   ![s] = [@ EXCEPT !.active = FALSE, !.window = FALSE]]
  /\ UNCHANGED <<client, server, entries, deleting, hasScreen, master, down,
                 early, missed, launches, crashes>>

(* HIDE_EDITOR of the server, on the connection thread, calls the handler  *)
(* of the worker, which ignores it without an active editor.               *)
HideForOther(s) ==
  LET p == process[s] IN
    /\ Alive(s)
    /\ down[s] # <<>> /\ Head(down[s]) = "HIDE"
    /\ down' = [down EXCEPT ![s] = Tail(@)]
    /\ process' = [process EXCEPT
                     ![s] = [p EXCEPT !.active = FALSE,
                                      !.window = p.window /\ ~p.active]]
    /\ missed' = IF p.edit = "told" \/ (p.edit = "shown" /\ ~p.active)
                   THEN missed \cup {s} ELSE missed
    /\ UNCHANGED <<client, server, entries, deleting, hasScreen, master, up,
                   early, bounds>>

(* It never connects to a worker whose port it was not told.               *)
ClientGone(s) ==
  client[master[s].id[1]] # s \/ (master[s].socket = "open" /\ up[s] = <<>>)

(* The worker ends when its client is gone or did not come within 5 s,     *)
(* which is longer than a message takes; its editor is hidden without a    *)
(* word to the server.                                                     *)
WorkerEnds(s) ==
  /\ process[s].state = "run" /\ process[s].edit = "idle"
  /\ ClientGone(s)
  /\ Exit(s, "ended")
  /\ UNCHANGED <<client, server, entries, deleting, hasScreen, master, up, down,
                 early, missed, bounds>>

(* handleDisconnectedFromMaster(), or no connection within 60 s.           *)
LosesServer(s) ==
  /\ Alive(s) /\ ~Connected(s)
  /\ Exit(s, "ended")
  /\ UNCHANGED <<client, server, entries, deleting, hasScreen, master, up, down,
                 early, missed, bounds>>

Crash(s) ==
  /\ Alive(s) /\ crashes < MaxCrashes
  /\ crashes' = crashes + 1
  /\ Exit(s, "crashed")
  /\ UNCHANGED <<client, server, entries, deleting, hasScreen, master, up, down,
                 early, missed, launches, edits>>

-----------------------------------------------------------------------------
(* A client gives up waiting, or leaves.                                   *)
Leave(c) ==
  LET s == client[c] IN
    /\ s > 0
    /\ client' = [client EXCEPT ![c] = 0]
    /\ master' = [master EXCEPT
                    ![s].socket = IF @ = "open" THEN "closed" ELSE @]
    /\ UNCHANGED <<server, entries, deleting, hasScreen, process, up, down, early,
                   missed, bounds>>

ServerThread ==
  SetCallback \/ Configure \/ Insert \/ Down

Connection(s) == ReceivePort(s) \/ ReceiveShow(s) \/ ReceiveHide(s) \/ Lost(s)

Process(s) ==
  \/ TellPort(s) \/ ReceiveConfig(s) \/ StartWorker(s) \/ ShowEditor(s)
  \/ HideForOther(s) \/ WorkerEnds(s) \/ LosesServer(s)

Next ==
  \/ ServerThread \/ Stop
  \/ \E c \in 1..Clients : Launch(c) \/ LaunchFails(c) \/ Leave(c)
  \/ \E s \in Sandboxes : \/ Kill(s) \/ Connection(s) \/ Process(s)
                          \/ EditPlugin(s) \/ HidePlugin(s) \/ Crash(s)

Spec == Init /\ [][Next]_vars

FairSpec ==
  /\ Spec
  /\ WF_vars(ServerThread)
  /\ \A s \in Sandboxes :
       /\ WF_vars(Kill(s)) /\ WF_vars(Connection(s)) /\ WF_vars(Process(s))

-----------------------------------------------------------------------------
(* Properties.                                                             *)

(* What the map holds was launched, and what the deleter holds was told    *)
(* that it is terminated before.                                           *)
TypeOK ==
  /\ client \in [1..Clients -> 0..launches]
  /\ server.step \in {"accept", "launched", "configure", "insert", "stopped",
                      "down", "crashed"}
  /\ \A id \in DOMAIN entries : entries[id] \in 0..launches
  /\ \A s \in deleting : master[s].terminated
  /\ hasScreen \in (1..Clients) \X (0..MaxLaunches) \cup {NoId}
  /\ \A s \in Sandboxes :
       /\ up[s] \in Seq({"PORT", "SHOW", "HIDE"})
       /\ down[s] \in Seq({"CONFIG", "HIDE"})
       /\ process[s].active => Alive(s)

(* Two sandboxes the server talks to have different ids, also when one of  *)
(* them is not in m_sandboxes yet or never will be.                        *)
LiveIdsUnique ==
  \A s, t \in 1..launches :
    master[s].id = master[t].id /\ ~master[s].terminated /\ ~master[t].terminated
      => s = t

(* An entry of m_sandboxes is neither terminated nor lost, unless it was   *)
(* lost before it was entered.                                             *)
EntriesAlive ==
  \A id \in DOMAIN entries :
    LET s == entries[id] IN
      s > 0 => /\ ~master[s].terminated /\ master[s].id = id
               /\ master[s].lost => s \in early

(* When nothing is under way, only the sandbox that has the screen shows   *)
(* an editor, unless the request to hide one came before it was shown, or  *)
(* before its sandbox was in m_sandboxes.                                  *)
OneEditor ==
  (/\ Running
   /\ \A s \in Sandboxes :
        up[s] = <<>> /\ down[s] = <<>> /\ process[s].edit = "idle")
  => \A s \in Sandboxes :
       process[s].window /\ ~master[s].terminated =>
         hasScreen = master[s].id \/ s \in missed

(* The server shuts down without the nullptr that the stale id of a        *)
(* sandbox with the screen leaves in m_sandboxes.                          *)
ShutsDown == server.step # "crashed"

(* A client that waits for the port gets it, unless it gives up, the       *)
(* sandbox crashes, or its message came before onPortReceived was set.     *)
ClientAnswered ==
  \A s \in Sandboxes :
    master[s].socket = "open" ~>
      \/ master[s].socket # "open" \/ s \in early
      \/ process[s].state = "crashed" \/ Stopping

(* A sandbox whose client is gone, that was terminated, or whose server    *)
(* ended, ends.                                                            *)
NoOrphan ==
  \A s \in Sandboxes :
    (/\ Alive(s)
     /\ client[master[s].id[1]] # s \/ master[s].terminated \/ ~Running)
    ~> ~Alive(s)

(* m_sandboxes tracks the sandboxes: an id leads to the one live sandbox   *)
(* that has it, and what was terminated is with the deleter.               *)
MapTracksSandboxes == TypeOK /\ LiveIdsUnique /\ EntriesAlive
=============================================================================
