---------------------------- MODULE PluginIndexes ----------------------------
(***************************************************************************)
(* Plugins named by their position: everything that outlives a change of   *)
(* the list.  The client keeps m_activePlugin and, for each automation     *)
(* slot, the m_idx of a Parameter (Plugin/Source/PluginProcessor.cpp); the *)
(* server keeps a chain index in each processor, the index of the edited   *)
(* plugin and the one that the callback of its window was made with        *)
(* (Server/Source/ProcessorChain.cpp, Worker.cpp, ScreenWorker.cpp).       *)
(* Requests go one way and notifications the other, each in order, and     *)
(* the client applies most notifications in functors of its message        *)
(* thread, so an index may be read long after it was written.              *)
(*                                                                         *)
(* A plugin has one parameter, and values are left out: what matters is    *)
(* which plugin a value arrives at.  The editor of the client is open.     *)
(* Positions start at 1, and 0 stands for the index -1.                    *)
(***************************************************************************)
EXTENDS Naturals, Sequences, SequencesExt

CONSTANTS
  Plugins,     (* Number of plugins that are loaded at first.              *)
  Slots,       (* m_numberOfAutomationSlots                                *)
  MaxEdits,    (* Bound on calls of the user and the host.                 *)
  MaxNotes,    (* Bound on what the plugins notify of.                     *)
  MaxSessions  (* Bound on reconnects.                                     *)

ASSUME IndexBounds ==
  /\ Plugins \in Nat \ {0} /\ Slots \in Nat \ {0}
  /\ MaxEdits \in Nat /\ MaxNotes \in Nat /\ MaxSessions \in Nat

VARIABLES
  list,      (* m_loadedPlugins: plugin, automationSlot of its parameter, ok. *)
  param,     (* The m_idx of the Parameter of each slot.                   *)
  active,    (* m_activePlugin                                             *)
  unloading, (* The index unloadPlugin() waits for the server with, or 0.  *)
  functors,  (* Functors posted to the message thread.                     *)
  requests,  (* Messages to the worker.                                    *)
  notes,     (* Messages of the worker, on m_cmdOut.                       *)
  chain,     (* The processors: plugin, m_chainIdx.                        *)
  editor,    (* m_activeEditorIdx                                          *)
  window     (* The plugin on the screen, and the index its onHide has.    *)

(* History.                                                                *)
VARIABLES
  loads,     (* Plugins loaded so far; each has its number for a name.     *)
  clientVer, (* Changes made to the list,                                  *)
  serverVer, (* and to the chain.                                          *)
  activeId,  (* The plugin whose editor the client asked for.              *)
  moved,     (* It changed its place or the session since then, or the     *)
             (* window that was closed had been opened before it moved.    *)
  stale,     (* Automated plugins moved up behind an unloaded one, or a    *)
             (* closure of a connection met a changed list.                *)
  wrong,     (* Values that came to another plugin than they were meant    *)
             (* for, and why they may have.                                *)
  edits, notices, sessions

clientSide == <<list, param, active, unloading>>
server == <<chain, editor, window>>
counters == <<loads, edits, notices, sessions>>
indexVars == <<clientSide, functors, requests, notes, server, clientVer,
               serverVer, activeId, moved, stale, wrong, counters>>

Loaded(id) == [id |-> id, slot |-> 0, ok |-> TRUE]
Processor(id, idx) == [id |-> id, idx |-> idx, behind |-> FALSE]
NoWindow == [id |-> 0, idx |-> 0]

IndexesInit ==
  /\ list = [i \in 1..Plugins |-> Loaded(i)]
  /\ param = [s \in 1..Slots |-> 0]
  /\ active = 0 /\ unloading = 0
  /\ functors = <<>> /\ requests = <<>> /\ notes = <<>>
  /\ chain = [i \in 1..Plugins |-> Processor(i, i)]
  /\ editor = 0 /\ window = NoWindow
  /\ loads = Plugins /\ clientVer = 0 /\ serverVer = 0
  /\ activeId = 0 /\ moved = FALSE /\ stale = FALSE /\ wrong = {}
  /\ edits = 0 /\ notices = 0 /\ sessions = 0

Swapped(f, a, b) == [f EXCEPT ![a] = f[b], ![b] = f[a]]

-----------------------------------------------------------------------------
(* Plausible mistakes.  Each of these operators is what a bug would make   *)
(* of the operator it is named after; no action uses them.                 *)

(* The active plugin in front of the unloaded one is renumbered too.       *)
AfterUnload_Always(i, idx) == IF i = idx \/ i = 0 THEN 0 ELSE i - 1

(* The processors keep their chain indexes when they are exchanged.        *)
ExchangeProcessors_KeepIdx(a, b) ==
  chain' = IF {a, b} \subseteq DOMAIN chain THEN Swapped(chain, a, b) ELSE chain

(* The window that is shown is recognised by the index it was made with.   *)
AlreadyShown_Index(i) == window.idx = i

-----------------------------------------------------------------------------
Exchanged(i, a, b) == CASE i = a -> b [] i = b -> a [] OTHER -> i

(* The index of the active plugin after the one at idx was unloaded.       *)
AfterUnload(i, idx) == CASE i = idx -> 0 [] idx < i -> i - 1 [] OTHER -> i

-----------------------------------------------------------------------------
(* The message thread of the client.                                       *)

Free == unloading = 0

Call == /\ Free
        /\ edits < MaxEdits
        /\ edits' = edits + 1

Ask(msgs) == requests' = requests \o msgs

(* PluginEditor::editPlugin() and PluginProcessor::editPlugin().           *)
Edited(i, plugin) ==
  /\ active' = i
  /\ activeId' = IF plugin.ok THEN plugin.id ELSE 0
  /\ moved' = FALSE

EditRequest(i, plugin) ==
  IF plugin.ok THEN <<[type |-> "Edit", a |-> i, b |-> 0, id |-> plugin.id,
                       ver |-> clientVer, stale |-> stale]>>
               ELSE <<>>

EditPlugin(i) ==
  /\ Call
  /\ Edited(i, list[i])
  /\ Ask(EditRequest(i, list[i]))
  /\ UNCHANGED <<list, param, unloading, functors, notes, server, clientVer,
                 serverVer, stale, wrong, loads, notices, sessions>>

HidePlugin ==
  /\ Call
  /\ active > 0
  /\ active' = 0 /\ activeId' = 0
  /\ Ask(<<[type |-> "Hide", a |-> 0, b |-> 0, id |-> 0, ver |-> clientVer,
             stale |-> stale]>>)
  /\ UNCHANGED <<list, param, unloading, functors, notes, server, clientVer,
                 serverVer, moved, stale, wrong, loads, notices, sessions>>

(* moveUpFn and moveDownFn, exchangePlugins().                             *)
ExchangePlugins(a, b) ==
  /\ Call
  /\ Ask(<<[type |-> "Exchange", a |-> a, b |-> b, id |-> 0, ver |-> clientVer,
             stale |-> stale]>>)
  /\ list' = Swapped(list, a, b)
  /\ param' = [s \in 1..Slots |-> Exchanged(param[s], a, b)]
  /\ active' = Exchanged(active, a, b)
  /\ clientVer' = clientVer + 1
  /\ moved' = (moved \/ active \in {a, b})
  /\ UNCHANGED <<unloading, functors, notes, server, serverVer, activeId,
                 stale, wrong, loads, notices, sessions>>

(* loadPlugin() waits for the worker, which has handled all requests then. *)
LoadPlugin ==
  /\ Call
  /\ requests = <<>>
  /\ loads' = loads + 1
  /\ chain' = Append(chain, Processor(loads + 1, Len(chain) + 1))
  /\ list' = Append(list, Loaded(loads + 1))
  /\ UNCHANGED <<param, active, unloading, functors, requests, notes, editor,
                 window, clientVer, serverVer, activeId, moved, stale, wrong,
                 notices, sessions>>

(* The automated parameters and their slots.                               *)
Automated == {[i |-> i, s |-> list[i].slot] :
                i \in {j \in DOMAIN list : list[j].slot > 0}}

(* disableParamAutomation()                                                *)
Released(i) ==
  IF list[i].slot = 0 THEN param ELSE [param EXCEPT ![list[i].slot] = 0]

(* unloadPlugin() up to delPlugin().                                       *)
UnloadPlugin(i) ==
  /\ Call
  /\ param' = Released(i)
  /\ list' = [list EXCEPT ![i].slot = 0]
  /\ Ask(<<[type |-> "Del", a |-> i, b |-> 0, id |-> 0, ver |-> clientVer,
             stale |-> stale]>>)
  /\ unloading' = i
  /\ UNCHANGED <<active, functors, notes, server, clientVer, serverVer,
                 activeId, moved, stale, wrong, loads, notices, sessions>>

(* The result of DelPlugin: the rest of unloadPlugin(), and deleteFn of    *)
(* the editor, which shows the plugin that took the place.                 *)
ErasePlugin ==
  LET i == unloading
      rest == RemoveAt(list, i)
      next == IF active # i \/ rest = <<>> THEN 0
              ELSE IF i > Len(rest) THEN Len(rest) ELSE i IN
    /\ i > 0
    /\ requests = <<>>
    /\ list' = rest
    /\ unloading' = 0
    /\ clientVer' = clientVer + 1
    /\ stale' = (stale \/ \E s \in 1..Slots : param[s] > i)
    /\ IF next > 0 /\ rest[next].ok
         THEN /\ Edited(next, rest[next])
              /\ requests' = <<[EditRequest(next, rest[next])[1]
                                  EXCEPT !.ver = clientVer + 1]>>
         ELSE /\ active' = AfterUnload(active, i)
              /\ activeId' = IF active = i THEN 0 ELSE activeId
              /\ moved' = (moved \/ i <= active)
              /\ UNCHANGED requests
    /\ UNCHANGED <<param, functors, notes, server, serverVer, wrong, counters>>

Take(s, i) ==
  /\ param' = [param EXCEPT ![s] = i]
  /\ list' = [list EXCEPT ![i].slot = s]

(* enableParamAutomation() takes the first slot that is free, if any.      *)
EnableAutomation(i) ==
  /\ Call
  /\ list[i].slot = 0
  /\ \E s \in 1..Slots :
       /\ param[s] = 0
       /\ \A r \in 1..s - 1 : param[r] # 0
       /\ Take(s, i)
  /\ UNCHANGED <<active, unloading, functors, requests, notes, server,
                 clientVer, serverVer, activeId, moved, stale, wrong, loads,
                 notices, sessions>>

DisableAutomation(i) ==
  /\ Call
  /\ list[i].slot > 0
  /\ param' = Released(i)
  /\ list' = [list EXCEPT ![i].slot = 0]
  /\ UNCHANGED <<active, unloading, functors, requests, notes, server,
                 clientVer, serverVer, activeId, moved, stale, wrong, loads,
                 notices, sessions>>

Post(f) == functors' = Append(functors, f)

(* was is the plugin that the slot of a "set" had when it was posted.      *)
Functor(type, idx, id, from) ==
  [type |-> type, idx |-> idx, id |-> id,
   ver |-> from.ver, stale |-> from.stale,
   was |-> IF type = "set" THEN param[idx] ELSE 0]

(* The generic editor changes a value: updateParameterValue().             *)
ChangeValue(i) ==
  /\ Call
  /\ Post(Functor("update", i, list[i].id,
                  [ver |-> clientVer, stale |-> stale]))
  /\ UNCHANGED <<clientSide, requests, notes, server, clientVer, serverVer,
                 activeId, moved, stale, wrong, loads, notices, sessions>>

-----------------------------------------------------------------------------
(* The functors.                                                           *)

(* A value that plugin id was to get goes to the one called got; the       *)
(* indexes were read when the list, or the chain, was at version ver.      *)
Arrives(id, got, f, ver) ==
  wrong' = IF got = id THEN wrong
           ELSE wrong \cup {[crossed |-> f.ver # ver, stale |-> f.stale]}

Handled == functors' = Tail(functors)

OutOfRange(f) == f.idx \notin DOMAIN list

(* Functors of updateParameterValue() that find no such plugin.            *)
SkipUpdate ==
  /\ Free
  /\ functors # <<>>
  /\ LET f == Head(functors) IN
       f.type \in {"value", "update"} /\ OutOfRange(f)
  /\ Handled
  /\ UNCHANGED <<clientSide, requests, notes, server, clientVer, serverVer,
                 activeId, moved, stale, wrong, counters>>

SetRequest(idx, f) ==
  [type |-> "Set", a |-> idx, b |-> 0, id |-> f.id, ver |-> f.ver,
   stale |-> f.stale]

(* A value of the server or of the generic editor.  The parameter of a     *)
(* slot is set, which posts the request; without a slot it is sent now if  *)
(* the server does not know it.                                            *)
UpdateValue ==
  /\ Free
  /\ functors # <<>>
  /\ LET f == Head(functors)
         s == list[f.idx].slot
         set == s > 0 /\ param[s] > 0 /\ param[s] <= Len(list)
         now == [ver |-> f.ver, stale |-> f.stale \/ stale] IN
       /\ f.type \in {"value", "update"}
       /\ ~OutOfRange(f)
       /\ Arrives(f.id, list[f.idx].id, f, clientVer)
       /\ functors' = Tail(functors) \o
            (IF set THEN <<Functor("set", s, f.id, now)>> ELSE <<>>)
       /\ IF s = 0 /\ f.type = "update" THEN Ask(<<SetRequest(f.idx, f)>>)
                                        ELSE UNCHANGED requests
  /\ UNCHANGED <<clientSide, notes, server, clientVer, serverVer, activeId,
                 moved, stale, counters>>

(* The functor of Parameter::setValue() reads m_idx now.                   *)
SetValue ==
  /\ Free
  /\ functors # <<>>
  /\ Head(functors).type = "set"
  /\ Handled
  /\ LET f == Head(functors) IN
       Ask(<<SetRequest(param[f.idx],
                         [f EXCEPT !.stale = \/ f.stale \/ stale
                                             \/ param[f.idx] # f.was])>>)
  /\ UNCHANGED <<clientSide, notes, server, clientVer, serverVer, activeId,
                 moved, stale, wrong, counters>>

(* hidePluginFromServer()                                                  *)
HideFromServer ==
  /\ Free
  /\ functors # <<>>
  /\ Head(functors).type = "hide"
  /\ Handled
  /\ active' = 0 /\ activeId' = 0
  /\ UNCHANGED <<list, param, unloading, requests, notes, server, clientVer,
                 serverVer, moved, stale, wrong, counters>>

(* The functor of the on-connect callback: the slots it collected are      *)
(* bound to the indexes that the plugins had, then the editor asks for the *)
(* active plugin.  An index past the end of the list is undefined          *)
(* behaviour; it is counted as wrong and leaves the list alone.            *)
Bind ==
  /\ Free
  /\ functors # <<>>
  /\ Head(functors).type = "bind"
  /\ Handled
  /\ LET f == Head(functors)
         inRange == {b \in f.idx : b.i \in DOMAIN list}
         bound(s) == {b \in inRange : b.s = s} IN
       /\ param' = [s \in 1..Slots |->
                      IF bound(s) = {} THEN param[s]
                      ELSE (CHOOSE b \in bound(s) : TRUE).i]
       /\ list' = [i \in DOMAIN list |->
                     LET mine == {b \in inRange : b.i = i} IN
                       IF mine = {} THEN list[i]
                       ELSE [list[i] EXCEPT
                               !.slot = (CHOOSE b \in mine : TRUE).s]]
       /\ stale' = (stale \/ f.ver # clientVer \/ f.idx # Automated)
       /\ wrong' = IF inRange = f.idx THEN wrong
                   ELSE wrong \cup {[crossed |-> f.ver # clientVer,
                                     stale |-> FALSE]}
       /\ IF active > 0 THEN /\ Edited(active, list[active])
                             /\ Ask(EditRequest(active, list[active]))
                        ELSE UNCHANGED <<active, activeId, moved, requests>>
  /\ UNCHANGED <<unloading, notes, server, clientVer, serverVer, counters>>

-----------------------------------------------------------------------------
(* The client thread.                                                      *)

Receive ==
  /\ notes # <<>>
  /\ notes' = Tail(notes)
  /\ LET n == Head(notes) IN
       \/ /\ n.type = "value"
          /\ Post(Functor("value", n.idx, n.id, n))
          /\ UNCHANGED <<list, wrong>>
       \/ /\ n.type = "status"
          /\ IF n.idx \in DOMAIN list
               THEN /\ list' = [list EXCEPT ![n.idx].ok = ~@]
                    /\ Arrives(n.id, list[n.idx].id, n, clientVer)
               ELSE UNCHANGED <<list, wrong>>
          /\ UNCHANGED functors
       \/ /\ n.type = "hide"
          /\ IF active = n.idx THEN Post(Functor("hide", n.idx, n.id, n))
                               ELSE UNCHANGED functors
          /\ UNCHANGED <<list, wrong>>
  /\ UNCHANGED <<param, active, unloading, requests, server, clientVer,
                 serverVer, activeId, moved, stale, counters>>

(* A new session: the on-connect callback loads the list into an empty     *)
(* chain and collects the automated parameters.                            *)
NewSession ==
  /\ Free
  /\ sessions < MaxSessions
  /\ sessions' = sessions + 1
  /\ requests' = <<>> /\ notes' = <<>>
  /\ chain' = [i \in DOMAIN list |-> Processor(list[i].id, i)]
  /\ list' = [i \in DOMAIN list |-> [list[i] EXCEPT !.ok = TRUE]]
  /\ editor' = 0 /\ window' = NoWindow
  /\ serverVer' = clientVer
  /\ moved' = TRUE
  /\ Post([type |-> "bind", id |-> 0, ver |-> clientVer, stale |-> FALSE,
           idx |-> Automated])
  /\ UNCHANGED <<param, active, unloading, clientVer, activeId, stale, wrong,
                 loads, edits, notices>>

-----------------------------------------------------------------------------
(* The worker.                                                             *)

Handle(type) ==
  /\ requests # <<>>
  /\ Head(requests).type = type
  /\ requests' = Tail(requests)
  /\ UNCHANGED <<clientSide, functors, notes, clientVer, activeId, moved,
                 stale, counters>>

ExchangeProcessors(a, b) ==
  chain' = IF {a, b} \subseteq DOMAIN chain
             THEN [Swapped(chain, a, b) EXCEPT
                     ![a].idx = a, ![a].behind = FALSE,
                     ![b].idx = b, ![b].behind = FALSE]
             ELSE chain

HandleExchange ==
  /\ Handle("Exchange")
  /\ ExchangeProcessors(Head(requests).a, Head(requests).b)
  /\ serverVer' = serverVer + 1
  /\ UNCHANGED <<editor, window, wrong>>

HidesEditor(idx) == editor = idx

(* The others keep their chain indexes.  Unloading a processor takes its   *)
(* window with it.                                                         *)
HandleDel ==
  LET i == Head(requests).a IN
    /\ Handle("Del")
    /\ chain' = [j \in DOMAIN RemoveAt(chain, i) |->
                   IF j < i THEN chain[j]
                   ELSE [chain[j + 1] EXCEPT !.behind = TRUE]]
    /\ editor' = IF HidesEditor(i) THEN 0 ELSE editor
    /\ window' = IF HidesEditor(i) \/ window.id = chain[i].id THEN NoWindow
                                                             ELSE window
    /\ serverVer' = serverVer + 1
    /\ UNCHANGED wrong

AlreadyShown(i) == window.id = chain[i].id

HandleEdit ==
  LET i == Head(requests).a IN
    /\ Handle("Edit")
    /\ IF i \in DOMAIN chain
         THEN /\ editor' = i
              /\ window' = IF AlreadyShown(i) THEN window
                           ELSE [id |-> chain[i].id, idx |-> i]
         ELSE UNCHANGED <<editor, window>>
    /\ UNCHANGED <<chain, serverVer, wrong>>

HandleHide ==
  /\ Handle("Hide")
  /\ IF editor > 0 THEN editor' = 0 /\ window' = NoWindow
                   ELSE UNCHANGED <<editor, window>>
  /\ UNCHANGED <<chain, serverVer, wrong>>

HandleSet ==
  LET r == Head(requests) IN
    /\ Handle("Set")
    /\ IF r.a \in DOMAIN chain
         THEN Arrives(r.id, chain[r.a].id, r, serverVer)
         ELSE UNCHANGED wrong
    /\ UNCHANGED <<chain, editor, window, serverVer>>

Worker ==
  HandleExchange \/ HandleDel \/ HandleEdit \/ HandleHide \/ HandleSet

Note(type, idx, id, behind) ==
  [type |-> type, idx |-> idx, id |-> id, ver |-> serverVer, stale |-> behind]

(* A parameter changes in the plugin, or its sandbox goes down or up.      *)
Notify(i, type) ==
  /\ notices < MaxNotes
  /\ notices' = notices + 1
  /\ notes' = Append(notes,
                     Note(type, chain[i].idx, chain[i].id, chain[i].behind))
  /\ UNCHANGED <<clientSide, functors, requests, server, clientVer, serverVer,
                 activeId, moved, stale, wrong, loads, edits, sessions>>

(* The user closes the window on the server: closeButtonPressed().         *)
CloseWindow ==
  /\ notices < MaxNotes
  /\ window # NoWindow
  /\ notices' = notices + 1
  /\ notes' = Append(notes, Note("hide", window.idx, window.id, FALSE))
  /\ window' = NoWindow
  /\ moved' = (moved \/ \A i \in DOMAIN chain :
                          chain[i].id = window.id => i # window.idx)
  /\ UNCHANGED <<clientSide, functors, requests, chain, editor, clientVer,
                 serverVer, activeId, stale, wrong, loads, edits, sessions>>

-----------------------------------------------------------------------------
User ==
  \/ \E i \in DOMAIN list :
       \/ EditPlugin(i) \/ UnloadPlugin(i) \/ EnableAutomation(i)
       \/ DisableAutomation(i) \/ ChangeValue(i)
       \/ i + 1 \in DOMAIN list /\ ExchangePlugins(i, i + 1)
  \/ HidePlugin \/ LoadPlugin

MessageThread ==
  ErasePlugin \/ SkipUpdate \/ UpdateValue \/ SetValue \/ HideFromServer \/ Bind

IndexesNext ==
  \/ User \/ MessageThread
  \/ Receive \/ NewSession
  \/ Worker
  \/ \E i \in DOMAIN chain : \E type \in {"value", "status"} : Notify(i, type)
  \/ CloseWindow

IndexesSpec == IndexesInit /\ [][IndexesNext]_indexVars

-----------------------------------------------------------------------------
(* Properties.                                                             *)

(* List and chain have the same plugins in the same order when the same    *)
(* changes were made to both.                                              *)
IndexTypes ==
  /\ \A i \in DOMAIN list : list[i].slot \in 0..Slots /\ list[i].ok \in BOOLEAN
  /\ param \in [1..Slots -> 0..loads]
  /\ active \in 0..Len(list)
  /\ unloading \in 0..Len(list)
  /\ editor \in 0..loads
  /\ clientVer = serverVer =>
       Len(list) = Len(chain) /\ \A i \in DOMAIN list : list[i].id = chain[i].id

(* m_activePlugin follows the plugin the user opened when others are       *)
(* exchanged with it, unloaded in front of it or behind it.                *)
ActiveFollowsPlugin ==
  activeId > 0 => active > 0 /\ list[active].id = activeId

(* The automationSlot of a parameter and the m_idx of the slot name each   *)
(* other.  Only unloading a plugin in front of an automated one, or a      *)
(* closure of a connection that meets a changed list, breaks this.         *)
SlotsAgree ==
  ~stale =>
    /\ \A s \in 1..Slots : param[s] > 0 => list[param[s]].slot = s
    /\ \A i \in DOMAIN list : list[i].slot > 0 => param[list[i].slot] = i

(* A value or a status goes to the plugin it is about, unless the list or  *)
(* the chain changed while it was under way, or the slot it went through   *)
(* did, or a plugin in front of the sender or of an automated parameter    *)
(* was unloaded before: no other step brings the indexes of client and     *)
(* server out of step.  That a request may itself be answered for another  *)
(* index than it has is in CommandProtocol (HandleGetParameterValue).      *)
MisdirectionsExplained == \A w \in wrong : w.crossed \/ w.stale

(* When nothing is under way and the active plugin is where it was when    *)
(* the client asked for its editor, the server shows that one.             *)
EditorShown ==
  /\ functors = <<>> /\ requests = <<>> /\ notes = <<>>
  /\ Free /\ activeId > 0 /\ ~moved
  => window.id = activeId

(* The three indexes of a loaded plugin follow it: the position in list    *)
(* and chain, m_activePlugin, and the automation slots.                    *)
IndexesFollow == IndexTypes /\ ActiveFollowsPlugin /\ SlotsAgree
=============================================================================
