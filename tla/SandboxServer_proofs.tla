------------------------ MODULE SandboxServer_proofs ------------------------
(***************************************************************************)
(* Theorems about the server that isolates chains, for every number of     *)
(* clients and every bound on processes, editors and crashes.              *)
(*                                                                         *)
(* m_sandboxes is right because a live sandbox is in the map or in the     *)
(* hands of the server thread (InMap), so that an id that is free in the   *)
(* map is not in use, and so that what is taken out of the map under the   *)
(* id of a live sandbox is that sandbox (RemoveEffect).                    *)
(*                                                                         *)
(* One editor is on the screen because the server knows of every editor,   *)
(* or will: a sandbox that shows one has the screen, has a message to the  *)
(* server under way whose last word is SHOW_EDITOR, or has a request to    *)
(* hide its editor coming (Accounted).                                     *)
(*                                                                         *)
(* The second part is about PluginScan, what the server does before it     *)
(* listens, for any number of plugins, scan threads, faults and crashes:   *)
(* every plugin is accounted for, no result gets between a file and the    *)
(* list, and a plugin is blacklisted only for what its own process did.    *)
(* The threads share nothing but the list, so the invariant is one about   *)
(* each thread, its process and its files, and one about the server thread *)
(* that starts and joins them.                                             *)
(***************************************************************************)
EXTENDS SandboxServer, PluginScan, FiniteSetTheorems, TLAPS

-----------------------------------------------------------------------------
(* The inductive invariant.                                                *)

(* The values the state is made of.                                        *)
Ids == (1..Clients) \X (0..MaxLaunches)
UpMessage == {"PORT", "SHOW", "HIDE"}
DownMessage == {"CONFIG", "HIDE"}
Socket == {"none", "open", "done", "closed"}
Master ==
  [id : Ids \cup {NoId}, callback : BOOLEAN, socket : Socket,
   terminated : BOOLEAN, lost : BOOLEAN]
Masters == [Sandboxes -> Master]
Proc ==
  [state : {"none", "init", "wait", "run", "ended", "crashed"}, ready : BOOLEAN,
   edit : {"idle", "told", "shown"}, active : BOOLEAN, window : BOOLEAN]
Procs == [Sandboxes -> Proc]
Steps ==
  {"accept", "launched", "configure", "insert", "stopped", "down", "crashed"}

Shapes ==
  /\ launches \in 0..MaxLaunches
  /\ server \in [step : Steps, launched : 0..launches]
  /\ master \in Masters
  /\ process \in Procs
  /\ up \in [Sandboxes -> Seq(UpMessage)]
  /\ down \in [Sandboxes -> Seq(DownMessage)]
  /\ deleting \subseteq Sandboxes

(* What clients, m_sandboxes and the SandboxDeleter hold was launched.     *)
Holdings ==
  /\ client \in [1..Clients -> 0..launches]
  /\ \A id \in DOMAIN entries : entries[id] \in 0..launches
  /\ \A s \in deleting : master[s].terminated

(* A number that was not given to a sandbox yet.                           *)
Unlaunched ==
  \A s \in Sandboxes : s > launches =>
    /\ master[s] = Unused /\ process[s] = NoProcess
    /\ up[s] = <<>> /\ down[s] = <<>>

(* Every id in use is that of a sandbox, also where the map has a nullptr. *)
IdsKnown ==
  /\ \A s \in 1..launches : ~master[s].terminated => master[s].id \in Ids
  /\ \A id \in DOMAIN entries :
       id # NoId /\ \E s \in 1..launches : master[s].id = id
  /\ hasScreen # NoId => \E s \in 1..launches : master[s].id = hasScreen

(* The sandbox that is being launched is not in the map; if its connection *)
(* is lost by now, that was too early.                                     *)
InHand == At("launched") \/ At("configure") \/ At("insert")
LaunchedInv ==
  /\ At("accept") \/ At("stopped") \/ At("down") => server.launched = 0
  /\ InHand => server.launched > 0 /\ ~master[server.launched].terminated
  /\ server.launched > 0 =>
      /\ \A id \in DOMAIN entries : entries[id] # server.launched
      /\ master[server.launched].lost => server.launched \in early

(* A live sandbox is in the map, or the server thread has it.              *)
InMap ==
  \A s \in 1..launches :
    ~master[s].terminated =>
      \/ server.launched = s
      \/ master[s].id \in DOMAIN entries /\ entries[master[s].id] = s

Registry ==
  Holdings /\ IdsKnown /\ LaunchedInv /\ LiveIdsUnique /\ EntriesAlive /\ InMap

(* A sandbox that shows its editor, or told the server that it will.       *)
Editor(s) == process[s].window \/ process[s].edit = "told"

(* Only a worker that runs has an editor; one that is on the screen for    *)
(* good is m_activeEditorIdx; and the last word of a sandbox that shows    *)
(* one is SHOW_EDITOR.                                                     *)
EditorRules(s) ==
  /\ process[s].state # "run" =>
       ~process[s].window /\ ~process[s].active /\ process[s].edit = "idle"
  /\ process[s].window /\ process[s].edit = "idle" => process[s].active
  /\ Editor(s) /\ up[s] # <<>> => up[s][Len(up[s])] = "SHOW"
Editors == \A s \in Sandboxes : EditorRules(s)

(* A sandbox that shows an editor has the screen, or will get it, or will  *)
(* be asked to hide the editor, unless that request missed it.             *)
HideUnderWay(s) == \E i \in DOMAIN down[s] : down[s][i] = "HIDE"
Shows(s) == Editor(s) /\ ~master[s].terminated /\ s \notin missed
Accounted(s) == hasScreen = master[s].id \/ up[s] # <<>> \/ HideUnderWay(s)
ScreenInv == \A s \in Sandboxes : Shows(s) => Accounted(s)

IInv == Shapes /\ Unlaunched /\ Registry /\ Editors /\ ScreenInv

-----------------------------------------------------------------------------
(* The id of a launch.                                                     *)

(* A set of numbers that is not empty has a smallest.                      *)
LEMMA SmallestOf ==
  ASSUME NEW T, T \subseteq Nat, T # {}
  PROVE  \E n \in T : \A m \in T : n <= m
<1>1. IsWellFoundedOn(OpToRel(<, Nat), Nat)
  BY NatLessThanWellFounded
<1>2. PICK n \in T : \A m \in T : ~(<<m, n>> \in OpToRel(<, Nat))
  BY <1>1, WFMin
<1>3. \A m \in T : ~(m < n)
  BY <1>2 DEF OpToRel
<1> QED
  BY <1>3

(* getAvailableId() always finds an id: a client has more numbers than     *)
(* there are sandboxes, and every id in m_sandboxes is that of a sandbox,  *)
(* so that a nullptr takes no number for good. What it finds is not in the *)
(* map.                                                                    *)
LEMMA FreeIdIsFree ==
  ASSUME Shapes, IdsKnown, launches < MaxLaunches, NEW c \in 1..Clients
  PROVE  FreeId(c) \in Ids /\ FreeId(c) \notin DOMAIN entries /\ FreeId(c) # NoId
<1> DEFINE Free == {n \in 0..MaxLaunches : <<c, n>> \notin DOMAIN entries}
<1> USE ServerBounds DEF Shapes
<1>1. Free # {}
  <2> SUFFICES ASSUME Free = {}
               PROVE  FALSE
    OBVIOUS
  <2>1. \A n \in 0..MaxLaunches : \E s \in 1..launches : master[s].id = <<c, n>>
    BY DEF IdsKnown
  <2> DEFINE owner == [n \in 0..MaxLaunches |->
                         CHOOSE s \in 1..launches : master[s].id = <<c, n>>]
  <2>2. \A n \in 0..MaxLaunches :
          owner[n] \in 1..launches /\ master[owner[n]].id = <<c, n>>
    BY <2>1
  <2> HIDE DEF owner
  <2>3. \A m, n \in 0..MaxLaunches : owner[m] = owner[n] => m = n
    <3> TAKE m, n \in 0..MaxLaunches
    <3> HAVE owner[m] = owner[n]
    <3>1. <<c, m>> = <<c, n>>
      BY <2>2
    <3> QED
      BY <3>1
  <2>5. owner \in [0..MaxLaunches -> 1..launches]
    BY <2>2 DEF owner
  <2>4. IsFiniteSet(0..MaxLaunches) /\ Cardinality(0..MaxLaunches) = MaxLaunches + 1
    <3>1. 0 \in Int /\ MaxLaunches \in Int /\ MaxLaunches >= 0
      OBVIOUS
    <3>2. /\ IsFiniteSet(0..MaxLaunches)
          /\ Cardinality(0..MaxLaunches) =
               IF 0 > MaxLaunches THEN 0 ELSE MaxLaunches - 0 + 1
      BY <3>1, FS_Interval, Zenon
    <3> QED
      BY <3>1, <3>2
  <2>6. IsFiniteSet(1..launches) /\ Cardinality(1..launches) = launches
    <3>1. 1 \in Int /\ launches \in Int /\ launches >= 0
      OBVIOUS
    <3> QED
      BY <3>1, FS_Interval
  <2>7. Cardinality(1..launches) < Cardinality(0..MaxLaunches)
    BY <2>4, <2>6
  <2>8. \E m, n \in 0..MaxLaunches : m # n /\ owner[m] = owner[n]
    <3> DEFINE Numbers == 0..MaxLaunches
               Holders == 1..launches
    <3>1. /\ IsFiniteSet(Numbers) /\ IsFiniteSet(Holders)
          /\ Cardinality(Holders) < Cardinality(Numbers)
          /\ owner \in [Numbers -> Holders]
      BY <2>4, <2>5, <2>6, <2>7
    <3> HIDE DEF Numbers, Holders
    <3>2. \E m, n \in Numbers : m # n /\ owner[m] = owner[n]
      BY <3>1, FS_PigeonHole
    <3> QED
      BY <3>2 DEF Numbers
  <2> QED
    BY <2>3, <2>8
<1>2. PICK n \in Free : \A m \in Free : n <= m
  <2>1. Free \subseteq Nat
    OBVIOUS
  <2> QED
    BY <1>1, <2>1, SmallestOf
<1> DEFINE Smallest(id) ==
      /\ id \notin DOMAIN entries
      /\ \A k \in 0..id[2] : k < id[2] => <<c, k>> \in DOMAIN entries
<1>3. Smallest(<<c, n>>)
  <2>1. \A k \in 0..n : k < n => <<c, k>> \in DOMAIN entries
    BY <1>2
  <2> QED
    BY <1>2, <2>1
<1>4. FreeId(c) = CHOOSE id \in {<<c, k>> : k \in 0..MaxLaunches} : Smallest(id)
  BY DEF FreeId
<1>5. <<c, n>> \in {<<c, k>> : k \in 0..MaxLaunches}
  OBVIOUS
<1> HIDE DEF Smallest
<1>6. FreeId(c) \in {<<c, k>> : k \in 0..MaxLaunches} /\ Smallest(FreeId(c))
  BY <1>3, <1>4, <1>5
<1> QED
  BY <1>6 DEF Smallest, Ids, NoId

-----------------------------------------------------------------------------
(* What the operations do to masters, processes and queues.                *)

(* The masters m and n agree on all but callbacks and sockets.             *)
Alike(m, n) ==
  \A t \in Sandboxes :
    n[t].id = m[t].id /\ n[t].terminated = m[t].terminated /\ n[t].lost = m[t].lost

(* Setting the callback of a sandbox changes nothing else of the masters.  *)
LEMMA CallbackSet ==
  ASSUME NEW m \in Masters, NEW s \in Sandboxes,
         NEW n, n = [m EXCEPT ![s].callback = TRUE]
  PROVE  /\ n \in Masters /\ Alike(m, n)
         /\ \A t \in Sandboxes : t # s => n[t] = m[t]
<1>1. [m[s] EXCEPT !.callback = TRUE] \in Master /\ m[s] \in Master
  BY DEF Masters, Master
<1> QED
  BY <1>1 DEF Masters, Master, Alike

(* Nor does what becomes of the socket of its client.                      *)
LEMMA SocketSet ==
  ASSUME NEW m \in Masters, NEW s \in Sandboxes, NEW k \in Socket,
         NEW n, n = [m EXCEPT ![s].socket = k]
  PROVE  /\ n \in Masters /\ Alike(m, n)
         /\ \A t \in Sandboxes : t # s => n[t] = m[t]
<1>1. [m[s] EXCEPT !.socket = k] \in Master /\ m[s] \in Master
  BY DEF Masters, Master
<1> QED
  BY <1>1 DEF Masters, Master, Alike

(* Terminating a sandbox changes its flag only.                            *)
LEMMA TerminatedSet ==
  ASSUME NEW m \in Masters, NEW s \in Sandboxes,
         NEW n, n = [m EXCEPT ![s].terminated = TRUE]
  PROVE  /\ n \in Masters
         /\ n[s].id = m[s].id /\ n[s].lost = m[s].lost /\ n[s].terminated
         /\ \A t \in Sandboxes : t # s => n[t] = m[t]
<1>1. [m[s] EXCEPT !.terminated = TRUE] \in Master /\ m[s] \in Master
  BY DEF Masters, Master
<1> QED
  BY <1>1 DEF Masters, Master

(* So does losing it.                                                      *)
LEMMA LostSet ==
  ASSUME NEW m \in Masters, NEW s \in Sandboxes,
         NEW n, n = [m EXCEPT ![s].lost = TRUE]
  PROVE  /\ n \in Masters
         /\ n[s].id = m[s].id /\ n[s].terminated = m[s].terminated /\ n[s].lost
         /\ \A t \in Sandboxes : t # s => n[t] = m[t]
<1>1. [m[s] EXCEPT !.lost = TRUE] \in Master /\ m[s] \in Master
  BY DEF Masters, Master
<1> QED
  BY <1>1 DEF Masters, Master

(* Sending a message to the end of one queue of several.                   *)
LEMMA Appended ==
  ASSUME NEW T, NEW q \in [Sandboxes -> Seq(T)], NEW s \in Sandboxes, NEW x \in T,
         NEW r, r = [q EXCEPT ![s] = Append(@, x)]
  PROVE  /\ r \in [Sandboxes -> Seq(T)] /\ r[s] = Append(q[s], x)
         /\ \A t \in Sandboxes : t # s => r[t] = q[t]
<1>1. Append(q[s], x) \in Seq(T)
  OBVIOUS
<1> QED
  BY <1>1

(* Taking the first message of one queue of several.                       *)
LEMMA Taken ==
  ASSUME NEW T, NEW q \in [Sandboxes -> Seq(T)], NEW s \in Sandboxes, q[s] # <<>>,
         NEW r, r = [q EXCEPT ![s] = Tail(@)]
  PROVE  /\ r \in [Sandboxes -> Seq(T)] /\ r[s] = Tail(q[s])
         /\ \A t \in Sandboxes : t # s => r[t] = q[t]
<1>1. Tail(q[s]) \in Seq(T)
  OBVIOUS
<1> QED
  BY <1>1

(* A change of the step of the server thread leaves what it launches.      *)
LEMMA ServerEdits ==
  ASSUME Shapes, NEW x \in Steps
  PROVE  /\ [server EXCEPT !.step = x] \in [step : Steps, launched : 0..launches]
         /\ [server EXCEPT !.step = x].step = x
         /\ [server EXCEPT !.step = x].launched = server.launched
BY DEF Shapes

(* A process that ends has neither editor nor window.                      *)
LEMMA ExitEffect ==
  ASSUME process \in Procs, NEW s \in Sandboxes,
         NEW x \in {"none", "init", "wait", "run", "ended", "crashed"}, Exit(s, x)
  PROVE  /\ process' \in Procs
         /\ process'[s] = [NoProcess EXCEPT !.state = x]
         /\ \A t \in Sandboxes : t # s => process'[t] = process[t]
<1> DEFINE r == [NoProcess EXCEPT !.state = x]
<1>1. r \in Proc
  BY DEF NoProcess, Proc
<1>2. process' = [process EXCEPT ![s] = r]
  BY DEF Exit
<1> HIDE DEF r
<1>3. process' \in Procs /\ process'[s] = r
      /\ \A t \in Sandboxes : t # s => process'[t] = process[t]
  BY <1>1, <1>2 DEF Procs
<1> QED
  BY <1>3 DEF r

(* A launch takes a number no sandbox had and an id that is not in the     *)
(* map.                                                                    *)
LEMMA LaunchEffect ==
  ASSUME IInv, NEW c \in 1..Clients, Launch(c)
  PROVE  LET s == launches + 1 IN
           /\ s \in Sandboxes /\ launches' = s /\ master' \in Masters
           /\ master'[s].id \in Ids /\ master'[s].id \notin DOMAIN entries
           /\ master'[s].id # NoId /\ ~master'[s].terminated /\ ~master'[s].lost
           /\ \A t \in Sandboxes : t # s => master'[t] = master[t]
<1> DEFINE s == launches + 1
           r == [Unused EXCEPT !.id = FreeId(c), !.socket = "open"]
<1>1. s \in Sandboxes /\ launches < MaxLaunches
  BY ServerBounds DEF Launch, IInv, Shapes, Sandboxes
<1>2. FreeId(c) \in Ids /\ FreeId(c) \notin DOMAIN entries /\ FreeId(c) # NoId
  BY <1>1, FreeIdIsFree DEF IInv, Registry
<1>3. r \in Master /\ r.id = FreeId(c) /\ ~r.terminated /\ ~r.lost
  BY <1>2 DEF Unused, Master, Socket
<1>4. master' = [master EXCEPT ![s] = r] /\ launches' = s
  BY DEF Launch
<1> HIDE DEF r
<1> QED
  BY <1>1, <1>2, <1>3, <1>4 DEF IInv, Shapes, Masters

(* A launch that fails takes a number only.                                *)
LEMMA LaunchFailsEffect ==
  ASSUME IInv, NEW c \in 1..Clients, LaunchFails(c)
  PROVE  LET s == launches + 1 IN
           /\ s \in Sandboxes /\ launches' = s /\ master' \in Masters
           /\ master'[s].terminated
           /\ \A t \in Sandboxes : t # s => master'[t] = master[t]
<1> DEFINE s == launches + 1
           r == [Unused EXCEPT !.socket = "open", !.terminated = TRUE]
<1>1. s \in Sandboxes /\ launches < MaxLaunches
  BY ServerBounds DEF LaunchFails, IInv, Shapes, Sandboxes
<1>3. r \in Master /\ r.terminated
  BY DEF Unused, Master, Socket
<1>4. master' = [master EXCEPT ![s] = r] /\ launches' = s
  BY DEF LaunchFails
<1> HIDE DEF r
<1> QED
  BY <1>1, <1>3, <1>4 DEF IInv, Shapes, Masters

(* What getAndRemove() finds for a sandbox the server talks to is the      *)
(* sandbox itself, or nothing but the nullptr that was left for it before  *)
(* it is entered: it never takes another sandbox out of the map.           *)
LEMMA RemoveEffect ==
  ASSUME IInv, NEW s \in Sandboxes, s <= launches, ~master[s].terminated,
         NEW m, m \in Masters, Remove(master[s].id, m)
  PROVE  \/ /\ server.launched = s
            /\ master' = m /\ UNCHANGED <<entries, deleting, server>>
         \/ /\ server.launched = s
            /\ server' = [server EXCEPT !.step = "crashed"]
            /\ master' = m /\ UNCHANGED <<entries, deleting>>
         \/ /\ master[s].id \in DOMAIN entries /\ entries[master[s].id] = s
            /\ entries' = Without(master[s].id) /\ deleting' = deleting \cup {s}
            /\ master' = Terminated(m, s) /\ UNCHANGED server
<1> DEFINE id == master[s].id
<1>1. s \in 1..launches
  BY DEF IInv, Shapes, Sandboxes
<1>2. server.launched = s \/ (id \in DOMAIN entries /\ entries[id] = s)
  BY <1>1 DEF IInv, Registry, InMap
<1>3. CASE id \notin DOMAIN entries
  BY <1>2, <1>3 DEF Remove
<1>4. CASE id \in DOMAIN entries /\ entries[id] = 0
  BY <1>1, <1>2, <1>4 DEF Remove
<1>5. CASE id \in DOMAIN entries /\ entries[id] # 0
  <2>1. entries[id] \in 1..launches
    BY <1>5 DEF IInv, Shapes, Registry, Holdings
  <2>2. ~master[entries[id]].terminated /\ master[entries[id]].id = id
    BY <1>5, <2>1 DEF IInv, Registry, EntriesAlive
  <2>3. entries[id] = s
    BY <1>1, <2>1, <2>2 DEF IInv, Registry, LiveIdsUnique
  <2> QED
    BY <1>5, <2>3 DEF Remove, GiveToDeleter
<1> QED
  BY <1>3, <1>4, <1>5

-----------------------------------------------------------------------------
(* Every step keeps the shapes.                                            *)

(* The shapes are kept by every step.                                      *)
LEMMA ShapesKept == IInv /\ [Next]_vars => Shapes'
<1> SUFFICES ASSUME IInv, [Next]_vars PROVE Shapes'
  OBVIOUS
<1>0. Shapes /\ Holdings /\ process \in Procs /\ master \in Masters
  BY DEF IInv, Registry, Shapes
<1>a. /\ up \in [Sandboxes -> Seq(UpMessage)]
      /\ down \in [Sandboxes -> Seq(DownMessage)]
      /\ launches \in 0..MaxLaunches /\ deleting \subseteq Sandboxes
      /\ \A s \in Sandboxes : process[s] \in Proc
      /\ server \in [step : Steps, launched : 0..launches]
  BY <1>0 DEF Shapes, Procs
<1>b. server.launched > 0 => server.launched \in Sandboxes
  <2>1. server.launched \in 0..launches
    BY <1>a
  <2> QED
    BY <1>a, <2>1, ServerBounds DEF Sandboxes
<1> USE <1>0, <1>a, <1>b DEF bounds
<1>1. ASSUME NEW c \in 1..Clients, Launch(c) PROVE Shapes'
  <2> DEFINE s == launches + 1
             r == [process[s] EXCEPT !.state = "init"]
  <2>1. s \in Sandboxes /\ master' \in Masters /\ launches' = s
    BY <1>1, LaunchEffect
  <2>2. r \in Proc /\ process' = [process EXCEPT ![s] = r]
    BY <1>1, <2>1 DEF Launch, Proc
  <2> HIDE DEF r
  <2>3. process' \in Procs
    BY <2>1, <2>2 DEF Procs
  <2>4. server' \in [step : Steps, launched : 0..launches']
    BY <1>1, <2>1 DEF Launch, Steps
  <2> QED
    BY <1>1, <2>1, <2>3, <2>4 DEF Launch, Shapes, Sandboxes
<1>2. ASSUME NEW c \in 1..Clients, LaunchFails(c) PROVE Shapes'
  <2> DEFINE s == launches + 1
  <2>1. s \in Sandboxes /\ master' \in Masters /\ launches' = s
    BY <1>2, LaunchFailsEffect
  <2>2. process' \in Procs
    BY <1>2, <2>1, ExitEffect DEF LaunchFails
  <2>4. server' \in [step : Steps, launched : 0..launches']
    BY <1>2, <2>1 DEF LaunchFails, Steps
  <2> QED
    BY <1>2, <2>1, <2>2, <2>4 DEF LaunchFails, Shapes, Sandboxes
<1>3. ASSUME NEW c \in 1..Clients, Leave(c) PROVE Shapes'
  <2>1. client[c] \in Sandboxes
    BY <1>3, ServerBounds DEF Leave, Holdings, Sandboxes
  <2>2. master' \in Masters
    <3>1. master[client[c]].socket \in Socket
      BY <2>1 DEF Masters, Master
    <3>2. PICK k \in Socket : master' = [master EXCEPT ![client[c]].socket = k]
      BY <1>3, <3>1 DEF Leave, Socket
    <3> QED
      BY <2>1, <3>2, SocketSet
  <2> QED
    BY <1>3, <2>2 DEF Leave, Shapes
<1>4. CASE SetCallback
  <2>1. server.launched \in Sandboxes
    BY <1>4 DEF SetCallback, IInv, Registry, LaunchedInv, InHand
  <2>2. server' \in [step : Steps, launched : 0..launches]
    BY <1>4, ServerEdits DEF SetCallback, Steps
  <2> QED
    BY <1>4, <2>1, <2>2, CallbackSet DEF SetCallback, Shapes
<1>5. CASE Configure
  <2>1. server.launched \in Sandboxes
    BY <1>5 DEF Configure, IInv, Registry, LaunchedInv, InHand
  <2>2. server' \in [step : Steps, launched : 0..launches]
    BY <1>5 DEF Configure, Steps
  <2>3. master' \in Masters
    BY <1>5, <2>1, TerminatedSet DEF Configure
  <2>4. down' \in [Sandboxes -> Seq(DownMessage)]
    <3>1. "CONFIG" \in DownMessage
      BY DEF DownMessage
    <3>2. \/ UNCHANGED down
          \/ down' = [down EXCEPT ![server.launched] = Append(@, "CONFIG")]
      BY <1>5 DEF Configure
    <3>3. CASE down' = [down EXCEPT ![server.launched] = Append(@, "CONFIG")]
      BY <2>1, <3>1, <3>3, Appended
    <3> QED
      BY <3>2, <3>3
  <2> QED
    BY <1>5, <2>2, <2>3, <2>4 DEF Configure, Shapes
<1>6. CASE Insert
  <2>2. server' \in [step : Steps, launched : 0..launches]
    BY <1>6 DEF Insert, Steps
  <2> QED
    BY <1>6, <2>2 DEF Insert, Shapes
<1>7. CASE Down
  BY <1>7, ServerEdits DEF Down, Shapes, Steps
<1>8. CASE Stop
  <2> DEFINE left == {entries[id] : id \in DOMAIN entries}
  <2>1. left \subseteq Sandboxes \cup {0}
    BY ServerBounds DEF Holdings, Sandboxes
  <2>2. server' \in [step : Steps, launched : 0..launches]
    BY <1>8, ServerEdits DEF Stop, Steps
  <2>3. \A s \in Sandboxes : [master[s] EXCEPT !.terminated = TRUE] \in Master
                             /\ master[s] \in Master
    BY DEF Masters, Master
  <2>4. master' \in Masters
    BY <1>8, <2>3 DEF Stop, Masters
  <2> QED
    BY <1>8, <2>1, <2>2, <2>4 DEF Stop, Shapes
<1>9. ASSUME NEW s \in Sandboxes, Kill(s) PROVE Shapes'
  <2>1. process' \in Procs
    <3>1. process[s].state \in {"none", "init", "wait", "run", "ended", "crashed"}
      BY DEF Proc
    <3>2. \E x \in {"none", "init", "wait", "run", "ended", "crashed"} : Exit(s, x)
      BY <1>9, <3>1 DEF Kill
    <3> QED
      BY <3>2, ExitEffect
  <2> QED
    BY <1>9, <2>1 DEF Kill, Shapes
<1>10. ASSUME NEW s \in Sandboxes,
              Receive(s, "PORT") \/ Receive(s, "SHOW") \/ Receive(s, "HIDE")
       PROVE  up' \in [Sandboxes -> Seq(UpMessage)]
  BY <1>10, Taken, ZenonT(60) DEF Receive
<1>11. ASSUME NEW s \in Sandboxes, NEW m \in Masters, Remove(master[s].id, m)
       PROVE  /\ master' \in Masters /\ deleting' \subseteq Sandboxes
              /\ server' \in [step : Steps, launched : 0..launches]
  <2>1. CASE master[s].id \notin DOMAIN entries
    BY <1>11, <2>1 DEF Remove
  <2>2. CASE master[s].id \in DOMAIN entries /\ entries[master[s].id] = 0
    BY <1>11, <2>2, ServerEdits DEF Remove, Steps
  <2>3. CASE master[s].id \in DOMAIN entries /\ entries[master[s].id] # 0
    <3>1. entries[master[s].id] \in Sandboxes
      BY <2>3, ServerBounds, SMTT(40) DEF Holdings, Sandboxes
    <3>2. master' = [m EXCEPT ![entries[master[s].id]].terminated = TRUE]
      BY <1>11, <2>3 DEF Remove, Terminated
    <3> QED
      BY <1>11, <2>3, <3>1, <3>2, TerminatedSet DEF Remove, GiveToDeleter
  <2> QED
    BY <2>1, <2>2, <2>3
<1>12. ASSUME NEW s \in Sandboxes, ReceivePort(s) PROVE Shapes'
  <2> DEFINE m == [master EXCEPT ![s].socket = "done"]
  <2>1. m \in Masters
    BY SocketSet DEF Socket
  <2>2. \/ UNCHANGED <<master, deleting, server>>
        \/ master' = m /\ UNCHANGED <<deleting, server>>
        \/ Remove(master[s].id, m)
    BY <1>12 DEF ReceivePort
  <2>3. /\ master' \in Masters /\ deleting' \subseteq Sandboxes
        /\ server' \in [step : Steps, launched : 0..launches]
    <3> HIDE DEF m
    <3> QED
      BY <1>11, <2>1, <2>2
  <2> QED
    BY <1>10, <1>12, <2>3 DEF ReceivePort, Shapes
<1>13. ASSUME NEW s \in Sandboxes, ReceiveShow(s) PROVE Shapes'
  <2>1. down' \in [Sandboxes -> Seq(DownMessage)]
    <3>1. CASE UNCHANGED down
      BY <3>1
    <3>2. CASE ~UNCHANGED down
      <4>1. PICK t \in Sandboxes : down' = [down EXCEPT ![t] = Append(@, "HIDE")]
        BY <1>13, <3>2, ZenonT(60) DEF ReceiveShow, Entered, Holdings, Sandboxes
      <4> QED
        BY <4>1, "HIDE" \in DownMessage, Appended DEF DownMessage
    <3> QED
      BY <3>1, <3>2
  <2> QED
    BY <1>10, <1>13, <2>1 DEF ReceiveShow, Shapes
<1>14. ASSUME NEW s \in Sandboxes, ReceiveHide(s) PROVE Shapes'
  BY <1>10, <1>14 DEF ReceiveHide, Shapes
<1>15. ASSUME NEW s \in Sandboxes, Lost(s) PROVE Shapes'
  <2> DEFINE m == [master EXCEPT ![s].lost = TRUE]
  <2>1. m \in Masters
    BY LostSet
  <2>2. Remove(master[s].id, m)
    BY <1>15 DEF Lost
  <2>3. /\ master' \in Masters /\ deleting' \subseteq Sandboxes
        /\ server' \in [step : Steps, launched : 0..launches]
    <3> HIDE DEF m
    <3> QED
      BY <1>11, <2>1, <2>2
  <2> QED
    BY <1>15, <2>3 DEF Lost, Shapes
<1>16. ASSUME NEW s \in Sandboxes,
              Process(s) \/ EditPlugin(s) \/ HidePlugin(s) \/ Crash(s)
       PROVE  Shapes'
  <2>1. process' \in Procs
    <3>1. CASE WorkerEnds(s) \/ LosesServer(s) \/ Crash(s)
      BY <3>1, ExitEffect DEF WorkerEnds, LosesServer, Crash
    <3>2. ASSUME NEW r \in Proc, process' = [process EXCEPT ![s] = r]
          PROVE  process' \in Procs
      BY <3>2 DEF Procs
    <3>3. CASE TellPort(s)
      BY <3>2, <3>3 DEF TellPort, Proc
    <3>4. CASE ReceiveConfig(s)
      BY <3>2, <3>4 DEF ReceiveConfig, Proc
    <3>5. CASE StartWorker(s)
      BY <3>2, <3>5 DEF StartWorker, Proc
    <3>6. CASE ShowEditor(s)
      BY <3>2, <3>6 DEF ShowEditor, Proc
    <3>7. CASE HideForOther(s)
      BY <3>2, <3>7 DEF HideForOther, Proc
    <3>8. CASE EditPlugin(s)
      BY <3>2, <3>8 DEF EditPlugin, Proc
    <3>9. CASE HidePlugin(s)
      BY <3>2, <3>9 DEF HidePlugin, Proc
    <3> QED
      BY <1>16, <3>1, <3>3, <3>4, <3>5, <3>6, <3>7, <3>8, <3>9 DEF Process
  <2>2. up' \in [Sandboxes -> Seq(UpMessage)]
    <3>1. CASE UNCHANGED up
      BY <3>1
    <3>2. ASSUME NEW x \in UpMessage, Tell(s, x)
          PROVE  up' \in [Sandboxes -> Seq(UpMessage)]
      BY <3>2, Appended DEF Tell
    <3> QED
      BY <1>16, <3>1, <3>2
         DEF Process, TellPort, ReceiveConfig, StartWorker, ShowEditor,
             HideForOther,
             WorkerEnds, LosesServer, EditPlugin, HidePlugin, Crash, UpMessage
  <2>3. down' \in [Sandboxes -> Seq(DownMessage)]
    <3>1. CASE UNCHANGED down
      BY <3>1
    <3>2. CASE down[s] # <<>> /\ down' = [down EXCEPT ![s] = Tail(@)]
      BY <3>2, Taken
    <3> QED
      BY <1>16, <3>1, <3>2
         DEF Process, TellPort, ReceiveConfig, StartWorker, ShowEditor,
             HideForOther,
             WorkerEnds, LosesServer, EditPlugin, HidePlugin, Crash
  <2> QED
    BY <1>16, <2>1, <2>2, <2>3
       DEF Shapes, Process, TellPort, ReceiveConfig, StartWorker, ShowEditor,
           HideForOther, WorkerEnds, LosesServer, EditPlugin, HidePlugin, Crash
<1>17. CASE UNCHANGED vars
  BY <1>17 DEF vars, Shapes
<1> QED
  BY <1>1, <1>2, <1>3, <1>4, <1>5, <1>6, <1>7, <1>8, <1>9, <1>12, <1>13, <1>14,
     <1>15, <1>16, <1>17
     DEF Next, ServerThread, Connection

-----------------------------------------------------------------------------
(* Every step keeps the registry.                                          *)

(* The registry is kept by a step that leaves the map and what the masters *)
(* say of ids and ends alone.                                              *)
LEMMA RegistryAlike ==
  ASSUME IInv, Alike(master, master'), UNCHANGED <<entries, early, launches>>,
         hasScreen' = NoId \/ (\E s \in 1..launches : master[s].id = hasScreen'),
         client' \in [1..Clients -> 0..launches], deleting' \subseteq deleting,
         server'.launched = server.launched, InHand' => InHand,
         At("accept")' \/ At("stopped")' \/ At("down")' => server.launched = 0
  PROVE  Registry'
<1>1. 1..launches \subseteq Sandboxes /\ deleting \subseteq Sandboxes
      /\ server.launched \in 0..launches
  BY ServerBounds DEF IInv, Shapes, Sandboxes
<1>2. server.launched > 0 => server.launched \in Sandboxes
  BY <1>1
<1> USE <1>1, <1>2 DEF IInv, Registry, Alike
<1>3. Holdings'
  BY DEF Holdings
<1>4. IdsKnown'
  BY DEF IdsKnown
<1>5. LaunchedInv'
  BY DEF LaunchedInv
<1>6. LiveIdsUnique'
  BY DEF LiveIdsUnique
<1>7. EntriesAlive'
  BY DEF EntriesAlive, Holdings
<1>8. InMap'
  BY DEF InMap
<1> QED
  BY <1>3, <1>4, <1>5, <1>6, <1>7, <1>8

(* A launch gives an id that is not in the map. No other live sandbox has  *)
(* it: all of them are in the map (InMap).                                 *)
LEMMA RegistryLaunch ==
  ASSUME IInv, Shapes', NEW c \in 1..Clients, Launch(c)
  PROVE  Registry'
<1> DEFINE s == launches + 1
<1>1. /\ s \in Sandboxes /\ launches' = s /\ launches \in Nat
      /\ master'[s].id \in Ids /\ master'[s].id \notin DOMAIN entries
      /\ master'[s].id # NoId /\ ~master'[s].terminated /\ ~master'[s].lost
      /\ \A t \in Sandboxes : t # s => master'[t] = master[t]
  BY LaunchEffect DEF IInv, Shapes
<1>2. /\ UNCHANGED <<entries, early, hasScreen, deleting>>
      /\ client' = [client EXCEPT ![c] = s]
      /\ server'.step = "launched" /\ server'.launched = s
      /\ At("accept") /\ server.launched = 0
  BY DEF Launch, IInv, Registry, LaunchedInv, At
<1>3. \A t \in 1..launches : t \in Sandboxes /\ t # s /\ master'[t] = master[t]
  BY <1>1, ServerBounds DEF Sandboxes
<1>4. 1..launches' = 1..launches \cup {s}
  BY <1>1
<1>5. ~master[s].terminated /\ s \notin deleting
  BY <1>1 DEF IInv, Unlaunched, Unused, Registry, Holdings
<1>6. Holdings'
  <2>1. \A t \in deleting' : master'[t].terminated
    BY <1>1, <1>2, <1>5 DEF IInv, Shapes, Registry, Holdings
  <2>2. \A id \in DOMAIN entries' : entries'[id] \in 0..launches'
    BY <1>1, <1>2 DEF IInv, Registry, Holdings
  <2>3. client' \in [1..Clients -> 0..launches']
    BY <1>1, <1>2 DEF IInv, Registry, Holdings
  <2> QED
    BY <2>1, <2>2, <2>3 DEF Holdings
<1>7. IdsKnown'
  BY <1>1, <1>2, <1>3, <1>4 DEF IInv, Registry, IdsKnown
<1>8. LaunchedInv'
  <2>1. \A id \in DOMAIN entries : entries[id] # s
    BY <1>1 DEF IInv, Registry, Holdings
  <2> QED
    BY <1>1, <1>2, <2>1 DEF LaunchedInv, At, InHand
<1>9. InMap'
  BY <1>1, <1>2, <1>3, <1>4 DEF IInv, Registry, InMap
<1>10. LiveIdsUnique'
  <2>1. \A t \in 1..launches : ~master[t].terminated => master[t].id \in DOMAIN entries
    BY <1>2 DEF IInv, Registry, InMap
  <2>2. \A t \in 1..launches :
          ~master'[t].terminated => master'[t].id # master'[s].id
    BY <1>1, <1>3, <2>1
  <2> QED
    BY <1>1, <1>3, <1>4, <2>2 DEF IInv, Registry, LiveIdsUnique
<1>11. EntriesAlive'
  <2>1. \A id \in DOMAIN entries : entries[id] > 0 => entries[id] \in 1..launches
    BY DEF IInv, Registry, Holdings
  <2> QED
    BY <1>1, <1>2, <1>3, <2>1 DEF IInv, Registry, EntriesAlive
<1> QED
  BY <1>6, <1>7, <1>8, <1>9, <1>10, <1>11 DEF Registry

(* A launch that fails leaves a sandbox nobody talks to.                   *)
LEMMA RegistryLaunchFails ==
  ASSUME IInv, Shapes', NEW c \in 1..Clients, LaunchFails(c)
  PROVE  Registry'
<1> DEFINE s == launches + 1
<1>1. /\ s \in Sandboxes /\ launches' = s /\ launches \in Nat
      /\ master'[s].terminated
      /\ \A t \in Sandboxes : t # s => master'[t] = master[t]
  BY LaunchFailsEffect DEF IInv, Shapes
<1>2. /\ UNCHANGED <<entries, early, hasScreen, deleting, server>>
      /\ client' = [client EXCEPT ![c] = s]
      /\ At("accept") /\ server.launched = 0
  BY DEF LaunchFails, IInv, Registry, LaunchedInv
<1>3. \A t \in 1..launches : t \in Sandboxes /\ t # s /\ master'[t] = master[t]
  BY <1>1, ServerBounds DEF Sandboxes
<1>4. 1..launches' = 1..launches \cup {s}
  BY <1>1
<1>6. Holdings'
  <2>1. \A t \in deleting' : master'[t].terminated
    BY <1>1, <1>2 DEF IInv, Shapes, Registry, Holdings
  <2>2. \A id \in DOMAIN entries' : entries'[id] \in 0..launches'
    BY <1>1, <1>2 DEF IInv, Registry, Holdings
  <2>3. client' \in [1..Clients -> 0..launches']
    BY <1>1, <1>2 DEF IInv, Registry, Holdings
  <2> QED
    BY <2>1, <2>2, <2>3 DEF Holdings
<1>7. IdsKnown'
  BY <1>1, <1>2, <1>3, <1>4 DEF IInv, Registry, IdsKnown
<1>8. LaunchedInv'
  BY <1>1, <1>2 DEF LaunchedInv, At, InHand
<1>9. InMap'
  BY <1>1, <1>2, <1>3, <1>4 DEF IInv, Registry, InMap
<1>10. LiveIdsUnique'
  BY <1>1, <1>3, <1>4 DEF IInv, Registry, LiveIdsUnique
<1>11. EntriesAlive'
  <2>1. \A id \in DOMAIN entries : entries[id] > 0 => entries[id] \in 1..launches
    BY DEF IInv, Registry, Holdings
  <2> QED
    BY <1>1, <1>2, <1>3, <2>1 DEF IInv, Registry, EntriesAlive
<1> QED
  BY <1>6, <1>7, <1>8, <1>9, <1>10, <1>11 DEF Registry

(* The sandbox that is entered replaces nothing: no other live sandbox has *)
(* its id.                                                                 *)
LEMMA RegistryInsert ==
  ASSUME IInv, Insert
  PROVE  Registry'
<1> DEFINE s == server.launched
           id == master[s].id
<1>1. /\ s \in 1..launches /\ ~master[s].terminated
      /\ \A e \in DOMAIN entries : entries[e] # s
      /\ master[s].lost => s \in early
  BY DEF IInv, Shapes, Registry, LaunchedInv, InHand, Insert
<1>2. /\ UNCHANGED <<client, deleting, hasScreen, master, early, launches>>
      /\ entries' = With(id, s)
      /\ server'.step = "accept" /\ server'.launched = 0
  BY DEF Insert, bounds
<1>3. /\ DOMAIN entries' = DOMAIN entries \cup {id}
      /\ entries'[id] = s
      /\ \A e \in DOMAIN entries : e # id => entries'[e] = entries[e]
  BY <1>2 DEF With
<1>4. launches \in Nat /\ id \in Ids /\ id # NoId
  BY <1>1 DEF IInv, Shapes, Registry, IdsKnown, Ids, NoId
<1>6. Holdings'
  BY <1>1, <1>2, <1>3 DEF IInv, Registry, Holdings
<1>7. IdsKnown'
  BY <1>1, <1>2, <1>3, <1>4 DEF IInv, Registry, IdsKnown
<1>8. LaunchedInv'
  BY <1>2 DEF LaunchedInv, At, InHand
<1>9. InMap'
  <2> SUFFICES ASSUME NEW t \in 1..launches, ~master[t].terminated
               PROVE  master[t].id \in DOMAIN entries' /\ entries'[master[t].id] = t
    BY <1>2 DEF InMap
  <2>1. CASE t = s
    BY <1>3, <2>1
  <2>2. CASE t # s
    <3>1. master[t].id # id
      BY <1>1, <2>2 DEF IInv, Registry, LiveIdsUnique
    <3> QED
      BY <1>3, <2>2, <3>1 DEF IInv, Registry, InMap
  <2> QED
    BY <2>1, <2>2
<1>10. LiveIdsUnique'
  BY <1>2 DEF IInv, Registry, LiveIdsUnique
<1>11. EntriesAlive'
  BY <1>1, <1>2, <1>3 DEF IInv, Registry, EntriesAlive
<1> QED
  BY <1>6, <1>7, <1>8, <1>9, <1>10, <1>11 DEF Registry

(* At the end of the server all entries are terminated and the map is      *)
(* empty.                                                                  *)
LEMMA RegistryStop ==
  ASSUME IInv, Stop
  PROVE  Registry'
<1> DEFINE left == {entries[id] : id \in DOMAIN entries}
<1>1. /\ UNCHANGED <<client, hasScreen, early, launches>>
      /\ server'.step \in {"crashed", "stopped"} /\ server'.launched = 0
      /\ deleting' = deleting \cup (left \ {0})
      /\ DOMAIN entries' = {}
      /\ server.launched = 0
  BY DEF Stop, bounds, IInv, Shapes, Registry, LaunchedInv, At
<1>2. \A s \in Sandboxes : /\ master'[s].id = master[s].id
                           /\ master'[s].terminated <=> master[s].terminated \/ s \in left
  <2>1. \A s \in Sandboxes : master[s] \in Master
    BY DEF IInv, Shapes, Masters
  <2> QED
    BY <2>1 DEF Stop, Master
<1>3. 1..launches \subseteq Sandboxes /\ left \subseteq Sandboxes \cup {0}
      /\ deleting \subseteq Sandboxes
  BY ServerBounds, SMTT(40) DEF IInv, Shapes, Registry, Holdings, Sandboxes
<1>4. Holdings'
  BY <1>1, <1>2, <1>3 DEF IInv, Registry, Holdings
<1>5. IdsKnown'
  BY <1>1, <1>2, <1>3 DEF IInv, Registry, IdsKnown
<1>6. LaunchedInv'
  BY <1>1 DEF LaunchedInv, InHand, At
<1>7. LiveIdsUnique'
  <2>1. launches' = launches
    BY <1>1
  <2> QED
    BY <1>2, <1>3, <2>1 DEF IInv, Registry, LiveIdsUnique
<1>8. EntriesAlive'
  BY <1>1 DEF EntriesAlive
<1>9. InMap'
  BY <1>1, <1>2, <1>3 DEF IInv, Registry, InMap
<1> QED
  BY <1>4, <1>5, <1>6, <1>7, <1>8, <1>9 DEF Registry

(* A sandbox that cannot be configured was never entered.                  *)
LEMMA RegistryConfigureFails ==
  ASSUME IInv, Configure, ~UNCHANGED master
  PROVE  Registry'
<1> DEFINE s == server.launched
<1>1. /\ s \in 1..launches /\ ~master[s].terminated
      /\ \A e \in DOMAIN entries : entries[e] # s
  BY DEF IInv, Shapes, Registry, LaunchedInv, InHand, Configure
<1>2. /\ UNCHANGED <<client, entries, deleting, hasScreen, early, launches>>
      /\ server'.step = "accept" /\ server'.launched = 0
      /\ master' = [master EXCEPT ![s].terminated = TRUE]
  BY DEF Configure, bounds
<1>3. 1..launches \subseteq Sandboxes /\ deleting \subseteq Sandboxes
      /\ s \in Sandboxes /\ master \in Masters
  BY <1>1, ServerBounds DEF IInv, Shapes, Sandboxes
<1>4. \A t \in Sandboxes :
        /\ master'[t].id = master[t].id /\ master'[t].lost = master[t].lost
        /\ master'[t].terminated <=> master[t].terminated \/ t = s
  <2>1. /\ master'[s].id = master[s].id /\ master'[s].lost = master[s].lost
        /\ master'[s].terminated
        /\ \A t \in Sandboxes : t # s => master'[t] = master[t]
    BY <1>2, <1>3 DEF Masters, Master
  <2> QED
    BY <2>1
<1>5. Holdings'
  BY <1>2, <1>3, <1>4 DEF IInv, Registry, Holdings
<1>6. IdsKnown'
  BY <1>2, <1>3, <1>4 DEF IInv, Registry, IdsKnown
<1>7. LaunchedInv'
  BY <1>2 DEF LaunchedInv, InHand, At
<1>8. LiveIdsUnique'
  BY <1>2, <1>3, <1>4 DEF IInv, Registry, LiveIdsUnique
<1>9. EntriesAlive'
  BY <1>1, <1>2, <1>3, <1>4 DEF IInv, Registry, EntriesAlive, Holdings
<1>10. InMap'
  BY <1>1, <1>2, <1>3, <1>4 DEF IInv, Registry, InMap
<1> QED
  BY <1>5, <1>6, <1>7, <1>8, <1>9, <1>10 DEF Registry

(* The thread of a connection that is lost, or that cannot answer its      *)
(* client, takes its own sandbox out of the map or ends the server.        *)
LEMMA RegistryRemove ==
  ASSUME IInv, NEW s \in Sandboxes, s <= launches, ~master[s].terminated,
         NEW m \in Masters, Remove(master[s].id, m),
         \A t \in Sandboxes : /\ m[t].id = master[t].id
                              /\ m[t].terminated = master[t].terminated
                              /\ t # s => m[t].lost = master[t].lost,
         UNCHANGED <<client, hasScreen, launches>>,
         early \subseteq early',
         server.launched = s /\ m[s].lost => s \in early'
  PROVE  Registry'
<1>1. 1..launches \subseteq Sandboxes /\ deleting \subseteq Sandboxes /\ s \in 1..launches
      /\ server.launched \in 0..launches
  BY ServerBounds DEF IInv, Shapes, Sandboxes
<1>2. \/ /\ server.launched = s /\ master' = m
         /\ UNCHANGED <<entries, deleting, server>>
      \/ /\ server.launched = s /\ server' = [server EXCEPT !.step = "crashed"]
         /\ master' = m /\ UNCHANGED <<entries, deleting>>
      \/ /\ master[s].id \in DOMAIN entries /\ entries[master[s].id] = s
         /\ entries' = Without(master[s].id) /\ deleting' = deleting \cup {s}
         /\ master' = Terminated(m, s) /\ UNCHANGED server
  BY RemoveEffect
<1>3. CASE server.launched = s /\ master' = m /\ UNCHANGED <<entries, deleting>>
           /\ server'.launched = s /\ (InHand' => InHand)
           /\ ~(At("accept")' \/ At("stopped")' \/ At("down")')
  <2> USE <1>1, <1>3 DEF IInv, Registry
  <2>1. Holdings'
    BY DEF Holdings
  <2>2. IdsKnown'
    BY DEF IdsKnown
  <2>3. LaunchedInv'
    BY DEF LaunchedInv
  <2>4. LiveIdsUnique'
    BY DEF LiveIdsUnique
  <2>5. EntriesAlive'
    BY DEF EntriesAlive, LaunchedInv, Holdings
  <2>6. InMap'
    BY DEF InMap
  <2> QED
    BY <2>1, <2>2, <2>3, <2>4, <2>5, <2>6
<1>4. CASE /\ master[s].id \in DOMAIN entries /\ entries[master[s].id] = s
           /\ entries' = Without(master[s].id) /\ deleting' = deleting \cup {s}
           /\ master' = Terminated(m, s) /\ UNCHANGED server
  <2>1. /\ DOMAIN entries' = DOMAIN entries \ {master[s].id}
        /\ \A e \in DOMAIN entries : e # master[s].id => entries'[e] = entries[e]
    BY <1>4 DEF Without, Restrict
  <2>2. \A t \in Sandboxes :
          /\ master'[t].id = m[t].id /\ master'[t].lost = m[t].lost
          /\ master'[t].terminated <=> m[t].terminated \/ t = s
    <3>1. master' = [m EXCEPT ![s].terminated = TRUE]
      BY <1>4 DEF Terminated
    <3>2. /\ master'[s].id = m[s].id /\ master'[s].lost = m[s].lost
          /\ master'[s].terminated
          /\ \A t \in Sandboxes : t # s => master'[t] = m[t]
      BY <3>1 DEF Masters, Master
    <3> QED
      BY <3>2
  <2>3. server.launched # s
    BY <1>1, <1>4 DEF IInv, Registry, LaunchedInv
  <2>4. UNCHANGED <<server>> /\ server.launched \in 1..launches \cup {0}
    BY <1>1, <1>4
  <2> USE <1>1, <2>1, <2>2, <2>3, <2>4 DEF IInv, Registry
  <2>5. Holdings'
    BY <1>4 DEF Holdings
  <2>6. IdsKnown'
    BY DEF IdsKnown
  <2>7. LaunchedInv'
    BY DEF LaunchedInv, InHand, At
  <2>8. LiveIdsUnique'
    BY DEF LiveIdsUnique
  <2>9. EntriesAlive'
    BY DEF EntriesAlive, Holdings
  <2>10. InMap'
    BY DEF InMap, LiveIdsUnique
  <2> QED
    BY <2>5, <2>6, <2>7, <2>8, <2>9, <2>10
<1> QED
  <2>1. server.launched = s => ~(At("accept") \/ At("stopped") \/ At("down"))
    BY <1>1 DEF IInv, Registry, LaunchedInv
  <2>2. [server EXCEPT !.step = "crashed"].step = "crashed"
        /\ [server EXCEPT !.step = "crashed"].launched = server.launched
    BY ServerEdits DEF IInv, Steps
  <2> QED
    BY <1>2, <1>3, <1>4, <2>1, <2>2 DEF At, InHand

(* The nullptr that m_sandboxes[...] makes is at the id of a sandbox that  *)
(* is dead or not entered yet.                                             *)
LEMMA RegistryShow ==
  ASSUME IInv, NEW s \in Sandboxes, s <= launches, ReceiveShow(s)
  PROVE  Registry'
<1>1. 1..launches \subseteq Sandboxes /\ s \in 1..launches
  BY ServerBounds DEF IInv, Shapes, Sandboxes
<1>2. /\ UNCHANGED <<client, server, deleting, master, early, launches>>
      /\ hasScreen' = master[s].id
  BY DEF ReceiveShow, bounds
<1>3. CASE UNCHANGED entries
  BY <1>1, <1>2, <1>3, RegistryAlike
     DEF Alike, IInv, Registry, Holdings, LaunchedInv,
     InHand, At
<1>4. CASE ~UNCHANGED entries
  <2>1. /\ hasScreen # NoId /\ entries' = With(hasScreen, 0)
        /\ hasScreen \in DOMAIN entries => entries[hasScreen] = 0
    BY <1>4 DEF ReceiveShow, Displaced, Entered
  <2>2. /\ DOMAIN entries' = DOMAIN entries \cup {hasScreen}
        /\ entries'[hasScreen] = 0
        /\ \A e \in DOMAIN entries : e # hasScreen => entries'[e] = entries[e]
    BY <2>1 DEF With
  <2> USE <1>1, <1>2, <2>1, <2>2 DEF IInv, Registry
  <2>3. Holdings'
    <3>1. launches \in Nat
      BY DEF Shapes
    <3> QED
      BY <3>1 DEF Holdings
  <2>4. IdsKnown'
    BY DEF IdsKnown
  <2>5. LaunchedInv'
    BY DEF LaunchedInv, InHand, At
  <2>6. LiveIdsUnique'
    BY DEF LiveIdsUnique
  <2>7. EntriesAlive'
    BY DEF EntriesAlive
  <2>8. InMap'
    BY DEF InMap
  <2> QED
    BY <2>3, <2>4, <2>5, <2>6, <2>7, <2>8
<1> QED
  BY <1>3, <1>4

(* The steps of a sandbox process.                                         *)
ProcessStep(s) == Process(s) \/ EditPlugin(s) \/ HidePlugin(s) \/ Crash(s)

(* Only a sandbox that was launched does anything.                         *)
LEMMA ActsOnLaunched ==
  ASSUME IInv, NEW s \in Sandboxes,
         Kill(s) \/ up[s] # <<>> \/ ProcessStep(s)
  PROVE  s <= launches
<1> SUFFICES ASSUME s > launches
             PROVE  FALSE
  BY ServerBounds DEF IInv, Shapes, Sandboxes
<1>1. master[s] = Unused /\ process[s] = NoProcess /\ up[s] = <<>> /\ down[s] = <<>>
  BY DEF IInv, Unlaunched
<1>2. ~master[s].terminated /\ process[s].state = "none" /\ process[s].edit = "idle"
  BY <1>1 DEF Unused, NoProcess
<1>3. s \notin deleting
  BY <1>2 DEF IInv, Registry, Holdings
<1> QED
  BY <1>1, <1>2, <1>3
     DEF Kill, ProcessStep, Process, TellPort, ReceiveConfig, StartWorker,
         ShowEditor,
         HideForOther, WorkerEnds, LosesServer, EditPlugin, HidePlugin, Crash,
         Serves,
         Alive

(* A process does nothing to the server but send it messages.              *)
LEMMA ProcessLeaves ==
  ASSUME NEW s \in Sandboxes, ProcessStep(s)
  PROVE  UNCHANGED <<client, server, entries, deleting, hasScreen, master, early,
                     launches>>
BY DEF ProcessStep, Process, TellPort, ReceiveConfig, StartWorker, ShowEditor,
       HideForOther, WorkerEnds, LosesServer, EditPlugin, HidePlugin, Crash,
       bounds

(* The registry is kept by every step.                                     *)
LEMMA RegistryKept == IInv /\ [Next]_vars => Registry'
<1> SUFFICES ASSUME IInv, [Next]_vars
             PROVE  Registry'
  OBVIOUS
<1>0. /\ client \in [1..Clients -> 0..launches]
      /\ hasScreen = NoId \/ \E s \in 1..launches : master[s].id = hasScreen
      /\ Alike(master, master)
      /\ At("accept") \/ At("stopped") \/ At("down") => server.launched = 0
      /\ master \in Masters
  BY DEF IInv, Shapes, Registry, Holdings, IdsKnown, LaunchedInv, Alike
<1>00. InHand => server.launched \in Sandboxes
  BY ServerBounds DEF IInv, Shapes, Registry, LaunchedInv, Sandboxes
<1>a. ASSUME UNCHANGED <<client, server, entries, deleting, hasScreen, master, early,
                         launches>>
      PROVE  Registry'
  BY <1>0, <1>a, RegistryAlike DEF InHand, At
<1>b. Shapes'
  BY ShapesKept
<1>1. ASSUME NEW c \in 1..Clients, Launch(c) PROVE Registry'
  BY <1>1, <1>b, RegistryLaunch
<1>2. ASSUME NEW c \in 1..Clients, LaunchFails(c) PROVE Registry'
  BY <1>2, <1>b, RegistryLaunchFails
<1>3. ASSUME NEW c \in 1..Clients, Leave(c) PROVE Registry'
  <2>1. client[c] \in Sandboxes
    BY <1>3, <1>0, ServerBounds DEF Leave, IInv, Shapes, Sandboxes
  <2>2. master[client[c]].socket \in Socket
    BY <1>0, <2>1 DEF Masters, Master
  <2>3. PICK k \in Socket : master' = [master EXCEPT ![client[c]].socket = k]
    BY <1>3, <2>2 DEF Leave, Socket
  <2>4. Alike(master, master')
    BY <1>0, <2>1, <2>3, SocketSet
  <2>5. UNCHANGED <<server, entries, deleting, hasScreen, early, launches>>
        /\ client' \in [1..Clients -> 0..launches]
    <3>1. 0 \in 0..launches
      BY DEF IInv, Shapes
    <3> QED
      BY <1>0, <1>3, <3>1 DEF Leave, bounds
  <2> QED
    BY <1>0, <2>4, <2>5, RegistryAlike DEF InHand, At
<1>4. CASE SetCallback
  <2>1. Alike(master, master')
    BY <1>0, <1>00, <1>4, CallbackSet DEF SetCallback, InHand
  <2>2. /\ UNCHANGED <<client, entries, deleting, hasScreen, early, launches>>
        /\ server'.step = "configure" /\ server'.launched = server.launched
    BY <1>4, ServerEdits DEF SetCallback, bounds, IInv, Steps
  <2> QED
    BY <1>0, <1>4, <2>1, <2>2, RegistryAlike DEF InHand, At, SetCallback
<1>5. CASE Configure /\ UNCHANGED master
  <2>1. /\ UNCHANGED <<client, entries, deleting, hasScreen, early, launches>>
        /\ \/ server' = [server EXCEPT !.step = "insert"]
           \/ master' = [master EXCEPT ![server.launched].terminated = TRUE]
    BY <1>5 DEF Configure, bounds
  <2>2. master' # [master EXCEPT ![server.launched].terminated = TRUE]
    <3>1. server.launched \in Sandboxes /\ ~master[server.launched].terminated
      BY <1>5, <1>00 DEF Configure, IInv, Registry, LaunchedInv, InHand
    <3>2. master' = [master EXCEPT ![server.launched].terminated = TRUE]
            => master'[server.launched].terminated
      BY <1>0, <3>1 DEF Masters, Master
    <3> QED
      BY <1>5, <3>1, <3>2
  <2>3. server'.step = "insert" /\ server'.launched = server.launched
    BY <2>1, <2>2, ServerEdits DEF IInv, Steps
  <2> QED
    BY <1>0, <1>5, <2>1, <2>3, RegistryAlike DEF InHand, At, Configure
<1>6. CASE Configure /\ ~UNCHANGED master
  BY <1>6, RegistryConfigureFails
<1>7. CASE Insert
  BY <1>7, RegistryInsert
<1>8. CASE Stop
  BY <1>8, RegistryStop
<1>9. CASE Down
  <2>1. /\ UNCHANGED <<client, entries, deleting, hasScreen, master, early, launches>>
        /\ server'.step = "down" /\ server'.launched = server.launched
    BY <1>9, ServerEdits DEF Down, bounds, IInv, Steps
  <2>2. server.launched = 0
    BY <1>0, <1>9 DEF Down
  <2> QED
    BY <1>0, <2>1, <2>2, RegistryAlike DEF InHand, At
<1>10. ASSUME NEW s \in Sandboxes, Kill(s) PROVE Registry'
  <2>1. /\ UNCHANGED <<client, server, entries, hasScreen, master, early, launches>>
        /\ deleting' \subseteq deleting
    BY <1>10 DEF Kill, bounds
  <2> QED
    BY <1>0, <2>1, RegistryAlike DEF InHand, At
<1>11. ASSUME NEW s \in Sandboxes, ReceivePort(s) PROVE Registry'
  <2> DEFINE m == [master EXCEPT ![s].socket = "done"]
  <2>1. s <= launches /\ ~master[s].terminated
    BY <1>11, ActsOnLaunched DEF ReceivePort, Receive, Handler
  <2>2. m \in Masters /\ Alike(master, m)
    BY <1>0, SocketSet DEF Socket
  <2>3. /\ UNCHANGED <<client, hasScreen, launches>> /\ early \subseteq early'
        /\ \/ UNCHANGED <<master, entries, deleting, server>>
           \/ master' = m /\ UNCHANGED <<entries, deleting, server, early>>
           \/ Remove(master[s].id, m) /\ UNCHANGED early
    BY <1>11 DEF ReceivePort, bounds
  <2> HIDE DEF m
  <2>4. CASE UNCHANGED <<master, entries, deleting, server>> /\ ~UNCHANGED early
    <3> USE <2>3, <2>4 DEF IInv, Registry
    <3>1. Holdings'
      BY DEF Holdings
    <3>2. IdsKnown'
      BY DEF IdsKnown
    <3>3. LaunchedInv'
      BY DEF LaunchedInv, InHand, At
    <3>4. LiveIdsUnique'
      BY DEF LiveIdsUnique
    <3>5. EntriesAlive'
      BY DEF EntriesAlive
    <3>6. InMap'
      BY DEF InMap
    <3> QED
      BY <3>1, <3>2, <3>3, <3>4, <3>5, <3>6
  <2>5. CASE UNCHANGED <<master, entries, deleting, server, early>>
    BY <1>a, <2>3, <2>5
  <2>6. CASE master' = m /\ UNCHANGED <<entries, deleting, server, early>>
    BY <1>0, <2>2, <2>3, <2>6, RegistryAlike DEF InHand, At
  <2>7. CASE Remove(master[s].id, m) /\ UNCHANGED early
    <3>1. server.launched = s /\ m[s].lost => s \in early'
      BY <2>2, <2>7 DEF Alike, IInv, Registry, LaunchedInv, Sandboxes
    <3> QED
      BY <2>1, <2>2, <2>3, <2>7, <3>1, RegistryRemove DEF Alike
  <2> QED
    BY <2>3, <2>4, <2>5, <2>6, <2>7
<1>12. ASSUME NEW s \in Sandboxes, ReceiveShow(s) PROVE Registry'
  BY <1>12, ActsOnLaunched, RegistryShow DEF ReceiveShow, Receive
<1>13. ASSUME NEW s \in Sandboxes, ReceiveHide(s) PROVE Registry'
  <2>1. /\ UNCHANGED <<client, server, entries, deleting, master, early, launches>>
        /\ hasScreen' \in {NoId, hasScreen}
    BY <1>13 DEF ReceiveHide, bounds
  <2> QED
    BY <1>0, <2>1, RegistryAlike DEF InHand, At
<1>14. ASSUME NEW s \in Sandboxes, Lost(s) PROVE Registry'
  <2> DEFINE m == [master EXCEPT ![s].lost = TRUE]
  <2>1. s <= launches /\ ~master[s].terminated
    BY <1>14 DEF Lost, Handler
  <2>2. /\ m \in Masters /\ m[s].id = master[s].id
        /\ m[s].terminated = master[s].terminated
        /\ \A t \in Sandboxes : t # s => m[t] = master[t]
    BY <1>0 DEF Masters, Master
  <2>3. /\ UNCHANGED <<client, hasScreen, launches>> /\ early \subseteq early'
        /\ server.launched = s => s \in early'
        /\ Remove(master[s].id, m)
    BY <1>14 DEF Lost, bounds
  <2> HIDE DEF m
  <2> QED
    BY <2>1, <2>2, <2>3, RegistryRemove
<1>15. ASSUME NEW s \in Sandboxes, ProcessStep(s) PROVE Registry'
  BY <1>15, <1>a, ProcessLeaves
<1>16. CASE UNCHANGED vars
  BY <1>16, <1>a DEF vars, bounds
<1> QED
  BY <1>1, <1>2, <1>3, <1>4, <1>5, <1>6, <1>7, <1>8, <1>9, <1>10, <1>11, <1>12,
     <1>13, <1>14, <1>15, <1>16
     DEF Next, ServerThread, Connection, ProcessStep

-----------------------------------------------------------------------------
(* Every step keeps the rules of the editors.                              *)

(* What is left of a queue ends with the same message.                     *)
LEMMA TailLast ==
  ASSUME NEW T, NEW q \in Seq(T), q # <<>>, Tail(q) # <<>>
  PROVE  Tail(q)[Len(Tail(q))] = q[Len(q)]
OBVIOUS

(* If nothing is left, the first message was the last one.                 *)
LEMMA OneIsLast ==
  ASSUME NEW T, NEW q \in Seq(T), q # <<>>, Tail(q) = <<>>
  PROVE  q[Len(q)] = Head(q)
<1>1. Len(q) > 0 /\ Len(Tail(q)) = Len(q) - 1 /\ Len(q) \in Nat
  OBVIOUS
<1>2. Len(q) = 1
  BY <1>1
<1> QED
  BY <1>2

(* The message that was sent last is the last one.                         *)
LEMMA AppendLast ==
  ASSUME NEW T, NEW q \in Seq(T), NEW x \in T
  PROVE  Append(q, x) # <<>> /\ Append(q, x)[Len(Append(q, x))] = x
OBVIOUS

(* The rules of the editors are kept by every step.                        *)
LEMMA EditorsKept == IInv /\ [Next]_vars => Editors'
<1> SUFFICES ASSUME IInv, [Next]_vars
             PROVE  Editors'
  OBVIOUS
<1>0. /\ process \in Procs /\ up \in [Sandboxes -> Seq(UpMessage)]
      /\ \A s \in Sandboxes : EditorRules(s) /\ process[s] \in Proc
      /\ \A t \in Sandboxes : t > launches => process[t] = NoProcess
      /\ launches \in Nat
  BY DEF IInv, Shapes, Procs, Editors, Unlaunched
<1> USE <1>0
<1>a. ASSUME UNCHANGED <<process, up>>
      PROVE  Editors'
  BY <1>a DEF Editors, EditorRules, Editor
<1>b. ASSUME NEW s \in Sandboxes, EditorRules(s)',
             \A t \in Sandboxes : t # s => process'[t] = process[t] /\ up'[t] = up[t]
      PROVE  Editors'
  BY <1>b DEF Editors, EditorRules, Editor
<1>c. ASSUME NEW s \in Sandboxes,
             NEW x \in {"none", "init", "wait", "ended", "crashed"},
             Exit(s, x), UNCHANGED up
      PROVE  Editors'
  <2>1. /\ process'[s] = [NoProcess EXCEPT !.state = x]
        /\ \A t \in Sandboxes : t # s => process'[t] = process[t]
    BY <1>c, ExitEffect
  <2>2. EditorRules(s)'
    BY <2>1 DEF EditorRules, Editor, NoProcess
  <2> QED
    BY <1>b, <1>c, <2>1, <2>2
<1>d. ASSUME NEW s \in Sandboxes, NEW x, Receive(s, x), UNCHANGED process
      PROVE  Editors'
  <2>1. /\ up[s] # <<>> /\ up'[s] = Tail(up[s])
        /\ \A t \in Sandboxes : t # s => up'[t] = up[t]
    BY <1>d, Taken DEF Receive
  <2>2. up'[s] # <<>> => up'[s][Len(up'[s])] = up[s][Len(up[s])]
    BY <2>1, TailLast
  <2>3. EditorRules(s)'
    BY <1>d, <2>1, <2>2 DEF EditorRules, Editor
  <2> QED
    BY <1>b, <1>d, <2>1, <2>3
<1>1. ASSUME NEW c \in 1..Clients, Launch(c) PROVE Editors'
  <2>1. PICK s \in Sandboxes : s = launches + 1 /\ process[s] = NoProcess
    <3>1. launches + 1 \in Sandboxes /\ launches + 1 > launches
      BY <1>1, LaunchEffect
    <3> QED
      BY <3>1
  <2>2. process' = [process EXCEPT ![s].state = "init"] /\ UNCHANGED up
    BY <1>1, <2>1 DEF Launch
  <2>3. /\ process'[s] = [NoProcess EXCEPT !.state = "init"]
        /\ \A t \in Sandboxes : t # s => process'[t] = process[t]
    BY <2>1, <2>2 DEF Procs
  <2>4. EditorRules(s)'
    BY <2>3 DEF EditorRules, Editor, NoProcess
  <2> QED
    BY <1>b, <2>1, <2>2, <2>3, <2>4
<1>2. ASSUME NEW c \in 1..Clients, LaunchFails(c) PROVE Editors'
  <2>1. launches + 1 \in Sandboxes
    BY <1>2, LaunchFailsEffect
  <2> QED
    BY <1>2, <1>c, <2>1 DEF LaunchFails
<1>3. ASSUME NEW c \in 1..Clients, Leave(c) PROVE Editors'
  BY <1>3, <1>a DEF Leave
<1>4. CASE ServerThread \/ Stop
  BY <1>4, <1>a DEF ServerThread, SetCallback, Configure, Insert, Down, Stop
<1>5. ASSUME NEW s \in Sandboxes, Kill(s) PROVE Editors'
  <2>1. process[s].state \in {"none", "init", "wait", "run", "ended", "crashed"}
    BY DEF Proc
  <2> QED
    BY <1>5, <1>c, <2>1 DEF Kill, Alive
<1>6. ASSUME NEW s \in Sandboxes, Connection(s) PROVE Editors'
  BY <1>6, <1>a, <1>d
     DEF Connection, ReceivePort, ReceiveShow, ReceiveHide, Lost
<1>7. ASSUME NEW s \in Sandboxes, TellPort(s) PROVE Editors'
  <2>1. /\ process' = [process EXCEPT ![s].state = "wait"]
        /\ process[s].state = "init"
        /\ up' = [up EXCEPT ![s] = Append(@, "PORT")]
    BY <1>7 DEF TellPort, Tell
  <2>2. /\ process'[s] = [process[s] EXCEPT !.state = "wait"]
        /\ \A t \in Sandboxes : t # s => process'[t] = process[t] /\ up'[t] = up[t]
    BY <2>1 DEF Procs
  <2>3. EditorRules(s)'
    BY <2>1, <2>2 DEF EditorRules, Editor, Proc
  <2> QED
    BY <1>b, <2>2, <2>3
<1>8. ASSUME NEW s \in Sandboxes, ReceiveConfig(s) \/ StartWorker(s)
      PROVE  Editors'
  <2>1. /\ \/ process' = [process EXCEPT ![s].ready = TRUE]
           \/ process' = [process EXCEPT ![s].state = "run"] /\ process[s].state = "wait"
        /\ UNCHANGED up
    BY <1>8 DEF ReceiveConfig, StartWorker
  <2>2. /\ \/ process'[s] = [process[s] EXCEPT !.ready = TRUE]
           \/ process'[s] = [process[s] EXCEPT !.state = "run"] /\ process[s].state = "wait"
        /\ \A t \in Sandboxes : t # s => process'[t] = process[t]
    BY <2>1 DEF Procs
  <2>3. EditorRules(s)'
    BY <2>1, <2>2 DEF EditorRules, Editor, Proc
  <2> QED
    BY <1>b, <2>1, <2>2, <2>3
<1>9. ASSUME NEW s \in Sandboxes, ShowEditor(s) PROVE Editors'
  <2>1. /\ \/ /\ process[s].edit = "told"
              /\ process'[s] = [process[s] EXCEPT !.edit = "shown", !.window = TRUE]
           \/ /\ process[s].edit = "shown"
              /\ process'[s] = [process[s] EXCEPT !.edit = "idle", !.active = TRUE]
        /\ UNCHANGED up
        /\ \A t \in Sandboxes : t # s => process'[t] = process[t]
    BY <1>9 DEF ShowEditor, Procs
  <2>2. EditorRules(s)'
    BY <2>1 DEF EditorRules, Editor, Proc
  <2> QED
    BY <1>b, <2>1, <2>2
<1>10. ASSUME NEW s \in Sandboxes, HideForOther(s) PROVE Editors'
  <2> DEFINE p == process[s]
  <2>1. /\ process'[s] = [p EXCEPT !.active = FALSE, !.window = p.window /\ ~p.active]
        /\ UNCHANGED up
        /\ \A t \in Sandboxes : t # s => process'[t] = process[t]
    BY <1>10 DEF HideForOther, Procs
  <2>2. EditorRules(s)'
    BY <2>1 DEF EditorRules, Editor, Proc
  <2> QED
    BY <1>b, <2>1, <2>2
<1>11. ASSUME NEW s \in Sandboxes, EditPlugin(s) PROVE Editors'
  <2>1. /\ process' = [process EXCEPT ![s].edit = "told"]
        /\ process[s].state = "run"
        /\ up' = [up EXCEPT ![s] = Append(@, "SHOW")]
    BY <1>11 DEF EditPlugin, Tell, Serves
  <2>2. /\ process'[s] = [process[s] EXCEPT !.edit = "told"]
        /\ up'[s] = Append(up[s], "SHOW")
        /\ \A t \in Sandboxes : t # s => process'[t] = process[t] /\ up'[t] = up[t]
    BY <2>1 DEF Procs
  <2>3. up'[s] # <<>> /\ up'[s][Len(up'[s])] = "SHOW"
    <3>1. up[s] \in Seq(UpMessage) /\ "SHOW" \in UpMessage
      BY DEF UpMessage
    <3> QED
      BY <2>2, <3>1, AppendLast
  <2>4. EditorRules(s)'
    BY <2>1, <2>2, <2>3 DEF EditorRules, Editor, Proc
  <2> QED
    BY <1>b, <2>2, <2>4
<1>12. ASSUME NEW s \in Sandboxes, HidePlugin(s) PROVE Editors'
  <2>1. /\ process'[s] = [process[s] EXCEPT !.active = FALSE, !.window = FALSE]
        /\ process[s].state = "run" /\ process[s].edit = "idle"
        /\ \A t \in Sandboxes : t # s => process'[t] = process[t] /\ up'[t] = up[t]
    BY <1>12 DEF HidePlugin, Tell, Serves, Procs
  <2>2. EditorRules(s)'
    BY <2>1 DEF EditorRules, Editor, Proc
  <2> QED
    BY <1>b, <2>1, <2>2
<1>13. ASSUME NEW s \in Sandboxes, WorkerEnds(s) \/ LosesServer(s) \/ Crash(s)
       PROVE  Editors'
  BY <1>13, <1>c DEF WorkerEnds, LosesServer, Crash
<1>14. CASE UNCHANGED vars
  BY <1>14, <1>a DEF vars
<1> QED
  BY <1>1, <1>2, <1>3, <1>4, <1>5, <1>6, <1>7, <1>8, <1>9, <1>10, <1>11, <1>12,
     <1>13, <1>14 DEF Next, Process

-----------------------------------------------------------------------------
(* Every step keeps the editors accounted for.                             *)

(* SHOW_EDITOR of a sandbox: the sandbox that had the screen is the entry  *)
(* of its id, and is asked to hide, or counts as missed.                   *)
LEMMA ScreenShow ==
  ASSUME IInv, NEW s \in Sandboxes, ReceiveShow(s)
  PROVE  ScreenInv'
<1> DEFINE other == hasScreen
<1>0. /\ down \in [Sandboxes -> Seq(DownMessage)]
      /\ \A t \in Sandboxes : Shows(t) => Accounted(t)
      /\ s \in 1..launches /\ ~master[s].terminated
  <2>1. /\ down \in [Sandboxes -> Seq(DownMessage)]
        /\ \A t \in Sandboxes : Shows(t) => Accounted(t)
    BY DEF IInv, Shapes, ScreenInv
  <2>2. up[s] # <<>> /\ ~master[s].terminated
    BY DEF ReceiveShow, Receive, Handler
  <2>3. s \in 1..launches
    BY <2>2, ActsOnLaunched DEF Sandboxes
  <2> QED
    BY <2>1, <2>2, <2>3
<1>1. /\ UNCHANGED <<process, master>>
      /\ hasScreen' = master[s].id
      /\ \A t \in Sandboxes : t # s => up'[t] = up[t]
  BY DEF ReceiveShow, Receive, IInv, Shapes
<1>2. \A t \in Sandboxes : Editor(t) => t \in 1..launches
  <2>1. \A t \in Sandboxes : t > launches => ~Editor(t)
    BY DEF IInv, Unlaunched, Editor, NoProcess
  <2>2. launches \in Nat
    BY DEF IInv, Shapes
  <2> QED
    BY <2>1, <2>2, ServerBounds DEF Sandboxes
<1>3. \/ other \in {NoId, master[s].id} /\ UNCHANGED <<down, missed>>
      \/ /\ other # master[s].id /\ Entered(other) /\ UNCHANGED missed
         /\ down' = [down EXCEPT ![entries[other]] = Append(@, "HIDE")]
      \/ /\ other # master[s].id /\ UNCHANGED down
         /\ missed' = missed \cup {t \in Sandboxes : master[t].id = other}
  BY DEF ReceiveShow, Displaced
<1>4. \A t \in Sandboxes : HideUnderWay(t) => HideUnderWay(t)'
  <2>1. CASE UNCHANGED down
    BY <2>1 DEF HideUnderWay
  <2>2. CASE /\ Entered(other)
             /\ down' = [down EXCEPT ![entries[other]] = Append(@, "HIDE")]
    <3>1. entries[other] \in Sandboxes
      BY <2>2, ServerBounds, SMTT(40)
        DEF Entered, IInv, Shapes, Registry, Holdings, Sandboxes
    <3>2. PICK e \in Sandboxes : down' = [down EXCEPT ![e] = Append(@, "HIDE")]
      BY <2>2, <3>1
    <3>3. /\ down'[e] = Append(down[e], "HIDE")
          /\ \A t \in Sandboxes : t # e => down'[t] = down[t]
      BY <1>0, <3>2, Appended DEF DownMessage
    <3>4. ASSUME NEW i \in DOMAIN down[e], down[e][i] = "HIDE"
          PROVE  /\ i \in DOMAIN Append(down[e], "HIDE")
                 /\ Append(down[e], "HIDE")[i] = "HIDE"
      <4>1. down[e] \in Seq(DownMessage)
        BY <1>0
      <4> QED
        BY <3>4, <4>1
    <3> QED
      BY <3>3, <3>4 DEF HideUnderWay
  <2> QED
    BY <1>3, <2>1, <2>2
<1>5. ASSUME NEW t \in Sandboxes, Shows(t)'
      PROVE  Accounted(t)'
  <2>1. Shows(t) /\ Accounted(t) /\ t \in 1..launches
    <3>1. missed \subseteq missed'
      BY <1>3
    <3> QED
      BY <1>0, <1>1, <1>2, <1>5, <3>1 DEF Shows, Editor
  <2>2. CASE t = s
    BY <1>1, <2>2 DEF Accounted
  <2>3. CASE t # s /\ hasScreen # master[t].id
    BY <1>1, <1>4, <2>1, <2>3 DEF Accounted
  <2>4. CASE t # s /\ hasScreen = master[t].id
    <3>1. other # NoId /\ other # master[s].id
      <4>1. master[t].id \in Ids
        BY <2>1 DEF IInv, Registry, IdsKnown, Shows
      <4>2. NoId \notin Ids
        BY ServerBounds DEF NoId, Ids
      <4>3. master[t].id # master[s].id
        BY <1>0, <2>1, <2>4 DEF IInv, Registry, LiveIdsUnique, Shows
      <4> QED
        BY <2>4, <4>1, <4>2, <4>3
    <3>2. CASE missed' = missed \cup {u \in Sandboxes : master[u].id = other}
      BY <1>5, <2>4, <3>2 DEF Shows
    <3>3. CASE /\ Entered(other)
               /\ down' = [down EXCEPT ![entries[other]] = Append(@, "HIDE")]
      <4>1. entries[other] = t
        <5>1. entries[other] \in 1..launches /\ other \in DOMAIN entries
          BY <3>3 DEF Entered, IInv, Shapes, Registry, Holdings
        <5>2. ~master[entries[other]].terminated /\ master[entries[other]].id = other
          BY <5>1 DEF IInv, Registry, EntriesAlive
        <5> QED
          BY <2>1, <2>4, <5>1, <5>2 DEF IInv, Registry, LiveIdsUnique, Shows
      <4>2. down'[t] = Append(down[t], "HIDE") /\ down[t] \in Seq(DownMessage)
        BY <1>0, <3>3, <4>1
      <4>3. Len(down[t]) + 1 \in DOMAIN down'[t] /\ down'[t][Len(down[t]) + 1] = "HIDE"
        BY <4>2
      <4>4. HideUnderWay(t)'
        BY <4>3 DEF HideUnderWay
      <4> QED
        BY <4>4 DEF Accounted
    <3> QED
      BY <1>3, <3>1, <3>2, <3>3
  <2> QED
    BY <2>2, <2>3, <2>4
<1> QED
  BY <1>5 DEF ScreenInv

(* Every editor that is shown stays accounted for.                         *)
LEMMA ScreenKept == IInv /\ [Next]_vars => ScreenInv'
<1> SUFFICES ASSUME IInv, [Next]_vars
             PROVE  ScreenInv'
  OBVIOUS
<1>0. /\ process \in Procs /\ master \in Masters
      /\ up \in [Sandboxes -> Seq(UpMessage)]
      /\ down \in [Sandboxes -> Seq(DownMessage)]
      /\ \A s \in Sandboxes : EditorRules(s) /\ process[s] \in Proc
      /\ \A s \in Sandboxes : Shows(s) => Accounted(s)
      /\ launches \in Nat
  BY DEF IInv, Shapes, Procs, Editors, ScreenInv
<1>00. \A s \in Sandboxes : s > launches => ~Editor(s)
  BY DEF IInv, Unlaunched, Editor, NoProcess
<1> USE <1>0
<1>a. ASSUME UNCHANGED <<process, hasScreen, missed>>,
             \A t \in Sandboxes : /\ master'[t].id = master[t].id
                                  /\ master[t].terminated => master'[t].terminated
                                  /\ up[t] # <<>> => up'[t] # <<>>
                                  /\ HideUnderWay(t) => HideUnderWay(t)'
      PROVE  ScreenInv'
  BY <1>a DEF ScreenInv, Shows, Accounted, Editor
<1>b. ASSUME NEW s \in Sandboxes, ~Shows(s)' \/ Accounted(s)', UNCHANGED hasScreen,
             \A t \in Sandboxes : t # s =>
               /\ process'[t] = process[t] /\ master'[t] = master[t]
               /\ up'[t] = up[t] /\ down'[t] = down[t]
               /\ t \in missed => t \in missed'
      PROVE  ScreenInv'
  <2>1. ASSUME NEW t \in Sandboxes, t # s, Shows(t)' PROVE Accounted(t)'
    <3>1. Shows(t)
      BY <1>b, <2>1 DEF Shows, Editor
    <3>2. Accounted(t)
      BY <3>1
    <3> QED
      BY <1>b, <2>1, <3>2 DEF Accounted, HideUnderWay
  <2> QED
    BY <1>b, <2>1 DEF ScreenInv
<1>c. ASSUME NEW s \in Sandboxes,
             NEW x \in {"none", "init", "wait", "run", "ended", "crashed"},
             Exit(s, x), UNCHANGED <<master, up, down, hasScreen, missed>>
      PROVE  ScreenInv'
  <2>1. /\ process'[s] = [NoProcess EXCEPT !.state = x]
        /\ \A t \in Sandboxes : t # s => process'[t] = process[t]
    BY <1>c, ExitEffect
  <2>2. ~Shows(s)'
    BY <2>1 DEF Shows, Editor, NoProcess
  <2> QED
    BY <1>b, <1>c, <2>1, <2>2
<1>d. ASSUME NEW s \in Sandboxes, NEW x \in {"PORT", "HIDE"}, Receive(s, x)
      PROVE  /\ s \in 1..launches /\ s \in Sandboxes /\ ~master[s].terminated
             /\ Editor(s) => up'[s] # <<>>
             /\ \A t \in Sandboxes : up[t] # <<>> /\ t # s => up'[t] # <<>>
  <2>1. /\ up[s] # <<>> /\ Head(up[s]) = x /\ up'[s] = Tail(up[s])
        /\ \A t \in Sandboxes : t # s => up'[t] = up[t]
    BY <1>d, Taken DEF Receive
  <2>2. Editor(s) => up[s][Len(up[s])] = "SHOW"
    BY <2>1 DEF EditorRules
  <2>3. up[s] \in Seq(UpMessage)
    OBVIOUS
  <2>4. Editor(s) => Tail(up[s]) # <<>>
    <3>1. Tail(up[s]) = <<>> => up[s][Len(up[s])] = Head(up[s])
      BY <2>1, <2>3, OneIsLast
    <3> QED
      BY <2>1, <2>2, <3>1
  <2>5. s <= launches
    BY <2>1, ActsOnLaunched
  <2> QED
    BY <1>d, <2>1, <2>4, <2>5 DEF Receive, Handler, Sandboxes
<1>1. ASSUME NEW c \in 1..Clients, Launch(c) PROVE ScreenInv'
  <2>1. PICK s \in Sandboxes :
          /\ s = launches + 1 /\ process[s] = NoProcess
          /\ \A t \in Sandboxes : t # s => master'[t] = master[t]
    <3>1. launches + 1 \in Sandboxes /\ launches + 1 > launches
      BY <1>1, LaunchEffect
    <3>2. process[launches + 1] = NoProcess
      BY <3>1 DEF IInv, Unlaunched
    <3> QED
      BY <1>1, <3>1, <3>2, LaunchEffect
  <2>2. /\ process' = [process EXCEPT ![s].state = "init"]
        /\ UNCHANGED <<up, down, hasScreen, missed>>
    BY <1>1, <2>1 DEF Launch
  <2>3. /\ process'[s] = [NoProcess EXCEPT !.state = "init"]
        /\ \A t \in Sandboxes : t # s => process'[t] = process[t]
    BY <2>1, <2>2 DEF Procs
  <2>4. ~Shows(s)'
    BY <2>3 DEF Shows, Editor, NoProcess
  <2> QED
    BY <1>b, <2>1, <2>2, <2>3, <2>4
<1>2. ASSUME NEW c \in 1..Clients, LaunchFails(c) PROVE ScreenInv'
  <2>1. PICK s \in Sandboxes :
          /\ s = launches + 1
          /\ \A t \in Sandboxes : t # s => master'[t] = master[t]
    BY <1>2, LaunchFailsEffect
  <2>2. Exit(s, "crashed") /\ UNCHANGED <<up, down, hasScreen, missed>>
    BY <1>2, <2>1 DEF LaunchFails
  <2>3. /\ process'[s] = [NoProcess EXCEPT !.state = "crashed"]
        /\ \A t \in Sandboxes : t # s => process'[t] = process[t]
    BY <2>2, ExitEffect
  <2>4. ~Shows(s)'
    BY <2>3 DEF Shows, Editor, NoProcess
  <2> QED
    BY <1>b, <2>1, <2>2, <2>3, <2>4
<1>3. ASSUME NEW c \in 1..Clients, Leave(c) PROVE ScreenInv'
  <2>1. client[c] \in Sandboxes
    BY <1>3, ServerBounds DEF Leave, IInv, Registry, Holdings, Shapes, Sandboxes
  <2>2. master[client[c]].socket \in Socket
    BY <2>1 DEF Masters, Master
  <2>3. PICK k \in Socket : master' = [master EXCEPT ![client[c]].socket = k]
    BY <1>3, <2>2 DEF Leave, Socket
  <2>4. Alike(master, master')
    BY <2>1, <2>3, SocketSet
  <2>5. UNCHANGED <<process, hasScreen, missed, up, down>>
    BY <1>3 DEF Leave
  <2> QED
    BY <1>a, <2>4, <2>5 DEF Alike, HideUnderWay
<1>4. CASE SetCallback
  <2>1. server.launched \in Sandboxes
    BY <1>4, ServerBounds
       DEF SetCallback, IInv, Shapes, Registry, LaunchedInv, InHand,
       Sandboxes
  <2>2. Alike(master, master')
    BY <1>4, <2>1, CallbackSet DEF SetCallback
  <2>3. UNCHANGED <<process, hasScreen, missed, up, down>>
    BY <1>4 DEF SetCallback
  <2> QED
    BY <1>a, <2>2, <2>3 DEF Alike, HideUnderWay
<1>5. CASE Configure
  <2> DEFINE s == server.launched
  <2>1. s \in Sandboxes
    BY <1>5, ServerBounds
       DEF Configure, IInv, Shapes, Registry, LaunchedInv, InHand,
       Sandboxes
  <2>2. \A t \in Sandboxes : /\ master'[t].id = master[t].id
                             /\ master[t].terminated => master'[t].terminated
    <3>1. CASE master' = [master EXCEPT ![s].terminated = TRUE]
      <4>1. /\ master'[s].id = master[s].id /\ master'[s].terminated
            /\ \A t \in Sandboxes : t # s => master'[t] = master[t]
        BY <2>1, <3>1 DEF Masters, Master
      <4> QED
        BY <4>1
    <3> QED
      BY <1>5, <3>1 DEF Configure
  <2>3. \A t \in Sandboxes : HideUnderWay(t) => HideUnderWay(t)'
    <3>1. CASE down' = [down EXCEPT ![s] = Append(@, "CONFIG")]
      <4>1. /\ down'[s] = Append(down[s], "CONFIG")
            /\ \A t \in Sandboxes : t # s => down'[t] = down[t]
        BY <2>1, <3>1, Appended DEF DownMessage
      <4>2. ASSUME NEW i \in DOMAIN down[s], down[s][i] = "HIDE"
            PROVE  i \in DOMAIN Append(down[s], "CONFIG")
                   /\ Append(down[s], "CONFIG")[i] = "HIDE"
        <5>1. down[s] \in Seq(DownMessage)
          BY <2>1
        <5> QED
          BY <4>2, <5>1
      <4> QED
        BY <4>1, <4>2 DEF HideUnderWay
    <3>2. CASE UNCHANGED down
      BY <3>2 DEF HideUnderWay
    <3> QED
      BY <1>5, <3>1, <3>2 DEF Configure
  <2>4. UNCHANGED <<process, hasScreen, missed, up>>
    BY <1>5 DEF Configure
  <2> QED
    BY <1>a, <2>2, <2>3, <2>4
<1>6. CASE Insert \/ Down \/ UNCHANGED vars
  <2>1. UNCHANGED <<master, process, hasScreen, missed, up, down>>
    BY <1>6 DEF Insert, Down, vars
  <2> QED
    BY <1>a, <2>1 DEF HideUnderWay
<1>7. CASE Stop
  <2>1. \A t \in Sandboxes : [master[t] EXCEPT !.terminated = TRUE].id = master[t].id
                             /\ [master[t] EXCEPT !.terminated = TRUE].terminated
    BY DEF Masters, Master
  <2>2. \A t \in Sandboxes :
          master'[t] \in {master[t], [master[t] EXCEPT !.terminated = TRUE]}
    BY <1>7 DEF Stop
  <2>3. UNCHANGED <<process, hasScreen, missed, up, down>>
    BY <1>7 DEF Stop
  <2>4. \A t \in Sandboxes : /\ master'[t].id = master[t].id
                             /\ master[t].terminated => master'[t].terminated
    BY <2>1, <2>2
  <2> QED
    BY <1>a, <2>3, <2>4 DEF HideUnderWay
<1>8. ASSUME NEW s \in Sandboxes, Kill(s) PROVE ScreenInv'
  <2>1. process[s].state \in {"none", "init", "wait", "run", "ended", "crashed"}
    BY DEF Proc
  <2> QED
    BY <1>8, <1>c, <2>1 DEF Kill
<1>9. ASSUME NEW s \in Sandboxes, NEW m \in Masters,
             s <= launches, ~master[s].terminated,
             Remove(master[s].id, m),
             \A t \in Sandboxes : /\ m[t].id = master[t].id
                                  /\ m[t].terminated = master[t].terminated
      PROVE  \A t \in Sandboxes : /\ master'[t].id = master[t].id
                                  /\ master[t].terminated => master'[t].terminated
  <2>1. master' = m \/ master' = [m EXCEPT ![s].terminated = TRUE]
    BY <1>9, RemoveEffect DEF Terminated
  <2>2. CASE master' = [m EXCEPT ![s].terminated = TRUE]
    <3>1. /\ master'[s].id = m[s].id /\ master'[s].terminated
          /\ \A t \in Sandboxes : t # s => master'[t] = m[t]
      BY <1>9, <2>2 DEF Masters, Master
    <3> QED
      BY <1>9, <3>1
  <2> QED
    BY <1>9, <2>1, <2>2
<1>10. ASSUME NEW s \in Sandboxes, ReceivePort(s) PROVE ScreenInv'
  <2> DEFINE m == [master EXCEPT ![s].socket = "done"]
  <2>1. m \in Masters /\ Alike(master, m)
    BY SocketSet DEF Socket
  <2>2. /\ Receive(s, "PORT") /\ UNCHANGED <<process, hasScreen, missed, down>>
        /\ UNCHANGED master \/ master' = m \/ Remove(master[s].id, m)
    BY <1>10 DEF ReceivePort
  <2> HIDE DEF m
  <2>3. s <= launches /\ ~master[s].terminated
        /\ (Editor(s) => up'[s] # <<>>)
        /\ \A t \in Sandboxes : up[t] # <<>> /\ t # s => up'[t] # <<>>
    BY <2>2, <1>d
  <2>4. \A t \in Sandboxes : /\ master'[t].id = master[t].id
                             /\ master[t].terminated => master'[t].terminated
    BY <1>9, <2>1, <2>2, <2>3 DEF Alike
  <2> QED
    BY <2>2, <2>3, <2>4 DEF ScreenInv, Shows, Accounted, Editor, HideUnderWay
<1>11. ASSUME NEW s \in Sandboxes, Lost(s) PROVE ScreenInv'
  <2> DEFINE m == [master EXCEPT ![s].lost = TRUE]
  <2>1. /\ m \in Masters
        /\ \A t \in Sandboxes : m[t].id = master[t].id
                                /\ m[t].terminated = master[t].terminated
    <3>1. /\ m \in Masters /\ m[s].id = master[s].id
          /\ m[s].terminated = master[s].terminated
          /\ \A t \in Sandboxes : t # s => m[t] = master[t]
      BY DEF Masters, Master
    <3> QED
      BY <3>1
  <2>2. /\ UNCHANGED <<process, hasScreen, missed, up, down>>
        /\ Remove(master[s].id, m) /\ s <= launches /\ ~master[s].terminated
    BY <1>11 DEF Lost, Handler
  <2> HIDE DEF m
  <2>3. \A t \in Sandboxes : /\ master'[t].id = master[t].id
                             /\ master[t].terminated => master'[t].terminated
    BY <1>9, <2>1, <2>2
  <2> QED
    BY <1>a, <2>2, <2>3 DEF HideUnderWay
<1>12. ASSUME NEW s \in Sandboxes, ReceiveShow(s) PROVE ScreenInv'
  BY <1>12, ScreenShow
<1>13. ASSUME NEW s \in Sandboxes, ReceiveHide(s) PROVE ScreenInv'
  <2>1. /\ Receive(s, "HIDE") /\ UNCHANGED <<process, missed, down, master>>
        /\ hasScreen' = IF hasScreen = master[s].id THEN NoId ELSE hasScreen
    BY <1>13 DEF ReceiveHide
  <2>2. s \in 1..launches /\ ~master[s].terminated
        /\ (Editor(s) => up'[s] # <<>>)
        /\ \A t \in Sandboxes : up[t] # <<>> /\ t # s => up'[t] # <<>>
    BY <2>1, <1>d
  <2>3. \A t \in 1..launches :
          ~master[t].terminated /\ master[t].id = master[s].id => t = s
    BY <2>2 DEF IInv, Registry, LiveIdsUnique
  <2>4. \A t \in Sandboxes : Editor(t) => t \in 1..launches
    BY <1>00, ServerBounds DEF Sandboxes
  <2>5. ASSUME NEW t \in Sandboxes, Shows(t)' PROVE Accounted(t)'
    <3>1. Shows(t) /\ Accounted(t) /\ t \in 1..launches
      BY <2>1, <2>4, <2>5 DEF Shows, Editor
    <3>2. CASE t = s
      BY <2>2, <3>1, <3>2 DEF Shows, Accounted
    <3>3. CASE t # s
      BY <2>1, <2>2, <2>3, <3>1, <3>3 DEF Shows, Accounted, HideUnderWay
    <3> QED
      BY <3>2, <3>3
  <2> QED
    BY <2>5 DEF ScreenInv
<1>14. ASSUME NEW s \in Sandboxes, TellPort(s) \/ EditPlugin(s) PROVE ScreenInv'
  <2>1. PICK x \in UpMessage : up' = [up EXCEPT ![s] = Append(@, x)]
    BY <1>14 DEF TellPort, EditPlugin, Tell, UpMessage
  <2>2. up'[s] = Append(up[s], x) /\ \A t \in Sandboxes : t # s => up'[t] = up[t]
    BY <2>1, Appended
  <2>3. up'[s] # <<>>
    BY <2>2, AppendLast
  <2>4. \A t \in Sandboxes : t # s => process'[t] = process[t]
    BY <1>14 DEF TellPort, EditPlugin, Procs
  <2>5. /\ UNCHANGED <<hasScreen, master, down>>
        /\ \A t \in Sandboxes : t # s /\ t \in missed => t \in missed'
    BY <1>14 DEF TellPort, EditPlugin
  <2>6. Accounted(s)'
    BY <2>3 DEF Accounted
  <2> QED
    BY <1>b, <2>2, <2>4, <2>5, <2>6
<1>15. ASSUME NEW s \in Sandboxes, ReceiveConfig(s) PROVE ScreenInv'
  <2>1. /\ down[s] # <<>> /\ Head(down[s]) = "CONFIG"
        /\ down' = [down EXCEPT ![s] = Tail(@)]
        /\ process' = [process EXCEPT ![s].ready = TRUE]
        /\ UNCHANGED <<hasScreen, master, up, missed>>
    BY <1>15 DEF ReceiveConfig
  <2>2. /\ down'[s] = Tail(down[s])
        /\ process'[s].edit = process[s].edit
        /\ process'[s].window = process[s].window
        /\ \A t \in Sandboxes : t # s => down'[t] = down[t] /\ process'[t] = process[t]
    BY <2>1 DEF Procs, Proc
  <2>3. HideUnderWay(s) => HideUnderWay(s)'
    <3>1. SUFFICES ASSUME NEW i \in DOMAIN down[s], down[s][i] = "HIDE"
                   PROVE  i - 1 \in DOMAIN Tail(down[s]) /\ Tail(down[s])[i - 1] = "HIDE"
      BY <2>2 DEF HideUnderWay
    <3>2. down[s] \in Seq(DownMessage)
      OBVIOUS
    <3>3. i # 1
      BY <2>1, <3>1, <3>2
    <3> QED
      BY <3>1, <3>2, <3>3
  <2>4. ~Shows(s)' \/ Accounted(s)'
    BY <2>1, <2>2, <2>3 DEF Shows, Accounted, Editor
  <2> QED
    BY <1>b, <2>1, <2>2, <2>4
<1>16. ASSUME NEW s \in Sandboxes, StartWorker(s) \/ ShowEditor(s)
       PROVE  ScreenInv'
  <2>1. /\ \/ process'[s] = [process[s] EXCEPT !.state = "run"]
           \/ /\ process[s].edit = "told"
              /\ process'[s] = [process[s] EXCEPT !.edit = "shown", !.window = TRUE]
           \/ /\ process[s].edit = "shown"
              /\ process'[s] = [process[s] EXCEPT !.edit = "idle", !.active = TRUE]
        /\ UNCHANGED <<hasScreen, master, up, down, missed>>
        /\ \A t \in Sandboxes : t # s => process'[t] = process[t]
    BY <1>16 DEF StartWorker, ShowEditor, Procs
  <2>2. Editor(s)' => Editor(s)
    BY <2>1 DEF Editor, Proc
  <2>3. ~Shows(s)' \/ Accounted(s)'
    BY <2>1, <2>2 DEF Shows, Accounted, HideUnderWay
  <2> QED
    BY <1>b, <2>1, <2>3
<1>17. ASSUME NEW s \in Sandboxes, HideForOther(s) PROVE ScreenInv'
  <2> DEFINE p == process[s]
  <2>1. /\ process'[s] = [p EXCEPT !.active = FALSE, !.window = p.window /\ ~p.active]
        /\ missed' = IF p.edit = "told" \/ (p.edit = "shown" /\ ~p.active)
                       THEN missed \cup {s} ELSE missed
        /\ UNCHANGED <<hasScreen, master, up>>
        /\ \A t \in Sandboxes : t # s => process'[t] = process[t] /\ down'[t] = down[t]
    BY <1>17 DEF HideForOther, Procs
  <2>2. ~Shows(s)'
    BY <2>1 DEF Shows, Editor, EditorRules, Proc
  <2> QED
    BY <1>b, <2>1, <2>2
<1>18. ASSUME NEW s \in Sandboxes, HidePlugin(s) PROVE ScreenInv'
  <2>1. /\ process'[s] = [process[s] EXCEPT !.active = FALSE, !.window = FALSE]
        /\ process[s].edit = "idle"
        /\ \A t \in Sandboxes : t # s => process'[t] = process[t] /\ up'[t] = up[t]
        /\ UNCHANGED <<hasScreen, master, down, missed>>
    BY <1>18 DEF HidePlugin, Tell, Procs
  <2>2. ~Shows(s)'
    BY <2>1 DEF Shows, Editor, Proc
  <2> QED
    BY <1>b, <2>1, <2>2
<1>19. ASSUME NEW s \in Sandboxes, WorkerEnds(s) \/ LosesServer(s) \/ Crash(s)
       PROVE  ScreenInv'
  BY <1>19, <1>c DEF WorkerEnds, LosesServer, Crash
<1> QED
  BY <1>1, <1>2, <1>3, <1>4, <1>5, <1>6, <1>7, <1>8, <1>10, <1>11, <1>12,
     <1>13, <1>14, <1>15, <1>16, <1>17, <1>18, <1>19
     DEF Next, Process, Connection, ServerThread

-----------------------------------------------------------------------------
(* The invariant.                                                          *)

(* The server starts in the invariant.                                     *)
LEMMA InitHolds == Init => IInv
<1> SUFFICES ASSUME Init
             PROVE  IInv
  OBVIOUS
<1> USE ServerBounds DEF Init
<1>1. Shapes
  <2>1. Unused \in Master
    BY DEF Unused, Master, Socket
  <2>2. NoProcess \in Proc
    BY DEF NoProcess, Proc
  <2>3. master \in Masters /\ process \in Procs
    BY <2>1, <2>2 DEF Masters, Procs
  <2> QED
    BY <2>3 DEF Shapes, Steps
<1>2. Unlaunched
  BY DEF Unlaunched
<1>3. DOMAIN entries = {}
  OBVIOUS
<1>4. Registry
  BY <1>3
     DEF Registry, Holdings, IdsKnown, LaunchedInv, InHand, At, LiveIdsUnique,
     EntriesAlive, InMap
<1>5. Editors
  BY DEF Editors, EditorRules, Editor, NoProcess
<1>6. ScreenInv
  BY DEF ScreenInv, Shows, Editor, NoProcess
<1> QED
  BY <1>1, <1>2, <1>4, <1>5, <1>6 DEF IInv

(* A step leaves sandbox n alone.                                          *)
AsBefore(n) ==
  /\ master'[n] = master[n] /\ process'[n] = process[n]
  /\ up'[n] = up[n] /\ down'[n] = down[n]

(* Every step leaves alone what was not launched.                          *)
LEMMA UnlaunchedKept == IInv /\ [Next]_vars => Unlaunched'
<1> SUFFICES ASSUME IInv, [Next]_vars, NEW n \in Sandboxes, n > launches'
             PROVE  AsBefore(n) /\ n > launches
  BY DEF IInv, Unlaunched, AsBefore
<1>0. /\ process \in Procs /\ master \in Masters
      /\ up \in [Sandboxes -> Seq(UpMessage)]
      /\ down \in [Sandboxes -> Seq(DownMessage)]
      /\ launches \in Nat /\ n \in Nat
      /\ server.launched \in 0..launches
      /\ client \in [1..Clients -> 0..launches]
      /\ \A id \in DOMAIN entries : entries[id] \in 0..launches
  BY ServerBounds DEF IInv, Shapes, Registry, Holdings, Sandboxes
<1> USE <1>0 DEF bounds
<1>1. ASSUME NEW c \in 1..Clients, Launch(c) PROVE AsBefore(n) /\ n > launches
  BY <1>1 DEF Launch, Procs, Masters, AsBefore
<1>2. ASSUME NEW c \in 1..Clients, LaunchFails(c)
      PROVE  AsBefore(n) /\ n > launches
  BY <1>2 DEF LaunchFails, Exit, Procs, Masters, AsBefore
<1>3. ASSUME NEW c \in 1..Clients, Leave(c) PROVE AsBefore(n) /\ n > launches
  BY <1>3 DEF Leave, Masters, AsBefore
<1>4. CASE SetCallback \/ Insert \/ Down \/ UNCHANGED vars
  BY <1>4 DEF SetCallback, Insert, Down, Masters, AsBefore, vars
<1>5. CASE Configure
  BY <1>5 DEF Configure, Masters, AsBefore
<1>6. CASE Stop
  <2>1. n > launches /\ UNCHANGED <<process, up, down>>
    BY <1>6 DEF Stop
  <2>2. n \notin {entries[id] : id \in DOMAIN entries}
    BY <2>1
  <2>3. master'[n] = master[n]
    BY <1>6, <2>2 DEF Stop
  <2> QED
    BY <2>1, <2>3 DEF AsBefore
<1>7. ASSUME NEW s \in Sandboxes, Kill(s) PROVE AsBefore(n) /\ n > launches
  <2>1. s <= launches
    BY <1>7, ActsOnLaunched
  <2> QED
    BY <1>7, <2>1 DEF Kill, Exit, Procs, AsBefore, Sandboxes
<1>8. ASSUME NEW s \in Sandboxes, Connection(s)
      PROVE  AsBefore(n) /\ n > launches
  <2>1. s <= launches /\ ~master[s].terminated
    BY <1>8, ActsOnLaunched
       DEF Connection, ReceivePort, ReceiveShow, ReceiveHide, Lost, Receive,
           Handler
  <2>2. n > launches /\ UNCHANGED process
    BY <1>8 DEF Connection, ReceivePort, ReceiveShow, ReceiveHide, Lost
  <2>3. n # s
    BY <2>1, <2>2 DEF Sandboxes
  <2>4. up'[n] = up[n]
    BY <1>8, <2>3
       DEF Connection, ReceivePort, ReceiveShow, ReceiveHide, Lost, Receive
  <2>5. down'[n] = down[n]
    <3>1. CASE ReceiveShow(s)
      BY <2>2, <3>1 DEF ReceiveShow, Entered
    <3> QED
      BY <1>8, <3>1 DEF Connection, ReceivePort, ReceiveHide, Lost
  <2>6. master'[n] = master[n]
    <3>1. ASSUME NEW m \in Masters, Remove(master[s].id, m), m[n] = master[n]
          PROVE  master'[n] = master[n]
      <4>1. master' = m \/ master' = Terminated(m, s)
        BY <2>1, <3>1, RemoveEffect
      <4> QED
        BY <2>3, <3>1, <4>1 DEF Terminated, Masters
    <3>2. CASE ReceivePort(s)
      <4> DEFINE m == [master EXCEPT ![s].socket = "done"]
      <4>1. m \in Masters /\ m[n] = master[n]
        BY <2>3, SocketSet DEF Socket
      <4>2. UNCHANGED master \/ master' = m \/ Remove(master[s].id, m)
        BY <3>2 DEF ReceivePort
      <4> HIDE DEF m
      <4> QED
        BY <3>1, <4>1, <4>2
    <3>3. CASE Lost(s)
      <4> DEFINE m == [master EXCEPT ![s].lost = TRUE]
      <4>1. m \in Masters /\ m[n] = master[n]
        BY <2>3 DEF Masters, Master
      <4>2. Remove(master[s].id, m)
        BY <3>3 DEF Lost
      <4> HIDE DEF m
      <4> QED
        BY <3>1, <4>1, <4>2
    <3> QED
      BY <1>8, <3>2, <3>3 DEF Connection, ReceiveShow, ReceiveHide
  <2> QED
    BY <2>2, <2>4, <2>5, <2>6 DEF AsBefore
<1>9. ASSUME NEW s \in Sandboxes, ProcessStep(s)
      PROVE  AsBefore(n) /\ n > launches
  <2>1. s <= launches /\ UNCHANGED <<master, launches>>
    BY <1>9, ActsOnLaunched, ProcessLeaves
  <2>2. n > launches /\ n # s
    BY <2>1 DEF Sandboxes
  <2>3. /\ process'[n] = process[n] /\ up'[n] = up[n] /\ down'[n] = down[n]
    BY <1>9, <2>2
       DEF ProcessStep, Process, TellPort, ReceiveConfig, StartWorker,
           ShowEditor,
           HideForOther, WorkerEnds, LosesServer, EditPlugin, HidePlugin, Crash,
           Exit,
           Tell, Procs
  <2> QED
    BY <2>1, <2>2, <2>3 DEF AsBefore
<1> QED
  BY <1>1, <1>2, <1>3, <1>4, <1>5, <1>6, <1>7, <1>8, <1>9
     DEF Next, ServerThread, ProcessStep

(* The invariant holds at all times.                                       *)
LEMMA AlwaysIInv == Spec => []IInv
<1>1. IInv /\ [Next]_vars => IInv'
  BY ShapesKept, UnlaunchedKept, RegistryKept, EditorsKept, ScreenKept DEF IInv
<1> QED
  BY InitHolds, <1>1, PTL DEF Spec

(* It implies the types of the module.                                     *)
LEMMA TypesHold == IInv => TypeOK
<1> SUFFICES ASSUME IInv
             PROVE  TypeOK
  OBVIOUS
<1>1. /\ launches \in 0..MaxLaunches /\ MaxLaunches \in Nat
      /\ Clients \in Nat \ {0}
      /\ server \in [step : Steps, launched : 0..launches]
      /\ master \in Masters
      /\ up \in [Sandboxes -> Seq(UpMessage)]
      /\ down \in [Sandboxes -> Seq(DownMessage)]
      /\ Holdings /\ IdsKnown /\ \A s \in Sandboxes : EditorRules(s)
  BY ServerBounds DEF IInv, Shapes, Registry, Editors
<1>2. hasScreen \in (1..Clients) \X (0..MaxLaunches) \cup {NoId}
  <2>1. \A s \in 1..launches : master[s].id \in Ids \cup {NoId}
    BY <1>1 DEF Masters, Master, Sandboxes
  <2> QED
    BY <1>1, <2>1 DEF IdsKnown, Ids
<1>3. server.step \in {"accept", "launched", "configure", "insert", "stopped",
                      "down", "crashed"}
  BY <1>1 DEF Steps
<1>4. \A s \in Sandboxes : /\ up[s] \in Seq({"PORT", "SHOW", "HIDE"})
                           /\ down[s] \in Seq({"CONFIG", "HIDE"})
                           /\ process[s].active => Alive(s)
  BY <1>1 DEF UpMessage, DownMessage, EditorRules, Alive
<1> QED
  BY <1>1, <1>2, <1>3, <1>4 DEF TypeOK, Holdings

(* When nothing is under way, an editor that is accounted for has the      *)
(* screen.                                                                 *)
LEMMA OneEditorHolds == IInv => OneEditor
<1> SUFFICES ASSUME IInv, NEW s \in Sandboxes,
                    up[s] = <<>>, down[s] = <<>>,
                    process[s].window, ~master[s].terminated, s \notin missed
             PROVE  hasScreen = master[s].id
  BY DEF OneEditor
<1>1. Accounted(s)
  BY DEF IInv, ScreenInv, Shows, Editor
<1>2. ~HideUnderWay(s)
  BY DEF HideUnderWay
<1> QED
  BY <1>1, <1>2 DEF Accounted

-----------------------------------------------------------------------------
(* The theorems.                                                           *)

(* m_sandboxes tracks the sandboxes for every number of clients, processes *)
(* and crashes: an id leads to the one live sandbox that has it, and what  *)
(* is with the SandboxDeleter was terminated (Server.cpp runServer(),      *)
(* getAndRemove()).                                                        *)
THEOREM MapIsTrue == Spec => []MapTracksSandboxes
<1>1. IInv => MapTracksSandboxes
  BY TypesHold DEF IInv, Registry, MapTracksSandboxes
<1> QED
  BY AlwaysIInv, <1>1, PTL

(* When nothing is under way, only the sandbox that has the screen shows   *)
(* an editor, unless the request to hide it missed it (Server.cpp          *)
(* SHOW_EDITOR and HIDE_EDITOR).                                           *)
THEOREM OneEditorOnScreen == Spec => []OneEditor
  BY AlwaysIInv, OneEditorHolds, PTL

-----------------------------------------------------------------------------
(* The second part: PluginScan.                                            *)

Lists == [types : SUBSET Plugin, black : SUBSET Plugin, layouts : SUBSET Plugin]

Worker == [plugin : Plugin \cup {0}, second : BOOLEAN,
           step : {"idle", "start", "run", "blacklist"}]
Child == [step : {"none", "begin", "scan", "load", "save"}, hung : BOOLEAN,
          list : Lists]
File == [cache : Lists, crash : Plugin \cup {0}, err : BOOLEAN,
         layoutErr : BOOLEAN]

Types ==
  /\ list \in Lists /\ saved \in Lists /\ reported \subseteq Plugin
  /\ thread \in [Thread -> Worker]
  /\ child \in [Thread -> Child]
  /\ files \in [Thread -> File]

Begun(t) == child[t].step \in {"scan", "load", "save"}
Ended(t) == thread[t].step = "run" /\ child[t].step = "none"

(* Where a thread and its process are.                                     *)
PlaceInv(t) ==
  /\ thread[t].step = "idle" => thread[t] = Idle
  /\ thread[t].step # "idle" => thread[t].plugin \in Plugin
  /\ thread[t].step # "run" => child[t] = NoChild
  /\ child[t].step = "none" => child[t] = NoChild
  /\ child[t].hung => child[t].step \in {"scan", "load"}
  /\ Begun(t) => files[t].err
  /\ child[t].step = "load" => ~thread[t].second /\ files[t].layoutErr
  /\ thread[t].step = "blacklist" => ~files[t].err

Blamed == guilty \cup misled

(* Who is to blame for the marks in the files of a thread.  An error file  *)
(* with which no process of the plugin began is an old one; one whose      *)
(* process ended convicts the plugin, unless only the layouts were tested. *)
BlameInv(t) ==
  /\ files[t].cache.black \cup child[t].list.black \subseteq Blamed
  /\ files[t].crash # 0 =>
       \/ files[t].crash \in Blamed
       \/ child[t].step = "scan" /\ files[t].crash = thread[t].plugin
  /\ thread[t].step \in {"idle", "start"} \/ child[t].step = "begin" =>
       (files[t].err /\ ~thread[t].second => t \in stale)
  /\ Ended(t) /\ files[t].err /\ t \notin stale =>
       \/ thread[t].plugin \in guilty
       \/ ~thread[t].second /\ files[t].layoutErr
  /\ thread[t].step = "blacklist" => thread[t].plugin \in Blamed

(* What a process inherited it will write, with its own result; what ended *)
(* without an error file has written, or had not begun.                    *)
KeepInv(t) ==
  /\ Begun(t) => Known(files[t].cache) \subseteq Known(child[t].list)
  /\ child[t].step \in {"load", "save"} =>
       thread[t].plugin \in Known(child[t].list)
  /\ Ended(t) /\ ~files[t].err =>
       thread[t].plugin \in Known(files[t].cache) \cup skipped

Cached == UNION {Known(files[t].cache) : t \in Thread}
BeingScanned == {thread[t].plugin : t \in Thread}

(* What the server thread has done so far.                                 *)
ServerInv ==
  /\ phase \in {"off", "leftover", "loop", "join", "save", "up"}
  /\ phase \in {"off", "save", "up"} => next = 1
  /\ phase \in {"leftover", "join"} => next \in Thread
  /\ phase = "loop" => next \in Plugin
  /\ phase \notin {"loop", "join"} => \A t \in Thread : thread[t] = Idle
  /\ phase = "join" =>
       \A t \in 1..(next - 1) :
         thread[t] = Idle /\ Known(files[t].cache) \subseteq Known(list)
  /\ phase = "off" => list = Empty
  /\ phase # "off" => Known(saved) \subseteq Known(list)
  /\ list.black \cup saved.black \cup reported \subseteq Blamed

(* The plugins the loop has dealt with.                                    *)
AccountInv ==
  /\ phase = "loop" =>
       1..(next - 1) \subseteq Known(list) \cup skipped \cup Cached \cup BeingScanned
  /\ phase = "join" =>
       Plugin \subseteq Known(list) \cup skipped \cup Cached \cup BeingScanned
  /\ phase \in {"save", "up"} => Plugin \subseteq Known(list) \cup skipped

ThreadInv(t) == PlaceInv(t) /\ BlameInv(t) /\ KeepInv(t)

ScanIInv ==
  /\ Types
  /\ \A t \in Thread : ThreadInv(t)
  /\ ServerInv /\ AccountInv /\ ResultsKept

-----------------------------------------------------------------------------
(* The invariant holds initially.                                          *)
LEMMA InitInv == ScanInit => ScanIInv
<1> SUFFICES ASSUME ScanInit
             PROVE  ScanIInv
  OBVIOUS
<1>1. Types
  BY DEF ScanInit, Types, Worker, Child, File, Lists, Empty, Idle, NoChild, NoFiles
<1>2. \A t \in Thread : ThreadInv(t)
  BY DEF ScanInit, ThreadInv, PlaceInv, BlameInv, KeepInv, Begun, Ended, Known,
         Empty, Idle, NoChild, NoFiles
<1>3. ServerInv /\ AccountInv /\ ResultsKept
  BY DEF ScanInit, ServerInv, AccountInv, ResultsKept, Known, Empty
<1> QED
  BY <1>1, <1>2, <1>3 DEF ScanIInv

-----------------------------------------------------------------------------
(* What a step of scan thread u, or of its process, leaves alone ...       *)
Local(u) ==
  /\ UNCHANGED <<scan, lost>>
  /\ \A t \in Thread \ {u} :
       /\ thread'[t] = thread[t] /\ child'[t] = child[t] /\ files'[t] = files[t]
       /\ t \in stale' <=> t \in stale
  /\ guilty \subseteq guilty' /\ misled \subseteq misled'
  /\ skipped \subseteq skipped'

(* ... and what it loses: nothing.                                         *)
Keeps(u) ==
  /\ Known(files[u].cache) \subseteq Known(files'[u].cache)
  /\ stored' \subseteq stored \cup Known(files'[u].cache)
  /\ \/ thread'[u].plugin = thread[u].plugin
     \/ thread[u].plugin \in Known(files'[u].cache) \cup skipped'

(* The steps of the threads keep the invariant one by one.                 *)
LEMMA ThreadStep ==
  ASSUME ScanIInv, NEW u \in Thread, thread[u] # Idle,
         Types', Local(u), Keeps(u), ThreadInv(u)'
  PROVE  ScanIInv'
<1>1. \A t \in Thread : ThreadInv(t)'
  <2> TAKE t \in Thread
  <2>1. CASE t # u
    BY <2>1 DEF ScanIInv, Local, ThreadInv, PlaceInv, BlameInv, KeepInv, Begun,
                Ended, Blamed
  <2> QED
    BY <2>1
<1>2. ServerInv'
  <2>1. phase \in {"loop", "join"}
    BY DEF ScanIInv, ServerInv
  <2>2. ASSUME phase = "join", NEW t \in 1..(next - 1)
        PROVE  thread'[t] = Idle /\ Known(files'[t].cache) \subseteq Known(list)
    <3>1. t \in Thread /\ thread[t] = Idle
          /\ Known(files[t].cache) \subseteq Known(list)
      BY <2>2, ScanBounds DEF ScanIInv, ServerInv, Thread
    <3>2. t \in Thread \ {u}
      BY <3>1
    <3> QED
      BY <3>1, <3>2 DEF Local
  <2>3. UNCHANGED <<phase, next, list, saved, reported>>
        /\ Blamed \subseteq Blamed'
    BY DEF Local, scan, Blamed
  <2> QED
    BY <2>1, <2>2, <2>3 DEF ScanIInv, ServerInv
<1>3. Cached \cup skipped \cup BeingScanned
        \subseteq (Cached \cup skipped \cup BeingScanned)'
  <2>1. Cached \subseteq Cached'
    BY DEF Cached, Local, Keeps
  <2>2. ASSUME NEW t \in Thread
        PROVE  thread[t].plugin \in (Cached \cup skipped \cup BeingScanned)'
    BY DEF Cached, BeingScanned, Local, Keeps
  <2> QED
    BY <2>1, <2>2 DEF BeingScanned, Local
<1>4. AccountInv'
  BY <1>3 DEF ScanIInv, AccountInv, Local, scan
<1>5. ResultsKept'
  BY DEF ScanIInv, ResultsKept, Local, Keeps, scan
<1> QED
  BY <1>1, <1>2, <1>4, <1>5 DEF ScanIInv
-----------------------------------------------------------------------------
(* The steps of a scan thread and of its process.  Each one is about the   *)
(* state of that thread, its process and its files.                        *)
USE DEF Types, Worker, Child, File, Lists, Known, Idle, NoChild, Empty,
        ThreadInv, PlaceInv, BlameInv, KeepInv, Blamed, Begun, Ended,
        Local, Keeps, Frame, scan, history, Fault

(* The thread starts a process with the list of its cache file.            *)
LEMMA StartProcessInv ==
  ASSUME ScanIInv, NEW t \in Thread, StartProcess(t)
  PROVE  ScanIInv'
<1> USE DEF StartProcess
<1>1. Types /\ ThreadInv(t)
  BY DEF ScanIInv
<1>2. thread[t] # Idle
  BY <1>1
<1>3. Types'
  <2>1. thread' \in [Thread -> Worker]
    BY <1>1
  <2>2. child' \in [Thread -> Child]
    BY <1>1
  <2>3. files' \in [Thread -> File]
    BY <1>1, <1>2
  <2> QED
    BY <1>1, <2>1, <2>2, <2>3
<1>4. Local(t) /\ Keeps(t)
  BY <1>1
<1>5. ThreadInv(t)'
  BY <1>1
<1> QED
  BY <1>2, <1>3, <1>4, <1>5, ThreadStep

(* No process can be started.                                              *)
LEMMA StartFailsInv ==
  ASSUME ScanIInv, NEW t \in Thread, StartFails(t)
  PROVE  ScanIInv'
<1> USE DEF StartFails
<1>1. Types /\ ThreadInv(t)
  BY DEF ScanIInv
<1>2. thread[t] # Idle
  BY <1>1
<1>3. Types'
  BY <1>1
<1>4. Local(t) /\ Keeps(t)
  BY <1>1
<1>5. ThreadInv(t)'
  BY <1>1
<1> QED
  BY <1>2, <1>3, <1>4, <1>5, ThreadStep

(* The layouts crashed it: the plugin is scanned once more without them.   *)
LEMMA SecondRunInv ==
  ASSUME ScanIInv, NEW t \in Thread, SecondRun(t)
  PROVE  ScanIInv'
<1> USE DEF SecondRun, Finished, NeedsSecondRun
<1>1. Types /\ ThreadInv(t)
  BY DEF ScanIInv
<1>2. thread[t] # Idle
  BY <1>1
<1>3. Types'
  <2>1. thread' \in [Thread -> Worker]
    BY <1>1
  <2>2. child' \in [Thread -> Child]
    BY <1>1
  <2>3. files' \in [Thread -> File]
    BY <1>1, <1>2
  <2> QED
    BY <1>1, <2>1, <2>2, <2>3
<1>4. Local(t) /\ Keeps(t)
  BY <1>1
<1>5. ThreadInv(t)'
  BY <1>1
<1> QED
  BY <1>2, <1>3, <1>4, <1>5, ThreadStep

(* The process left no error file: the thread is free again.               *)
LEMMA DoneInv ==
  ASSUME ScanIInv, NEW t \in Thread, Done(t)
  PROVE  ScanIInv'
<1> USE DEF Done, Finished, NeedsSecondRun
<1>1. Types /\ ThreadInv(t)
  BY DEF ScanIInv
<1>2. thread[t] # Idle
  BY <1>1
<1>3. Types'
  BY <1>1
<1>4. Local(t) /\ Keeps(t)
  BY <1>1
<1>5. ThreadInv(t)'
  <2>1. PlaceInv(t)'
    BY <1>1, <1>2
  <2>2. BlameInv(t)'
    BY <1>1, <1>2
  <2>3. KeepInv(t)'
    BY <1>1, <1>2
  <2> QED
    BY <2>1, <2>2, <2>3
<1> QED
  BY <1>2, <1>3, <1>4, <1>5, ThreadStep

(* The process left an error file, and the plugin is to be blacklisted.    *)
LEMMA FailedInv ==
  ASSUME ScanIInv, NEW t \in Thread, Failed(t)
  PROVE  ScanIInv'
<1> USE DEF Failed, Finished, NeedsSecondRun
<1>1. Types /\ ThreadInv(t)
  BY DEF ScanIInv
<1>2. thread[t] # Idle
  BY <1>1
<1>3. Types'
  <2>1. thread' \in [Thread -> Worker]
    BY <1>1
  <2>2. child' \in [Thread -> Child]
    BY <1>1
  <2>3. files' \in [Thread -> File]
    <3>1. [files[t] EXCEPT !.err = FALSE] \in File
      BY <1>1, <1>2
    <3> QED
      BY <1>1, <3>1
  <2> QED
    BY <1>1, <2>1, <2>2, <2>3
<1>4. Local(t) /\ Keeps(t)
  BY <1>1
<1>5. ThreadInv(t)'
  <2>1. PlaceInv(t)'
    BY <1>1, <1>2
  <2>2. BlameInv(t)'
    BY <1>1, <1>2
  <2>3. KeepInv(t)'
    BY <1>1, <1>2
  <2> QED
    BY <2>1, <2>2, <2>3
<1> QED
  BY <1>2, <1>3, <1>4, <1>5, ThreadStep

(* The thread blacklists its plugin in the cache file.                     *)
LEMMA BlacklistInv ==
  ASSUME ScanIInv, NEW t \in Thread, Blacklist(t)
  PROVE  ScanIInv'
<1> USE DEF Blacklist
<1>1. Types /\ ThreadInv(t)
  BY DEF ScanIInv
<1>2. thread[t] # Idle
  BY <1>1
<1>3. Types'
  <2>1. thread' \in [Thread -> Worker]
    BY <1>1
  <2>2. child' \in [Thread -> Child]
    BY <1>1
  <2>3. files' \in [Thread -> File]
    <3>1. [files[t] EXCEPT !.cache.black = @ \cup {thread[t].plugin}] \in File
      <4>1. files[t] \in File /\ thread[t].plugin \in Plugin
        BY <1>1, <1>2
      <4> QED
        BY <4>1 DEF File
    <3> QED
      BY <1>1, <3>1
  <2> QED
    BY <1>1, <2>1, <2>2, <2>3
<1>4. Local(t) /\ Keeps(t)
  BY <1>1
<1>5. ThreadInv(t)'
  <2>1. PlaceInv(t)'
    BY <1>1, <1>2
  <2>2. BlameInv(t)'
    BY <1>1, <1>2
  <2>3. KeepInv(t)'
    BY <1>1, <1>2
  <2> QED
    BY <2>1, <2>2, <2>3
<1> QED
  BY <1>2, <1>3, <1>4, <1>5, ThreadStep

(* The process marks the plugin in the error and crash files.              *)
LEMMA BeginInv ==
  ASSUME ScanIInv, NEW t \in Thread, Begin(t)
  PROVE  ScanIInv'
<1> USE DEF Begin, ProcessAt, Inherited
<1>1. Types /\ ThreadInv(t)
  BY DEF ScanIInv
<1>2. thread[t] # Idle
  BY <1>1
<1>3. Types'
  <2>1. thread' \in [Thread -> Worker]
    BY <1>1
  <2>2. child' \in [Thread -> Child]
    <3>1. [step |-> "scan", hung |-> FALSE, list |-> files[t].cache] \in Child
      BY <1>1
    <3> QED
      BY <1>1, <3>1
  <2>3. files' \in [Thread -> File]
    <3>1. [files[t] EXCEPT !.crash = thread[t].plugin, !.err = TRUE,
                              !.layoutErr = FALSE] \in File
      BY <1>1, <1>2
    <3> QED
      BY <1>1, <3>1
  <2> QED
    BY <1>1, <2>1, <2>2, <2>3
<1>4. Local(t) /\ Keeps(t)
  BY <1>1
<1>5. ThreadInv(t)'
  BY <1>1
<1> QED
  BY <1>2, <1>3, <1>4, <1>5, ThreadStep

(* The plugin was scanned.                                                 *)
LEMMA ScanOkInv ==
  ASSUME ScanIInv, NEW t \in Thread, ScanOk(t)
  PROVE  ScanIInv'
<1> USE DEF ScanOk, ProcessAt
<1>1. Types /\ ThreadInv(t)
  BY DEF ScanIInv
<1>2. thread[t] # Idle
  BY <1>1
<1>3. Types'
  <2>1. thread' \in [Thread -> Worker]
    BY <1>1
  <2>2. child' \in [Thread -> Child]
    BY <1>1
  <2>3. files' \in [Thread -> File]
    <3>1. [files[t] EXCEPT !.crash = 0,
                              !.layoutErr = ~thread[t].second] \in File
      BY <1>1, SMTT(40)
    <3> QED
      BY <1>1, <3>1
  <2> QED
    BY <1>1, <2>1, <2>2, <2>3
<1>4. Local(t) /\ Keeps(t)
  BY <1>1
<1>5. ThreadInv(t)'
  BY <1>1
<1> QED
  BY <1>2, <1>3, <1>4, <1>5, ThreadStep

(* The plugin is none, and the process blacklists it.                      *)
LEMMA ScanFailsInv ==
  ASSUME ScanIInv, NEW t \in Thread, ScanFails(t)
  PROVE  ScanIInv'
<1> USE DEF ScanFails, ProcessAt
<1>1. Types /\ ThreadInv(t)
  BY DEF ScanIInv
<1>2. thread[t] # Idle
  BY <1>1
<1>3. Types'
  <2>1. thread' \in [Thread -> Worker]
    BY <1>1
  <2>2. child' \in [Thread -> Child]
    <3>1. [child[t] EXCEPT !.list.black = @ \cup {thread[t].plugin},
                              !.step = "save"] \in Child
      BY <1>1
    <3> QED
      BY <1>1, <3>1
  <2>3. files' \in [Thread -> File]
    BY <1>1, <1>2
  <2> QED
    BY <1>1, <2>1, <2>2, <2>3
<1>4. Local(t) /\ Keeps(t)
  BY <1>1
<1>5. ThreadInv(t)'
  BY <1>1
<1> QED
  BY <1>2, <1>3, <1>4, <1>5, ThreadStep

(* The plugin was loaded and its layouts tested.                           *)
LEMMA LoadOkInv ==
  ASSUME ScanIInv, NEW t \in Thread, LoadOk(t)
  PROVE  ScanIInv'
<1> USE DEF LoadOk, ProcessAt
<1>1. Types /\ ThreadInv(t)
  BY DEF ScanIInv
<1>2. thread[t] # Idle
  BY <1>1
<1>3. Types'
  <2>1. thread' \in [Thread -> Worker]
    BY <1>1
  <2>2. child' \in [Thread -> Child]
    BY <1>1
  <2>3. files' \in [Thread -> File]
    BY <1>1, <1>2
  <2> QED
    BY <1>1, <2>1, <2>2, <2>3
<1>4. Local(t) /\ Keeps(t)
  BY <1>1
<1>5. ThreadInv(t)'
  BY <1>1
<1> QED
  BY <1>2, <1>3, <1>4, <1>5, ThreadStep

(* The plugin could not be loaded.                                         *)
LEMMA LoadFailsInv ==
  ASSUME ScanIInv, NEW t \in Thread, LoadFails(t)
  PROVE  ScanIInv'
<1> USE DEF LoadFails, ProcessAt
<1>1. Types /\ ThreadInv(t)
  BY DEF ScanIInv
<1>2. thread[t] # Idle
  BY <1>1
<1>3. Types'
  <2>1. thread' \in [Thread -> Worker]
    BY <1>1
  <2>2. child' \in [Thread -> Child]
    BY <1>1, SMTT(40)
  <2>3. files' \in [Thread -> File]
    BY <1>1, <1>2
  <2> QED
    BY <1>1, <2>1, <2>2, <2>3
<1>4. Local(t) /\ Keeps(t)
  BY <1>1
<1>5. ThreadInv(t)'
  BY <1>1
<1> QED
  BY <1>2, <1>3, <1>4, <1>5, ThreadStep

(* The process writes its list and removes the error file.                 *)
LEMMA SaveListInv ==
  ASSUME ScanIInv, NEW t \in Thread, SaveList(t)
  PROVE  ScanIInv'
<1> USE DEF SaveList, ProcessAt
<1>1. Types /\ ThreadInv(t)
  BY DEF ScanIInv
<1>2. thread[t] # Idle
  BY <1>1
<1>3. Types'
  <2>1. thread' \in [Thread -> Worker]
    BY <1>1
  <2>2. child' \in [Thread -> Child]
    BY <1>1
  <2>3. files' \in [Thread -> File]
    <3>1. [files[t] EXCEPT !.cache = child[t].list, !.err = FALSE] \in File
      BY <1>1, <1>2
    <3> QED
      BY <1>1, <3>1
  <2> QED
    BY <1>1, <2>1, <2>2, <2>3
<1>4. Local(t) /\ Keeps(t)
  BY <1>1
<1>5. ThreadInv(t)'
  BY <1>1
<1> QED
  BY <1>2, <1>3, <1>4, <1>5, ThreadStep

(* The plugin hangs the process.                                           *)
LEMMA HangsInv ==
  ASSUME ScanIInv, NEW t \in Thread, Hangs(t)
  PROVE  ScanIInv'
<1> USE DEF Hangs
<1>1. Types /\ ThreadInv(t)
  BY DEF ScanIInv
<1>2. thread[t] # Idle
  BY <1>1
<1>3. Types'
  <2>1. thread' \in [Thread -> Worker]
    BY <1>1
  <2>2. child' \in [Thread -> Child]
    <3>1. [child[t] EXCEPT !.hung = TRUE] \in Child
      BY <1>1, ZenonT(60)
    <3> QED
      BY <1>1, <3>1
  <2>3. files' \in [Thread -> File]
    BY <1>1, <1>2
  <2> QED
    BY <1>1, <2>1, <2>2, <2>3
<1>4. Local(t) /\ Keeps(t)
  BY <1>1
<1>5. ThreadInv(t)'
  BY <1>1
<1> QED
  BY <1>2, <1>3, <1>4, <1>5, ThreadStep

HIDE DEF Types, Worker, Child, File, Lists, Known, Idle, NoChild, Empty,
         ThreadInv, PlaceInv, BlameInv, KeepInv, Blamed, Begun, Ended,
         Local, Keeps, Frame, scan, history, Fault

(* A process that is killed or dies.                                       *)
LEMMA EndsInv ==
  ASSUME ScanIInv, NEW t \in Thread, Ends(t),
         child[t].step \in {"begin", "scan", "load"},
         UNCHANGED <<scan, thread, files, misled, stale, stored, lost>>
  PROVE  ScanIInv'
<1> USE DEF Ends
<1>1. Types /\ ThreadInv(t)
  BY DEF ScanIInv
<1>2. thread[t] # Idle
  BY <1>1 DEF ThreadInv, PlaceInv, NoChild, Idle
<1>3. Types'
  BY <1>1 DEF Types, scan, Child, Lists, NoChild, Empty
<1>4. Local(t) /\ Keeps(t)
  BY <1>1 DEF Types, Local, Keeps
<1>5. ThreadInv(t)'
  <2>1. PlaceInv(t)'
    BY <1>1 DEF Types, ThreadInv, PlaceInv, Begun, NoChild
  <2>2. BlameInv(t)'
    BY <1>1 DEF Types, ThreadInv, PlaceInv, BlameInv, Blamed, Ended, NoChild,
                Empty
  <2>3. KeepInv(t)'
    BY <1>1 DEF Types, ThreadInv, PlaceInv, KeepInv, Begun, Ended, NoChild
  <2> QED
    BY <2>1, <2>2, <2>3 DEF ThreadInv
<1> QED
  BY <1>2, <1>3, <1>4, <1>5, ThreadStep

(* A hung process is loaded or scanned.                                    *)
LEMMA KilledInv ==
  ASSUME ScanIInv, NEW t \in Thread,
         LoadTimeout(t) \/ LastResort(t) \/ Cancel(t) \/ Dies(t)
  PROVE  ScanIInv'
<1>1. child[t].step \in {"begin", "scan", "load"}
  BY DEF ScanIInv, ThreadInv, PlaceInv, LoadTimeout, LastResort, Cancel, Dies
<1>2. Ends(t) /\ UNCHANGED <<scan, thread, files, misled, stale, stored, lost>>
  BY DEF LoadTimeout, LastResort, Cancel, Dies, Frame, scan
<1> QED
  BY <1>1, <1>2, EndsInv

-----------------------------------------------------------------------------
(* The steps of the server thread.                                         *)

(* The results of a thread that rests go from its files to the list, and   *)
(* its crash file only names a plugin that failed.                         *)
LEMMA Processed ==
  ASSUME ScanIInv, NEW t \in Thread, thread[t] = Idle, ProcessScanResults(t),
         UNCHANGED <<saved, thread, child, history>>
  PROVE  /\ Types'
         /\ \A u \in Thread : ThreadInv(u)'
         /\ Known(list') = Known(list) \cup Known(files[t].cache)
         /\ Known(files'[t].cache) = {}
         /\ \A u \in Thread \ {t} : files'[u] = files[u]
         /\ (list.black \cup saved.black \cup reported)' \subseteq Blamed'
         /\ Known(list) \cup Cached \subseteq Known(list') \cup Cached'
         /\ ResultsKept'
<1> USE DEF ProcessScanResults, history
<1>1. Types /\ ThreadInv(t)
  BY DEF ScanIInv
<1>2. child[t] = NoChild
  BY <1>1 DEF ThreadInv, PlaceInv, Idle
<1>3. /\ list' = Merged(list, files[t].cache)
      /\ files[t].cache \in Lists /\ list \in Lists
  BY <1>1 DEF Types, File
<1>4. list' \in Lists /\ Known(list') = Known(list) \cup Known(files[t].cache)
  BY <1>3 DEF Lists, Merged, Known
<1>5. /\ files'[t].cache = Empty /\ files'[t].crash = 0
      /\ files'[t].err = files[t].err
      /\ files'[t].layoutErr = files[t].layoutErr
      /\ files'[t] \in File
      /\ \A u \in Thread \ {t} : files'[u] = files[u]
  BY <1>1 DEF Types, File, Empty, Lists
<1>6. reported' \subseteq Plugin
  BY <1>1, <1>3 DEF Types, File, Lists
<1>7. Types'
  BY <1>1, <1>4, <1>5, <1>6 DEF Types
<1>8. ASSUME NEW u \in Thread
      PROVE  ThreadInv(u)'
  <2>1. CASE u # t
    BY <2>1, <1>5 DEF ScanIInv, ThreadInv, PlaceInv, BlameInv, KeepInv, Begun,
                      Ended, Blamed
  <2>2. CASE u = t
    <3>1. thread'[t] = Idle /\ child'[t] = NoChild /\ thread[t] = Idle
      BY <1>2
    <3>2. PlaceInv(t)'
      BY <3>1 DEF PlaceInv, Begun, Idle, NoChild
    <3>3. BlameInv(t)'
      BY <3>1, <1>1, <1>5
         DEF ThreadInv, BlameInv, Ended, Blamed, Idle, NoChild, Empty
    <3>4. KeepInv(t)'
      BY <3>1 DEF KeepInv, Begun, Ended, Idle, NoChild
    <3> QED
      BY <2>2, <3>2, <3>3, <3>4 DEF ThreadInv
  <2> QED
    BY <2>1, <2>2
<1>9. Known(files'[t].cache) = {}
  BY <1>5 DEF Known, Empty
<1>10. (list.black \cup saved.black \cup reported)' \subseteq Blamed'
  <2>1. list.black \cup saved.black \cup reported \subseteq Blamed
    BY DEF ScanIInv, ServerInv
  <2>2. files[t].cache.black \subseteq Blamed
        /\ {files[t].crash} \ {0} \subseteq Blamed
    BY <1>1, <1>2 DEF ThreadInv, BlameInv, NoChild
  <2> QED
    BY <2>1, <2>2, <1>3 DEF Merged, Blamed
<1>11. Known(list) \cup Cached \subseteq Known(list') \cup Cached'
  <2>1. \A u \in Thread :
          Known(files[u].cache) \subseteq Known(list') \cup Cached'
    BY <1>4, <1>5 DEF Cached
  <2> QED
    BY <2>1, <1>4 DEF Cached
<1>12. ResultsKept'
  BY <1>11 DEF ScanIInv, ResultsKept, Cached
<1> QED
  BY <1>4, <1>5, <1>7, <1>8, <1>9, <1>10, <1>11, <1>12

(* At the start: files of the threads of an earlier server are processed.  *)
LEMMA LeftoverInv ==
  ASSUME ScanIInv, Leftover
  PROVE  ScanIInv'
<1>1. next \in Thread /\ thread[next] = Idle /\ phase = "leftover"
  BY DEF ScanIInv, ServerInv, Leftover
<1>2. UNCHANGED <<saved, thread, child, history>> /\ ProcessScanResults(next)
  BY DEF Leftover
<1>3. ServerInv'
  BY <1>1, <1>2, Processed, ScanBounds
     DEF ScanIInv, ServerInv, Leftover, Thread, Plugin
<1>4. AccountInv'
  BY <1>1 DEF Leftover, AccountInv
<1> QED
  BY <1>1, <1>2, <1>3, <1>4, Processed DEF ScanIInv

(* At the end: the thread rests, and its files are processed.              *)
LEMMA JoinInv ==
  ASSUME ScanIInv, Join
  PROVE  ScanIInv'
<1>1. next \in Thread /\ thread[next] = Idle /\ phase = "join"
  BY DEF ScanIInv, ServerInv, Join, Joined
<1>2. UNCHANGED <<saved, thread, child, history>> /\ ProcessScanResults(next)
  BY DEF Join
<1>3. /\ Known(list') = Known(list) \cup Known(files[next].cache)
      /\ Known(files'[next].cache) = {}
      /\ \A u \in Thread \ {next} : files'[u] = files[u]
      /\ Known(list) \cup Cached \subseteq Known(list') \cup Cached'
  BY <1>1, <1>2, Processed
<1>4. \A t \in 1..next :
        thread'[t] = Idle /\ Known(files'[t].cache) \subseteq Known(list')
  <2> TAKE t \in 1..next
  <2>1. CASE t = next
    BY <2>1, <1>1, <1>2, <1>3
  <2>2. CASE t # next
    <3>1. t \in 1..(next - 1) /\ t \in Thread
      BY <2>2, <1>1, ScanBounds DEF Thread
    <3> QED
      BY <3>1, <2>2, <1>1, <1>2, <1>3 DEF ScanIInv, ServerInv
  <2> QED
    BY <2>1, <2>2
<1>5. Plugin \subseteq Known(list') \cup skipped' \cup Cached' \cup BeingScanned'
  BY <1>1, <1>2, <1>3 DEF ScanIInv, AccountInv, BeingScanned, history
<1>6. CASE next < Threads
  <2>1. next' = next + 1 /\ phase' = "join" /\ next' \in Thread
        /\ 1..(next' - 1) = 1..next
    BY <1>1, <1>6, ScanBounds DEF Join, Thread
  <2>2. ServerInv'
    BY <1>1, <1>2, <1>3, <1>4, <2>1, Processed DEF ScanIInv, ServerInv
  <2> QED
    BY <1>1, <1>2, <1>5, <2>1, <2>2, Processed DEF ScanIInv, AccountInv
<1>7. CASE ~(next < Threads)
  <2>1. next' = 1 /\ phase' = "save" /\ 1..next = Thread
    BY <1>1, <1>7, ScanBounds DEF Join, Thread
  <2>2. ServerInv'
    BY <1>1, <1>2, <1>3, <1>4, <2>1, Processed DEF ScanIInv, ServerInv
  <2>3. Cached' \subseteq Known(list')
    BY <1>4, <2>1 DEF Cached
  <2>4. BeingScanned' \subseteq {0} /\ 0 \notin Plugin
    <3>0. \A t \in Thread : thread'[t] = Idle
      BY <1>4, <2>1
    <3>1. \A t \in Thread : thread'[t].plugin = 0
      BY <3>0 DEF Idle
    <3>2. 0 \notin Plugin
      BY ScanBounds DEF Plugin
    <3> QED
      BY <3>1, <3>2 DEF BeingScanned
  <2>5. Plugin' \subseteq Known(list') \cup skipped'
    BY <1>5, <2>3, <2>4 DEF Plugin
  <2> QED
    BY <1>1, <1>2, <2>1, <2>2, <2>5, Processed DEF ScanIInv, AccountInv
<1> QED
  BY <1>6, <1>7

(* A step of the server thread that leaves the threads as they are.        *)
LEMMA QuietThreads ==
  ASSUME ScanIInv, UNCHANGED <<thread, child, files, history>>
  PROVE  \A t \in Thread : ThreadInv(t)'
BY DEF ScanIInv, ThreadInv, PlaceInv, BlameInv, KeepInv, Begun, Ended, Blamed,
       history

(* The server starts with the list it saved.                               *)
LEMMA StartInv ==
  ASSUME ScanIInv, Start
  PROVE  ScanIInv'
<1>1. UNCHANGED <<saved, thread, child, files, history>> /\ list' = saved
      /\ reported' = {} /\ phase = "off" /\ phase' = "leftover" /\ next' = 1
  BY DEF Start
<1>2. Types'
  BY <1>1 DEF ScanIInv, Types
<1>3. ServerInv'
  BY <1>1, ScanBounds DEF ScanIInv, ServerInv, Blamed, Thread, history
<1>4. AccountInv'
  BY <1>1 DEF AccountInv
<1>5. ResultsKept'
  BY <1>1 DEF ScanIInv, ServerInv, ResultsKept, Known, Empty, history
<1> QED
  BY <1>1, <1>2, <1>3, <1>4, <1>5, QuietThreads DEF ScanIInv

(* The plugin of the loop is dealt with.                                   *)
LEMMA Advanced ==
  ASSUME ScanIInv, phase = "loop", Advance, ServerInv,
         Known(list) \cup skipped \cup Cached \cup (BeingScanned \ {0})
           \subseteq (Known(list) \cup skipped \cup Cached \cup BeingScanned)',
         next \in (Known(list) \cup skipped \cup Cached \cup BeingScanned)',
         UNCHANGED <<list, saved, reported, guilty, misled>>
  PROVE  ServerInv' /\ AccountInv'
<1>1. next \in Plugin /\ Thread \subseteq Nat /\ 1 \in Thread
  BY ScanBounds DEF ServerInv, Thread
<1>2. 1..next \subseteq (Known(list) \cup skipped \cup Cached \cup BeingScanned)'
  <2>1. 1..(next - 1)
          \subseteq Known(list) \cup skipped \cup Cached \cup BeingScanned
        /\ 0 \notin 1..(next - 1)
    BY DEF ScanIInv, AccountInv
  <2>2. 1..next = 1..(next - 1) \cup {next}
    BY <1>1, ScanBounds DEF Plugin
  <2> QED
    BY <2>1, <2>2
<1>3. CASE next < Plugins
  <2>1. next' = next + 1 /\ phase' = phase /\ next' \in Plugin
        /\ 1..(next' - 1) = 1..next
    BY <1>1, <1>3, ScanBounds DEF Advance, Plugin
  <2> QED
    BY <1>2, <2>1 DEF ServerInv, AccountInv, Blamed
<1>4. CASE ~(next < Plugins)
  <2>1. next' = 1 /\ phase' = "join" /\ 1..next = Plugin
        /\ 1..(next' - 1) = {}
    BY <1>1, <1>4, ScanBounds DEF Advance, Plugin
  <2> QED
    BY <1>1, <1>2, <2>1 DEF ServerInv, AccountInv, Blamed, Plugin
<1> QED
  BY <1>3, <1>4

(* A plugin that is in the list is not scanned.                            *)
LEMMA SkipInv ==
  ASSUME ScanIInv, Skip
  PROVE  ScanIInv'
<1>1. UNCHANGED <<list, saved, reported, thread, child, files, history>>
      /\ phase = "loop" /\ next \in Known(list) /\ Advance
  BY DEF Skip
<1>2. ServerInv' /\ AccountInv'
  BY <1>1, Advanced DEF ScanIInv, Cached, BeingScanned, history
<1>3. Types' /\ ResultsKept'
  BY <1>1 DEF ScanIInv, Types, ResultsKept, history
<1> QED
  BY <1>1, <1>2, <1>3, QuietThreads DEF ScanIInv

(* A thread that rests gets the next plugin.                               *)
LEMMA ScanInv ==
  ASSUME ScanIInv, NEW t \in Thread, Scan(t)
  PROVE  ScanIInv'
<1>1. UNCHANGED <<list, saved, reported, child, files, history>>
      /\ phase = "loop" /\ thread[t] = Idle /\ Advance
  BY DEF Scan
<1>2. /\ thread'[t] = [plugin |-> next, second |-> FALSE, step |-> "start"]
      /\ \A u \in Thread \ {t} : thread'[u] = thread[u]
      /\ thread' \in [Thread -> Worker]
      /\ next \in Plugin
  BY <1>1 DEF Scan, ScanIInv, Types, Worker, ServerInv
<1>3. Types' /\ ResultsKept'
  BY <1>1, <1>2 DEF ScanIInv, Types, ResultsKept, history
<1>4. ASSUME NEW u \in Thread
      PROVE  ThreadInv(u)'
  <2>1. CASE u # t
    BY <2>1, <1>1, <1>2 DEF ScanIInv, ThreadInv, PlaceInv, BlameInv, KeepInv, Begun,
                            Ended, Blamed, history
  <2>2. CASE u = t
    <3>1. PlaceInv(t) /\ BlameInv(t)
      BY DEF ScanIInv, ThreadInv
    <3>2. child[t] = NoChild
      BY <3>1, <1>1 DEF PlaceInv, Idle
    <3>3. PlaceInv(t)'
      BY <3>2, <1>1, <1>2 DEF PlaceInv, Begun, NoChild
    <3>4. BlameInv(t)'
      BY <3>1, <3>2, <1>1, <1>2
         DEF BlameInv, Ended, Blamed, Idle, NoChild, history
    <3>5. KeepInv(t)'
      BY <3>2, <1>1, <1>2 DEF KeepInv, Begun, Ended, NoChild
    <3> QED
      BY <2>2, <3>3, <3>4, <3>5 DEF ThreadInv
  <2> QED
    BY <2>1, <2>2
<1>5. Known(list) \cup skipped \cup Cached \cup (BeingScanned \ {0})
        \subseteq (Known(list) \cup skipped \cup Cached \cup BeingScanned)'
      /\ next \in BeingScanned'
  BY <1>1, <1>2 DEF Cached, BeingScanned, Idle, history
<1>6. ServerInv' /\ AccountInv'
  BY <1>1, <1>5, Advanced DEF ScanIInv, history
<1> QED
  BY <1>3, <1>4, <1>6 DEF ScanIInv

(* The list is saved.                                                      *)
LEMMA SaveInv ==
  ASSUME ScanIInv, Save
  PROVE  ScanIInv'
<1>1. UNCHANGED <<next, list, reported, thread, child, files, history>>
      /\ saved' = list /\ phase = "save" /\ phase' = "up"
  BY DEF Save
<1>2. Types' /\ ServerInv' /\ AccountInv'
  BY <1>1 DEF ScanIInv, Types, ServerInv, AccountInv, Blamed, history
<1>3. ResultsKept'
  BY <1>1 DEF ScanIInv, ServerInv, ResultsKept, history
<1> QED
  BY <1>1, <1>2, <1>3, QuietThreads DEF ScanIInv

(* The threads and processes of the server go with it, their files stay.   *)
LEMMA CrashInv ==
  ASSUME ScanIInv, ServerCrash
  PROVE  ScanIInv'
<1>1. UNCHANGED <<saved, files, misled, skipped, stored>>
      /\ phase' = "off" /\ next' = 1 /\ list' = Empty /\ reported' = {}
      /\ guilty \subseteq guilty'
  BY DEF ServerCrash
<1>2. \A t \in Thread :
        /\ thread'[t] = Idle /\ child'[t] = NoChild
        /\ files[t].err => t \in stale'
        /\ child[t].step = "scan" => thread[t].plugin \in guilty'
  BY DEF ServerCrash
<1>3. Types'
  BY <1>1 DEF ScanIInv, Types, ServerCrash, Worker, Child, Lists, Idle, NoChild, Empty
<1>4. \A t \in Thread : ThreadInv(t)'
  BY <1>1, <1>2 DEF ScanIInv, ThreadInv, PlaceInv, BlameInv, KeepInv, Begun, Ended,
                    Blamed, Idle, NoChild, Empty
<1>5. ServerInv' /\ AccountInv'
  BY <1>1, <1>2 DEF ScanIInv, ServerInv, AccountInv, Blamed, Known, Empty
<1>6. ResultsKept'
  BY <1>1 DEF ScanIInv, ResultsKept, ServerCrash, Known
<1> QED
  BY <1>3, <1>4, <1>5, <1>6 DEF ScanIInv

-----------------------------------------------------------------------------
(* Every step keeps the invariant.                                         *)
LEMMA NextInv ==
  ASSUME ScanIInv, [ScanNext]_scanVars
  PROVE  ScanIInv'
<1>1. CASE Server
  BY <1>1, StartInv, LeftoverInv, SkipInv, ScanInv, JoinInv, SaveInv DEF Server
<1>2. CASE ServerCrash
  BY <1>2, CrashInv
<1>3. ASSUME NEW t \in Thread, ScanThread(t) \/ Cancel(t) \/ StartFails(t)
      PROVE  ScanIInv'
  BY <1>3, StartProcessInv, SecondRunInv, DoneInv, FailedInv, BlacklistInv,
     KilledInv, StartFailsInv DEF ScanThread
<1>4. ASSUME NEW t \in Thread,
             ScanProcess(t) \/ ScanFails(t) \/ LoadFails(t) \/ Dies(t) \/ Hangs(t)
      PROVE  ScanIInv'
  BY <1>4, BeginInv, ScanOkInv, LoadOkInv, SaveListInv, ScanFailsInv,
     LoadFailsInv, KilledInv, HangsInv DEF ScanProcess
<1>5. CASE UNCHANGED scanVars
  <2>1. UNCHANGED <<phase, next, list, saved, reported, thread, child, files>>
        /\ UNCHANGED history
    BY <1>5 DEF scanVars, scan
  <2> QED
    BY <2>1, QuietThreads
       DEF ScanIInv, Types, ServerInv, AccountInv, ResultsKept, Cached, BeingScanned,
           Blamed, history
<1> QED
  BY <1>1, <1>2, <1>3, <1>4, <1>5 DEF ScanNext

(* The invariant of every scan.                                            *)
LEMMA Invariance == ScanSpec => []ScanIInv
<1>1. ScanIInv /\ [ScanNext]_scanVars => ScanIInv'
  BY NextInv
<1> QED
  BY InitInv, <1>1, PTL DEF ScanSpec

(* The scan loses nothing: a result that a process stored is in a file or  *)
(* in the list until the server crashes with the list not stored, and when *)
(* the scan is over every plugin is in the list or was never scanned.      *)
THEOREM ScanMissesNothing == ScanSpec => []NothingMissed
<1>1. ScanIInv => NothingMissed
  <2> SUFFICES ASSUME ScanIInv
               PROVE  NothingMissed
    OBVIOUS
  <2>1. Known(list) \cup Known(saved) \cup reported \subseteq Plugin
    BY DEF ScanIInv, Types, Lists, Known
  <2>2. next \in 1..(Plugins + Threads)
    BY ScanBounds DEF ScanIInv, ServerInv, Plugin, Thread
  <2>3. \A t \in Thread :
          /\ thread[t].step \in {"idle", "start", "run", "blacklist"}
          /\ files[t].crash \in Plugin \cup {0}
    BY DEF ScanIInv, Types, Worker, File
  <2>4. ScanTypes
    BY <2>1, <2>2, <2>3 DEF ScanIInv, ServerInv, ThreadInv, PlaceInv, Begun, ScanTypes
  <2>5. AllAccounted
    BY DEF ScanIInv, AccountInv, AllAccounted
  <2> QED
    BY <2>4, <2>5 DEF ScanIInv, NothingMissed
<1> QED
  BY Invariance, <1>1, PTL

(* A plugin is blacklisted, or reported to have failed, only when its own  *)
(* process failed, and not for the test of its layouts alone; except that  *)
(* the error file of an earlier plugin may mislead about one that did not  *)
(* begin.                                                                  *)
THEOREM BlacklistIsDeserved == ScanSpec => []BlacklistedDeserve
<1>1. ScanIInv => BlacklistedDeserve
  <2> SUFFICES ASSUME ScanIInv
               PROVE  BlacklistedDeserve
    OBVIOUS
  <2>1. \A t \in Thread : files[t].cache.black \subseteq guilty \cup misled
    BY DEF ScanIInv, ThreadInv, BlameInv, Blamed
  <2>2. list.black \cup saved.black \cup reported \subseteq guilty \cup misled
    BY DEF ScanIInv, ServerInv, Blamed
  <2> QED
    BY <2>1, <2>2 DEF BlacklistedDeserve
<1> QED
  BY Invariance, <1>1, PTL
=============================================================================
