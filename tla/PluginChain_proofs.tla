------------------------- MODULE PluginChain_proofs --------------------------
(***************************************************************************)
(* Theorems about the list of plugins and the chain of the server, for any *)
(* plugins and any number of edits, sessions and faults.                   *)
(*                                                                         *)
(* A session counts until somebody asks for another one or finds it        *)
(* broken, and what it is then can no longer be repaired: only init()      *)
(* makes it Usable again, with an empty chain.  In a usable session every  *)
(* step of an edit, and of the loading of the list, keeps a relation       *)
(* between list and chain that says which processor belongs to which       *)
(* entry.                                                                  *)
(***************************************************************************)
EXTENDS PluginChain, TLAPS

-----------------------------------------------------------------------------
(* The inductive invariant.                                                *)

(* Where the two threads are, and that a position is one of the list for   *)
(* as long as it is used.                                                  *)
UiOK ==
  \/ ui = Idle
  \/ ui \in [at : {"add"}, p : Plugin]
  \/ ui \in [at : {"append"}, p : Plugin, status : {"ok", "retry", "failed"}]
  \/ ui \in [at : {"del", "erase", "bypass"}, i : DOMAIN loaded]
  \/ /\ ui \in [at : {"exchange", "swap"}, i : DOMAIN loaded]
     /\ ui.i + 1 \in DOMAIN loaded
  \/ ui \in [at : {"restored"}]
  \/ ui \in [at : {"save"}, i : Nat \ {0}]

ClientOK ==
  \/ client \in [at : {"check", "checked", "close", "init", "state",
                       "callback", "work", "retry"}]
  \/ client \in [at : {"load"}, i : 1..Len(loaded) + 1, ok : BOOLEAN]
  \/ client \in [at : {"loadbypass"}, i : DOMAIN loaded, ok : BOOLEAN]
  \/ client \in [at : {"sync"}, i : Nat \ {0}]

(* A session that is not given up.  The client takes itself for ready all  *)
(* the time, and only init() makes one.                                    *)
Usable == connected /\ ~error /\ ~needsReconnect

SessionInv ==
  /\ Usable => ready
  /\ client.at = "init" => ~connected

(* An edit during the loading of the list is noted.                        *)
OverlapInv == Editing /\ Loading => overlap

(* An entry of the list and the processor that belongs to it.              *)
Pair(e, q) == q.p = e.p /\ (e.status = "ok" => q.suspended = e.bypassed)

(* While the list is loaded, the chain has the plugins up to client.i.     *)
LoadInv ==
  /\ client.at \in {"state", "callback"} => chain = <<>>
  /\ client.at = "load" =>
       /\ Len(chain) = client.i - 1
       /\ \A j \in DOMAIN chain : Pair(loaded[j], chain[j])
  /\ client.at = "loadbypass" =>
       /\ Len(chain) = client.i
       /\ \A j \in 1..client.i - 1 : Pair(loaded[j], chain[j])
       /\ chain[client.i].p = loaded[client.i].p /\ loaded[client.i].bypassed

(* The entry that is going to be at position j when the edit is done.      *)
Origin(j) ==
  IF ui.at = "erase" THEN IF j < ui.i THEN j ELSE j + 1
  ELSE IF ui.at = "swap" /\ j = ui.i THEN ui.i + 1
  ELSE IF ui.at = "swap" /\ j = ui.i + 1 THEN ui.i
  ELSE j

(* Otherwise it is the list, as it will be after the edit under way.       *)
EditInv ==
  /\ Len(chain) = CASE ui.at = "append" -> Len(loaded) + 1
                    [] ui.at = "erase" -> Len(loaded) - 1
                    [] OTHER -> Len(loaded)
  /\ \A j \in DOMAIN chain :
       IF ui.at = "append" /\ j = Len(chain)
         THEN Pair(Entry(ui.p, ui.status), chain[j])
       ELSE IF ui.at = "bypass" /\ j = ui.i THEN chain[j].p = loaded[j].p
       ELSE Pair(loaded[Origin(j)], chain[j])

AgreeInv ==
  Usable /\ ~overlap /\ ui.at # "restored" =>
    IF Loading THEN LoadInv ELSE EditInv

IInv == TypeOK /\ UiOK /\ ClientOK /\ SessionInv /\ OverlapInv /\ AgreeInv

-----------------------------------------------------------------------------
(* The type invariant in parts.                                            *)
ListOK == loaded \in Seq(Loaded) /\ loadedOk \in BOOLEAN

ServerOK ==
  /\ connected \in BOOLEAN /\ chain \in Seq(Processor)
  /\ ~connected => chain = <<>>

LockOK ==
  /\ holder \in {None, "ui", "client"}
  /\ holder = "ui" <=> ui.at = "save"
  /\ holder = "client" <=> client.at \in {"load", "loadbypass", "sync"}

RestOK ==
  /\ retries \in 0..MaxRetries /\ lastState \in BOOLEAN
  /\ ready \in BOOLEAN /\ error \in BOOLEAN /\ needsReconnect \in BOOLEAN
  /\ overlap \in BOOLEAN
  /\ edits \in 0..MaxEdits /\ sessions \in 0..MaxSessions
  /\ faults \in 0..MaxFaults

LEMMA TypeParts ==
  /\ TypeOK <=> ListOK /\ ServerOK /\ LockOK /\ RestOK
  /\ TypeOK' <=> ListOK' /\ ServerOK' /\ LockOK' /\ RestOK'
BY DEF TypeOK, ListOK, ServerOK, LockOK, RestOK

LEMMA EmptyTypes == <<>> \in Seq(Loaded) /\ <<>> \in Seq(Processor)
OBVIOUS

(* The invariant holds initially.                                          *)
LEMMA InitInv == Init => IInv
<1> SUFFICES ASSUME Init
             PROVE  IInv
  OBVIOUS
<1>1. ListOK /\ ServerOK
  BY EmptyTypes DEF Init, ListOK, ServerOK
<1>2. LockOK
  BY DEF Init, LockOK, Idle, None
<1>3. RestOK
  <2>1. /\ 0 \in 0..MaxRetries /\ 0 \in 0..MaxEdits
        /\ 0 \in 0..MaxSessions /\ 0 \in 0..MaxFaults
    BY ChainBounds
  <2> QED
    BY <2>1 DEF Init, RestOK
<1>4. UiOK /\ ClientOK
  BY DEF Init, UiOK, ClientOK
<1>5. SessionInv /\ OverlapInv /\ AgreeInv
  BY DEF Init, SessionInv, Usable, OverlapInv, Loading, AgreeInv
<1> QED
  BY <1>1, <1>2, <1>3, <1>4, <1>5, TypeParts DEF IInv

-----------------------------------------------------------------------------
(* What all steps have in common.                                          *)

(* The history variable of a step.                                         *)
Noted ==
  overlap' = ((Editing /\ Loading)' \/ (overlap /\ sessions' = sessions))

LEMMA NotedStep ==
  ASSUME IInv, Noted
  PROVE  /\ OverlapInv' /\ overlap' \in BOOLEAN
         /\ ~overlap' /\ sessions' = sessions => ~overlap
BY DEF IInv, TypeOK, Noted, OverlapInv

(* A step that leaves list and chain alone, makes nothing usable, and does *)
(* not move an edit or the loading on.                                     *)
LEMMA QuietAgree ==
  ASSUME IInv, Noted, sessions' = sessions,
         loaded' = loaded, chain' = chain,
         ui' = ui, Usable' => Usable,
         Loading' <=> Loading, Loading => client' = client
  PROVE  AgreeInv'
<1>1. ~overlap' => ~overlap
  BY NotedStep
<1>2. LoadInv /\ Loading => LoadInv'
  BY DEF LoadInv
<1>3. EditInv => EditInv'
  BY DEF EditInv, Origin
<1> QED
  BY <1>1, <1>2, <1>3 DEF IInv, AgreeInv

(* Nothing is to be shown of a session that is not usable.                 *)
LEMMA UnusableAgree ==
  ASSUME ~Usable'
  PROVE  AgreeInv'
BY DEF AgreeInv

-----------------------------------------------------------------------------
(* The client thread and the network, apart from loading and sync().       *)

ClientIdle ==
  Check \/ CheckReconnect \/ Close \/ InitFails \/ ReadState \/ NoSync
        \/ AutoRetry \/ Lose \/ SetError

LEMMA ClientIdleTypes ==
  ASSUME IInv, Noted, ClientIdle
  PROVE  TypeOK' /\ UiOK' /\ ClientOK' /\ SessionInv'
<1> USE DEF list, flags, server, bounds, Goto
<1>1. ui' = ui /\ loaded' = loaded /\ holder' = holder
      /\ edits' = edits /\ sessions' = sessions
  BY DEF ClientIdle, Check, CheckReconnect, Close, InitFails, ReadState,
         NoSync,
         AutoRetry, Lose, SetError, Fault
<1>2. UiOK'
  BY <1>1 DEF IInv, UiOK
<1>3. ClientOK' /\ (client' # client =>
        client.at \notin {"load", "loadbypass", "sync"}
          /\ client'.at \notin {"load", "loadbypass", "sync"})
  <2>1. \/ client' = client
        \/ /\ client.at \notin {"load", "loadbypass", "sync"}
           /\ \E to \in {"check", "checked", "close", "init", "state",
                         "callback", "work", "retry"} :
                client' = [at |-> to]
    BY DEF ClientIdle, Check, CheckReconnect, Close, InitFails, ReadState,
           NoSync,
           AutoRetry, Lose, SetError
  <2> QED
    BY <2>1, <1>1 DEF IInv, ClientOK
<1>4. LockOK'
  BY <1>1, <1>3, TypeParts DEF IInv, LockOK
<1>5. ListOK' /\ ServerOK'
  BY TypeParts, EmptyTypes
     DEF IInv, ListOK, ServerOK, ClientIdle, Check, CheckReconnect, Close,
         InitFails, ReadState, NoSync, AutoRetry, Lose, SetError
<1>6. RestOK'
  <2>1. overlap' \in BOOLEAN
    BY NotedStep
  <2>2. retries' \in 0..MaxRetries
    BY TypeParts, ChainBounds
       DEF IInv, RestOK, ClientIdle, Check, CheckReconnect, Close, InitFails,
           ReadState, NoSync, AutoRetry, Lose, SetError
  <2>3. faults' \in 0..MaxFaults
    BY TypeParts, ChainBounds
       DEF IInv, RestOK, ClientIdle, Check, CheckReconnect, Close, InitFails,
           ReadState, NoSync, AutoRetry, Lose, SetError, Fault
  <2>4. /\ ready' \in BOOLEAN /\ error' \in BOOLEAN
        /\ needsReconnect' \in BOOLEAN
        /\ lastState' \in BOOLEAN
    BY TypeParts
       DEF IInv, RestOK, ServerOK, ClientIdle, Check, CheckReconnect, Close,
           InitFails, ReadState, NoSync, AutoRetry, Lose, SetError
  <2> QED
    BY <1>1, <2>1, <2>2, <2>3, <2>4, TypeParts DEF IInv, RestOK
<1>7. SessionInv'
  BY TypeParts
     DEF IInv, RestOK, ServerOK, SessionInv, Usable, ClientIdle, Check,
         CheckReconnect, Close, InitFails, ReadState, NoSync, AutoRetry, Lose,
         SetError
<1> QED
  BY <1>2, <1>3, <1>4, <1>5, <1>6, <1>7, TypeParts

LEMMA ClientIdleInv ==
  ASSUME IInv, Noted, ClientIdle
  PROVE  IInv'
<1> USE DEF list, flags, server, bounds, Goto
<1>1. TypeOK' /\ UiOK' /\ ClientOK' /\ SessionInv' /\ OverlapInv'
  BY ClientIdleTypes, NotedStep
<1>2. AgreeInv'
  <2>1. CASE Check \/ CheckReconnect \/ NoSync \/ AutoRetry
    <3>1. /\ sessions' = sessions /\ loaded' = loaded /\ chain' = chain
          /\ ui' = ui /\ ~Loading /\ ~Loading'
      BY <2>1 DEF Check, CheckReconnect, NoSync, AutoRetry, Loading
    <3>2. Usable' => Usable
      BY <2>1 DEF Check, CheckReconnect, NoSync, AutoRetry, Usable, IInv,
                  TypeOK
    <3> QED
      BY <3>1, <3>2, QuietAgree
  <2>2. CASE Close \/ Lose \/ SetError
    BY <2>2, UnusableAgree DEF Close, Lose, SetError, Usable
  <2>3. CASE InitFails
    BY <2>3, UnusableAgree DEF InitFails, Usable, IInv, SessionInv
  <2>4. CASE ReadState
    <3>1. CASE ready
      <4>1. /\ sessions' = sessions /\ loaded' = loaded /\ chain' = chain
            /\ ui' = ui /\ client.at = "state" /\ client'.at = "callback"
            /\ (Usable' => Usable)
        BY <2>4, <3>1 DEF ReadState, Usable
      <4>2. Usable' /\ ~overlap' /\ ui.at # "restored" => LoadInv
        BY <4>1, NotedStep DEF IInv, AgreeInv, Loading
      <4>3. LoadInv => LoadInv'
        BY <4>1 DEF LoadInv
      <4> QED
        BY <4>1, <4>2, <4>3 DEF AgreeInv, Loading
    <3>2. CASE ~ready
      BY <2>4, <3>2, UnusableAgree DEF ReadState, Usable, IInv, SessionInv
    <3> QED
      BY <3>1, <3>2
  <2> QED
    BY <2>1, <2>2, <2>3, <2>4 DEF ClientIdle
<1> QED
  BY <1>1, <1>2 DEF IInv

(* A new session begins with an empty chain.                               *)
LEMMA InitOkInv ==
  ASSUME IInv, Noted, InitOk
  PROVE  IInv'
<1> USE DEF list, flags, server, bounds, Goto
<1>1. /\ client.at = "init" /\ client' = [at |-> "state"] /\ chain' = chain
      /\ ui' = ui /\ loaded' = loaded /\ loadedOk' = loadedOk
      /\ holder' = holder /\ edits' = edits /\ faults' = faults
      /\ retries' = retries /\ lastState' = lastState
      /\ ready' = TRUE /\ error' = FALSE /\ needsReconnect' = FALSE
      /\ connected' = TRUE /\ sessions < MaxSessions
      /\ sessions' = sessions + 1
  BY DEF InitOk
<1>2. chain = <<>>
  BY <1>1, TypeParts DEF IInv, SessionInv, ServerOK
<1>3. ListOK' /\ ServerOK' /\ LockOK'
  BY <1>1, <1>2, TypeParts DEF IInv, ListOK, ServerOK, LockOK
<1>4. RestOK'
  <2>1. sessions' \in 0..MaxSessions
    BY <1>1, TypeParts, ChainBounds DEF IInv, RestOK
  <2>2. overlap' \in BOOLEAN
    BY NotedStep
  <2> QED
    BY <1>1, <2>1, <2>2, TypeParts DEF IInv, RestOK
<1>5. UiOK' /\ ClientOK' /\ SessionInv'
  BY <1>1 DEF IInv, UiOK, ClientOK, SessionInv
<1>6. AgreeInv'
  BY <1>1, <1>2 DEF AgreeInv, Loading, LoadInv
<1> QED
  BY <1>3, <1>4, <1>5, <1>6, TypeParts, NotedStep DEF IInv

-----------------------------------------------------------------------------
(* The calls of the message thread begin.                                  *)

(* Outside of an edit entry and processor are at the same position.        *)
Same ==
  /\ Len(chain) = Len(loaded)
  /\ \A j \in DOMAIN chain : Pair(loaded[j], chain[j])

LEMMA PlainEdit ==
  /\ ui.at \in {"idle", "add", "del", "exchange", "save"} =>
       (EditInv <=> Same)
  /\ ui'.at \in {"idle", "add", "del", "exchange", "save"} =>
       (EditInv' <=> Same')
<1>1. ui.at \in {"idle", "add", "del", "exchange", "save"} => (EditInv <=> Same)
  BY DEF EditInv, Same, Origin
<1>2. ui'.at \in {"idle", "add", "del", "exchange", "save"} =>
        (EditInv' <=> Same')
  BY DEF EditInv, Same, Origin
<1> QED
  BY <1>1, <1>2

(* The message thread changes the list only with the mutex, which the      *)
(* client thread has while it uses a position of the list.                 *)
LEMMA UiTypes ==
  ASSUME IInv, Noted, ListOK', UiOK', ServerOK', LockOK',
         Len(loaded') = Len(loaded) \/ holder = None,
         UNCHANGED <<client, retries, lastState, connected, sessions, faults>>,
         edits' \in 0..MaxEdits, ready' \in BOOLEAN, error' \in BOOLEAN,
         needsReconnect' \in BOOLEAN, Usable' => Usable /\ ready'
  PROVE  TypeOK' /\ ClientOK' /\ SessionInv' /\ OverlapInv'
<1>2. RestOK'
  <2>1. overlap' \in BOOLEAN
    BY NotedStep
  <2> QED
    BY <2>1, TypeParts DEF IInv, RestOK
<1>3. ClientOK'
  <2>1. CASE Len(loaded') = Len(loaded)
    <3>1. DOMAIN loaded' = DOMAIN loaded
      BY <2>1, TypeParts DEF IInv, ListOK
    <3> QED
      BY <2>1, <3>1 DEF IInv, ClientOK
  <2>2. CASE holder = None
    <3>1. client.at \notin {"load", "loadbypass", "sync"}
      BY <2>2, TypeParts DEF IInv, LockOK, None
    <3> QED
      BY <3>1 DEF IInv, ClientOK
  <2> QED
    BY <2>1, <2>2
<1>4. SessionInv'
  BY DEF IInv, SessionInv
<1> QED
  BY <1>2, <1>3, <1>4, TypeParts, NotedStep

LEMMA CallTypes ==
  ASSUME IInv, Noted, ui = Idle, edits < MaxEdits, edits' = edits + 1,
         ListOK', UiOK', Len(loaded') = Len(loaded) \/ holder = None,
         UNCHANGED <<client, retries, lastState, error, server, sessions,
                     faults>>,
         ready' \in BOOLEAN, needsReconnect' \in BOOLEAN,
         LockOK', Usable' => Usable /\ ready'
  PROVE  TypeOK' /\ ClientOK' /\ SessionInv' /\ OverlapInv'
<1>1. ServerOK'
  BY TypeParts DEF IInv, ServerOK, server
<1>2. edits' \in 0..MaxEdits /\ error' \in BOOLEAN
  BY TypeParts, ChainBounds DEF IInv, RestOK
<1> QED
  BY <1>1, <1>2, UiTypes DEF server

(* An edit that begins while the list is loaded is noted.                  *)
LEMMA EditBegins ==
  ASSUME IInv, Noted, sessions' = sessions, client' = client, Editing',
         Usable' => Usable, ui = Idle, ~Loading /\ Usable /\ Same => EditInv'
  PROVE  AgreeInv'
<1>1. ~overlap' => ~overlap /\ ~Loading
  BY NotedStep DEF Noted, Loading
<1>2. ~overlap' /\ Usable' => Same
  BY <1>1, PlainEdit DEF IInv, AgreeInv, Idle
<1> QED
  BY <1>1, <1>2 DEF AgreeInv, Loading

LEMMA LoadPluginInv ==
  ASSUME IInv, Noted, NEW p \in Plugin, LoadPlugin(p)
  PROVE  IInv'
<1> USE DEF list, flags, server, bounds
<1>1. /\ ui = Idle /\ edits < MaxEdits /\ edits' = edits + 1
      /\ loaded' = loaded /\ holder' = holder /\ client' = client
      /\ retries' = retries /\ lastState' = lastState /\ sessions' = sessions
      /\ faults' = faults /\ connected' = connected /\ chain' = chain
      /\ ready' = ready /\ error' = error /\ needsReconnect' = needsReconnect
      /\ loadedOk' \in {loadedOk, FALSE}
      /\ \/ IsReadyLockFree /\ ui' = [at |-> "add", p |-> p]
         \/ ~IsReadyLockFree
            /\ ui' = [at |-> "append", p |-> p, status |-> "failed"]
  BY DEF LoadPlugin, Begin
<1>2. ListOK' /\ LockOK' /\ ready' \in BOOLEAN /\ needsReconnect' \in BOOLEAN
  <2>1. ListOK'
    BY <1>1, TypeParts DEF IInv, ListOK
  <2>2. LockOK'
    BY <1>1, TypeParts DEF IInv, LockOK, Idle
  <2>3. ready' \in BOOLEAN /\ needsReconnect' \in BOOLEAN
    BY <1>1, TypeParts DEF IInv, RestOK
  <2> QED
    BY <2>1, <2>2, <2>3
<1>3. UiOK'
  BY <1>1 DEF UiOK
<1>4. Usable' => Usable /\ ready'
  BY <1>1 DEF Usable, IInv, SessionInv
<1>5. TypeOK' /\ ClientOK' /\ SessionInv' /\ OverlapInv'
  BY <1>1, <1>2, <1>3, <1>4, CallTypes
<1>6. ~Loading /\ Usable /\ Same => EditInv'
  <2>1. Usable => ui'.at = "add"
    BY <1>1 DEF Usable, IInv, SessionInv, IsReadyLockFree
  <2>2. Same => Same'
    BY <1>1 DEF Same
  <2> QED
    BY <2>1, <2>2, PlainEdit
<1>7. AgreeInv'
  BY <1>1, <1>4, <1>6, EditBegins DEF Editing
<1> QED
  BY <1>3, <1>5, <1>7 DEF IInv

LEMMA UnloadExchangeInv ==
  ASSUME IInv, Noted, NEW i \in DOMAIN loaded,
         UnloadPlugin(i) \/ (i + 1 \in DOMAIN loaded /\ ExchangePlugins(i))
  PROVE  IInv'
<1> USE DEF list, flags, server, bounds
<1>1. /\ ui = Idle /\ edits < MaxEdits /\ edits' = edits + 1
      /\ loaded' = loaded /\ holder' = holder /\ client' = client
      /\ retries' = retries /\ lastState' = lastState /\ sessions' = sessions
      /\ faults' = faults /\ connected' = connected /\ chain' = chain
      /\ ready' = ready /\ error' = error /\ needsReconnect' = needsReconnect
      /\ loadedOk' = loadedOk
  BY DEF UnloadPlugin, ExchangePlugins, Begin
<1>0. \/ IsReadyLockFree /\ ui' = [at |-> "del", i |-> i]
      \/ ~IsReadyLockFree /\ ui' = [at |-> "erase", i |-> i]
      \/ /\ IsReadyLockFree /\ ui' = [at |-> "exchange", i |-> i]
         /\ i + 1 \in DOMAIN loaded
      \/ /\ ~IsReadyLockFree /\ ui' = [at |-> "swap", i |-> i]
         /\ i + 1 \in DOMAIN loaded
  BY DEF UnloadPlugin, ExchangePlugins, Begin
<1>2. ListOK' /\ LockOK' /\ ready' \in BOOLEAN /\ needsReconnect' \in BOOLEAN
  BY <1>0, <1>1, TypeParts DEF IInv, ListOK, LockOK, RestOK, Idle
<1>3. UiOK'
  BY <1>0, <1>1 DEF UiOK
<1>4. Usable' => Usable /\ ready'
  BY <1>1 DEF Usable, IInv, SessionInv
<1>5. TypeOK' /\ ClientOK' /\ SessionInv' /\ OverlapInv'
  BY <1>1, <1>2, <1>3, <1>4, CallTypes
<1>6. ~Loading /\ Usable /\ Same => EditInv'
  <2>1. Usable => ui'.at \in {"del", "exchange"}
    BY <1>0 DEF Usable, IInv, SessionInv, IsReadyLockFree
  <2>2. Same => Same'
    BY <1>1 DEF Same
  <2> QED
    BY <2>1, <2>2, PlainEdit
<1>7. AgreeInv'
  BY <1>0, <1>1, <1>4, <1>6, EditBegins DEF Editing
<1> QED
  BY <1>3, <1>5, <1>7 DEF IInv

LEMMA BypassPluginInv ==
  ASSUME IInv, Noted, NEW i \in DOMAIN loaded, BypassPlugin(i)
  PROVE  IInv'
<1> USE DEF list, flags, server, bounds
<1>1. /\ ui = Idle /\ edits < MaxEdits /\ edits' = edits + 1
      /\ loaded' = [loaded EXCEPT ![i].bypassed = ~@]
      /\ holder = None /\ holder' = holder /\ client' = client
      /\ retries' = retries /\ lastState' = lastState /\ sessions' = sessions
      /\ faults' = faults /\ connected' = connected /\ chain' = chain
      /\ ready' = ready /\ error' = error /\ needsReconnect' = needsReconnect
      /\ loadedOk' = loadedOk /\ ui' = [at |-> "bypass", i |-> i]
  BY DEF BypassPlugin, Begin
<1>2. LockOK' /\ ready' \in BOOLEAN /\ needsReconnect' \in BOOLEAN
  BY <1>1, TypeParts DEF IInv, LockOK, RestOK, Idle
<1>0. /\ ListOK' /\ DOMAIN loaded' = DOMAIN loaded
      /\ Len(loaded') = Len(loaded)
      /\ \A j \in DOMAIN loaded :
           loaded'[j].p = loaded[j].p /\ (j # i => loaded'[j] = loaded[j])
  <2>1. loaded \in Seq(Loaded) /\ loaded[i] \in Loaded
    BY TypeParts DEF IInv, ListOK
  <2> DEFINE e == [loaded[i] EXCEPT !.bypassed = ~@]
  <2>2. e \in Loaded /\ e.p = loaded[i].p
    BY <2>1 DEF Loaded
  <2>3. loaded' = [loaded EXCEPT ![i] = e]
    BY <1>1
  <2> HIDE DEF e
  <2>4. /\ loaded' \in Seq(Loaded) /\ DOMAIN loaded' = DOMAIN loaded
        /\ Len(loaded') = Len(loaded)
    BY <2>1, <2>2, <2>3
  <2>5. \A j \in DOMAIN loaded :
          loaded'[j].p = loaded[j].p /\ (j # i => loaded'[j] = loaded[j])
    BY <2>2, <2>3
  <2>6. loadedOk' \in BOOLEAN
    BY <1>1, TypeParts DEF IInv, ListOK
  <2> QED
    BY <2>4, <2>5, <2>6 DEF ListOK
<1>3. UiOK'
  BY <1>0, <1>1 DEF UiOK
<1>4. Usable' => Usable /\ ready'
  BY <1>1 DEF Usable, IInv, SessionInv
<1>5. TypeOK' /\ ClientOK' /\ SessionInv' /\ OverlapInv'
  BY <1>0, <1>1, <1>2, <1>3, <1>4, CallTypes
<1>6. ~Loading /\ Usable /\ Same => EditInv'
  <2> SUFFICES ASSUME Same
               PROVE  EditInv'
    OBVIOUS
  <2>1. DOMAIN chain = DOMAIN loaded
    BY TypeParts DEF IInv, ListOK, ServerOK, Same
  <2> QED
    BY <1>0, <1>1, <2>1, ZenonT(60) DEF Same, EditInv, Origin, Pair
<1>7. AgreeInv'
  BY <1>1, <1>4, <1>6, EditBegins DEF Editing
<1> QED
  BY <1>3, <1>5, <1>7 DEF IInv

LEMMA SetStateInv ==
  ASSUME IInv, Noted, NEW project \in Projects, SetState(project)
  PROVE  IInv'
<1> USE DEF list, flags, server, bounds
<1>1. /\ ui = Idle /\ edits < MaxEdits /\ edits' = edits + 1
      /\ loaded' = project /\ loadedOk' = FALSE
      /\ holder = None /\ holder' = holder /\ client' = client
      /\ retries' = retries /\ lastState' = lastState /\ sessions' = sessions
      /\ faults' = faults /\ connected' = connected /\ chain' = chain
      /\ ready' = ready /\ error' = error /\ needsReconnect' = needsReconnect
      /\ ui' = [at |-> "restored"]
  BY DEF SetState, Begin
<1>2. LockOK' /\ ready' \in BOOLEAN /\ needsReconnect' \in BOOLEAN
  BY <1>1, TypeParts DEF IInv, LockOK, RestOK, Idle
<1>0. ListOK'
  <2>1. \A p \in Plugin : Saved(p) \in Loaded
    BY DEF Saved, Loaded
  <2>3. \A e, f \in Loaded : <<e>> \in Seq(Loaded) /\ <<e, f>> \in Seq(Loaded)
    OBVIOUS
  <2>2. project \in Seq(Loaded)
    <3>1. CASE \E p \in Plugin : project = <<Saved(p)>>
      BY <2>1, <2>3, <3>1
    <3>2. CASE \E p \in Plugin, q \in Plugin : project = <<Saved(p), Saved(q)>>
      BY <2>1, <2>3, <3>2
    <3> QED
      BY <3>1, <3>2 DEF Projects
  <2> QED
    BY <1>1, <2>2 DEF ListOK
<1>3. UiOK'
  BY <1>1 DEF UiOK
<1>4. Usable' => Usable /\ ready'
  BY <1>1 DEF Usable, IInv, SessionInv
<1>5. TypeOK' /\ ClientOK' /\ SessionInv' /\ OverlapInv'
  BY <1>0, <1>1, <1>2, <1>3, <1>4, CallTypes
<1>7. AgreeInv'
  BY <1>1 DEF AgreeInv
<1> QED
  BY <1>3, <1>5, <1>7 DEF IInv

LEMMA OtherCallInv ==
  ASSUME IInv, Noted, GetState \/ SelectServer \/ SetFormat
  PROVE  IInv'
<1> USE DEF list, flags, server, bounds
<1>1. /\ ui = Idle /\ edits < MaxEdits /\ edits' = edits + 1
      /\ loaded' = loaded /\ loadedOk' = loadedOk /\ client' = client
      /\ lastState' = lastState /\ sessions' = sessions
      /\ faults' = faults /\ connected' = connected /\ chain' = chain
      /\ error' = error
  BY DEF GetState, SelectServer, SetFormat, Begin
<1>2. CASE GetState
  <2>1. /\ ui' = [at |-> "save", i |-> 1] /\ holder = None /\ holder' = "ui"
        /\ retries' = retries /\ ready' = ready
        /\ needsReconnect' = needsReconnect
    BY <1>2 DEF GetState, Begin
  <2>2. ListOK' /\ LockOK' /\ ready' \in BOOLEAN /\ needsReconnect' \in BOOLEAN
    BY <1>1, <2>1, TypeParts DEF IInv, ListOK, LockOK, RestOK, Idle, None
  <2>3. UiOK'
    BY <2>1 DEF UiOK
  <2>4. Usable' => Usable /\ ready'
    BY <1>1, <2>1 DEF Usable, IInv, SessionInv
  <2>5. TypeOK' /\ ClientOK' /\ SessionInv' /\ OverlapInv'
    BY <1>1, <2>1, <2>2, <2>3, <2>4, CallTypes
  <2>6. AgreeInv'
    <3>1. ~overlap' => ~overlap
      BY <1>1, NotedStep
    <3>2. LoadInv => LoadInv'
      BY <1>1 DEF LoadInv
    <3>3. EditInv => EditInv'
      BY <1>1, <2>1, PlainEdit DEF Same, Idle
    <3> QED
      BY <1>1, <2>4, <3>1, <3>2, <3>3 DEF IInv, AgreeInv, Loading, Idle
  <2> QED
    BY <2>3, <2>5, <2>6 DEF IInv
<1>3. CASE SelectServer \/ SetFormat
  <2>1. /\ ui' = ui /\ holder' = holder /\ needsReconnect' = TRUE
        /\ retries' \in {retries, 0} /\ ready' \in {ready, FALSE}
    BY <1>3 DEF SelectServer, SetFormat
  <2>2. ListOK' /\ LockOK' /\ ready' \in BOOLEAN /\ ServerOK'
    BY <1>1, <2>1, TypeParts DEF IInv, ListOK, LockOK, RestOK, ServerOK
  <2>3. UiOK' /\ ClientOK'
    BY <1>1, <2>1 DEF IInv, UiOK, ClientOK
  <2>4. ~Usable'
    BY <2>1 DEF Usable
  <2>5. RestOK'
    <3>1. edits' \in 0..MaxEdits /\ retries' \in 0..MaxRetries
      BY <1>1, <2>1, TypeParts, ChainBounds DEF IInv, RestOK
    <3>2. overlap' \in BOOLEAN
      BY NotedStep
    <3> QED
      BY <1>1, <2>1, <2>2, <3>1, <3>2, TypeParts DEF IInv, RestOK
  <2>6. SessionInv'
    BY <1>1, <2>4 DEF IInv, SessionInv
  <2> QED
    BY <2>2, <2>3, <2>4, <2>5, <2>6, TypeParts, NotedStep, UnusableAgree
       DEF IInv
<1> QED
  BY <1>2, <1>3

-----------------------------------------------------------------------------
(* The steps of a call.                                                    *)

LEMMA EditStep ==
  ASSUME IInv, Noted, sessions' = sessions, client' = client,
         Usable' => Usable, Editing, Usable /\ EditInv => EditInv'
  PROVE  AgreeInv'
<1>1. ~overlap' => ~overlap /\ ~Loading
  BY NotedStep DEF IInv, OverlapInv
<1>2. ui.at # "restored"
  BY DEF Editing
<1> QED
  BY <1>1, <1>2 DEF IInv, AgreeInv, Loading

(* The bounds and flags of a step that leaves them alone.                  *)
LEMMA FlagTypes ==
  ASSUME IInv
  PROVE  /\ edits \in 0..MaxEdits /\ ready \in BOOLEAN /\ error \in BOOLEAN
         /\ needsReconnect \in BOOLEAN /\ (Usable => Usable /\ ready)
BY TypeParts DEF IInv, RestOK, SessionInv

LEMMA AddPluginInv ==
  ASSUME IInv, Noted, AddPlugin
  PROVE  IInv'
<1> USE DEF list, flags, server, bounds
<1>1. /\ ui.at = "add" /\ loaded' = loaded /\ holder' = holder
      /\ client' = client /\ retries' = retries /\ lastState' = lastState
      /\ ready' = ready /\ error' = error /\ needsReconnect' = needsReconnect
      /\ connected' = connected /\ edits' = edits /\ sessions' = sessions
      /\ faults' = faults
  BY DEF AddPlugin
<1>2. ui \in [at : {"add"}, p : Plugin]
  BY <1>1 DEF IInv, UiOK, Idle
<1>3. PICK s \in {"ok", "retry", "failed"} :
        /\ ui' = [at |-> "append", p |-> ui.p, status |-> s]
        /\ \/ /\ connected
              /\ \E u \in BOOLEAN :
                   chain' = Append(chain, [p |-> ui.p, up |-> u, suspended |-> FALSE])
           \/ ~connected /\ chain' = chain
  BY DEF AddPlugin, AddResults, AddProcessor
<1>4. loadedOk' \in BOOLEAN
  BY <1>3, TypeParts DEF AddPlugin, IInv, ListOK
<1>5. ListOK' /\ UiOK' /\ LockOK'
  <2>1. ListOK'
    BY <1>1, <1>4, TypeParts DEF IInv, ListOK
  <2>2. UiOK'
    BY <1>2, <1>3 DEF UiOK
  <2>3. LockOK'
    BY <1>1, <1>3, TypeParts DEF IInv, LockOK
  <2> QED
    BY <2>1, <2>2, <2>3
<1>6. ServerOK'
  <2>1. \A u \in BOOLEAN : [p |-> ui.p, up |-> u, suspended |-> FALSE] \in Processor
    BY <1>2 DEF Processor
  <2>2. chain \in Seq(Processor) /\ connected \in BOOLEAN
          /\ (~connected => chain = <<>>)
    BY TypeParts DEF IInv, ServerOK
  <2>3. chain' \in Seq(Processor)
    <3>1. CASE connected
      <4>1. PICK u \in BOOLEAN :
              chain' = Append(chain, [p |-> ui.p, up |-> u, suspended |-> FALSE])
        BY <1>3, <3>1
      <4>2. [p |-> ui.p, up |-> u, suspended |-> FALSE] \in Processor
        BY <2>1
      <4> QED
        BY <2>2, <4>1, <4>2
    <3>2. CASE ~connected
      BY <1>3, <2>2, <3>2
    <3> QED
      BY <3>1, <3>2
  <2> QED
    BY <1>1, <1>3, <2>2, <2>3 DEF ServerOK
<1>7. TypeOK' /\ ClientOK' /\ SessionInv' /\ OverlapInv'
  BY <1>1, <1>5, <1>6, FlagTypes, UiTypes DEF Usable
<1>8. Usable /\ EditInv => EditInv'
  <2> SUFFICES ASSUME Usable, EditInv
               PROVE  EditInv'
    OBVIOUS
  <2>1. Same
    BY <1>1, PlainEdit
  <2>2. PICK u \in BOOLEAN :
          chain' = Append(chain, [p |-> ui.p, up |-> u, suspended |-> FALSE])
    BY <1>3 DEF Usable
  <2>3. /\ chain \in Seq(Processor) /\ loaded \in Seq(Loaded)
        /\ [p |-> ui.p, up |-> u, suspended |-> FALSE] \in Processor
    BY <1>2, TypeParts DEF IInv, ServerOK, ListOK, Processor
  <2>4. /\ Len(chain') = Len(chain) + 1 /\ DOMAIN chain' = 1..Len(chain) + 1
        /\ \A j \in DOMAIN chain : chain'[j] = chain[j]
        /\ chain'[Len(chain) + 1] = [p |-> ui.p, up |-> u, suspended |-> FALSE]
    BY <2>2, <2>3
  <2>5. Len(chain) = Len(loaded) /\ DOMAIN chain = 1..Len(chain)
          /\ Len(chain) \in Nat
    BY <2>1, <2>3 DEF Same
  <2>6. ui'.at = "append" /\ ui'.p = ui.p /\ ui'.status = s
    BY <1>3
  <2>7. Pair(Entry(ui'.p, ui'.status), chain'[Len(chain) + 1])
    BY <2>4, <2>6 DEF Pair, Entry
  <2>8. \A j \in DOMAIN chain : Pair(loaded'[j], chain'[j])
    BY <1>1, <2>1, <2>4 DEF Same
  <2>9. /\ Len(chain') = Len(loaded') + 1
        /\ \A j \in DOMAIN chain' :
             IF j = Len(chain') THEN Pair(Entry(ui'.p, ui'.status), chain'[j])
                                ELSE Pair(loaded'[j], chain'[j])
    BY <1>1, <2>4, <2>5, <2>7, <2>8
  <2> QED
    BY <2>6, <2>9 DEF EditInv, Origin
<1>9. AgreeInv'
  BY <1>1, <1>8, EditStep DEF Usable, Editing
<1> QED
  BY <1>5, <1>7, <1>9 DEF IInv

LEMMA AppendPluginInv ==
  ASSUME IInv, Noted, AppendPlugin
  PROVE  IInv'
<1> USE DEF list, flags, server, bounds
<1>1. /\ ui.at = "append" /\ holder = None /\ holder' = holder
      /\ loaded' = Append(loaded, Entry(ui.p, ui.status))
      /\ loadedOk' = loadedOk
      /\ ui' = Idle /\ chain' = chain
      /\ client' = client /\ retries' = retries /\ lastState' = lastState
      /\ ready' = ready /\ error' = error /\ needsReconnect' = needsReconnect
      /\ connected' = connected /\ edits' = edits /\ sessions' = sessions
      /\ faults' = faults
  BY DEF AppendPlugin
<1>2. ui \in [at : {"append"}, p : Plugin, status : {"ok", "retry", "failed"}]
  BY <1>1 DEF IInv, UiOK, Idle
<1>3. Entry(ui.p, ui.status) \in Loaded
  BY <1>2 DEF Entry, Loaded
<1>4. loaded \in Seq(Loaded) /\ chain \in Seq(Processor)
  BY TypeParts DEF IInv, ListOK, ServerOK
<1>5. /\ loaded' \in Seq(Loaded)
      /\ Len(loaded') = Len(loaded) + 1
      /\ \A j \in DOMAIN loaded : loaded'[j] = loaded[j]
      /\ loaded'[Len(loaded) + 1] = Entry(ui.p, ui.status)
  BY <1>1, <1>3, <1>4
<1>6. ListOK' /\ UiOK' /\ LockOK' /\ ServerOK'
  <2>1. ListOK' /\ ServerOK'
    BY <1>1, <1>5, TypeParts DEF IInv, ListOK, ServerOK
  <2>2. UiOK' /\ LockOK'
    BY <1>1, TypeParts DEF IInv, LockOK, UiOK, Idle
  <2> QED
    BY <2>1, <2>2
<1>7. TypeOK' /\ ClientOK' /\ SessionInv' /\ OverlapInv'
  BY <1>1, <1>6, FlagTypes, UiTypes DEF Usable
<1>8. EditInv => Same'
  BY <1>1, <1>4, <1>5 DEF EditInv, Origin, Same
<1>9. AgreeInv'
  BY <1>1, <1>8, EditStep, PlainEdit DEF Usable, Editing, Idle
<1> QED
  BY <1>6, <1>7, <1>9 DEF IInv

LEMMA ConcatElements ==
  ASSUME NEW S, NEW a \in Seq(S), NEW b \in Seq(S)
  PROVE  /\ a \o b \in Seq(S) /\ Len(a \o b) = Len(a) + Len(b)
         /\ \A j \in 1..Len(a) + Len(b) :
              (a \o b)[j] = IF j <= Len(a) THEN a[j] ELSE b[j - Len(a)]
OBVIOUS

(* What is left of a sequence when its element at i is removed.            *)
LEMMA RemoveAtElements ==
  ASSUME NEW S, NEW s \in Seq(S), NEW i \in DOMAIN s
  PROVE  /\ RemoveAt(s, i) \in Seq(S) /\ Len(RemoveAt(s, i)) = Len(s) - 1
         /\ \A j \in 1..Len(s) - 1 :
              RemoveAt(s, i)[j] = s[IF j < i THEN j ELSE j + 1]
<1> DEFINE a == SubSeq(s, 1, i - 1)
           b == SubSeq(s, i + 1, Len(s))
<1>1. i \in 1..Len(s) /\ Len(s) \in Nat
  OBVIOUS
<1>2. a \in Seq(S) /\ Len(a) = i - 1 /\ \A j \in 1..i - 1 : a[j] = s[j]
  BY <1>1
<1>3. /\ b \in Seq(S) /\ Len(b) = Len(s) - i
      /\ \A j \in 1..Len(s) - i : b[j] = s[i + j]
  BY <1>1
<1> HIDE DEF a, b
<1>4. /\ a \o b \in Seq(S) /\ Len(a \o b) = Len(s) - 1
      /\ \A j \in 1..Len(s) - 1 :
           (a \o b)[j] = IF j < i THEN a[j] ELSE b[j - (i - 1)]
  <2>1. Len(a) + Len(b) = Len(s) - 1
    BY <1>1, <1>2, <1>3
  <2>2. /\ a \o b \in Seq(S) /\ Len(a \o b) = Len(s) - 1
        /\ \A j \in 1..Len(s) - 1 :
             (a \o b)[j] = IF j <= Len(a) THEN a[j] ELSE b[j - Len(a)]
    <3>1. a \in Seq(S) /\ b \in Seq(S)
      BY <1>2, <1>3
    <3> QED
      BY <2>1, <3>1, ConcatElements, Zenon
  <2>3. \A j \in 1..Len(s) - 1 :
           (IF j <= Len(a) THEN a[j] ELSE b[j - Len(a)])
              = (IF j < i THEN a[j] ELSE b[j - (i - 1)])
    <3> SUFFICES ASSUME NEW j \in 1..Len(s) - 1
                 PROVE  (j <= Len(a) <=> j < i) /\ Len(a) = i - 1
      OBVIOUS
    <3> QED
      BY <1>1, <1>2
  <2> QED
    BY <2>2, <2>3
<1>5. \A j \in 1..Len(s) - 1 : (a \o b)[j] = s[IF j < i THEN j ELSE j + 1]
  <2> TAKE j \in 1..Len(s) - 1
  <2>1. CASE j < i
    BY <1>1, <1>2, <1>4, <2>1
  <2>2. CASE ~(j < i)
    <3>1. j - (i - 1) \in 1..Len(s) - i /\ i + (j - (i - 1)) = j + 1
      BY <1>1, <2>2
    <3> QED
      BY <1>3, <1>4, <2>2, <3>1
  <2> QED
    BY <2>1, <2>2
<1> QED
  BY <1>4, <1>5 DEF RemoveAt, a, b

(* The server has done what was asked; the list follows.                   *)
LEMMA DelRequest ==
  ASSUME IInv, UiRequest, ui.at = "del"
  PROVE  /\ UiOK' /\ LockOK' /\ chain' \in Seq(Processor)
         /\ chain = <<>> => chain' = <<>>
         /\ Usable /\ EditInv => EditInv'
<1> USE DEF list, flags, server, bounds
<1>1. /\ ui \in [at : {"del"}, i : DOMAIN loaded]
      /\ chain \in Seq(Processor) /\ loaded \in Seq(Loaded)
  BY TypeParts DEF IInv, UiOK, Idle, ListOK, ServerOK
<1>2. /\ chain' = DelProcessor(chain, ui.i) /\ ui' = [ui EXCEPT !.at = "erase"]
      /\ loaded' = loaded /\ holder' = holder /\ client' = client
  BY DEF UiRequest, Requested, AfterRequest
<1>3. ui' \in [at : {"erase"}, i : DOMAIN loaded] /\ ui'.i = ui.i
  BY <1>1, <1>2
<1>4. UiOK' /\ LockOK'
  BY <1>2, <1>3, TypeParts DEF IInv, LockOK, UiOK
<1>5. ui.i \in DOMAIN chain =>
        /\ chain' \in Seq(Processor) /\ Len(chain') = Len(chain) - 1
        /\ \A j \in 1..Len(chain) - 1 :
             chain'[j] = chain[IF j < ui.i THEN j ELSE j + 1]
  BY <1>1, <1>2, RemoveAtElements DEF DelProcessor
<1>6. chain' \in Seq(Processor)
  BY <1>1, <1>2, <1>5 DEF DelProcessor
<1>7. chain = <<>> => chain' = <<>>
  BY <1>2 DEF DelProcessor
<1>8. EditInv => EditInv'
  <2> SUFFICES ASSUME EditInv
               PROVE  EditInv'
    OBVIOUS
  <2>1. Same
    BY PlainEdit
  <2>2. /\ Len(chain) = Len(loaded) /\ Len(chain) \in Nat
        /\ ui.i \in 1..Len(chain) /\ DOMAIN chain = 1..Len(chain)
    BY <1>1, <2>1 DEF Same
  <2>3. /\ Len(chain') = Len(loaded') - 1 /\ DOMAIN chain' = 1..Len(chain) - 1
    <3>1. Len(chain') = Len(chain) - 1 /\ chain' \in Seq(Processor)
      BY <1>1, <1>5, <2>2
    <3>2. Len(loaded') = Len(chain)
      BY <1>2, <2>2
    <3>3. DOMAIN chain' = 1..Len(chain')
      BY <3>1
    <3> QED
      BY <3>1, <3>2, <3>3
  <2>4. ASSUME NEW j \in DOMAIN chain'
        PROVE  Pair(loaded'[IF j < ui'.i THEN j ELSE j + 1], chain'[j])
    <3>1. (IF j < ui.i THEN j ELSE j + 1) \in DOMAIN chain
      BY <2>2, <2>3
    <3>2. chain'[j] = chain[IF j < ui.i THEN j ELSE j + 1]
      BY <1>5, <2>2, <2>3
    <3> QED
      BY <1>2, <1>3, <2>1, <3>1, <3>2 DEF Same
  <2> QED
    BY <1>3, <2>3, <2>4 DEF EditInv, Origin
<1> QED
  BY <1>4, <1>6, <1>7, <1>8

LEMMA ExchangeRequest ==
  ASSUME IInv, UiRequest, ui.at = "exchange"
  PROVE  /\ UiOK' /\ LockOK' /\ chain' \in Seq(Processor)
         /\ chain = <<>> => chain' = <<>>
         /\ Usable /\ EditInv => EditInv'
<1> USE DEF list, flags, server, bounds
<1>1. /\ ui \in [at : {"exchange", "swap"}, i : DOMAIN loaded]
      /\ ui.i + 1 \in DOMAIN loaded
      /\ chain \in Seq(Processor) /\ loaded \in Seq(Loaded)
  BY TypeParts DEF IInv, UiOK, Idle, ListOK, ServerOK
<1>2. /\ chain' = ExchangeProcessors(chain, ui.i, ui.i + 1)
      /\ ui' = [ui EXCEPT !.at = "swap"]
      /\ loaded' = loaded /\ holder' = holder /\ client' = client
  BY DEF UiRequest, Requested, AfterRequest
<1>3. /\ ui' \in [at : {"exchange", "swap"}, i : DOMAIN loaded]
      /\ ui'.i = ui.i /\ ui'.at = "swap"
  BY <1>1, <1>2
<1>4. UiOK' /\ LockOK'
  BY <1>1, <1>2, <1>3, TypeParts DEF IInv, LockOK, UiOK
<1>5. {ui.i, ui.i + 1} \subseteq DOMAIN chain =>
        /\ chain' \in Seq(Processor) /\ Len(chain') = Len(chain)
        /\ chain'[ui.i] = chain[ui.i + 1] /\ chain'[ui.i + 1] = chain[ui.i]
        /\ \A j \in DOMAIN chain \ {ui.i, ui.i + 1} : chain'[j] = chain[j]
  BY <1>1, <1>2 DEF ExchangeProcessors
<1>6. chain' \in Seq(Processor)
  BY <1>1, <1>2, <1>5 DEF ExchangeProcessors
<1>7. chain = <<>> => chain' = <<>>
  BY <1>2 DEF ExchangeProcessors
<1>8. EditInv => EditInv'
  <2> SUFFICES ASSUME EditInv
               PROVE  EditInv'
    OBVIOUS
  <2>1. Same
    BY PlainEdit
  <2>2. /\ Len(chain) = Len(loaded) /\ Len(chain) \in Nat
        /\ ui.i \in 1..Len(chain) /\ ui.i + 1 \in 1..Len(chain)
        /\ DOMAIN chain = 1..Len(chain)
    BY <1>1, <2>1 DEF Same
  <2>3. Len(chain') = Len(loaded') /\ DOMAIN chain' = 1..Len(chain)
    BY <1>2, <1>5, <1>6, <2>2
  <2>4. ASSUME NEW j \in DOMAIN chain'
        PROVE  Pair(loaded'[Origin(j)'], chain'[j])
    <3>1. CASE j = ui.i
      <4>1. Origin(j)' = ui.i + 1 /\ chain'[j] = chain[ui.i + 1]
        BY <1>3, <1>5, <2>2, <3>1 DEF Origin
      <4> QED
        BY <1>2, <2>1, <2>2, <4>1 DEF Same
    <3>2. CASE j = ui.i + 1
      <4>1. Origin(j)' = ui.i /\ chain'[j] = chain[ui.i]
        BY <1>1, <1>3, <1>5, <2>2, <3>2 DEF Origin
      <4> QED
        BY <1>2, <2>1, <2>2, <4>1 DEF Same
    <3>3. CASE j \notin {ui.i, ui.i + 1}
      <4>1. Origin(j)' = j /\ chain'[j] = chain[j]
        BY <1>3, <1>5, <2>2, <2>3, <3>3 DEF Origin
      <4> QED
        BY <1>2, <2>1, <2>2, <2>3, <4>1 DEF Same
    <3> QED
      BY <3>1, <3>2, <3>3
  <2> QED
    BY <1>3, <2>3, <2>4 DEF EditInv
<1> QED
  BY <1>4, <1>6, <1>7, <1>8

LEMMA BypassRequest ==
  ASSUME IInv, UiRequest, ui.at = "bypass"
  PROVE  /\ UiOK' /\ LockOK' /\ chain' \in Seq(Processor)
         /\ chain = <<>> => chain' = <<>>
         /\ Usable /\ EditInv => EditInv'
<1> USE DEF list, flags, server, bounds
<1>1. /\ ui \in [at : {"bypass"}, i : DOMAIN loaded]
      /\ chain \in Seq(Processor) /\ loaded \in Seq(Loaded)
  BY TypeParts DEF IInv, UiOK, Idle, ListOK, ServerOK
<1>2. /\ chain' = IF IsReadyLockFree
                    THEN Suspend(chain, ui.i, loaded[ui.i].bypassed) ELSE chain
      /\ ui' = Idle
      /\ loaded' = loaded /\ holder' = holder /\ client' = client
  BY DEF UiRequest, Requested, AfterRequest
<1>3. UiOK' /\ LockOK'
  BY <1>2, TypeParts DEF IInv, LockOK, UiOK, Idle
<1>4. loaded[ui.i].bypassed \in BOOLEAN
  <2>1. ui.i \in DOMAIN loaded
    BY <1>1
  <2>2. loaded[ui.i] \in Loaded
    BY <1>1, <2>1
  <2> QED
    BY <2>2 DEF Loaded
<1>5. IsReadyLockFree /\ ui.i \in DOMAIN chain =>
        /\ chain' \in Seq(Processor) /\ Len(chain') = Len(chain)
        /\ chain'[ui.i].p = chain[ui.i].p
        /\ chain'[ui.i].suspended = loaded[ui.i].bypassed
        /\ \A j \in DOMAIN chain \ {ui.i} : chain'[j] = chain[j]
  <2> SUFFICES ASSUME IsReadyLockFree, ui.i \in DOMAIN chain
               PROVE  /\ chain' \in Seq(Processor) /\ Len(chain') = Len(chain)
                      /\ chain'[ui.i].p = chain[ui.i].p
                      /\ chain'[ui.i].suspended = loaded[ui.i].bypassed
                      /\ \A j \in DOMAIN chain \ {ui.i} : chain'[j] = chain[j]
    OBVIOUS
  <2> DEFINE q == [chain[ui.i] EXCEPT !.suspended = loaded[ui.i].bypassed]
  <2>3. chain[ui.i] \in Processor
    BY <1>1
  <2>1. /\ q \in Processor /\ q.p = chain[ui.i].p
        /\ q.suspended = loaded[ui.i].bypassed
    BY <1>4, <2>3 DEF Processor
  <2>2. chain' = [chain EXCEPT ![ui.i] = q]
    BY <1>2 DEF Suspend
  <2> HIDE DEF q
  <2> QED
    BY <1>1, <2>1, <2>2
<1>6. chain' \in Seq(Processor)
  BY <1>1, <1>2, <1>5 DEF Suspend
<1>7. chain = <<>> => chain' = <<>>
  BY <1>2 DEF Suspend
<1>8. Usable /\ EditInv => Same'
  <2> SUFFICES ASSUME Usable, EditInv
               PROVE  Same'
    OBVIOUS
  <2>1. IsReadyLockFree
    BY DEF Usable, IInv, SessionInv, IsReadyLockFree
  <2>2. /\ Len(chain) = Len(loaded) /\ DOMAIN chain = DOMAIN loaded
        /\ ui.i \in DOMAIN chain
    BY <1>1 DEF EditInv
  <2>3. /\ chain[ui.i].p = loaded[ui.i].p
        /\ \A j \in DOMAIN chain \ {ui.i} : Pair(loaded[j], chain[j])
    BY <2>2, <1>1 DEF EditInv, Origin
  <2>4. /\ chain' \in Seq(Processor) /\ Len(chain') = Len(chain)
        /\ DOMAIN chain' = DOMAIN chain
    BY <1>1, <1>5, <2>1, <2>2
  <2> QED
    BY <1>2, <1>5, <2>1, <2>2, <2>3, <2>4 DEF Same, Pair
<1> QED
  BY <1>2, <1>3, <1>6, <1>7, <1>8, PlainEdit DEF Idle

LEMMA UiRequestInv ==
  ASSUME IInv, Noted, UiRequest
  PROVE  IInv'
<1> USE DEF list, flags, server, bounds
<1>1. /\ ui.at \in {"del", "exchange", "bypass"}
      /\ loaded' = loaded /\ loadedOk' = loadedOk /\ holder' = holder
      /\ client' = client /\ retries' = retries /\ lastState' = lastState
      /\ ready' = ready /\ error' = error /\ needsReconnect' = needsReconnect
      /\ connected' = connected /\ edits' = edits /\ sessions' = sessions
      /\ faults' = faults
  BY DEF UiRequest
<1>2. /\ UiOK' /\ LockOK' /\ chain' \in Seq(Processor)
      /\ chain = <<>> => chain' = <<>>
      /\ Usable /\ EditInv => EditInv'
  BY <1>1, DelRequest, ExchangeRequest, BypassRequest
<1>3. ListOK' /\ ServerOK'
  BY <1>1, <1>2, TypeParts DEF IInv, ListOK, ServerOK
<1>4. TypeOK' /\ ClientOK' /\ SessionInv' /\ OverlapInv'
  BY <1>1, <1>2, <1>3, FlagTypes, UiTypes DEF Usable
<1>5. AgreeInv'
  BY <1>1, <1>2, EditStep DEF Usable, Editing
<1> QED
  BY <1>2, <1>4, <1>5 DEF IInv

LEMMA ErasePluginInv ==
  ASSUME IInv, Noted, ErasePlugin
  PROVE  IInv'
<1> USE DEF list, flags, server, bounds
<1>1. /\ ui.at = "erase" /\ holder = None /\ holder' = holder
      /\ loaded' = RemoveAt(loaded, ui.i) /\ ui' = Idle /\ chain' = chain
      /\ client' = client /\ retries' = retries /\ lastState' = lastState
      /\ ready' = ready /\ error' = error /\ needsReconnect' = needsReconnect
      /\ connected' = connected /\ edits' = edits /\ sessions' = sessions
      /\ faults' = faults
  BY DEF ErasePlugin
<1>2. ui.i \in DOMAIN loaded
  BY <1>1 DEF IInv, UiOK, Idle
<1>3. loadedOk' \in BOOLEAN
  BY DEF ErasePlugin
<1>4. loaded \in Seq(Loaded) /\ chain \in Seq(Processor)
  BY TypeParts DEF IInv, ListOK, ServerOK
<1>5. /\ loaded' \in Seq(Loaded) /\ Len(loaded') = Len(loaded) - 1
      /\ \A j \in 1..Len(loaded) - 1 :
           loaded'[j] = loaded[IF j < ui.i THEN j ELSE j + 1]
  BY <1>1, <1>2, <1>4, RemoveAtElements
<1>6. ListOK' /\ UiOK' /\ LockOK' /\ ServerOK'
  <2>1. ListOK' /\ ServerOK'
    BY <1>1, <1>3, <1>5, TypeParts DEF IInv, ListOK, ServerOK
  <2>2. UiOK' /\ LockOK'
    BY <1>1, TypeParts DEF IInv, LockOK, UiOK, Idle
  <2> QED
    BY <2>1, <2>2
<1>7. TypeOK' /\ ClientOK' /\ SessionInv' /\ OverlapInv'
  BY <1>1, <1>6, FlagTypes, UiTypes DEF Usable
<1>8. EditInv => Same'
  <2> SUFFICES ASSUME EditInv
               PROVE  Same'
    OBVIOUS
  <2>1. /\ Len(chain) = Len(loaded) - 1
        /\ \A j \in DOMAIN chain :
             Pair(loaded[IF j < ui.i THEN j ELSE j + 1], chain[j])
    BY <1>1 DEF EditInv, Origin
  <2>2. DOMAIN chain = 1..Len(loaded) - 1
    BY <1>4, <2>1
  <2>3. \A j \in DOMAIN chain : Pair(loaded'[j], chain[j])
    BY <1>5, <2>1, <2>2
  <2> QED
    BY <1>1, <1>5, <2>1, <2>3 DEF Same
<1>9. AgreeInv'
  BY <1>1, <1>8, EditStep, PlainEdit DEF Usable, Editing, Idle
<1> QED
  BY <1>6, <1>7, <1>9 DEF IInv

LEMMA SwapPluginsInv ==
  ASSUME IInv, Noted, SwapPlugins
  PROVE  IInv'
<1> USE DEF list, flags, server, bounds
<1>1. /\ ui.at = "swap" /\ holder = None /\ holder' = holder
      /\ loaded' = [loaded EXCEPT ![ui.i] = loaded[ui.i + 1],
                                  ![ui.i + 1] = loaded[ui.i]]
      /\ loadedOk' = loadedOk /\ ui' = Idle /\ chain' = chain
      /\ client' = client /\ retries' = retries /\ lastState' = lastState
      /\ ready' = ready /\ error' = error /\ needsReconnect' = needsReconnect
      /\ connected' = connected /\ edits' = edits /\ sessions' = sessions
      /\ faults' = faults
  BY DEF SwapPlugins
<1>2. ui.i \in DOMAIN loaded /\ ui.i + 1 \in DOMAIN loaded
  BY <1>1 DEF IInv, UiOK, Idle
<1>4. loaded \in Seq(Loaded) /\ chain \in Seq(Processor)
  BY TypeParts DEF IInv, ListOK, ServerOK
<1>5. /\ loaded' \in Seq(Loaded) /\ Len(loaded') = Len(loaded)
      /\ loaded'[ui.i] = loaded[ui.i + 1] /\ loaded'[ui.i + 1] = loaded[ui.i]
      /\ \A j \in DOMAIN loaded \ {ui.i, ui.i + 1} : loaded'[j] = loaded[j]
  BY <1>1, <1>2, <1>4
<1>6. ListOK' /\ UiOK' /\ LockOK' /\ ServerOK'
  <2>1. ListOK' /\ ServerOK'
    BY <1>1, <1>5, TypeParts DEF IInv, ListOK, ServerOK
  <2>2. UiOK' /\ LockOK'
    BY <1>1, TypeParts DEF IInv, LockOK, UiOK, Idle
  <2> QED
    BY <2>1, <2>2
<1>7. TypeOK' /\ ClientOK' /\ SessionInv' /\ OverlapInv'
  BY <1>1, <1>6, FlagTypes, UiTypes DEF Usable
<1>8. EditInv => Same'
  <2> SUFFICES ASSUME EditInv
               PROVE  Same'
    OBVIOUS
  <2>1. Len(chain) = Len(loaded)
          /\ \A j \in DOMAIN chain : Pair(loaded[Origin(j)], chain[j])
    BY <1>1 DEF EditInv
  <2>2. DOMAIN chain = DOMAIN loaded
    BY <1>4, <2>1
  <2>3. ASSUME NEW j \in DOMAIN chain
        PROVE  loaded'[j] = loaded[Origin(j)]
    BY <1>1, <1>5, <2>2 DEF Origin
  <2> QED
    BY <1>1, <1>5, <2>1, <2>3 DEF Same
<1>9. AgreeInv'
  BY <1>1, <1>8, EditStep, PlainEdit DEF Usable, Editing, Idle
<1> QED
  BY <1>6, <1>7, <1>9 DEF IInv

(* After a restored project only a new session counts.                     *)
LEMMA ReconnectRestoredInv ==
  ASSUME IInv, Noted, ReconnectRestored
  PROVE  IInv'
<1> USE DEF list, flags, server, bounds
<1>1. /\ ui.at = "restored" /\ ui' = Idle
      /\ loaded' = loaded /\ loadedOk' = loadedOk /\ holder' = holder
      /\ client' = client /\ retries' = retries /\ lastState' = lastState
      /\ ready' = ready /\ error' = error /\ chain' = chain
      /\ connected' = connected /\ edits' = edits /\ sessions' = sessions
      /\ faults' = faults
      /\ needsReconnect' = TRUE \/ (~IsReadyLockFree /\ needsReconnect' = needsReconnect)
  BY DEF ReconnectRestored
<1>2. ~Usable'
  BY <1>1 DEF Usable, IInv, SessionInv, IsReadyLockFree
<1>3. ListOK' /\ ServerOK' /\ LockOK' /\ UiOK'
  BY <1>1, TypeParts DEF IInv, ListOK, ServerOK, LockOK, UiOK, Idle
<1>4. needsReconnect' \in BOOLEAN
  BY <1>1, FlagTypes
<1>5. TypeOK' /\ ClientOK' /\ SessionInv' /\ OverlapInv'
  BY <1>1, <1>2, <1>3, <1>4, FlagTypes, UiTypes
<1> QED
  BY <1>2, <1>3, <1>5, UnusableAgree DEF IInv

-----------------------------------------------------------------------------
(* Settings are read and stored.                                           *)

(* Apart from its settings no entry changes.                               *)
OnlySettings ==
  /\ loaded' \in Seq(Loaded) /\ Len(loaded') = Len(loaded)
  /\ DOMAIN loaded' = DOMAIN loaded
  /\ \A j \in DOMAIN loaded : /\ loaded'[j].p = loaded[j].p
                              /\ loaded'[j].status = loaded[j].status
                              /\ loaded'[j].bypassed = loaded[j].bypassed

LEMMA ReadSettingsKeeps ==
  ASSUME IInv, NEW i \in DOMAIN loaded,
         ReadSettings(i) \/ (loaded' = loaded /\ error' = error)
  PROVE  OnlySettings /\ error' \in BOOLEAN /\ (error => error')
<1>1. loaded \in Seq(Loaded) /\ chain \in Seq(Processor)
  BY TypeParts DEF IInv, ListOK, ServerOK
<1>2. error' \in BOOLEAN /\ (error => error')
  BY TypeParts DEF IInv, RestOK, ServerOK, ReadSettings
<1>3. CASE loaded' = loaded
  BY <1>1, <1>2, <1>3 DEF OnlySettings
<1>4. CASE i \in DOMAIN chain
             /\ loaded' = [loaded EXCEPT ![i].settings = chain[i].p]
  <2> DEFINE e == [loaded[i] EXCEPT !.settings = chain[i].p]
  <2>1. loaded[i] \in Loaded /\ chain[i] \in Processor
    BY <1>1, <1>4
  <2>2. /\ e \in Loaded /\ e.p = loaded[i].p /\ e.status = loaded[i].status
        /\ e.bypassed = loaded[i].bypassed
    BY <2>1 DEF Loaded, Processor
  <2>3. loaded' = [loaded EXCEPT ![i] = e]
    BY <1>4
  <2> HIDE DEF e
  <2>4. /\ loaded' \in Seq(Loaded) /\ Len(loaded') = Len(loaded)
        /\ DOMAIN loaded' = DOMAIN loaded
    BY <1>1, <2>2, <2>3
  <2>5. \A j \in DOMAIN loaded : loaded'[j] = IF j = i THEN e ELSE loaded[j]
    BY <2>3
  <2> QED
    BY <1>2, <2>2, <2>4, <2>5 DEF OnlySettings
<1> QED
  BY <1>3, <1>4 DEF ReadSettings

(* The relation does not depend on settings.                               *)
LEMMA EditKeepsSettings ==
  ASSUME IInv, OnlySettings, ui' = ui, chain' = chain, EditInv
  PROVE  EditInv'
<1>1. \A k \in DOMAIN loaded, q \in Processor :
        Pair(loaded[k], q) => Pair(loaded'[k], q)
  BY DEF OnlySettings, Pair
<1>2. chain \in Seq(Processor) /\ loaded \in Seq(Loaded)
  BY TypeParts DEF IInv, ServerOK, ListOK
<1>3. \A j \in DOMAIN chain : Origin(j)' = Origin(j)
  BY DEF Origin
<1>4. ASSUME NEW j \in DOMAIN chain, ~(ui.at = "append" /\ j = Len(chain))
      PROVE  Origin(j) \in DOMAIN loaded
  <2>1. ui.at \in {"erase", "swap"} => ui.i \in DOMAIN loaded
    BY DEF IInv, UiOK, Idle
  <2>2. ui.at = "swap" => ui.i + 1 \in DOMAIN loaded
    BY DEF IInv, UiOK, Idle
  <2>3. CASE ui.at = "erase"
    BY <1>2, <2>1, <2>3 DEF EditInv, Origin
  <2>4. CASE ui.at = "append"
    BY <1>2, <1>4, <2>4 DEF EditInv, Origin
  <2>5. CASE ui.at \notin {"erase", "append"}
    BY <1>2, <2>1, <2>2, <2>5 DEF EditInv, Origin
  <2> QED
    BY <2>3, <2>4, <2>5
<1>5. ASSUME NEW j \in DOMAIN chain
      PROVE  IF ui.at = "append" /\ j = Len(chain)
               THEN Pair(Entry(ui.p, ui.status), chain[j])
             ELSE IF ui.at = "bypass" /\ j = ui.i
               THEN chain[j].p = loaded'[j].p
             ELSE Pair(loaded'[Origin(j)], chain[j])
  <2>1. chain[j] \in Processor
    BY <1>2
  <2>2. CASE ui.at = "append" /\ j = Len(chain)
    BY <2>2 DEF EditInv
  <2>3. CASE ui.at = "bypass" /\ j = ui.i
    <3>1. j \in DOMAIN loaded
      BY <2>3 DEF IInv, UiOK, Idle
    <3> QED
      BY <2>3, <3>1 DEF EditInv, OnlySettings
  <2>4. CASE ~(ui.at = "append" /\ j = Len(chain))
               /\ ~(ui.at = "bypass" /\ j = ui.i)
    BY <1>1, <1>4, <2>1, <2>4 DEF EditInv
  <2> QED
    BY <2>2, <2>3, <2>4
<1>6. Len(chain) = CASE ui.at = "append" -> Len(loaded') + 1
                     [] ui.at = "erase" -> Len(loaded') - 1
                     [] OTHER -> Len(loaded')
  BY DEF EditInv, OnlySettings
<1> QED
  BY <1>3, <1>5, <1>6 DEF EditInv, Origin

LEMMA SaveNextInv ==
  ASSUME IInv, Noted, SaveNext
  PROVE  IInv'
<1> USE DEF list, flags, server, bounds
<1>1. /\ ui.at = "save" /\ ui.i <= Len(loaded) /\ ui' = [ui EXCEPT !.i = @ + 1]
      /\ loadedOk' = loadedOk /\ holder' = holder /\ chain' = chain
      /\ client' = client /\ retries' = retries /\ lastState' = lastState
      /\ ready' = ready /\ needsReconnect' = needsReconnect
      /\ connected' = connected /\ edits' = edits /\ sessions' = sessions
      /\ faults' = faults
  BY DEF SaveNext
<1>2. ui \in [at : {"save"}, i : Nat \ {0}]
  BY <1>1 DEF IInv, UiOK, Idle
<1>3. ui' \in [at : {"save"}, i : Nat \ {0}]
  BY <1>1, <1>2
<1>4. ui.i \in DOMAIN loaded
  BY <1>1, <1>2, TypeParts DEF IInv, ListOK
<1>5. OnlySettings /\ error' \in BOOLEAN /\ (error => error')
  BY <1>4, ReadSettingsKeeps DEF SaveNext
<1>6. ListOK' /\ UiOK' /\ LockOK' /\ ServerOK'
  <2>1. ListOK' /\ ServerOK'
    BY <1>1, <1>5, TypeParts DEF IInv, ListOK, ServerOK, OnlySettings
  <2>2. UiOK'
    BY <1>3 DEF UiOK
  <2>3. LockOK'
    BY <1>1, <1>3, TypeParts DEF IInv, LockOK
  <2> QED
    BY <2>1, <2>2, <2>3
<1>7. Usable' => Usable
  BY <1>1, <1>5 DEF Usable
<1>8. TypeOK' /\ ClientOK' /\ SessionInv' /\ OverlapInv'
  BY <1>1, <1>5, <1>6, <1>7, FlagTypes, UiTypes DEF OnlySettings
<1>9. AgreeInv'
  <2>1. ~overlap' => ~overlap
    BY <1>1, NotedStep
  <2>2. client.at \notin {"load", "loadbypass"}
    BY <1>1, TypeParts DEF IInv, LockOK, None
  <2>3. LoadInv => LoadInv'
    BY <1>1, <2>2 DEF LoadInv
  <2>4. EditInv => EditInv'
    <3> SUFFICES ASSUME Same
                 PROVE  Same'
      BY <1>1, <1>3, PlainEdit
    <3>1. DOMAIN chain = DOMAIN loaded
      BY TypeParts DEF IInv, ListOK, ServerOK, Same
    <3> QED
      BY <1>1, <1>5, <3>1 DEF Same, OnlySettings, Pair
  <2> QED
    BY <1>1, <1>7, <2>1, <2>3, <2>4 DEF IInv, AgreeInv, Loading
<1> QED
  BY <1>6, <1>8, <1>9 DEF IInv

LEMMA SaveDoneInv ==
  ASSUME IInv, Noted, SaveDone
  PROVE  IInv'
<1> USE DEF list, flags, server, bounds
<1>1. /\ ui.at = "save" /\ ui' = Idle /\ holder' = None
      /\ loaded' = loaded /\ loadedOk' = loadedOk /\ chain' = chain
      /\ client' = client /\ retries' = retries /\ lastState' = lastState
      /\ ready' = ready /\ error' = error /\ needsReconnect' = needsReconnect
      /\ connected' = connected /\ edits' = edits /\ sessions' = sessions
      /\ faults' = faults
  BY DEF SaveDone
<1>2. ListOK' /\ ServerOK' /\ LockOK' /\ UiOK'
  BY <1>1, TypeParts DEF IInv, ListOK, ServerOK, LockOK, UiOK, Idle, None
<1>3. TypeOK' /\ ClientOK' /\ SessionInv' /\ OverlapInv'
  BY <1>1, <1>2, FlagTypes, UiTypes DEF Usable
<1>4. AgreeInv'
  <2>1. ~overlap' => ~overlap
    BY <1>1, NotedStep
  <2>2. LoadInv => LoadInv'
    BY <1>1 DEF LoadInv
  <2>3. EditInv => EditInv'
    BY <1>1, PlainEdit DEF Same, Idle
  <2> QED
    BY <1>1, <2>1, <2>2, <2>3 DEF IInv, AgreeInv, Loading, Usable
<1> QED
  BY <1>2, <1>3, <1>4 DEF IInv

-----------------------------------------------------------------------------
(* The client thread loads the list, and reads the settings.               *)

(* The message thread and its edit stay where they are.                    *)
LEMMA ClientTypes ==
  ASSUME IInv, Noted, loaded' \in Seq(Loaded), Len(loaded') = Len(loaded),
         loadedOk' \in BOOLEAN, chain' \in Seq(Processor),
         connected \/ chain' = chain, LockOK', ClientOK', client'.at # "init",
         UNCHANGED <<ui, retries, lastState, ready, needsReconnect,
                     connected, bounds>>,
         error' \in BOOLEAN, error => error'
  PROVE  TypeOK' /\ UiOK' /\ ClientOK' /\ SessionInv' /\ OverlapInv'
<1> USE DEF bounds
<1>1. ListOK' /\ ServerOK'
  BY TypeParts DEF IInv, ListOK, ServerOK
<1>2. RestOK'
  <2>1. overlap' \in BOOLEAN
    BY NotedStep
  <2> QED
    BY <2>1, TypeParts DEF IInv, RestOK
<1>3. UiOK'
  <2>1. DOMAIN loaded' = DOMAIN loaded
    BY TypeParts DEF IInv, ListOK
  <2> QED
    BY <2>1 DEF IInv, UiOK
<1>4. SessionInv'
  BY TypeParts DEF IInv, SessionInv, Usable, RestOK
<1> QED
  BY <1>1, <1>2, <1>3, <1>4, TypeParts, NotedStep

(* The callback begins with the first plugin, and sync() too.              *)
LEMMA OnConnectInv ==
  ASSUME IInv, Noted, OnConnect
  PROVE  IInv'
<1> USE DEF list, flags, server, bounds
<1>1. /\ client.at = "callback"
      /\ client' = [at |-> "load", i |-> 1, ok |-> TRUE]
      /\ holder = None /\ holder' = "client"
      /\ loaded' = loaded /\ loadedOk' = loadedOk /\ chain' = chain
      /\ ui' = ui /\ retries' = retries /\ lastState' = lastState
      /\ ready' = ready /\ error' = error /\ needsReconnect' = needsReconnect
      /\ connected' = connected /\ edits' = edits /\ sessions' = sessions
      /\ faults' = faults
  BY DEF OnConnect
<1>2. loaded \in Seq(Loaded) /\ loadedOk \in BOOLEAN
        /\ chain \in Seq(Processor)
  BY TypeParts DEF IInv, ListOK, ServerOK
<1>3. LockOK'
  BY <1>1, TypeParts DEF IInv, LockOK, None
<1>4. ClientOK'
  <2>1. 1 \in 1..Len(loaded') + 1
    BY <1>1, <1>2
  <2> QED
    BY <1>1, <2>1 DEF ClientOK
<1>5. TypeOK' /\ UiOK' /\ ClientOK' /\ SessionInv' /\ OverlapInv'
  BY <1>1, <1>2, <1>3, <1>4, FlagTypes, ClientTypes
<1>6. AgreeInv'
  <2>1. ~overlap' => ~overlap
    BY <1>1, NotedStep
  <2>2. LoadInv => LoadInv'
    BY <1>1 DEF LoadInv
  <2> QED
    BY <1>1, <2>1, <2>2 DEF IInv, AgreeInv, Loading, Usable
<1> QED
  BY <1>5, <1>6 DEF IInv

LEMMA SyncEndsInv ==
  ASSUME IInv, Noted, Sync \/ SyncDone
  PROVE  IInv'
<1> USE DEF list, flags, server, bounds
<1>1. /\ loaded' = loaded /\ loadedOk' = loadedOk /\ chain' = chain
      /\ ui' = ui /\ retries' = retries /\ lastState' = lastState
      /\ ready' = ready /\ error' = error /\ needsReconnect' = needsReconnect
      /\ connected' = connected /\ edits' = edits /\ sessions' = sessions
      /\ faults' = faults
      /\ \/ /\ client.at = "work" /\ client' = [at |-> "sync", i |-> 1]
            /\ holder = None /\ holder' = "client"
         \/ /\ client.at = "sync" /\ client' = [at |-> "retry"]
            /\ holder' = None
  BY DEF Sync, SyncDone
<1>2. loaded \in Seq(Loaded) /\ loadedOk \in BOOLEAN
        /\ chain \in Seq(Processor)
  BY TypeParts DEF IInv, ListOK, ServerOK
<1>3. LockOK' /\ ClientOK'
  BY <1>1, TypeParts DEF IInv, LockOK, ClientOK, None
<1>5. TypeOK' /\ UiOK' /\ ClientOK' /\ SessionInv' /\ OverlapInv'
  BY <1>1, <1>2, <1>3, FlagTypes, ClientTypes
<1>6. AgreeInv'
  BY <1>1, QuietAgree DEF Loading, Usable
<1> QED
  BY <1>5, <1>6 DEF IInv

LEMMA SyncNextInv ==
  ASSUME IInv, Noted, SyncNext
  PROVE  IInv'
<1> USE DEF list, flags, server, bounds
<1>1. /\ client.at = "sync" /\ client.i <= Len(loaded)
      /\ client' = [client EXCEPT !.i = @ + 1]
      /\ loadedOk' = loadedOk /\ holder' = holder /\ chain' = chain
      /\ ui' = ui /\ retries' = retries /\ lastState' = lastState
      /\ ready' = ready /\ needsReconnect' = needsReconnect
      /\ connected' = connected /\ edits' = edits /\ sessions' = sessions
      /\ faults' = faults
  BY DEF SyncNext
<1>2. client \in [at : {"sync"}, i : Nat \ {0}]
  BY <1>1 DEF IInv, ClientOK
<1>3. client' \in [at : {"sync"}, i : Nat \ {0}]
  BY <1>1, <1>2
<1>4. client.i \in DOMAIN loaded
  BY <1>1, <1>2, TypeParts DEF IInv, ListOK
<1>5. OnlySettings /\ error' \in BOOLEAN /\ (error => error')
  BY <1>4, ReadSettingsKeeps DEF SyncNext
<1>6. LockOK' /\ ClientOK'
  BY <1>1, <1>3, TypeParts DEF IInv, LockOK, ClientOK
<1>7. loadedOk' \in BOOLEAN /\ chain' \in Seq(Processor)
  BY <1>1, TypeParts DEF IInv, ListOK, ServerOK
<1>8. TypeOK' /\ UiOK' /\ ClientOK' /\ SessionInv' /\ OverlapInv'
  BY <1>1, <1>3, <1>5, <1>6, <1>7, ClientTypes DEF OnlySettings
<1>9. AgreeInv'
  <2>1. ~overlap' => ~overlap
    BY <1>1, NotedStep
  <2>2. EditInv => EditInv'
    BY <1>1, <1>5, EditKeepsSettings
  <2>3. ~Loading /\ ~Loading' /\ (Usable' => Usable)
    BY <1>1, <1>3, <1>5 DEF Loading, Usable
  <2> QED
    BY <1>1, <2>1, <2>2, <2>3 DEF IInv, AgreeInv
<1> QED
  BY <1>8, <1>9 DEF IInv

(* The next plugin is added, and its entry gets the result.                *)
LEMMA LoadNextTypes ==
  ASSUME IInv, Noted, LoadNext
  PROVE  /\ TypeOK' /\ UiOK' /\ ClientOK' /\ SessionInv' /\ OverlapInv'
         /\ \E s \in {"ok", "retry", "failed"} :
              /\ loaded' = [loaded EXCEPT ![client.i].status = s]
              /\ client' = IF s = "ok" /\ loaded[client.i].bypassed
                             THEN [client EXCEPT !.at = "loadbypass"]
                             ELSE [client EXCEPT !.i = @ + 1,
                                                 !.ok = @ /\ s = "ok"]
<1> USE DEF list, flags, server, bounds
<1>1. /\ client.at = "load" /\ client.i <= Len(loaded)
      /\ loadedOk' = loadedOk /\ holder' = holder
      /\ ui' = ui /\ retries' = retries /\ lastState' = lastState
      /\ ready' = ready /\ error' = error /\ needsReconnect' = needsReconnect
      /\ connected' = connected /\ edits' = edits /\ sessions' = sessions
      /\ faults' = faults
  BY DEF LoadNext
<1>2. client \in [at : {"load"}, i : 1..Len(loaded) + 1, ok : BOOLEAN]
  BY <1>1 DEF IInv, ClientOK
<1>3. /\ loaded \in Seq(Loaded) /\ loadedOk \in BOOLEAN
      /\ chain \in Seq(Processor)
      /\ client.i \in DOMAIN loaded
  BY <1>1, <1>2, TypeParts DEF IInv, ListOK, ServerOK
<1>4. PICK s \in {"ok", "retry", "failed"} : LoadResult(client.i, s)
  BY DEF LoadNext, AddResults
<1>5. /\ loaded' = [loaded EXCEPT ![client.i].status = s]
      /\ client' = IF s = "ok" /\ loaded[client.i].bypassed
                     THEN [client EXCEPT !.at = "loadbypass"]
                     ELSE [client EXCEPT !.i = @ + 1, !.ok = @ /\ s = "ok"]
  BY <1>4 DEF LoadResult
<1>6. loaded[client.i] \in Loaded
  BY <1>3
<1>7. loaded' \in Seq(Loaded) /\ Len(loaded') = Len(loaded)
  <2> DEFINE e == [loaded[client.i] EXCEPT !.status = s]
  <2>1. e \in Loaded
    BY <1>6 DEF Loaded
  <2>2. loaded' = [loaded EXCEPT ![client.i] = e]
    BY <1>5
  <2> HIDE DEF e
  <2> QED
    BY <1>3, <2>1, <2>2
<1>8. chain' \in Seq(Processor) /\ (connected \/ chain' = chain)
  <2>1. \A u \in BOOLEAN :
          [p |-> loaded[client.i].p, up |-> u, suspended |-> FALSE] \in Processor
    BY <1>6 DEF Loaded, Processor
  <2>2. CASE chain' = chain
    BY <1>3, <2>2
  <2>3. CASE /\ connected
             /\ \E u \in BOOLEAN :
                  chain' = Append(chain, [p |-> loaded[client.i].p, up |-> u,
                                          suspended |-> FALSE])
    BY <1>3, <2>1, <2>3
  <2> QED
    BY <2>2, <2>3 DEF LoadNext, AddResults, AddProcessor
<1>9. ClientOK' /\ client'.at \in {"load", "loadbypass"}
  <2>1. CASE s = "ok" /\ loaded[client.i].bypassed
    <3>1. client' \in [at : {"loadbypass"}, i : DOMAIN loaded', ok : BOOLEAN]
      BY <1>2, <1>3, <1>5, <1>7, <2>1
    <3> QED
      BY <3>1 DEF ClientOK
  <2>2. CASE ~(s = "ok" /\ loaded[client.i].bypassed)
    <3>1. client.i + 1 \in 1..Len(loaded') + 1
      BY <1>1, <1>2, <1>3, <1>7
    <3>2. client' \in [at : {"load"}, i : 1..Len(loaded') + 1, ok : BOOLEAN]
      BY <1>2, <1>5, <2>2, <3>1
    <3> QED
      BY <3>2 DEF ClientOK
  <2> QED
    BY <2>1, <2>2
<1>10. LockOK'
  BY <1>1, <1>9, TypeParts DEF IInv, LockOK
<1>11. TypeOK' /\ UiOK' /\ ClientOK' /\ SessionInv' /\ OverlapInv'
  BY <1>1, <1>3, <1>7, <1>8, <1>9, <1>10, FlagTypes, ClientTypes
<1> QED
  BY <1>5, <1>11

LEMMA LoadNextInv ==
  ASSUME IInv, Noted, LoadNext
  PROVE  IInv'
<1> USE DEF list, flags, server, bounds
<1>1. /\ client.at = "load" /\ client.i <= Len(loaded)
      /\ ui' = ui /\ ready' = ready /\ error' = error
      /\ needsReconnect' = needsReconnect /\ connected' = connected
      /\ sessions' = sessions
  BY DEF LoadNext
<1>2. client \in [at : {"load"}, i : 1..Len(loaded) + 1, ok : BOOLEAN]
  BY <1>1 DEF IInv, ClientOK
<1>3. /\ loaded \in Seq(Loaded) /\ chain \in Seq(Processor)
      /\ client.i \in DOMAIN loaded
  BY <1>1, <1>2, TypeParts DEF IInv, ListOK, ServerOK
<1>4. CASE ~Usable
  BY <1>1, <1>4, LoadNextTypes, UnusableAgree DEF IInv, Usable
<1>5. CASE Usable
  <2>1. PICK s \in {"ok", "retry", "failed"}, u \in BOOLEAN :
          /\ chain' = Append(chain, [p |-> loaded[client.i].p, up |-> u,
                                     suspended |-> FALSE])
          /\ loaded' = [loaded EXCEPT ![client.i].status = s]
          /\ client' = IF s = "ok" /\ loaded[client.i].bypassed
                         THEN [client EXCEPT !.at = "loadbypass"]
                         ELSE [client EXCEPT !.i = @ + 1, !.ok = @ /\ s = "ok"]
    BY <1>5 DEF LoadNext, Usable, IInv, SessionInv, IsReadyLockFree,
                AddResults,
                AddProcessor, LoadResult
  <2> DEFINE q == [p |-> loaded[client.i].p, up |-> u, suspended |-> FALSE]
  <2>2. loaded[client.i] \in Loaded
    BY <1>3
  <2>3. q \in Processor /\ q.p = loaded[client.i].p /\ q.suspended = FALSE
    BY <2>2 DEF Loaded, Processor
  <2>4. chain' = Append(chain, q)
    BY <2>1
  <2>5. /\ loaded'[client.i].p = loaded[client.i].p
        /\ loaded'[client.i].status = s
        /\ loaded'[client.i].bypassed = loaded[client.i].bypassed
        /\ \A j \in DOMAIN loaded \ {client.i} : loaded'[j] = loaded[j]
    BY <1>3, <2>1, <2>2 DEF Loaded
  <2>6. LoadInv => LoadInv'
    <3> SUFFICES ASSUME LoadInv
                 PROVE  LoadInv'
      OBVIOUS
    <3> HIDE DEF q
    <3>1. /\ Len(chain) = client.i - 1
          /\ \A j \in DOMAIN chain : Pair(loaded[j], chain[j])
      BY <1>1 DEF LoadInv
    <3>2. /\ Len(chain') = client.i /\ DOMAIN chain' = 1..client.i
          /\ DOMAIN chain = 1..client.i - 1
          /\ \A j \in DOMAIN chain : chain'[j] = chain[j]
          /\ chain'[client.i] = q
      BY <1>2, <1>3, <2>3, <2>4, <3>1
    <3>3. \A j \in 1..client.i - 1 : Pair(loaded'[j], chain'[j])
      BY <1>2, <1>3, <2>5, <3>1, <3>2
    <3>4. CASE s = "ok" /\ loaded[client.i].bypassed
      <4>1. client'.at = "loadbypass" /\ client'.i = client.i
        BY <1>2, <2>1, <3>4
      <4> QED
        BY <2>3, <2>5, <3>2, <3>3, <3>4, <4>1 DEF LoadInv
    <3>5. CASE ~(s = "ok" /\ loaded[client.i].bypassed)
      <4>1. client'.at = "load" /\ client'.i = client.i + 1
        BY <1>1, <1>2, <2>1, <3>5
      <4>4. loaded[client.i].bypassed \in BOOLEAN
        BY <2>2 DEF Loaded
      <4>2. Pair(loaded'[client.i], chain'[client.i])
        BY <2>3, <2>5, <3>2, <3>5, <4>4 DEF Pair
      <4>3. \A j \in DOMAIN chain' : Pair(loaded'[j], chain'[j])
        BY <1>2, <3>2, <3>3, <4>2
      <4>5. Len(chain') = client'.i - 1
        BY <1>2, <3>2, <4>1
      <4> QED
        BY <4>1, <4>3, <4>5 DEF LoadInv
    <3> QED
      BY <3>4, <3>5
  <2>7. client'.at \in {"load", "loadbypass"}
    BY <1>1, <1>2, <2>1
  <2>8. ~overlap' => ~overlap
    BY <1>1, NotedStep
  <2>9. AgreeInv'
    BY <1>1, <1>5, <2>6, <2>7, <2>8 DEF IInv, AgreeInv, Loading
  <2> QED
    BY <2>9, LoadNextTypes DEF IInv
<1> QED
  BY <1>4, <1>5

LEMMA LoadBypassInv ==
  ASSUME IInv, Noted, LoadBypass
  PROVE  IInv'
<1> USE DEF list, flags, server, bounds
<1>1. /\ client.at = "loadbypass"
      /\ client' = [client EXCEPT !.at = "load", !.i = @ + 1]
      /\ chain' = IF IsReadyLockFree THEN Suspend(chain, client.i, TRUE)
                                     ELSE chain
      /\ loaded' = loaded /\ loadedOk' = loadedOk /\ holder' = holder
      /\ ui' = ui /\ retries' = retries /\ lastState' = lastState
      /\ ready' = ready /\ error' = error /\ needsReconnect' = needsReconnect
      /\ connected' = connected /\ edits' = edits /\ sessions' = sessions
      /\ faults' = faults
  BY DEF LoadBypass
<1>2. client \in [at : {"loadbypass"}, i : DOMAIN loaded, ok : BOOLEAN]
  BY <1>1 DEF IInv, ClientOK
<1>3. /\ loaded \in Seq(Loaded) /\ loadedOk \in BOOLEAN
      /\ chain \in Seq(Processor)
      /\ client.i \in 1..Len(loaded) /\ Len(loaded) \in Nat
  BY <1>2, TypeParts DEF IInv, ListOK, ServerOK
<1>4. client' \in [at : {"load"}, i : 1..Len(loaded) + 1, ok : BOOLEAN]
      /\ client'.i = client.i + 1
  <2>1. client.i + 1 \in 1..Len(loaded) + 1
    BY <1>3
  <2> QED
    BY <1>1, <1>2, <2>1
<1>5. IsReadyLockFree /\ client.i \in DOMAIN chain =>
        /\ chain' \in Seq(Processor) /\ Len(chain') = Len(chain)
        /\ chain'[client.i].p = chain[client.i].p
        /\ chain'[client.i].suspended = TRUE
        /\ \A j \in DOMAIN chain \ {client.i} : chain'[j] = chain[j]
  <2> SUFFICES ASSUME IsReadyLockFree, client.i \in DOMAIN chain
               PROVE  /\ chain' \in Seq(Processor) /\ Len(chain') = Len(chain)
                      /\ chain'[client.i].p = chain[client.i].p
                      /\ chain'[client.i].suspended = TRUE
                      /\ \A j \in DOMAIN chain \ {client.i} : chain'[j] = chain[j]
    OBVIOUS
  <2> DEFINE q == [chain[client.i] EXCEPT !.suspended = TRUE]
  <2>1. chain[client.i] \in Processor
    BY <1>3
  <2>2. q \in Processor /\ q.p = chain[client.i].p /\ q.suspended = TRUE
    BY <2>1 DEF Processor
  <2>3. chain' = [chain EXCEPT ![client.i] = q]
    BY <1>1 DEF Suspend
  <2> HIDE DEF q
  <2> QED
    BY <1>3, <2>2, <2>3
<1>6. chain' \in Seq(Processor) /\ (connected \/ chain' = chain)
  <2>1. ~connected => client.i \notin DOMAIN chain
    BY TypeParts DEF IInv, ServerOK
  <2> QED
    BY <1>1, <1>3, <1>5, <2>1 DEF Suspend
<1>7. LockOK' /\ ClientOK'
  BY <1>1, <1>4, TypeParts DEF IInv, LockOK, ClientOK
<1>8. TypeOK' /\ UiOK' /\ ClientOK' /\ SessionInv' /\ OverlapInv'
  BY <1>1, <1>3, <1>4, <1>6, <1>7, FlagTypes, ClientTypes
<1>9. AgreeInv'
  <2>1. CASE ~Usable
    BY <1>1, <2>1, UnusableAgree DEF Usable
  <2>2. CASE Usable
    <3>1. IsReadyLockFree
      BY <2>2 DEF Usable, IInv, SessionInv, IsReadyLockFree
    <3>2. LoadInv => LoadInv'
      <4> SUFFICES ASSUME LoadInv
                   PROVE  LoadInv'
        OBVIOUS
      <4>1. /\ Len(chain) = client.i
            /\ \A j \in 1..client.i - 1 : Pair(loaded[j], chain[j])
            /\ chain[client.i].p = loaded[client.i].p
            /\ loaded[client.i].bypassed
        BY <1>1 DEF LoadInv
      <4>2. DOMAIN chain = 1..client.i /\ client.i \in DOMAIN chain
        BY <1>3, <4>1
      <4>3. /\ Len(chain') = client.i /\ DOMAIN chain' = 1..client.i
            /\ chain'[client.i].p = chain[client.i].p
            /\ chain'[client.i].suspended = TRUE
            /\ \A j \in 1..client.i - 1 : chain'[j] = chain[j]
        <5>1. /\ chain' \in Seq(Processor) /\ Len(chain') = client.i
              /\ chain'[client.i].p = chain[client.i].p
              /\ chain'[client.i].suspended = TRUE
              /\ \A j \in DOMAIN chain \ {client.i} : chain'[j] = chain[j]
          BY <1>5, <3>1, <4>1, <4>2
        <5>2. DOMAIN chain' = 1..client.i
          BY <5>1
        <5>3. 1..client.i - 1 = DOMAIN chain \ {client.i}
          BY <1>3, <4>2
        <5> QED
          BY <5>1, <5>2, <5>3
      <4>4. loaded[client.i].bypassed = TRUE
        <5>1. loaded[client.i] \in Loaded
          BY <1>3
        <5> QED
          BY <4>1, <5>1 DEF Loaded
      <4>5. \A j \in 1..client.i : Pair(loaded'[j], chain'[j])
        <5> TAKE j \in 1..client.i
        <5>1. CASE j = client.i
          BY <1>1, <4>1, <4>3, <4>4, <5>1 DEF Pair
        <5>2. CASE j # client.i
          <6>1. j \in 1..client.i - 1
            BY <1>3, <5>2
          <6> QED
            BY <1>1, <4>1, <4>3, <6>1
        <5> QED
          BY <5>1, <5>2
      <4>6. Len(chain') = client'.i - 1
        BY <1>3, <1>4, <4>3
      <4> QED
        BY <1>4, <4>3, <4>5, <4>6 DEF LoadInv
    <3>3. ~overlap' => ~overlap
      BY <1>1, NotedStep
    <3> QED
      BY <1>1, <1>4, <2>2, <3>2, <3>3 DEF IInv, AgreeInv, Loading
  <2> QED
    BY <2>1, <2>2
<1> QED
  BY <1>8, <1>9 DEF IInv

(* All plugins are loaded: the relation is that of a list nobody edits.    *)
LEMMA FinishLoadInv ==
  ASSUME IInv, Noted, FinishLoad
  PROVE  IInv'
<1> USE DEF list, flags, server, bounds
<1>1. /\ client.at = "load" /\ client.i > Len(loaded)
      /\ client' = [at |-> "work"]
      /\ loadedOk' = client.ok /\ holder' = None
      /\ loaded' = loaded /\ chain' = chain
      /\ ui' = ui /\ retries' = retries /\ lastState' = lastState
      /\ ready' = ready /\ error' = error /\ needsReconnect' = needsReconnect
      /\ connected' = connected /\ edits' = edits /\ sessions' = sessions
      /\ faults' = faults
  BY DEF FinishLoad
<1>2. client \in [at : {"load"}, i : 1..Len(loaded) + 1, ok : BOOLEAN]
  BY <1>1 DEF IInv, ClientOK
<1>3. /\ loaded \in Seq(Loaded) /\ chain \in Seq(Processor)
      /\ loadedOk' \in BOOLEAN
      /\ client.i = Len(loaded) + 1
  BY <1>1, <1>2, TypeParts DEF IInv, ListOK, ServerOK
<1>4. LockOK' /\ ClientOK'
  BY <1>1, TypeParts DEF IInv, LockOK, ClientOK, None
<1>5. TypeOK' /\ UiOK' /\ ClientOK' /\ SessionInv' /\ OverlapInv'
  BY <1>1, <1>3, <1>4, FlagTypes, ClientTypes
<1>6. AgreeInv'
  <2>1. LoadInv => Same
    BY <1>1, <1>3 DEF LoadInv, Same
  <2>2. ~overlap' /\ ui.at # "restored" =>
          ~overlap /\ ui.at \in {"idle", "save"}
    <3>1. ~overlap' => ~overlap /\ ~Editing
      BY <1>1, NotedStep DEF IInv, OverlapInv, Loading
    <3> QED
      BY <3>1 DEF IInv, UiOK, Editing, Idle
  <2>3. Same /\ ui.at \in {"idle", "save"} => EditInv'
    BY <1>1, PlainEdit DEF Same
  <2> QED
    BY <1>1, <2>1, <2>2, <2>3 DEF IInv, AgreeInv, Loading, Usable
<1> QED
  BY <1>5, <1>6 DEF IInv

-----------------------------------------------------------------------------
(* The theorems.                                                           *)

LEMMA StutterInv ==
  ASSUME IInv, UNCHANGED vars
  PROVE  IInv'
<1> USE DEF vars, list, flags, server, bounds
<1>1. TypeOK' /\ SessionInv' /\ OverlapInv'
  BY DEF IInv, TypeOK, SessionInv, Usable, OverlapInv, Editing, Loading
<1>2. UiOK' /\ ClientOK'
  BY DEF IInv, UiOK, ClientOK
<1>3. AgreeInv'
  BY DEF IInv, AgreeInv, Usable, Loading, LoadInv, EditInv, Origin
<1> QED
  BY <1>1, <1>2, <1>3 DEF IInv

LEMMA NextInv == IInv /\ [Next]_vars => IInv'
<1> SUFFICES ASSUME IInv, [Next]_vars
             PROVE  IInv'
  OBVIOUS
<1>1. CASE UNCHANGED vars
  BY <1>1, StutterInv
<1>2. CASE Next
  <2>1. Noted
    BY <1>2 DEF Next, Noted
  <2>2. CASE Call
    BY <2>1, <2>2, LoadPluginInv, UnloadExchangeInv, BypassPluginInv,
       SetStateInv,
       OtherCallInv DEF Call
  <2>3. CASE UiStep
    BY <2>1, <2>3, AddPluginInv, AppendPluginInv, UiRequestInv, ErasePluginInv,
       SwapPluginsInv, ReconnectRestoredInv, SaveNextInv, SaveDoneInv DEF UiStep
  <2>4. CASE ClientThread
    BY <2>1, <2>4, ClientIdleInv, InitOkInv, OnConnectInv, LoadNextInv,
       LoadBypassInv, FinishLoadInv, SyncEndsInv, SyncNextInv
       DEF ClientThread, ClientIdle
  <2>5. CASE Lose \/ SetError
    BY <2>1, <2>5, ClientIdleInv DEF ClientIdle
  <2> QED
    BY <1>2, <2>2, <2>3, <2>4, <2>5 DEF Next
<1> QED
  BY <1>1, <1>2

LEMMA Invariance == Spec => []IInv
<1>1. Init => IInv
  BY InitInv
<1>2. IInv /\ [Next]_vars => IInv'
  BY NextInv
<1> QED
  BY <1>1, <1>2, PTL DEF Spec

(* When nothing is under way, the session is usable and no call is active  *)
(* that moves an entry.                                                    *)
LEMMA SettledSame == IInv /\ Settled /\ ~overlap => Same
<1> SUFFICES ASSUME IInv, Settled, ~overlap
             PROVE  Same
  OBVIOUS
<1>1. ui.at \in {"idle", "save"}
  BY DEF IInv, UiOK, Settled, Editing, Idle
<1>2. EditInv
  BY <1>1 DEF IInv, AgreeInv, Settled, Usable
<1> QED
  BY <1>1, <1>2, PlainEdit

(* In a settled session the server runs the plugins of the list in the     *)
(* order of the list, bypassed where the list says so, for any number of   *)
(* edits, reconnects and faults and whatever their order: the plugin at a  *)
(* position of m_loadedPlugins is the processor at this position of        *)
(* m_processors, which all requests rely on.                               *)
THEOREM ListMatchesChain == Spec => []ListAndChain
<1>1. IInv => ListAndChain
  <2> SUFFICES ASSUME IInv
               PROVE  ListAndChain
    OBVIOUS
  <2>1. loaded \in Seq(Loaded) /\ chain \in Seq(Processor)
    BY TypeParts DEF IInv, ListOK, ServerOK
  <2>2. ASSUME Settled, ~overlap
        PROVE  /\ DOMAIN chain = DOMAIN loaded
               /\ \A j \in DOMAIN loaded : Pair(loaded[j], chain[j])
    <3>1. Same
      BY <2>2, SettledSame
    <3> QED
      BY <2>1, <3>1 DEF Same
  <2>3. ChainMatches
    BY <2>2 DEF ChainMatches, Names, Pair
  <2>4. BypassMatches
    BY <2>2 DEF BypassMatches, Pair
  <2> QED
    BY <2>3, <2>4 DEF IInv, ListAndChain
<1> QED
  BY <1>1, Invariance, PTL

(* Whenever getState() reads settings from the chain to store them with a  *)
(* plugin of the project, they are the settings of this plugin, even when  *)
(* a reconnect is on its way or an edit has just ended.                    *)
THEOREM SavedSettingsAreOwn == Spec => []SavesOwnSettings
<1>1. IInv => SavesOwnSettings
  <2> SUFFICES ASSUME IInv, ui.at = "save", ui.i <= Len(loaded),
                      IsReadyLockFree, ~needsReconnect, ~overlap, ui.i \in DOMAIN chain
               PROVE  chain[ui.i].p = loaded[ui.i].p
    BY DEF SavesOwnSettings
  <2>1. connected
    BY TypeParts DEF IInv, ServerOK
  <2>2. IF Loading THEN LoadInv ELSE EditInv
    BY <2>1 DEF IInv, AgreeInv, Usable, IsReadyLockFree
  <2>3. CASE Loading
    <3>1. client.at \in {"state", "callback"}
      BY <2>3, TypeParts DEF IInv, LockOK, Loading
    <3> QED
      BY <2>2, <2>3, <3>1 DEF LoadInv
  <2>4. CASE ~Loading
    BY <2>2, <2>4, PlainEdit DEF Same, Pair
  <2> QED
    BY <2>3, <2>4
<1> QED
  BY <1>1, Invariance, PTL
=============================================================================
