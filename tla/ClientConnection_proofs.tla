----------------------- MODULE ClientConnection_proofs ------------------------
(***************************************************************************)
(* Proofs about ClientConnection, for any servers and formats, any number  *)
(* of calls of the host and of faults.                                     *)
(*                                                                         *)
(* What makes a ready client agree with the host is that m_error is set    *)
(* from the moment init() has the lock to its very end, and cleared        *)
(* nowhere else: the invariant says what init() has done so far whenever   *)
(* the flags cannot be trusted, and what they promise whenever they can.   *)
(*                                                                         *)
(* The second part is about AsyncFunctors, by which the client calls back  *)
(* into the processor and the processor stops that before it joins the     *)
(* client thread: for any number of posted functors and of threads with a  *)
(* context, in an application that may quit at any time, what the barrier  *)
(* of stopAsyncFunctors() gives for the functors of the message thread,    *)
(* what the counter counts, and that no barrier runs whose waiter left.    *)
(*                                                                         *)
(* The third part is about PluginIndexes, the positions by which the       *)
(* client and the server name plugins to each other: for any number of     *)
(* plugins, slots, edits, notifications and sessions.                      *)
(***************************************************************************)
EXTENDS ClientConnection, AsyncFunctors, PluginIndexes, FiniteSetTheorems,
        TLAPS

(* How far init() is.                                                      *)
InitInv ==
  /\ client \in {"connect", "list"} => error
  /\ client \in {"teardown", "init", "lock", "connect", "list"} => ~ready
  /\ client \in {"init", "lock"} => cmdOut = None
  /\ InInit /\ ~overtaken => target = srvInfo
  /\ client = "list" => /\ session = [server |-> target, format |-> format]
                        /\ screen # None

(* What the flags promise.  A connection whose sockets are open promises   *)
(* as much as a client that is ready, because isReady() turns it into one. *)
TrustInv ==
  ~error /\ ~needsReconnect =>
    /\ cmdOut = "open" => screen # None
    /\ ready \/ cmdOut = "open" =>
         /\ session.format = format
         /\ ~overtaken => session.server = srvInfo

(* The client thread is joined before the last close().                    *)
JoinInv == host \in {"clear2", "teardown2", "gone"} => client = "done"

(* A processor that was told of a connection has lastState set.            *)
AnnouncedInv == CallbacksOn /\ announced => lastState

IInv ==
  TypeOK /\ InitInv /\ TrustInv /\ JoinInv /\ NothingLeft
         /\ AnnouncedInv /\ AnnouncedState

-----------------------------------------------------------------------------
(* The invariant holds initially.                                          *)
LEMMA InitHolds == Init => IInv
<1> SUFFICES ASSUME Init
             PROVE  IInv
  OBVIOUS
<1>1. TypeOK
  <2>1. changes \in 0..MaxChanges /\ faults \in 0..MaxFaults
    BY BoundsAssumption DEF Init
  <2>2. session \in [server : Server \cup {None}, format : Format \cup {None}]
    BY DEF Init
  <2> QED
    BY <2>1, <2>2 DEF Init, TypeOK, Socket, None
<1> QED
  BY <1>1 DEF Init, IInv, InitInv, TrustInv, JoinInv, NothingLeft, InInit,
              AnnouncedInv, AnnouncedState, None

(* The type invariant in three parts: where the threads are, the flags,    *)
(* and the rest.                                                           *)
PlaceOK ==
  /\ client \in {"loop", "check", "clear", "teardown", "init", "lock",
                 "connect", "list", "state", "connected", "closed", "done"}
  /\ host \in {"idle", "request", "signal", "clear", "teardown", "join",
               "clear2", "teardown2", "gone"}
  /\ lock \in {None, "client", "host"}
  /\ lock = "client" <=> client \in {"connect", "list"}
  /\ lock = "host" <=> host = "request"

FlagOK ==
  /\ ready \in BOOLEAN /\ error \in BOOLEAN /\ needsReconnect \in BOOLEAN
  /\ old \in BOOLEAN /\ lastState \in BOOLEAN /\ exit \in BOOLEAN
  /\ announced \in BOOLEAN /\ overtaken \in BOOLEAN

ThingOK ==
  /\ srvInfo \in Server \cup {None} /\ format \in Format \cup {None}
  /\ target \in Server \cup {None}
  /\ cmdOut \in Socket /\ screenSocket \in Socket
  /\ screen \in {None, "running", "ended"}
  /\ streamer \in {None, "ok", "failed"}
  /\ session \in [server : Server \cup {None}, format : Format \cup {None}]
  /\ changes \in 0..MaxChanges /\ faults \in 0..MaxFaults

LEMMA TypeParts == TypeOK <=> PlaceOK /\ FlagOK /\ ThingOK
BY DEF TypeOK, PlaceOK, FlagOK, ThingOK

LEMMA TypePartsNext == TypeOK' <=> PlaceOK' /\ FlagOK' /\ ThingOK'
BY DEF TypeOK, PlaceOK, FlagOK, ThingOK

(* Every step keeps the types, and the mutex with its thread.              *)
LEMMA NextType ==
  ASSUME TypeOK, [Next]_vars
  PROVE  TypeOK'
<1>0. PlaceOK /\ FlagOK /\ ThingOK
  BY TypeParts
<1> USE BoundsAssumption DEF Socket, None, flags, wishes, conn, bounds
<1>1. CASE Loop
  BY <1>1 DEF TypeOK, Loop
<1>2. CASE LoopReconnect
  BY <1>2 DEF TypeOK, LoopReconnect
<1>3. CASE Check
  <2>1. PlaceOK'
    BY <1>0, <1>3 DEF PlaceOK, Check, Connected
  <2>2. FlagOK'
    BY <1>0, <1>3 DEF FlagOK, Check, Connected
  <2>3. ThingOK'
    BY <1>0, <1>3 DEF ThingOK, Check, Connected
  <2> QED
    BY <2>1, <2>2, <2>3, TypePartsNext
<1>4. CASE ClientClear
  <2>1. PlaceOK'
    BY <1>0, <1>4 DEF PlaceOK, ClientClear, ClientStep, ClearReady, Announce
  <2>2. FlagOK'
    BY <1>0, <1>4 DEF FlagOK, ClientClear, ClientStep, ClearReady, Announce
  <2>3. ThingOK'
    BY <1>0, <1>4 DEF ThingOK, ClientClear, ClientStep, ClearReady, Announce
  <2> QED
    BY <2>1, <2>2, <2>3, TypePartsNext
<1>5. CASE ClientTearDown
  <2>1. PlaceOK'
    BY <1>0, <1>5 DEF PlaceOK, ClientTearDown, ClientStep, TearDown
  <2>2. FlagOK'
    BY <1>0, <1>5 DEF FlagOK, ClientTearDown, ClientStep, TearDown
  <2>3. ThingOK'
    BY <1>0, <1>5 DEF ThingOK, ClientTearDown, ClientStep, TearDown
  <2> QED
    BY <2>1, <2>2, <2>3, TypePartsNext
<1>6. CASE ReadServer
  <2>1. PlaceOK'
    BY <1>0, <1>6 DEF PlaceOK, ReadServer
  <2>2. FlagOK'
    BY <1>0, <1>6 DEF FlagOK, ReadServer
  <2>3. ThingOK'
    BY <1>0, <1>6 DEF ThingOK, ReadServer
  <2> QED
    BY <2>1, <2>2, <2>3, TypePartsNext
<1>7. CASE InitLock
  <2>1. PlaceOK'
    BY <1>0, <1>7 DEF PlaceOK, InitLock
  <2>2. FlagOK'
    BY <1>0, <1>7 DEF FlagOK, InitLock
  <2>3. ThingOK'
    BY <1>0, <1>7 DEF ThingOK, InitLock
  <2> QED
    BY <2>1, <2>2, <2>3, TypePartsNext
<1>8. CASE Connect
  BY <1>8 DEF TypeOK, Connect
<1>9. CASE ConnectFails
  BY <1>9 DEF TypeOK, ConnectFails, InitFails
<1>10. CASE AudioConnectFails
  BY <1>10 DEF TypeOK, AudioConnectFails, InitFails
<1>11. CASE ScreenConnectFails
  BY <1>11 DEF TypeOK, ScreenConnectFails, InitFails
<1>12. CASE InitDone
  <2>1. PlaceOK'
    BY <1>0, <1>12 DEF PlaceOK, InitDone
  <2>2. FlagOK'
    BY <1>0, <1>12 DEF FlagOK, InitDone
  <2>3. ThingOK'
    BY <1>0, <1>12 DEF ThingOK, InitDone
  <2> QED
    BY <2>1, <2>2, <2>3, TypePartsNext
<1>13. CASE ReadState
  BY <1>13 DEF TypeOK, ReadState
<1>14. CASE OnConnect
  <2>1. PlaceOK'
    BY <1>0, <1>14 DEF PlaceOK, OnConnect, Announce
  <2>2. FlagOK'
    BY <1>0, <1>14 DEF FlagOK, OnConnect, Announce
  <2>3. ThingOK'
    BY <1>0, <1>14 DEF ThingOK, OnConnect, Announce
  <2> QED
    BY <2>1, <2>2, <2>3, TypePartsNext
<1>15. CASE OnClose
  <2>1. PlaceOK'
    BY <1>0, <1>15 DEF PlaceOK, OnClose, Announce
  <2>2. FlagOK'
    BY <1>0, <1>15 DEF FlagOK, OnClose, Announce
  <2>3. ThingOK'
    BY <1>0, <1>15 DEF ThingOK, OnClose, Announce
  <2> QED
    BY <2>1, <2>2, <2>3, TypePartsNext
<1>16. CASE StreamerFails
  BY <1>16 DEF TypeOK, StreamerFails
<1>17. CASE OldStreamerEnds
  <2>1. PlaceOK'
    BY <1>0, <1>17 DEF PlaceOK, OldStreamerEnds
  <2>2. FlagOK'
    BY <1>0, <1>17 DEF FlagOK, OldStreamerEnds
  <2>3. ThingOK'
    BY <1>0, <1>17 DEF ThingOK, OldStreamerEnds
  <2> QED
    BY <2>1, <2>2, <2>3, TypePartsNext
<1>18. CASE ScreenFails
  BY <1>18 DEF TypeOK, ScreenFails
<1>19. CASE \E f \in Format : SetFormat(f)
  <2>1. PlaceOK'
    BY <1>0, <1>19 DEF PlaceOK, SetFormat, HostCall
  <2>2. FlagOK'
    BY <1>0, <1>19 DEF FlagOK, SetFormat, HostCall
  <2>3. ThingOK'
    BY <1>0, <1>19 DEF ThingOK, SetFormat, HostCall
  <2> QED
    BY <2>1, <2>2, <2>3, TypePartsNext
<1>20. CASE \E s \in Server : SetServer(s)
  BY <1>20 DEF TypeOK, SetServer, HostCall
<1>21. CASE Reconnect
  BY <1>21 DEF TypeOK, Reconnect, HostCall
<1>22. CASE Request
  BY <1>22 DEF TypeOK, Request, HostCall
<1>23. CASE RequestEnds
  <2>1. PlaceOK'
    BY <1>0, <1>23 DEF PlaceOK, RequestEnds
  <2>2. FlagOK'
    BY <1>0, <1>23 DEF FlagOK, RequestEnds
  <2>3. ThingOK'
    BY <1>0, <1>23 DEF ThingOK, RequestEnds
  <2> QED
    BY <2>1, <2>2, <2>3, TypePartsNext
<1>24. CASE StopFunctors
  BY <1>24 DEF TypeOK, StopFunctors, HostStep
<1>25. CASE SignalExit
  BY <1>25 DEF TypeOK, SignalExit, HostStep
<1>26. CASE HostClear
  <2>1. PlaceOK'
    BY <1>0, <1>26 DEF PlaceOK, HostClear, HostStep, ClearReady, Announce
  <2>2. FlagOK'
    BY <1>0, <1>26 DEF FlagOK, HostClear, HostStep, ClearReady, Announce
  <2>3. ThingOK'
    BY <1>0, <1>26 DEF ThingOK, HostClear, HostStep, ClearReady, Announce
  <2> QED
    BY <2>1, <2>2, <2>3, TypePartsNext
<1>27. CASE HostTearDown
  <2>1. PlaceOK'
    BY <1>0, <1>27 DEF PlaceOK, HostTearDown, HostStep, TearDown
  <2>2. FlagOK'
    BY <1>0, <1>27 DEF FlagOK, HostTearDown, HostStep, TearDown
  <2>3. ThingOK'
    BY <1>0, <1>27 DEF ThingOK, HostTearDown, HostStep, TearDown
  <2> QED
    BY <2>1, <2>2, <2>3, TypePartsNext
<1>28. CASE Join
  BY <1>28 DEF TypeOK, Join, HostStep
<1>29. CASE DestructorClear
  <2>1. PlaceOK'
    BY <1>0, <1>29 DEF PlaceOK, DestructorClear, HostStep, ClearReady, Announce
  <2>2. FlagOK'
    BY <1>0, <1>29 DEF FlagOK, DestructorClear, HostStep, ClearReady, Announce
  <2>3. ThingOK'
    BY <1>0, <1>29 DEF ThingOK, DestructorClear, HostStep, ClearReady, Announce
  <2> QED
    BY <2>1, <2>2, <2>3, TypePartsNext
<1>30. CASE DestructorTearDown
  <2>1. PlaceOK'
    BY <1>0, <1>30 DEF PlaceOK, DestructorTearDown, HostStep, TearDown
  <2>2. FlagOK'
    BY <1>0, <1>30 DEF FlagOK, DestructorTearDown, HostStep, TearDown
  <2>3. ThingOK'
    BY <1>0, <1>30 DEF ThingOK, DestructorTearDown, HostStep, TearDown
  <2> QED
    BY <2>1, <2>2, <2>3, TypePartsNext
<1>31. CASE UNCHANGED vars
  BY <1>31 DEF TypeOK, vars
<1> QED
  BY <1>1, <1>2, <1>3, <1>4, <1>5, <1>6, <1>7, <1>8, <1>9, <1>10, <1>11,
     <1>12, <1>13, <1>14, <1>15, <1>16, <1>17, <1>18, <1>19, <1>20, <1>21,
     <1>22, <1>23, <1>24, <1>25, <1>26, <1>27, <1>28, <1>29, <1>30, <1>31 DEF
     Next, ClientThread, Destructor

(* Every step keeps what is promised of the session.                       *)
LEMMA NextSession ==
  ASSUME IInv, [Next]_vars
  PROVE  InitInv' /\ TrustInv' /\ JoinInv' /\ NothingLeft'
<1> USE DEF IInv, TypeOK, InitInv, TrustInv, JoinInv, NothingLeft, InInit,
            None, flags, wishes, conn, bounds
<1>1. CASE Loop
  BY <1>1 DEF Loop
<1>2. CASE LoopReconnect
  BY <1>2 DEF LoopReconnect
<1>3. CASE Check
  BY <1>3 DEF Check, Connected
<1>4. CASE ClientClear
  BY <1>4 DEF ClientClear, ClientStep, ClearReady, Announce
<1>5. CASE ClientTearDown
  BY <1>5 DEF ClientTearDown, ClientStep, TearDown
<1>6. CASE ReadServer
  BY <1>6 DEF ReadServer
<1>7. CASE InitLock
  BY <1>7 DEF InitLock
<1>8. CASE Connect
  BY <1>8 DEF Connect
<1>9. CASE ConnectFails
  BY <1>9 DEF ConnectFails, InitFails
<1>10. CASE AudioConnectFails
  BY <1>10 DEF AudioConnectFails, InitFails
<1>11. CASE ScreenConnectFails
  BY <1>11 DEF ScreenConnectFails, InitFails
<1>12. CASE InitDone
  BY <1>12 DEF InitDone
<1>13. CASE ReadState
  BY <1>13 DEF ReadState
<1>14. CASE OnConnect
  BY <1>14 DEF OnConnect, Announce
<1>15. CASE OnClose
  BY <1>15 DEF OnClose, Announce
<1>16. CASE StreamerFails
  BY <1>16 DEF StreamerFails
<1>17. CASE OldStreamerEnds
  <2>1. CASE error'
    BY <1>17, <2>1 DEF OldStreamerEnds
  <2>2. CASE ~error'
    <3>1. ~error
      BY <1>17, <2>2 DEF OldStreamerEnds
    <3> QED
      BY <1>17, <3>1 DEF OldStreamerEnds
  <2> QED
    BY <2>1, <2>2
<1>18. CASE ScreenFails
  BY <1>18 DEF ScreenFails
<1>19. CASE \E f \in Format : SetFormat(f)
  BY <1>19 DEF SetFormat, HostCall
<1>20. CASE \E s \in Server : SetServer(s)
  <2>1. needsReconnect'
    BY <1>20 DEF SetServer
  <2>2. ~overtaken' => ~overtaken /\ ~InInit
    BY <1>20 DEF SetServer
  <2>3. UNCHANGED <<client, host, ready, error, target, cmdOut, screen,
                    streamer, session, format>>
    BY <1>20 DEF SetServer
  <2> QED
    BY <2>1, <2>2, <2>3
<1>21. CASE Reconnect
  BY <1>21 DEF Reconnect, HostCall
<1>22. CASE Request
  BY <1>22 DEF Request, HostCall
<1>23. CASE RequestEnds
  BY <1>23 DEF RequestEnds
<1>24. CASE StopFunctors
  BY <1>24 DEF StopFunctors, HostStep
<1>25. CASE SignalExit
  BY <1>25 DEF SignalExit, HostStep
<1>26. CASE HostClear
  BY <1>26 DEF HostClear, HostStep, ClearReady, Announce
<1>27. CASE HostTearDown
  BY <1>27 DEF HostTearDown, HostStep, TearDown
<1>28. CASE Join
  BY <1>28 DEF Join, HostStep
<1>29. CASE DestructorClear
  BY <1>29 DEF DestructorClear, HostStep, ClearReady, Announce
<1>30. CASE DestructorTearDown
  BY <1>30 DEF DestructorTearDown, HostStep, TearDown
<1>31. CASE UNCHANGED vars
  BY <1>31 DEF vars
<1> QED
  BY <1>1, <1>2, <1>3, <1>4, <1>5, <1>6, <1>7, <1>8, <1>9, <1>10, <1>11,
     <1>12, <1>13, <1>14, <1>15, <1>16, <1>17, <1>18, <1>19, <1>20, <1>21,
     <1>22, <1>23, <1>24, <1>25, <1>26, <1>27, <1>28, <1>29, <1>30, <1>31 DEF
     Next, ClientThread, Destructor

(* Every step keeps what the processor was told.                           *)
LEMMA NextAnnounced ==
  ASSUME IInv, [Next]_vars
  PROVE  AnnouncedInv' /\ AnnouncedState'
<1> USE DEF IInv, TypeOK, AnnouncedInv, AnnouncedState, CallbacksOn,
            flags, wishes, conn, bounds
<1>1. CASE Loop
  BY <1>1 DEF Loop
<1>2. CASE LoopReconnect
  BY <1>2 DEF LoopReconnect
<1>3. CASE Check
  BY <1>3 DEF Check, Connected
<1>4. CASE ClientClear
  BY <1>4 DEF ClientClear, ClientStep, ClearReady, Announce
<1>5. CASE ClientTearDown
  BY <1>5 DEF ClientTearDown, ClientStep, TearDown
<1>6. CASE ReadServer
  BY <1>6 DEF ReadServer
<1>7. CASE InitLock
  BY <1>7 DEF InitLock
<1>8. CASE Connect
  BY <1>8 DEF Connect
<1>9. CASE ConnectFails
  BY <1>9 DEF ConnectFails, InitFails
<1>10. CASE AudioConnectFails
  BY <1>10 DEF AudioConnectFails, InitFails
<1>11. CASE ScreenConnectFails
  BY <1>11 DEF ScreenConnectFails, InitFails
<1>12. CASE InitDone
  BY <1>12 DEF InitDone
<1>13. CASE ReadState
  BY <1>13 DEF ReadState
<1>14. CASE OnConnect
  BY <1>14 DEF OnConnect, Announce
<1>15. CASE OnClose
  BY <1>15 DEF OnClose, Announce
<1>16. CASE StreamerFails
  BY <1>16 DEF StreamerFails
<1>17. CASE OldStreamerEnds
  BY <1>17 DEF OldStreamerEnds
<1>18. CASE ScreenFails
  BY <1>18 DEF ScreenFails
<1>19. CASE \E f \in Format : SetFormat(f)
  BY <1>19 DEF SetFormat, HostCall
<1>20. CASE \E s \in Server : SetServer(s)
  BY <1>20 DEF SetServer, HostCall
<1>21. CASE Reconnect
  BY <1>21 DEF Reconnect, HostCall
<1>22. CASE Request
  BY <1>22 DEF Request, HostCall
<1>23. CASE RequestEnds
  BY <1>23 DEF RequestEnds
<1>24. CASE StopFunctors
  BY <1>24 DEF StopFunctors, HostStep
<1>25. CASE SignalExit
  BY <1>25 DEF SignalExit, HostStep
<1>26. CASE HostClear
  BY <1>26 DEF HostClear, HostStep, ClearReady, Announce
<1>27. CASE HostTearDown
  BY <1>27 DEF HostTearDown, HostStep, TearDown
<1>28. CASE Join
  BY <1>28 DEF Join, HostStep
<1>29. CASE DestructorClear
  BY <1>29 DEF DestructorClear, HostStep, ClearReady, Announce
<1>30. CASE DestructorTearDown
  BY <1>30 DEF DestructorTearDown, HostStep, TearDown
<1>31. CASE UNCHANGED vars
  BY <1>31 DEF vars
<1> QED
  BY <1>1, <1>2, <1>3, <1>4, <1>5, <1>6, <1>7, <1>8, <1>9, <1>10, <1>11,
     <1>12, <1>13, <1>14, <1>15, <1>16, <1>17, <1>18, <1>19, <1>20, <1>21,
     <1>22, <1>23, <1>24, <1>25, <1>26, <1>27, <1>28, <1>29, <1>30, <1>31 DEF
     Next, ClientThread, Destructor

(* The invariant of every connection.                                      *)
LEMMA Invariance == Spec => []IInv
<1>1. IInv /\ [Next]_vars => IInv'
  BY NextType, NextSession, NextAnnounced DEF IInv
<1> QED
  BY InitHolds, <1>1, PTL DEF Spec

(* A connection is of one piece: a client that takes itself for ready has  *)
(* the format and the server that the host selected last, a client that    *)
(* tests itself has its screen thread, and nothing is left when the plugin *)
(* is gone, whatever failed or overlapped.                                 *)
THEOREM SessionIsCurrent == Spec => []SessionCurrent
<1>1. IInv => SessionCurrent
  BY DEF IInv, TrustInv, SessionCurrent, FormatCurrent, ServerCurrent,
         ScreenWorkerExists
<1> QED
  BY Invariance, <1>1, PTL

(* Between two attempts to connect the processor has been told what run()  *)
(* found last.                                                             *)
THEOREM StateIsAnnounced == Spec => []AnnouncedState
<1>1. IInv => AnnouncedState
  BY DEF IInv
<1> QED
  BY Invariance, <1>1, PTL

-----------------------------------------------------------------------------
(* The functors.                                                           *)

(* The flag follows the life of the object.                                *)
FlagInv ==
  /\ owner = "new" => flag = "null"
  /\ owner \notin {"new", "alive"} => flag = "stop"

(* A barrier is posted when the flag is cleared, so behind every functor   *)
(* that may still find it set.                                             *)
BarrierLate ==
  \A i \in 1..Len(queue) : queue[i] = "barrier" => flag = "stop"

(* What the message thread does when the owner has waited for it.          *)
IdleInv ==
  /\ done => msg = "idle" /\ flag = "stop"
  /\ owner = "counting" => done
  /\ owner = "destroying" => msg = "idle"
  /\ owner = "gone" => msg = "idle"

InContext == {t \in Context : ctx[t] = "run"}

(* The counter counts the functors that run.                               *)
CountInv ==
  count = Cardinality(InContext) + IF msg = "run" THEN 1 ELSE 0

FunctorsInv ==
  FunctorsTypeOK /\ FlagInv /\ BarrierLate /\ (~quit => IdleInv) /\ CountInv

-----------------------------------------------------------------------------
(* The invariant holds initially.                                          *)
LEMMA FunctorsInitInv == FunctorsInit => FunctorsInv
<1> SUFFICES ASSUME FunctorsInit
             PROVE  FunctorsInv
  OBVIOUS
<1> USE DEF FunctorsInit
<1>1. FunctorsTypeOK
  <2>1. queue \in Seq({"functor", "barrier"})
    OBVIOUS
  <2>2. ctx \in [Context -> {"none", "held", "enter", "run"}]
    OBVIOUS
  <2>3. count \in Nat /\ posts \in Nat
    OBVIOUS
  <2> QED
    BY <2>1, <2>2, <2>3 DEF FunctorsTypeOK
<1>2. BarrierLate
  BY DEF BarrierLate
<1>3. CountInv
  <2>1. InContext = {}
    BY DEF InContext
  <2> QED
    BY <2>1, FS_EmptySet DEF CountInv
<1> QED
  BY <1>1, <1>2, <1>3 DEF FunctorsInv, FlagInv, IdleInv

(* Appending keeps BarrierLate when a barrier finds the flag cleared.      *)
LEMMA AppendLate ==
  ASSUME FunctorsTypeOK, BarrierLate,
         NEW x \in {"functor", "barrier"}, x = "barrier" => flag = "stop",
         queue' = Append(queue, x), flag' = flag
  PROVE  BarrierLate' /\ queue' \in Seq({"functor", "barrier"})
<1>1. queue \in Seq({"functor", "barrier"})
  BY DEF FunctorsTypeOK
<1>2. \A i \in 1..Len(queue') :
        \/ i \in 1..Len(queue) /\ queue'[i] = queue[i]
        \/ queue'[i] = x
  BY <1>1
<1> QED
  BY <1>1, <1>2 DEF BarrierLate

(* So does removing the head.                                              *)
LEMMA TailLate ==
  ASSUME FunctorsTypeOK, BarrierLate, queue # <<>>, queue' = Tail(queue),
        flag' = flag
  PROVE  BarrierLate' /\ queue' \in Seq({"functor", "barrier"})
<1>1. queue \in Seq({"functor", "barrier"})
  BY DEF FunctorsTypeOK
<1>2. \A i \in 1..Len(queue') :
        i + 1 \in 1..Len(queue) /\ queue'[i] = queue[i + 1]
  BY <1>1
<1> QED
  BY <1>1, <1>2 DEF BarrierLate

(* The head of the queue was posted with the flag cleared if it is a       *)
(* barrier.                                                                *)
LEMMA HeadLate ==
  ASSUME FunctorsTypeOK, BarrierLate, queue # <<>>, Head(queue) = "barrier"
  PROVE  flag = "stop"
<1>1. 1 \in 1..Len(queue) /\ queue[1] = Head(queue)
  BY DEF FunctorsTypeOK
<1> QED
  BY <1>1 DEF BarrierLate

(* Steps that let no functor start or end.                                 *)
LEMMA CountKept ==
  ASSUME CountInv, ctx' = ctx, msg' = "run" <=> msg = "run", count' = count
  PROVE  CountInv'
BY DEF CountInv, InContext

LEMMA InContextFinite == IsFiniteSet(InContext)
BY ContextAssumption, FS_Subset DEF InContext

-----------------------------------------------------------------------------
(* What each step of a thread with a context does to the counter.          *)
LEMMA ContextCount ==
  ASSUME FunctorsTypeOK, CountInv, NEW t \in Context,
         ContextEnter(t) \/ ContextLeave(t)
  PROVE  CountInv' /\ count' \in Nat
<1> DEFINE c == Cardinality(InContext)
           m == IF msg = "run" THEN 1 ELSE 0
<1>0. c \in Nat
  BY InContextFinite, FS_CardinalityType
<1>1. CASE ContextEnter(t)
  <2>1. InContext' = InContext \cup {t} /\ t \notin InContext
    BY <1>1 DEF ContextEnter, InContext, FunctorsTypeOK
  <2>2. Cardinality(InContext') = c + 1
    BY <2>1, InContextFinite, FS_AddElement
  <2>3. count' = count + 1 /\ msg' = msg
    BY <1>1 DEF ContextEnter
  <2> QED
    BY <1>0, <2>2, <2>3 DEF CountInv, FunctorsTypeOK
<1>2. CASE ContextLeave(t)
  <2>1. InContext' = InContext \ {t} /\ t \in InContext
    BY <1>2 DEF ContextLeave, InContext, FunctorsTypeOK
  <2>2. Cardinality(InContext') = c - 1 /\ c > 0
    BY <2>1, <1>0, InContextFinite, FS_RemoveElement, FS_EmptySet
  <2>3. count' = count - 1 /\ msg' = msg
    BY <1>2 DEF ContextLeave
  <2> QED
    BY <1>0, <2>2, <2>3 DEF CountInv, FunctorsTypeOK
<1> QED
  BY <1>1, <1>2

(* The same for a functor of the message thread.                           *)
LEMMA RunningCount ==
  ASSUME FunctorsTypeOK, CountInv, Enter \/ Leave
  PROVE  CountInv' /\ count' \in Nat
<1>1. Cardinality(InContext) \in Nat
  BY InContextFinite, FS_CardinalityType
<1>2. InContext' = InContext
  BY DEF Enter, Leave, InContext
<1> QED
  BY <1>1, <1>2 DEF Enter, Leave, CountInv, FunctorsTypeOK

-----------------------------------------------------------------------------
(* Every step keeps the invariant.                                         *)
LEMMA FunctorsNextInv ==
  ASSUME FunctorsInv, [FunctorsNext]_functorVars
  PROVE  FunctorsInv'
<1> USE DEF FunctorsInv
<1>1. CASE InitAsyncFunctors
  BY <1>1, CountKept
     DEF InitAsyncFunctors, FunctorsTypeOK, FlagInv, BarrierLate, IdleInv
<1>2. CASE StopAsyncFunctors
  BY <1>2, CountKept
     DEF StopAsyncFunctors, FunctorsTypeOK, FlagInv, BarrierLate, IdleInv
<1>3. CASE CheckMsgThread
  BY <1>3, CountKept
     DEF CheckMsgThread, FunctorsTypeOK, FlagInv, BarrierLate, IdleInv
<1>4. CASE PostBarrier
  <2>1. BarrierLate' /\ queue' \in Seq({"functor", "barrier"})
    <3>1. CASE quit
      BY <1>4, <3>1 DEF PostBarrier, BarrierLate, FunctorsTypeOK
    <3>2. CASE ~quit
      BY <1>4, <3>2, AppendLate DEF PostBarrier, FlagInv
    <3> QED
      BY <3>1, <3>2
  <2> QED
    BY <1>4, <2>1, CountKept DEF PostBarrier, FunctorsTypeOK, FlagInv, IdleInv
<1>5. CASE EndBarrier
  BY <1>5, CountKept DEF EndBarrier, FunctorsTypeOK, FlagInv, BarrierLate,
       IdleInv
<1>6. CASE EndCounting
  BY <1>6, CountKept DEF EndCounting, FunctorsTypeOK, FlagInv, BarrierLate,
       IdleInv
<1>7. CASE RunOnMsgThreadAsync
  <2>1. BarrierLate' /\ queue' \in Seq({"functor", "barrier"})
    BY <1>7, AppendLate DEF RunOnMsgThreadAsync
  <2> QED
    BY <1>7, <2>1, CountKept DEF RunOnMsgThreadAsync, FunctorsTypeOK,
         FlagInv, IdleInv
<1>8. CASE Dispatch
  <2>1. BarrierLate' /\ queue' \in Seq({"functor", "barrier"})
    BY <1>8, TailLate DEF Dispatch
  <2> QED
    BY <1>8, <2>1, CountKept DEF Dispatch, FunctorsTypeOK, FlagInv, IdleInv
<1>9. CASE DispatchBarrier
  <2>1. BarrierLate' /\ queue' \in Seq({"functor", "barrier"})
    BY <1>9, TailLate DEF DispatchBarrier
  <2>2. flag = "stop"
    BY <1>9, HeadLate DEF DispatchBarrier
  <2> QED
    BY <1>9, <2>1, <2>2, CountKept DEF DispatchBarrier, FunctorsTypeOK,
         FlagInv, IdleInv
<1>10. CASE Running
  <2>1. CountInv' /\ count' \in Nat
    BY <1>10, RunningCount DEF Running
  <2> QED
    BY <1>10, <2>1
       DEF Running, Enter, Leave, FunctorsTypeOK, FlagInv, BarrierLate, IdleInv
<1>11. CASE Quit
  BY <1>11, CountKept DEF Quit, FunctorsTypeOK, FlagInv, BarrierLate
<1>12. ASSUME NEW t \in Context, GetAsyncContext(t) \/ ContextCheck(t)
       PROVE  FunctorsInv'
  <2>1. InContext' = InContext
    BY <1>12 DEF GetAsyncContext, ContextCheck, InContext, FunctorsTypeOK
  <2> QED
    BY <1>12, <2>1 DEF GetAsyncContext, ContextCheck, CountInv,
         FunctorsTypeOK, FlagInv,
                       BarrierLate, IdleInv
<1>13. ASSUME NEW t \in Context, ContextStep(t)
       PROVE  FunctorsInv'
  <2>1. CountInv' /\ count' \in Nat
    BY <1>13, ContextCount DEF ContextStep
  <2> QED
    BY <1>13, <2>1 DEF ContextStep, ContextEnter, ContextLeave,
         FunctorsTypeOK, FlagInv,
                       BarrierLate, IdleInv
<1>14. CASE UNCHANGED functorVars
  BY <1>14, CountKept DEF functorVars, FunctorsTypeOK, FlagInv, BarrierLate,
       IdleInv
<1> QED
  BY <1>1, <1>2, <1>3, <1>4, <1>5, <1>6, <1>7, <1>8, <1>9, <1>10, <1>11,
     <1>12, <1>13, <1>14 DEF FunctorsNext, OwnerStep

(* The counter never gets out of step, and until the application quits an  *)
(* object is not used by a functor of the message thread after it was      *)
(* destroyed: for any number of functors and contexts, wherever the        *)
(* destructor overtakes them.                                              *)
THEOREM FunctorsSafe == FunctorsSpec => [](FunctorsTypeOK /\ NoUseAfterDestroy)
<1>1. FunctorsInv /\ [FunctorsNext]_functorVars => FunctorsInv'
  BY FunctorsNextInv
<1>2. FunctorsInv => FunctorsTypeOK /\ NoUseAfterDestroy
  BY DEF FunctorsInv, IdleInv, NoUseAfterDestroy
<1> QED
  BY FunctorsInitInv, <1>1, <1>2, PTL DEF FunctorsSpec

-----------------------------------------------------------------------------
(* A barrier that nobody waits for is marked as done.                      *)
BarrierWaited ==
  (\E i \in 1..Len(queue) : queue[i] = "barrier") => done \/ owner = "barrier"

(* A barrier enters the queue only with its waiter, and a waiter leaves    *)
(* only when the barrier is done.                                          *)
LEMMA NextWaited ==
  ASSUME FunctorsTypeOK, BarrierWaited, [FunctorsNext]_functorVars
  PROVE  BarrierWaited'
<1>1. queue \in Seq({"functor", "barrier"})
  BY DEF FunctorsTypeOK
<1>2. CASE RunOnMsgThreadAsync
  <2>1. \A i \in 1..Len(queue') :
          \/ i \in 1..Len(queue) /\ queue'[i] = queue[i]
          \/ queue'[i] = "functor"
    BY <1>1, <1>2 DEF RunOnMsgThreadAsync
  <2> QED
    BY <1>2, <2>1 DEF RunOnMsgThreadAsync, BarrierWaited
<1>3. CASE Dispatch \/ DispatchBarrier
  <2>1. queue # <<>> /\ queue' = Tail(queue)
    BY <1>3 DEF Dispatch, DispatchBarrier
  <2>2. \A i \in 1..Len(queue') :
          i + 1 \in 1..Len(queue) /\ queue'[i] = queue[i + 1]
    BY <1>1, <2>1
  <2> QED
    BY <1>3, <2>2 DEF Dispatch, DispatchBarrier, BarrierWaited
<1>4. CASE PostBarrier \/ EndBarrier
  BY <1>4 DEF PostBarrier, EndBarrier, BarrierWaited
<1>5. CASE InitAsyncFunctors \/ StopAsyncFunctors \/ CheckMsgThread
             \/ EndCounting
  BY <1>5 DEF InitAsyncFunctors, StopAsyncFunctors, CheckMsgThread,
              EndCounting, BarrierWaited
<1>6. CASE Running \/ Quit \/ UNCHANGED functorVars
  BY <1>6 DEF Running, Enter, Leave, Quit, functorVars, BarrierWaited
<1>7. ASSUME NEW t \in Context,
             GetAsyncContext(t) \/ ContextCheck(t) \/ ContextStep(t)
      PROVE  BarrierWaited'
  BY <1>7 DEF GetAsyncContext, ContextCheck, ContextStep, ContextEnter,
              ContextLeave, BarrierWaited
<1> QED
  BY <1>2, <1>3, <1>4, <1>5, <1>6, <1>7 DEF FunctorsNext, OwnerStep

(* Only the end of the wait and the barrier itself mark the barrier.       *)
LEMMA MarkedWhileWaiting ==
  ASSUME FunctorsTypeOK, BarrierWaited, [FunctorsNext]_functorVars
  PROVE  done' # done => owner = "barrier"
<1>1. CASE DispatchBarrier
  <2>1. 1 \in 1..Len(queue) /\ queue[1] = "barrier"
    BY <1>1 DEF DispatchBarrier, FunctorsTypeOK
  <2> QED
    BY <1>1, <2>1 DEF DispatchBarrier, BarrierWaited
<1>2. CASE EndBarrier
  BY <1>2 DEF EndBarrier
<1>3. CASE ~DispatchBarrier /\ ~EndBarrier
  BY <1>3 DEF FunctorsNext, OwnerStep, Running, ContextStep, functorVars,
       InitAsyncFunctors,
              StopAsyncFunctors, CheckMsgThread, PostBarrier, EndCounting,
              RunOnMsgThreadAsync, Dispatch, Enter, Leave, Quit,
              GetAsyncContext, ContextCheck, ContextEnter, ContextLeave
<1> QED
  BY <1>1, <1>2, <1>3

(* The functor of runOnMsgThreadSync() runs only while its caller waits,   *)
(* also when the application quits and the caller gives up.                *)
THEOREM SyncRunsWhileWaiting == FunctorsSpec => SyncWhileWaiting
<1>1. FunctorsInit => BarrierWaited
  BY DEF FunctorsInit, BarrierWaited
<1>2. FunctorsTypeOK /\ BarrierWaited /\ [FunctorsNext]_functorVars
       => BarrierWaited'
  BY NextWaited
<1>3. FunctorsTypeOK /\ BarrierWaited /\ [FunctorsNext]_functorVars
        => [done' # done => owner = "barrier"]_functorVars
  BY MarkedWhileWaiting
<1> QED
  BY FunctorsSafe, <1>1, <1>2, <1>3, PTL DEF FunctorsSpec, SyncWhileWaiting

-----------------------------------------------------------------------------
(***************************************************************************)
(* PluginIndexes.                                                          *)
(*                                                                         *)
(* Neither property says anything of a list that differs from the chain,   *)
(* or of an index that is under way, and both must hold again when what is *)
(* under way arrives.  The invariant therefore names what goes on:         *)
(*                                                                         *)
(*   - the requests lead from the chain through lists (TrailInv): each     *)
(*     makes of its list the next one, and the last is the list of the     *)
(*     client, or that list without the plugin that is being unloaded;     *)
(*   - an index denotes a plugin at a version (Denotes): versions count    *)
(*     the changes, so that a list of an older version cannot come back    *)
(*     with another order (Known, Moves).                                  *)
(*                                                                         *)
(* A value goes astray only if its version is not that of the list it      *)
(* meets, or if its index was not current when it was read.                *)
(*                                                                         *)
(* The editor needs two more things: a request to edit is never old        *)
(* (Finds), since whatever moves its plugin stands behind it in the queue, *)
(* and no plugin is in the list or the chain twice (NamesInv), so that     *)
(* unloading another one leaves its window alone.  ShownInv then says      *)
(* where the editor is on its way.                                         *)
(***************************************************************************)

Entries == [id : Nat, slot : 0..Slots, ok : BOOLEAN]
Processors == [id : Nat, idx : Nat, behind : BOOLEAN]
Windows == [id : Nat, idx : Nat]
Requests ==
  [type : {"Edit", "Hide", "Exchange", "Del", "Set"}, a : Nat, b : Nat,
   id : Nat, ver : Nat, stale : BOOLEAN]
Notices ==
  [type : {"value", "status", "hide"}, idx : Nat, id : Nat, ver : Nat,
   stale : BOOLEAN]
Values ==
  [type : {"value", "update", "hide"}, idx : Nat, id : Nat, ver : Nat,
   stale : BOOLEAN, was : Nat]
Settings ==
  [type : {"set"}, idx : 1..Slots, id : Nat, ver : Nat, stale : BOOLEAN,
   was : Nat]
Bindings ==
  [type : {"bind"}, idx : SUBSET [i : Nat, s : 1..Slots], id : Nat, ver : Nat,
   stale : BOOLEAN]
Functors == Values \cup Settings \cup Bindings

ListTypes ==
  /\ loads \in Nat /\ clientVer \in Nat /\ activeId \in Nat
  /\ stale \in BOOLEAN
  /\ list \in Seq(Entries) /\ Len(list) <= loads
  /\ param \in [1..Slots -> 0..loads]
  /\ active \in 0..Len(list)
  /\ unloading \in 0..Len(list)

ChainTypes ==
  /\ serverVer \in Nat
  /\ chain \in Seq(Processors) /\ Len(chain) <= loads
  /\ editor \in 0..loads
  /\ window \in Windows

QueueTypes ==
  /\ requests \in Seq(Requests)
  /\ notes \in Seq(Notices)
  /\ functors \in Seq(Functors)
  /\ wrong \subseteq [crossed : BOOLEAN, stale : BOOLEAN]

(* No slot is past the end of the list, and a plugin that is being         *)
(* unloaded has none.                                                      *)
SlotInv ==
  /\ ~stale => \A s \in 1..Slots : param[s] <= Len(list)
  /\ unloading > 0 => list[unloading].slot = 0

(* A processor has the index of its place unless one in front was removed. *)
PlaceInv == \A j \in DOMAIN chain : chain[j].behind \/ chain[j].idx = j

(* The plugins by name: of the list, of the list that the requests lead    *)
(* to, and of the chain.                                                   *)
Ids(s) == [i \in DOMAIN s |-> s[i].id]

Lists == [ids : Seq(Nat), ver : Nat]

(* A list at version v, and when its plugin at u > 0 is gone.              *)
Version(l, v) == [ids |-> Ids(l), ver |-> v]
Without(l, v, u) == IF u = 0 THEN Version(l, v)
                    ELSE [ids |-> RemoveAt(Ids(l), u), ver |-> v + 1]

Now == Version(list, clientVer)
Ahead == Without(list, clientVer, unloading)
Served == Version(chain, serverVer)

(* The list at version x.ver is what the client takes it for, if it is one *)
(* that the client can compare with.                                       *)
Known(x) ==
  /\ x.ver <= Ahead.ver
  /\ \A e \in {Now, Ahead} : x.ver = e.ver => x.ids = e.ids

(* Index i of a list of version ver stands for plugin id.                  *)
Denotes(ver, i, id) ==
  /\ ver <= Ahead.ver
  /\ \A e \in {Now, Ahead} : ver = e.ver => i \in DOMAIN e.ids /\ e.ids[i] = id

(* What a request makes of list x.                                         *)
LeadsTo(r, x, y) ==
  /\ r.type = "Exchange" =>
       /\ r.a \in DOMAIN x.ids /\ r.b \in DOMAIN x.ids
       /\ y = [ids |-> Swapped(x.ids, r.a, r.b), ver |-> x.ver + 1]
  /\ r.type = "Del" =>
       /\ r.a \in DOMAIN x.ids
       /\ y = [ids |-> RemoveAt(x.ids, r.a), ver |-> x.ver + 1]
  /\ r.type \notin {"Exchange", "Del"} => y = x

(* A request finds the plugin it is for in list x: always if the plugin is *)
(* to be edited, and if it was meant for x when it brings a value.         *)
Finds(r, x) ==
  /\ r.type = "Edit" => r.a \in DOMAIN x.ids /\ x.ids[r.a] = r.id
  /\ r.type = "Set" =>
       r.stale \/ r.ver # x.ver \/ r.a \notin DOMAIN x.ids \/ x.ids[r.a] = r.id

(* The requests q lead through the lists h.                                *)
Trail(q, h) ==
  /\ h \in Seq(Lists) /\ Len(h) = Len(q) + 1
  /\ \A k \in 1..Len(q) : LeadsTo(q[k], h[k], h[k + 1]) /\ Finds(q[k], h[k])

(* They lead from the chain to what the list will be.                      *)
TrailInv ==
  \E h : /\ Trail(requests, h) /\ h[1] = Served /\ h[Len(h)] = Ahead
         /\ \A k \in 1..Len(h) : Known(h[k])

NoteMeans(n) == n.type = "hide" \/ n.stale \/ Denotes(n.ver, n.idx, n.id)

FunctorMeans(f) ==
  /\ f.type \in {"value", "update"} => f.stale \/ Denotes(f.ver, f.idx, f.id)
  /\ f.type = "set" => f.stale \/ Denotes(f.ver, f.was, f.id)
  /\ f.type = "bind" =>
       \A b \in f.idx : \E id \in Nat : Denotes(f.ver, b.i, id)

NotesMean == \A k \in 1..Len(notes) : NoteMeans(notes[k])
FunctorsMean == \A k \in 1..Len(functors) : FunctorMeans(functors[k])

ListInv == ListTypes /\ SlotInv /\ ActiveFollowsPlugin /\ SlotsAgree
ChainInv == ChainTypes /\ PlaceInv

IndexInv ==
  /\ ListInv /\ ChainInv /\ QueueTypes
  /\ TrailInv /\ NotesMean /\ FunctorsMean /\ MisdirectionsExplained

-----------------------------------------------------------------------------
(* Sequences.                                                              *)

LEMMA ElementsOf ==
  ASSUME NEW S, NEW s \in Seq(S)
  PROVE  /\ DOMAIN s = 1..Len(s) /\ Len(s) \in Nat
         /\ \A j \in 1..Len(s) : s[j] \in S
OBVIOUS

LEMMA JoinElements ==
  ASSUME NEW S, NEW a \in Seq(S), NEW b \in Seq(S)
  PROVE  /\ a \o b \in Seq(S) /\ Len(a \o b) = Len(a) + Len(b)
         /\ \A j \in 1..Len(a) + Len(b) :
              (a \o b)[j] = IF j <= Len(a) THEN a[j] ELSE b[j - Len(a)]
OBVIOUS

(* What is left of a sequence when its element at i is removed.            *)
LEMMA RestElements ==
  ASSUME NEW S, NEW s \in Seq(S), NEW i \in DOMAIN s
  PROVE  /\ RemoveAt(s, i) \in Seq(S) /\ Len(RemoveAt(s, i)) = Len(s) - 1
         /\ \A j \in 1..Len(s) - 1 :
              RemoveAt(s, i)[j] = s[IF j < i THEN j ELSE j + 1]
<1> DEFINE a == SubSeq(s, 1, i - 1)
           b == SubSeq(s, i + 1, Len(s))
<1>1. i \in 1..Len(s) /\ Len(s) \in Nat
  OBVIOUS
<1>2. a \in Seq(S) /\ Len(a) = i - 1 /\ \A j \in 1..i - 1 : a[j] = s[j]
  BY <1>1
<1>3. /\ b \in Seq(S) /\ Len(b) = Len(s) - i
      /\ \A j \in 1..Len(s) - i : b[j] = s[i + j]
  BY <1>1
<1> HIDE DEF a, b
<1>4. /\ a \o b \in Seq(S) /\ Len(a \o b) = Len(s) - 1
      /\ \A j \in 1..Len(s) - 1 :
           (a \o b)[j] = IF j < i THEN a[j] ELSE b[j - (i - 1)]
  <2>1. Len(a) + Len(b) = Len(s) - 1
    BY <1>1, <1>2, <1>3
  <2>2. /\ a \o b \in Seq(S) /\ Len(a \o b) = Len(s) - 1
        /\ \A j \in 1..Len(s) - 1 :
             (a \o b)[j] = IF j <= Len(a) THEN a[j] ELSE b[j - Len(a)]
    <3>1. a \in Seq(S) /\ b \in Seq(S)
      BY <1>2, <1>3
    <3> QED
      BY <2>1, <3>1, JoinElements, Zenon
  <2>3. \A j \in 1..Len(s) - 1 :
           (IF j <= Len(a) THEN a[j] ELSE b[j - Len(a)])
              = (IF j < i THEN a[j] ELSE b[j - (i - 1)])
    <3> SUFFICES ASSUME NEW j \in 1..Len(s) - 1
                 PROVE  (j <= Len(a) <=> j < i) /\ Len(a) = i - 1
      OBVIOUS
    <3> QED
      BY <1>1, <1>2
  <2> QED
    BY <2>2, <2>3
<1>5. \A j \in 1..Len(s) - 1 : (a \o b)[j] = s[IF j < i THEN j ELSE j + 1]
  <2> TAKE j \in 1..Len(s) - 1
  <2>1. CASE j < i
    BY <1>1, <1>2, <1>4, <2>1
  <2>2. CASE ~(j < i)
    <3>1. j - (i - 1) \in 1..Len(s) - i /\ i + (j - (i - 1)) = j + 1
      BY <1>1, <2>2
    <3> QED
      BY <1>3, <1>4, <2>2, <3>1
  <2> QED
    BY <2>1, <2>2
<1> QED
  BY <1>4, <1>5 DEF RemoveAt, a, b

LEMMA SwappedElements ==
  ASSUME NEW S, NEW s \in Seq(S), NEW a \in DOMAIN s, NEW b \in DOMAIN s
  PROVE  /\ Swapped(s, a, b) \in Seq(S) /\ Len(Swapped(s, a, b)) = Len(s)
         /\ DOMAIN Swapped(s, a, b) = DOMAIN s
         /\ \A j \in DOMAIN s : Swapped(s, a, b)[j] = s[Exchanged(j, a, b)]
         /\ \A j \in DOMAIN s : Exchanged(j, a, b) \in DOMAIN s
BY DEF Swapped, Exchanged

LEMMA AppendElements ==
  ASSUME NEW S, NEW s \in Seq(S), NEW e \in S
  PROVE  /\ Append(s, e) \in Seq(S) /\ Len(Append(s, e)) = Len(s) + 1
         /\ \A j \in 1..Len(s) : Append(s, e)[j] = s[j]
         /\ Append(s, e)[Len(s) + 1] = e
OBVIOUS

LEMMA TailElements ==
  ASSUME NEW S, NEW s \in Seq(S), s # <<>>
  PROVE  /\ Tail(s) \in Seq(S) /\ Len(Tail(s)) = Len(s) - 1
         /\ \A j \in 1..Len(s) - 1 : Tail(s)[j] = s[j + 1]
         /\ Head(s) = s[1] /\ Head(s) \in S /\ Len(s) \in Nat \ {0}
OBVIOUS

(* The names of a list.                                                    *)
LEMMA IdsElements ==
  ASSUME NEW s, s \in Seq(Entries) \/ s \in Seq(Processors)
  PROVE  /\ Ids(s) \in Seq(Nat) /\ Len(Ids(s)) = Len(s)
         /\ DOMAIN Ids(s) = 1..Len(s) /\ DOMAIN s = 1..Len(s)
         /\ Len(s) \in Nat
         /\ \A j \in 1..Len(s) : Ids(s)[j] = s[j].id
<1>1. /\ DOMAIN s = 1..Len(s) /\ Len(s) \in Nat
      /\ \A j \in 1..Len(s) : s[j].id \in Nat
  <2>1. CASE s \in Seq(Entries)
    <3>1. \A j \in 1..Len(s) : s[j] \in Entries
      BY <2>1, ElementsOf
    <3>2. \A e \in Entries : e.id \in Nat
      BY DEF Entries
    <3> QED
      BY <2>1, <3>1, <3>2, ElementsOf
  <2>2. CASE s \in Seq(Processors)
    <3>1. \A j \in 1..Len(s) : s[j] \in Processors
      BY <2>2, ElementsOf
    <3>2. \A e \in Processors : e.id \in Nat
      BY DEF Processors
    <3> QED
      BY <2>2, <3>1, <3>2, ElementsOf
  <2> QED
    BY <2>1, <2>2
<1>2. Ids(s) = [j \in 1..Len(s) |-> s[j].id]
  BY <1>1 DEF Ids
<1>3. [j \in 1..Len(s) |-> s[j].id] \in Seq(Nat)
  BY <1>1
<1>4. Len([j \in 1..Len(s) |-> s[j].id]) = Len(s)
  BY <1>1
<1> QED
  BY <1>1, <1>2, <1>3, <1>4

(* Sequences are equal when their elements are.                            *)
LEMMA IdsEqual ==
  ASSUME NEW S, NEW s \in Seq(S), NEW t \in Seq(S), Len(s) = Len(t),
         \A j \in 1..Len(s) : s[j] = t[j]
  PROVE  s = t
OBVIOUS

-----------------------------------------------------------------------------
(* What a version stands for.                                              *)

LEMMA ListRecord ==
  ASSUME NEW i \in Seq(Nat), NEW v \in Nat
  PROVE  /\ [ids |-> i, ver |-> v] \in Lists
         /\ [ids |-> i, ver |-> v].ids = i /\ [ids |-> i, ver |-> v].ver = v
BY DEF Lists

LEMMA VersionFacts ==
  ASSUME NEW l \in Seq(Entries), NEW v \in Nat, NEW u \in 0..Len(l)
  PROVE  /\ Version(l, v) \in Lists /\ Without(l, v, u) \in Lists
         /\ Version(l, v).ver = v /\ Version(l, v).ids = Ids(l)
         /\ u = 0 => Without(l, v, u) = Version(l, v)
         /\ u # 0 => /\ Without(l, v, u).ver = v + 1
                     /\ Without(l, v, u).ids = RemoveAt(Ids(l), u)
                     /\ u \in DOMAIN Ids(l)
<1>1. /\ Ids(l) \in Seq(Nat) /\ DOMAIN Ids(l) = 1..Len(l) /\ Len(l) \in Nat
  BY IdsElements
<1>2. /\ Version(l, v) \in Lists
      /\ Version(l, v).ver = v /\ Version(l, v).ids = Ids(l)
  BY <1>1, ListRecord DEF Version
<1>3. ASSUME u # 0
      PROVE  /\ Without(l, v, u) \in Lists
             /\ Without(l, v, u).ver = v + 1
             /\ Without(l, v, u).ids = RemoveAt(Ids(l), u)
             /\ u \in DOMAIN Ids(l)
  <2>1. u \in DOMAIN Ids(l)
    BY <1>1, <1>3
  <2>2. RemoveAt(Ids(l), u) \in Seq(Nat) /\ v + 1 \in Nat
    BY <1>1, <2>1, RestElements
  <2>3. Without(l, v, u) = [ids |-> RemoveAt(Ids(l), u), ver |-> v + 1]
    BY <1>3 DEF Without
  <2> QED
    BY <2>1, <2>2, <2>3, ListRecord
<1>4. u = 0 => Without(l, v, u) = Version(l, v)
  BY DEF Without
<1> QED
  BY <1>2, <1>3, <1>4

LEMMA ListVersions ==
  ASSUME ListTypes
  PROVE  /\ Now \in Lists /\ Ahead \in Lists
         /\ Now.ver = clientVer /\ Now.ids = Ids(list)
         /\ unloading = 0 => Ahead = Now
         /\ unloading # 0 => /\ Ahead.ver = clientVer + 1
                             /\ Ahead.ids = RemoveAt(Ids(list), unloading)
                             /\ unloading \in DOMAIN Ids(list)
         /\ Now.ver <= Ahead.ver /\ (Now.ver = Ahead.ver => Now = Ahead)
<1>1. /\ Now \in Lists /\ Ahead \in Lists
      /\ Now.ver = clientVer /\ Now.ids = Ids(list)
      /\ unloading = 0 => Ahead = Now
      /\ unloading # 0 => /\ Ahead.ver = clientVer + 1
                          /\ Ahead.ids = RemoveAt(Ids(list), unloading)
                          /\ unloading \in DOMAIN Ids(list)
  BY VersionFacts DEF ListTypes, Now, Ahead
<1> QED
  BY <1>1 DEF ListTypes

LEMMA NextVersions ==
  ASSUME ListTypes'
  PROVE  /\ Now' \in Lists /\ Ahead' \in Lists
         /\ Now'.ver = clientVer' /\ Now'.ids = Ids(list')
         /\ unloading' = 0 => Ahead' = Now'
         /\ unloading' # 0 => /\ Ahead'.ver = clientVer' + 1
                              /\ Ahead'.ids = RemoveAt(Ids(list'), unloading')
         /\ Now'.ver <= Ahead'.ver /\ (Now'.ver = Ahead'.ver => Now' = Ahead')
<1>1. /\ Now' \in Lists /\ Ahead' \in Lists
      /\ Now'.ver = clientVer' /\ Now'.ids = Ids(list')
      /\ unloading' = 0 => Ahead' = Now'
      /\ unloading' # 0 => /\ Ahead'.ver = clientVer' + 1
                           /\ Ahead'.ids = RemoveAt(Ids(list'), unloading')
  BY VersionFacts DEF ListTypes, Now, Ahead
<1>2. clientVer' \in Nat
  BY DEF ListTypes
<1> QED
  BY <1>1, <1>2

(* A list of the client that is new, or one that it knew with plugins      *)
(* behind.                                                                 *)
Extends(x, y) ==
  /\ x.ver = y.ver
  /\ \A i \in DOMAIN y.ids : i \in DOMAIN x.ids /\ x.ids[i] = y.ids[i]

Newer(x) == x.ver > Ahead.ver \/ \E e \in {Now, Ahead} : Extends(x, e)

Moves == Ahead.ver <= Ahead'.ver /\ Newer(Now') /\ Newer(Ahead')

(* What an index stands for does not change: a list of another order has   *)
(* another version.                                                        *)
LEMMA MeansStill ==
  ASSUME ListTypes, ListTypes', Moves
  PROVE  /\ \A n \in Notices : NoteMeans(n) => NoteMeans(n)'
         /\ \A f \in Functors : FunctorMeans(f) => FunctorMeans(f)'
<1>1. /\ Ahead \in Lists /\ Now \in Lists
      /\ Ahead' \in Lists /\ Now' \in Lists
  BY ListVersions, NextVersions
<1>2. ASSUME NEW ver \in Nat, NEW i, NEW id, Denotes(ver, i, id)
      PROVE  Denotes(ver, i, id)'
  <2>1. ver <= Ahead'.ver
    BY <1>1, <1>2 DEF Denotes, Moves, Lists
  <2>2. ASSUME NEW x \in {Now', Ahead'}, ver = x.ver
        PROVE  i \in DOMAIN x.ids /\ x.ids[i] = id
    <3>1. Newer(x)
      BY <2>2 DEF Moves
    <3>2. ~(x.ver > Ahead.ver)
      BY <1>1, <1>2, <2>2 DEF Denotes, Lists
    <3>3. PICK e \in {Now, Ahead} : Extends(x, e)
      BY <3>1, <3>2 DEF Newer
    <3> QED
      BY <1>2, <2>2, <3>3 DEF Denotes, Extends
  <2> QED
    BY <2>1, <2>2 DEF Denotes
<1>3. ASSUME NEW n \in Notices, NoteMeans(n)
      PROVE  NoteMeans(n)'
  <2>1. n.ver \in Nat
    BY DEF Notices
  <2>2. n.type = "hide" \/ n.stale \/ Denotes(n.ver, n.idx, n.id)'
    BY <1>2, <1>3, <2>1 DEF NoteMeans
  <2> QED
    BY <2>2 DEF NoteMeans
<1>4. ASSUME NEW f \in Functors, FunctorMeans(f)
      PROVE  FunctorMeans(f)'
  <2>1. f.ver \in Nat
    BY DEF Functors, Values, Settings, Bindings
  <2>2. f.type \in {"value", "update"} =>
          f.stale \/ Denotes(f.ver, f.idx, f.id)'
    BY <1>2, <1>4, <2>1 DEF FunctorMeans
  <2>3. f.type = "set" => f.stale \/ Denotes(f.ver, f.was, f.id)'
    BY <1>2, <1>4, <2>1 DEF FunctorMeans
  <2>4. f.type = "bind" =>
          \A b \in f.idx : \E id \in Nat : Denotes(f.ver, b.i, id)'
    BY <1>2, <1>4, <2>1 DEF FunctorMeans
  <2> QED
    BY <2>2, <2>3, <2>4 DEF FunctorMeans
<1> QED
  BY <1>3, <1>4

(* The notices and functors that are left, and one more, keep a meaning.   *)
LEMMA NotesStill ==
  ASSUME QueueTypes, NotesMean, ListTypes, ListTypes', Moves,
         \/ notes' = notes
         \/ notes' = <<>>
         \/ notes # <<>> /\ notes' = Tail(notes)
         \/ \E n \in Notices : notes' = Append(notes, n) /\ NoteMeans(n)
  PROVE  notes' \in Seq(Notices) /\ NotesMean'
<1>1. \A n \in Notices : NoteMeans(n) => NoteMeans(n)'
  BY MeansStill
<1>2. notes \in Seq(Notices) /\ \A k \in 1..Len(notes) : notes[k] \in Notices
  BY ElementsOf DEF QueueTypes
<1>3. \A k \in 1..Len(notes) : NoteMeans(notes[k])
  BY DEF NotesMean
<1>4. /\ notes' \in Seq(Notices)
      /\ \A k \in 1..Len(notes') :
           \E n \in Notices : notes'[k] = n /\ NoteMeans(n)
  <2>1. CASE notes' = notes
    BY <1>2, <1>3, <2>1
  <2>2. CASE notes' = <<>>
    BY <2>2
  <2>3. CASE notes # <<>> /\ notes' = Tail(notes)
    <3>1. /\ notes' \in Seq(Notices) /\ Len(notes') = Len(notes) - 1
          /\ \A k \in 1..Len(notes) - 1 : notes'[k] = notes[k + 1]
          /\ Len(notes) \in Nat
      BY <1>2, <2>3, TailElements
    <3> QED
      BY <1>2, <1>3, <3>1
  <2>4. ASSUME NEW n \in Notices, notes' = Append(notes, n), NoteMeans(n)
        PROVE  /\ notes' \in Seq(Notices)
               /\ \A k \in 1..Len(notes') :
                    \E m \in Notices : notes'[k] = m /\ NoteMeans(m)
    <3>1. /\ notes' \in Seq(Notices) /\ Len(notes') = Len(notes) + 1
          /\ \A k \in 1..Len(notes) : notes'[k] = notes[k]
          /\ notes'[Len(notes) + 1] = n
          /\ Len(notes) \in Nat
      BY <1>2, <2>4, AppendElements, ElementsOf
    <3>2. ASSUME NEW k \in 1..Len(notes')
          PROVE  \E m \in Notices : notes'[k] = m /\ NoteMeans(m)
      <4>1. k \in 1..Len(notes) \/ k = Len(notes) + 1
        BY <3>1
      <4> QED
        BY <1>2, <1>3, <2>4, <3>1, <4>1
    <3> QED
      BY <3>1, <3>2
  <2> QED
    BY <2>1, <2>2, <2>3, <2>4
<1>5. \A k \in 1..Len(notes') : \E n : notes'[k] = n /\ NoteMeans(n)'
  BY <1>1, <1>4
<1>6. NotesMean'
  BY <1>5 DEF NotesMean, NoteMeans, Denotes
<1> QED
  BY <1>4, <1>6

LEMMA FunctorsStill ==
  ASSUME QueueTypes, FunctorsMean, ListTypes, ListTypes', Moves,
         \/ functors' = functors
         \/ functors # <<>> /\ functors' = Tail(functors)
         \/ \E f \in Functors :
              /\ FunctorMeans(f)
              /\ \/ functors' = Append(functors, f)
                 \/ functors # <<>> /\ functors' = Append(Tail(functors), f)
  PROVE  functors' \in Seq(Functors) /\ FunctorsMean'
<1>1. \A f \in Functors : FunctorMeans(f) => FunctorMeans(f)'
  BY MeansStill
<1>2. /\ functors \in Seq(Functors)
      /\ \A k \in 1..Len(functors) : functors[k] \in Functors
  BY ElementsOf DEF QueueTypes
<1>3. \A k \in 1..Len(functors) : FunctorMeans(functors[k])
  BY DEF FunctorsMean
<1> DEFINE Fine(q) == /\ q \in Seq(Functors)
                      /\ \A k \in 1..Len(q) :
                           \E f \in Functors : q[k] = f /\ FunctorMeans(f)
<1>4. Fine(functors)
  BY <1>2, <1>3
<1>5. ASSUME functors # <<>>
      PROVE  Fine(Tail(functors))
  <2>1. /\ Tail(functors) \in Seq(Functors)
        /\ Len(Tail(functors)) = Len(functors) - 1
        /\ \A k \in 1..Len(functors) - 1 : Tail(functors)[k] = functors[k + 1]
        /\ Len(functors) \in Nat
    BY <1>2, <1>5, TailElements
  <2> QED
    BY <1>2, <1>3, <2>1
<1>6. ASSUME NEW q, Fine(q), NEW f \in Functors, FunctorMeans(f)
      PROVE  Fine(Append(q, f))
  <2>1. /\ Append(q, f) \in Seq(Functors) /\ Len(Append(q, f)) = Len(q) + 1
        /\ \A k \in 1..Len(q) : Append(q, f)[k] = q[k]
        /\ Append(q, f)[Len(q) + 1] = f
        /\ Len(q) \in Nat
    BY <1>6, AppendElements, ElementsOf
  <2>2. ASSUME NEW k \in 1..Len(Append(q, f))
        PROVE  \E g \in Functors : Append(q, f)[k] = g /\ FunctorMeans(g)
    <3>1. k \in 1..Len(q) \/ k = Len(q) + 1
      BY <2>1
    <3> QED
      BY <1>6, <2>1, <3>1
  <2> QED
    BY <2>1, <2>2
<1> HIDE DEF Fine
<1>7. Fine(functors')
  <2>1. CASE \E f \in Functors :
              /\ FunctorMeans(f)
              /\ \/ functors' = Append(functors, f)
                 \/ functors # <<>> /\ functors' = Append(Tail(functors), f)
    <3>1. PICK f \in Functors :
            /\ FunctorMeans(f)
            /\ \/ functors' = Append(functors, f)
               \/ functors # <<>> /\ functors' = Append(Tail(functors), f)
      BY <2>1
    <3>2. CASE functors' = Append(functors, f)
      BY <1>4, <1>6, <3>1, <3>2
    <3>3. CASE functors # <<>> /\ functors' = Append(Tail(functors), f)
      BY <1>5, <1>6, <3>1, <3>3
    <3> QED
      BY <3>1, <3>2, <3>3
  <2> QED
    BY <1>4, <1>5, <2>1
<1>8. \A k \in 1..Len(functors') :
        \E f : functors'[k] = f /\ FunctorMeans(f)'
  BY <1>1, <1>7 DEF Fine
<1>9. FunctorsMean'
  <2> SUFFICES ASSUME NEW k \in 1..Len(functors')
               PROVE  FunctorMeans(functors[k])'
    BY DEF FunctorsMean
  <2>1. PICK f : functors'[k] = f /\ FunctorMeans(f)'
    BY <1>8
  <2>2. /\ f.type \in {"value", "update"} =>
             f.stale \/ Denotes(f.ver, f.idx, f.id)'
        /\ f.type = "set" => f.stale \/ Denotes(f.ver, f.was, f.id)'
        /\ f.type = "bind" =>
             \A b \in f.idx : \E id \in Nat : Denotes(f.ver, b.i, id)'
    BY <2>1 DEF FunctorMeans
  <2> QED
    BY <2>1, <2>2 DEF FunctorMeans, Denotes
<1> QED
  BY <1>7, <1>9 DEF Fine

-----------------------------------------------------------------------------
(* The lists that the requests lead through.                               *)

(* The client has a list of its own again, or a new one.                   *)
Renews ==
  /\ Ahead.ver <= Ahead'.ver
  /\ \A x \in {Now', Ahead'} : x.ver > Ahead.ver \/ x \in {Now, Ahead}

LEMMA RenewsMoves ==
  ASSUME Renews
  PROVE  Moves
<1>1. \A x \in {Now, Ahead} : Extends(x, x)
  BY DEF Extends
<1> QED
  BY <1>1 DEF Renews, Moves, Newer

LEMMA KnownStill ==
  ASSUME ListTypes, ListTypes', Renews
  PROVE  /\ \A x \in Lists : Known(x) => Known(x)'
         /\ \A x : x = Ahead' => Known(x)'
<1>1. /\ Ahead \in Lists /\ Now \in Lists
      /\ Ahead' \in Lists /\ Now' \in Lists
  BY ListVersions, NextVersions
<1>2. ASSUME NEW x \in Lists, Known(x)
      PROVE  Known(x)'
  <2>1. x.ver <= Ahead'.ver
    BY <1>1, <1>2 DEF Known, Renews, Lists
  <2>2. ASSUME NEW e \in {Now', Ahead'}, x.ver = e.ver
        PROVE  x.ids = e.ids
    <3>1. ~(e.ver > Ahead.ver)
      BY <1>1, <1>2, <2>2 DEF Known, Lists
    <3> QED
      BY <1>2, <2>2, <3>1 DEF Known, Renews
  <2> QED
    BY <2>1, <2>2 DEF Known
<1>3. Known(Ahead)'
  <2>1. Ahead'.ver <= Ahead'.ver
    BY <1>1 DEF Lists
  <2>2. Ahead'.ver = Now'.ver => Ahead' = Now'
    BY NextVersions
  <2> QED
    BY <2>1, <2>2 DEF Known
<1>4. ASSUME NEW x, x = Ahead'
      PROVE  Known(x)'
  BY <1>3, <1>4 DEF Known
<1> QED
  BY <1>2, <1>4

LEMMA TrailAppend ==
  ASSUME NEW q \in Seq(Requests), NEW h, Trail(q, h),
         NEW r \in Requests, NEW y \in Lists,
         LeadsTo(r, h[Len(h)], y), Finds(r, h[Len(h)])
  PROVE  /\ Trail(Append(q, r), Append(h, y))
         /\ Append(h, y)[1] = h[1]
         /\ Append(h, y)[Len(Append(h, y))] = y
         /\ \A k \in 1..Len(Append(h, y)) :
              \/ k \in 1..Len(h) /\ Append(h, y)[k] = h[k]
              \/ Append(h, y)[k] = y
<1> DEFINE p == Append(q, r)
           g == Append(h, y)
<1>1. /\ h \in Seq(Lists) /\ Len(h) = Len(q) + 1 /\ Len(q) \in Nat
      /\ \A k \in 1..Len(q) : LeadsTo(q[k], h[k], h[k + 1]) /\ Finds(q[k], h[k])
  BY ElementsOf DEF Trail
<1>2. /\ p \in Seq(Requests) /\ Len(p) = Len(q) + 1
      /\ \A k \in 1..Len(q) : p[k] = q[k]
      /\ p[Len(q) + 1] = r
  BY AppendElements
<1>3. /\ g \in Seq(Lists) /\ Len(g) = Len(h) + 1
      /\ \A k \in 1..Len(h) : g[k] = h[k]
      /\ g[Len(h) + 1] = y
  BY <1>1, AppendElements
<1> HIDE DEF p, g
<1>4. ASSUME NEW k \in 1..Len(p)
      PROVE  LeadsTo(p[k], g[k], g[k + 1]) /\ Finds(p[k], g[k])
  <2>1. CASE k \in 1..Len(q)
    <3>1. k \in 1..Len(h) /\ k + 1 \in 1..Len(h)
      BY <1>1, <2>1
    <3> QED
      BY <1>1, <1>2, <1>3, <2>1, <3>1
  <2>2. CASE k = Len(h)
    <3>1. p[k] = r /\ g[k] = h[Len(h)] /\ g[k + 1] = y
      BY <1>1, <1>2, <1>3, <2>2
    <3> QED
      BY <3>1
  <2> QED
    BY <1>1, <1>2, <2>1, <2>2
<1>5. Trail(p, g)
  BY <1>1, <1>2, <1>3, <1>4 DEF Trail
<1>6. g[1] = h[1] /\ g[Len(g)] = y
  BY <1>1, <1>3
<1>7. \A k \in 1..Len(g) : (k \in 1..Len(h) /\ g[k] = h[k]) \/ g[k] = y
  BY <1>1, <1>3
<1> QED
  BY <1>5, <1>6, <1>7 DEF p, g

LEMMA TrailTail ==
  ASSUME NEW q \in Seq(Requests), q # <<>>, NEW h, Trail(q, h)
  PROVE  /\ Trail(Tail(q), Tail(h))
         /\ Tail(h)[1] = h[2] /\ h[2] \in Lists
         /\ Tail(h)[Len(Tail(h))] = h[Len(h)]
         /\ LeadsTo(Head(q), h[1], h[2]) /\ Finds(Head(q), h[1])
         /\ \A k \in 1..Len(Tail(h)) :
              k + 1 \in 1..Len(h) /\ Tail(h)[k] = h[k + 1]
<1> DEFINE p == Tail(q)
           g == Tail(h)
<1>1. /\ h \in Seq(Lists) /\ Len(h) = Len(q) + 1 /\ Len(q) \in Nat
      /\ \A k \in 1..Len(q) : LeadsTo(q[k], h[k], h[k + 1]) /\ Finds(q[k], h[k])
  BY ElementsOf DEF Trail
<1>2. /\ p \in Seq(Requests) /\ Len(p) = Len(q) - 1
      /\ \A k \in 1..Len(q) - 1 : p[k] = q[k + 1]
      /\ Head(q) = q[1] /\ Len(q) > 0
  BY TailElements
<1>3. h # <<>>
  BY <1>1
<1>4. /\ g \in Seq(Lists) /\ Len(g) = Len(h) - 1
      /\ \A k \in 1..Len(h) - 1 : g[k] = h[k + 1]
  BY <1>1, <1>3, TailElements
<1> HIDE DEF p, g
<1>5. ASSUME NEW k \in 1..Len(p)
      PROVE  LeadsTo(p[k], g[k], g[k + 1]) /\ Finds(p[k], g[k])
  <2>1. /\ k + 1 \in 1..Len(q) /\ k \in 1..Len(q) - 1
        /\ k \in 1..Len(h) - 1 /\ k + 1 \in 1..Len(h) - 1
    BY <1>1, <1>2
  <2>2. p[k] = q[k + 1] /\ g[k] = h[k + 1] /\ g[k + 1] = h[(k + 1) + 1]
    BY <1>2, <1>4, <2>1
  <2> QED
    BY <1>1, <2>1, <2>2
<1>6. Trail(p, g)
  BY <1>1, <1>2, <1>4, <1>5 DEF Trail
<1>7. h[2] \in Lists /\ g[1] = h[2] /\ g[Len(g)] = h[Len(h)]
  BY <1>1, <1>2, <1>4, ElementsOf
<1>8. LeadsTo(Head(q), h[1], h[2]) /\ Finds(Head(q), h[1])
  BY <1>1, <1>2
<1>9. \A k \in 1..Len(g) : k + 1 \in 1..Len(h) /\ g[k] = h[k + 1]
  BY <1>1, <1>4
<1> QED
  BY <1>6, <1>7, <1>8, <1>9 DEF p, g

(* Nothing under way: the chain is what the client expects.                *)
LEMMA TrailEmpty ==
  ASSUME TrailInv, requests = <<>>
  PROVE  Served = Ahead
<1>1. PICK h : /\ Trail(requests, h) /\ h[1] = Served /\ h[Len(h)] = Ahead
  BY DEF TrailInv
<1>2. Len(h) = 1
  BY <1>1 DEF Trail
<1> QED
  BY <1>1, <1>2

LEMMA TrailServed ==
  ASSUME TrailInv, QueueTypes
  PROVE  Served \in Lists /\ Known(Served)
<1>1. PICK h : /\ Trail(requests, h) /\ h[1] = Served
               /\ \A k \in 1..Len(h) : Known(h[k])
  BY DEF TrailInv
<1>2. h \in Seq(Lists) /\ Len(requests) \in Nat /\ Len(h) = Len(requests) + 1
  BY <1>1, ElementsOf DEF Trail, QueueTypes
<1>3. 1 \in 1..Len(h)
  BY <1>2
<1>4. h[1] \in Lists
  BY <1>2, <1>3, ElementsOf
<1> QED
  BY <1>1, <1>3, <1>4

LEMMA TrailHead ==
  ASSUME TrailInv, QueueTypes, requests # <<>>
  PROVE  /\ Head(requests) \in Requests /\ Finds(Head(requests), Served)
         /\ \E y \in Lists : LeadsTo(Head(requests), Served, y)
<1>1. PICK h : Trail(requests, h) /\ h[1] = Served
  BY DEF TrailInv
<1>2. requests \in Seq(Requests)
  BY DEF QueueTypes
<1>3. /\ LeadsTo(Head(requests), h[1], h[2]) /\ Finds(Head(requests), h[1])
      /\ h[2] \in Lists
  BY <1>1, <1>2, TrailTail
<1> QED
  BY <1>1, <1>2, <1>3, TailElements

LEMMA TrailStays ==
  ASSUME ListTypes, ListTypes', TrailInv,
         requests' = requests, Served' = Served, Now' = Now, Ahead' = Ahead
  PROVE  TrailInv'
<1>1. PICK h : /\ Trail(requests, h) /\ h[1] = Served /\ h[Len(h)] = Ahead
               /\ \A k \in 1..Len(h) : Known(h[k])
  BY DEF TrailInv
<1>2. \A k \in 1..Len(h) : Known(h[k])'
  BY <1>1 DEF Known
<1> QED
  BY <1>1, <1>2 DEF TrailInv, Known

LEMMA TrailSend ==
  ASSUME ListTypes, ListTypes', QueueTypes, TrailInv, Renews,
         NEW r \in Requests, requests' = Append(requests, r),
         Served' = Served, LeadsTo(r, Ahead, Ahead'), Finds(r, Ahead)
  PROVE  TrailInv' /\ requests' \in Seq(Requests)
<1>1. PICK h : /\ Trail(requests, h) /\ h[1] = Served /\ h[Len(h)] = Ahead
               /\ \A k \in 1..Len(h) : Known(h[k])
  BY DEF TrailInv
<1>2. requests \in Seq(Requests) /\ Ahead' \in Lists /\ h \in Seq(Lists)
  BY <1>1, NextVersions DEF QueueTypes, Trail
<1>3. PICK y \in Lists : y = Ahead'
  BY <1>2
<1> DEFINE g == Append(h, y)
<1>4. /\ Trail(requests', g) /\ g[1] = Served' /\ g[Len(g)] = Ahead'
      /\ \A k \in 1..Len(g) : (k \in 1..Len(h) /\ g[k] = h[k]) \/ g[k] = y
  BY <1>1, <1>2, <1>3, TrailAppend
<1>5. \A k \in 1..Len(h) : h[k] \in Lists
  BY <1>2, ElementsOf
<1>6. \A x \in Lists : Known(x) => Known(x)'
  BY KnownStill
<1>7. Known(y)'
  BY <1>3, KnownStill
<1> HIDE DEF g
<1>8. ASSUME NEW k \in 1..Len(g)
      PROVE  \E x : x = g[k] /\ Known(x)'
  BY <1>1, <1>4, <1>5, <1>6, <1>7
<1>9. \A k \in 1..Len(g) : Known(g[k])'
  BY <1>8 DEF Known
<1>10. requests' \in Seq(Requests)
  BY <1>2, AppendElements
<1> QED
  BY <1>4, <1>9, <1>10 DEF TrailInv, Known

LEMMA TrailHandle ==
  ASSUME ListTypes, ListTypes', QueueTypes, TrailInv,
         requests # <<>>, requests' = Tail(requests),
         Now' = Now, Ahead' = Ahead,
         \A y \in Lists : LeadsTo(Head(requests), Served, y) => Served' = y
  PROVE  TrailInv' /\ requests' \in Seq(Requests)
<1>1. PICK h : /\ Trail(requests, h) /\ h[1] = Served /\ h[Len(h)] = Ahead
               /\ \A k \in 1..Len(h) : Known(h[k])
  BY DEF TrailInv
<1>2. requests \in Seq(Requests)
  BY DEF QueueTypes
<1> DEFINE g == Tail(h)
<1>3. /\ Trail(requests', g) /\ g[1] = h[2] /\ h[2] \in Lists
      /\ g[Len(g)] = Ahead'
      /\ LeadsTo(Head(requests), Served, h[2])
      /\ \A k \in 1..Len(g) : k + 1 \in 1..Len(h) /\ g[k] = h[k + 1]
  BY <1>1, <1>2, TrailTail
<1> HIDE DEF g
<1>4. g[1] = Served'
  BY <1>3
<1>5. \A k \in 1..Len(g) : Known(g[k])'
  BY <1>1, <1>3 DEF Known
<1>6. requests' \in Seq(Requests)
  BY <1>2, TailElements
<1> QED
  BY <1>3, <1>4, <1>5, <1>6 DEF TrailInv, Known

LEMMA TrailFresh ==
  ASSUME ListTypes', requests' = <<>>, Served' = Ahead'
  PROVE  TrailInv' /\ requests' \in Seq(Requests)
<1>1. Ahead' \in Lists /\ (Ahead'.ver = Now'.ver => Ahead' = Now')
  BY NextVersions
<1>2. PICK y \in Lists : y = Ahead'
  BY <1>1
<1> DEFINE g == <<y>>
<1>3. g \in Seq(Lists) /\ Len(g) = 1 /\ g[1] = y
  OBVIOUS
<1>4. <<>> \in Seq(Requests) /\ Len(<<>>) = 0
  OBVIOUS
<1> HIDE DEF g
<1>5. Trail(requests', g)
  BY <1>3, <1>4 DEF Trail
<1>6. Ahead'.ver <= Ahead'.ver
  BY <1>1 DEF Lists
<1>7. \A k \in 1..Len(g) : Known(g[k])'
  BY <1>1, <1>2, <1>3, <1>6 DEF Known
<1>8. g[1] = Served' /\ g[Len(g)] = Ahead'
  BY <1>2, <1>3
<1> QED
  BY <1>4, <1>5, <1>7, <1>8 DEF TrailInv, Known

-----------------------------------------------------------------------------
(* The list and what refers to it, action by action.                       *)

LEMMA ListElements ==
  ASSUME ListTypes
  PROVE  /\ DOMAIN list = 1..Len(list) /\ Len(list) \in Nat
         /\ \A i \in 1..Len(list) :
              /\ list[i] \in Entries /\ list[i].id \in Nat
              /\ list[i].slot \in 0..Slots /\ list[i].ok \in BOOLEAN
<1>1. list \in Seq(Entries)
  BY DEF ListTypes
<1>2. \A e \in Entries :
        e.id \in Nat /\ e.slot \in 0..Slots /\ e.ok \in BOOLEAN
  BY DEF Entries
<1> QED
  BY <1>1, <1>2, ElementsOf

(* The names stay when the list does but for its slots and status.         *)
LEMMA SameNames ==
  ASSUME ListTypes, ListTypes', clientVer' = clientVer, unloading' = unloading,
         Len(list') = Len(list),
         \A i \in 1..Len(list) : list'[i].id = list[i].id
  PROVE  Now' = Now /\ Ahead' = Ahead /\ Renews
<1>1. /\ Ids(list) \in Seq(Nat) /\ Len(Ids(list)) = Len(list)
      /\ \A i \in 1..Len(list) : Ids(list)[i] = list[i].id
  BY IdsElements DEF ListTypes
<1>2. /\ Ids(list') \in Seq(Nat) /\ Len(Ids(list')) = Len(list')
      /\ \A i \in 1..Len(list') : Ids(list')[i] = list'[i].id
  BY IdsElements DEF ListTypes
<1>3. Ids(list') = Ids(list)
  BY <1>1, <1>2, IdsEqual
<1>4. Now' = Now /\ Ahead' = Ahead
  BY <1>3 DEF Now, Ahead, Version, Without
<1>5. Ahead.ver <= Ahead.ver
  BY ListVersions DEF Lists
<1> QED
  BY <1>4, <1>5 DEF Renews

(* What the actions do to the active plugin.                               *)
ActiveKept ==
  \/ active' = active /\ activeId' = activeId
  \/ active' = 0 /\ activeId' = 0
  \/ \E i \in DOMAIN list : Edited(i, list[i])

LEMMA ListKept ==
  ASSUME ListInv, ActiveKept,
         list' \in Seq(Entries), Len(list') = Len(list),
         \A i \in 1..Len(list) :
           list'[i].id = list[i].id /\ list'[i].slot = list[i].slot,
         UNCHANGED <<param, unloading, clientVer, stale, loads>>
  PROVE  ListInv' /\ Now' = Now /\ Ahead' = Ahead /\ Renews
<1>1. ListTypes /\ SlotInv /\ ActiveFollowsPlugin /\ SlotsAgree
  BY DEF ListInv
<1>2. /\ DOMAIN list = 1..Len(list) /\ Len(list) \in Nat
      /\ DOMAIN list' = 1..Len(list)
      /\ \A i \in 1..Len(list) : list[i].id \in Nat
  BY <1>1, ListElements, ElementsOf
<1>3. ListTypes'
  <2>1. active' \in 0..Len(list) /\ activeId' \in Nat
    <3>1. CASE active' = active /\ activeId' = activeId
      BY <1>1, <3>1 DEF ListTypes
    <3>2. CASE active' = 0 /\ activeId' = 0
      BY <1>2, <3>2
    <3>3. CASE \E i \in DOMAIN list : Edited(i, list[i])
      BY <1>2, <3>3 DEF Edited
    <3> QED
      BY <3>1, <3>2, <3>3 DEF ActiveKept
  <2> QED
    BY <1>1, <2>1 DEF ListTypes
<1>4. ActiveFollowsPlugin'
  <2>1. CASE active' = active /\ activeId' = activeId
    BY <1>1, <1>2, <2>1 DEF ActiveFollowsPlugin, ListTypes
  <2>2. CASE active' = 0 /\ activeId' = 0
    BY <2>2 DEF ActiveFollowsPlugin
  <2>3. CASE \E i \in DOMAIN list : Edited(i, list[i])
    BY <1>2, <2>3 DEF ActiveFollowsPlugin, Edited
  <2> QED
    BY <2>1, <2>2, <2>3 DEF ActiveKept
<1>5. SlotInv'
  BY <1>1, <1>2 DEF SlotInv, ListTypes
<1>6. SlotsAgree'
  BY <1>1, <1>2 DEF SlotsAgree, SlotInv, ListTypes
<1> QED
  BY <1>1, <1>2, <1>3, <1>4, <1>5, <1>6, SameNames DEF ListInv

LEMMA SwappedList ==
  ASSUME ListInv, NEW a \in DOMAIN list, NEW b \in DOMAIN list,
         Free, list' = Swapped(list, a, b),
         param' = [s \in 1..Slots |-> Exchanged(param[s], a, b)],
         active' = Exchanged(active, a, b), clientVer' = clientVer + 1,
         UNCHANGED <<unloading, activeId, stale, loads>>
  PROVE  /\ ListInv' /\ Renews
         /\ Ahead' = [ids |-> Swapped(Ahead.ids, a, b), ver |-> Ahead.ver + 1]
         /\ a \in DOMAIN Ahead.ids /\ b \in DOMAIN Ahead.ids
<1>1. ListTypes /\ SlotInv /\ ActiveFollowsPlugin /\ SlotsAgree
  BY DEF ListInv
<1>2. /\ DOMAIN list = 1..Len(list) /\ Len(list) \in Nat
      /\ list \in Seq(Entries)
      /\ \A i \in 1..Len(list) : list[i].id \in Nat /\ list[i].slot \in 0..Slots
  BY <1>1, ListElements DEF ListTypes
<1>3. /\ list' \in Seq(Entries) /\ Len(list') = Len(list)
      /\ DOMAIN list' = 1..Len(list)
      /\ \A i \in 1..Len(list) : list'[i] = list[Exchanged(i, a, b)]
      /\ \A i \in 1..Len(list) : Exchanged(i, a, b) \in 1..Len(list)
  <2>1. /\ Swapped(list, a, b) \in Seq(Entries)
        /\ Len(Swapped(list, a, b)) = Len(list)
        /\ DOMAIN Swapped(list, a, b) = DOMAIN list
        /\ \A j \in DOMAIN list :
             Swapped(list, a, b)[j] = list[Exchanged(j, a, b)]
        /\ \A j \in DOMAIN list : Exchanged(j, a, b) \in DOMAIN list
    <3>1. list \in Seq(Entries)
      BY <1>2
    <3>2. a \in DOMAIN list /\ b \in DOMAIN list
      OBVIOUS
    <3> QED
      BY ONLY <3>1, <3>2, SwappedElements, ZenonT(60)
  <2> QED
    BY <1>2, <2>1
<1>4. \A i : Exchanged(Exchanged(i, a, b), a, b) = i
  BY DEF Exchanged
<1>5. \A i \in 0..loads : Exchanged(i, a, b) \in 0..loads
  BY <1>1, <1>2 DEF Exchanged, ListTypes
<1>6. \A i \in 0..Len(list) :
        /\ Exchanged(i, a, b) \in 0..Len(list)
        /\ Exchanged(i, a, b) > 0 <=> i > 0
  BY <1>2 DEF Exchanged
<1>7. ListTypes'
  <2>1. param' \in [1..Slots -> 0..loads]
    BY <1>1, <1>5 DEF ListTypes
  <2> QED
    BY <1>1, <1>3, <1>6, <2>1 DEF ListTypes
<1>8. ActiveFollowsPlugin'
  BY <1>1, <1>3, <1>4, <1>6 DEF ActiveFollowsPlugin, ListTypes
<1>9. SlotInv'
  <2>1. ~stale => \A s \in 1..Slots : param'[s] <= Len(list')
    <3> SUFFICES ASSUME ~stale, NEW s \in 1..Slots
                 PROVE  param'[s] <= Len(list')
      OBVIOUS
    <3>1. param[s] \in 0..Len(list)
      BY <1>1 DEF SlotInv, ListTypes
    <3>2. param'[s] \in 0..Len(list)
      BY <1>6, <3>1
    <3> QED
      BY <1>3, <3>2
  <2> QED
    BY <2>1 DEF SlotInv, Free
<1>10. SlotsAgree'
  <2> SUFFICES ASSUME ~stale
               PROVE  /\ \A s \in 1..Slots :
                           param'[s] > 0 => list'[param'[s]].slot = s
                      /\ \A i \in DOMAIN list' :
                           list'[i].slot > 0 => param'[list'[i].slot] = i
    BY DEF SlotsAgree
  <2>1. ASSUME NEW s \in 1..Slots, param'[s] > 0
        PROVE  list'[param'[s]].slot = s
    <3>1. param[s] \in 0..Len(list) /\ param'[s] = Exchanged(param[s], a, b)
      BY <1>1 DEF SlotInv, ListTypes
    <3>2. param[s] > 0 /\ param'[s] \in 1..Len(list)
      BY <1>2, <1>6, <2>1, <3>1
    <3>3. list'[param'[s]] = list[param[s]]
      BY <1>3, <1>4, <3>1, <3>2
    <3> QED
      BY <1>1, <3>2, <3>3 DEF SlotsAgree
  <2>2. ASSUME NEW i \in DOMAIN list', list'[i].slot > 0
        PROVE  param'[list'[i].slot] = i
    <3>1. i \in 1..Len(list) /\ Exchanged(i, a, b) \in 1..Len(list)
      BY <1>3
    <3>2. list'[i].slot = list[Exchanged(i, a, b)].slot
      BY <1>3, <3>1
    <3>3. list'[i].slot \in 1..Slots
      BY <1>2, <2>2, <3>1, <3>2
    <3>4. param[list'[i].slot] = Exchanged(i, a, b)
      BY <1>1, <1>2, <2>2, <3>1, <3>2 DEF SlotsAgree
    <3> QED
      BY <1>4, <3>3, <3>4
  <2> QED
    BY <2>1, <2>2
<1>11. /\ Ahead = Now /\ Ahead' = Now'
       /\ Now.ids = Ids(list) /\ Now.ver = clientVer
       /\ Now' = [ids |-> Ids(list'), ver |-> clientVer + 1]
  BY <1>1, <1>7, ListVersions, NextVersions DEF Free, Now, Version
<1>12. /\ Ids(list) \in Seq(Nat) /\ Len(Ids(list)) = Len(list)
       /\ DOMAIN Ids(list) = 1..Len(list)
       /\ \A i \in 1..Len(list) : Ids(list)[i] = list[i].id
  BY <1>2, IdsElements
<1>13. /\ Ids(list') \in Seq(Nat) /\ Len(Ids(list')) = Len(list)
       /\ \A i \in 1..Len(list) : Ids(list')[i] = list'[i].id
  BY <1>3, IdsElements
<1>14. /\ Swapped(Ids(list), a, b) \in Seq(Nat)
       /\ Len(Swapped(Ids(list), a, b)) = Len(list)
       /\ \A i \in 1..Len(list) :
            Swapped(Ids(list), a, b)[i] = Ids(list)[Exchanged(i, a, b)]
  <2>1. a \in DOMAIN Ids(list) /\ b \in DOMAIN Ids(list)
    BY <1>2, <1>12
  <2>2. /\ Swapped(Ids(list), a, b) \in Seq(Nat)
        /\ Len(Swapped(Ids(list), a, b)) = Len(Ids(list))
        /\ DOMAIN Swapped(Ids(list), a, b) = DOMAIN Ids(list)
        /\ \A j \in DOMAIN Ids(list) :
             Swapped(Ids(list), a, b)[j] = Ids(list)[Exchanged(j, a, b)]
        /\ \A j \in DOMAIN Ids(list) : Exchanged(j, a, b) \in DOMAIN Ids(list)
    <3>1. Ids(list) \in Seq(Nat)
      BY <1>12
    <3> QED
      <4> DEFINE t == Ids(list)
      <4>1. t \in Seq(Nat) /\ a \in DOMAIN t /\ b \in DOMAIN t
        BY <2>1, <3>1
      <4> HIDE DEF t
      <4>2. /\ Swapped(t, a, b) \in Seq(Nat)
            /\ Len(Swapped(t, a, b)) = Len(t)
            /\ DOMAIN Swapped(t, a, b) = DOMAIN t
            /\ \A j \in DOMAIN t : Swapped(t, a, b)[j] = t[Exchanged(j, a, b)]
            /\ \A j \in DOMAIN t : Exchanged(j, a, b) \in DOMAIN t
        BY <4>1 DEF Swapped, Exchanged
      <4> QED
        BY <4>2 DEF t
  <2> QED
    BY <1>12, <2>2
<1>15. Ids(list') = Swapped(Ids(list), a, b)
  <2>1. \A i \in 1..Len(list) : Ids(list')[i] = Swapped(Ids(list), a, b)[i]
    <3> TAKE i \in 1..Len(list)
    <3>1. Exchanged(i, a, b) \in 1..Len(list)
      BY <1>3
    <3>2. Ids(list')[i] = list[Exchanged(i, a, b)].id
      BY <1>3, <1>13
    <3>3. Swapped(Ids(list), a, b)[i] = list[Exchanged(i, a, b)].id
      BY <1>12, <1>14, <3>1
    <3> QED
      BY <3>2, <3>3
  <2> QED
    BY <1>13, <1>14, <2>1, IdsEqual
<1>16. Renews
  BY <1>1, <1>11 DEF Renews, ListTypes
<1> QED
  BY <1>2, <1>7, <1>8, <1>9, <1>10, <1>11, <1>12, <1>15, <1>16 DEF ListInv

LEMMA LongerList ==
  ASSUME ListInv, Free, loads' = loads + 1,
         list' = Append(list, Loaded(loads + 1)),
         UNCHANGED <<param, active, unloading, clientVer, activeId, stale>>
  PROVE  /\ ListInv' /\ Moves
         /\ Now' = Ahead' /\ Ahead'.ver = Ahead.ver
         /\ Len(list') = Len(list) + 1 /\ list'[Len(list) + 1].id = loads + 1
         /\ \A i \in 1..Len(list) : list'[i] = list[i]
<1>1. ListTypes /\ SlotInv /\ ActiveFollowsPlugin /\ SlotsAgree
  BY DEF ListInv
<1>2. /\ DOMAIN list = 1..Len(list) /\ Len(list) \in Nat
      /\ list \in Seq(Entries)
      /\ \A i \in 1..Len(list) : list[i].id \in Nat /\ list[i].slot \in 0..Slots
  BY <1>1, ListElements DEF ListTypes
<1>3. /\ Loaded(loads + 1) \in Entries /\ Loaded(loads + 1).id = loads + 1
      /\ Loaded(loads + 1).slot = 0
  BY <1>1, IndexBounds DEF Loaded, Entries, ListTypes
<1>4. /\ list' \in Seq(Entries) /\ Len(list') = Len(list) + 1
      /\ \A i \in 1..Len(list) : list'[i] = list[i]
      /\ list'[Len(list) + 1] = Loaded(loads + 1)
      /\ DOMAIN list' = 1..Len(list) + 1
  BY <1>2, <1>3, AppendElements, ElementsOf
<1>5. ListTypes'
  <2>1. param \in [1..Slots -> 0..loads + 1]
    BY <1>1 DEF ListTypes
  <2>2. active \in 0..Len(list) + 1 /\ unloading \in 0..Len(list) + 1
    BY <1>1, <1>2 DEF ListTypes
  <2>3. loads + 1 \in Nat /\ Len(list) + 1 <= loads + 1
    BY <1>1, <1>2 DEF ListTypes
  <2> QED
    BY <1>1, <1>4, <2>1, <2>2, <2>3 DEF ListTypes
<1>6. ActiveFollowsPlugin' /\ SlotInv'
  BY <1>1, <1>2, <1>4 DEF ActiveFollowsPlugin, SlotInv, ListTypes, Free
<1>7. SlotsAgree'
  <2> SUFFICES ASSUME ~stale
               PROVE  /\ \A s \in 1..Slots :
                           param[s] > 0 => list'[param[s]].slot = s
                      /\ \A i \in DOMAIN list' :
                           list'[i].slot > 0 => param[list'[i].slot] = i
    BY DEF SlotsAgree
  <2>1. ASSUME NEW s \in 1..Slots, param[s] > 0
        PROVE  list'[param[s]].slot = s
    <3>1. param[s] \in 1..Len(list)
      BY <1>1, <2>1 DEF SlotInv, ListTypes
    <3> QED
      BY <1>1, <1>4, <2>1, <3>1 DEF SlotsAgree
  <2>2. ASSUME NEW i \in DOMAIN list', list'[i].slot > 0
        PROVE  param[list'[i].slot] = i
    <3>1. i \in 1..Len(list)
      BY <1>2, <1>3, <1>4, <2>2
    <3> QED
      BY <1>1, <1>2, <1>4, <2>2, <3>1 DEF SlotsAgree
  <2> QED
    BY <2>1, <2>2
<1>8. /\ Ahead = Now /\ Now' = Ahead'
      /\ Now.ids = Ids(list) /\ Now.ver = clientVer
      /\ Now'.ids = Ids(list') /\ Now'.ver = clientVer
  BY <1>1, <1>5, ListVersions, NextVersions DEF Free
<1>9. /\ DOMAIN Ids(list) = 1..Len(list)
      /\ \A i \in 1..Len(list) : Ids(list)[i] = list[i].id
      /\ DOMAIN Ids(list') = 1..Len(list) + 1
      /\ \A i \in 1..Len(list) + 1 : Ids(list')[i] = list'[i].id
  BY <1>2, <1>4, IdsElements
<1>10. Extends(Now', Now)
  BY <1>2, <1>4, <1>8, <1>9 DEF Extends
<1>11. Moves
  <2>1. Ahead.ver <= Ahead'.ver
    BY <1>1, <1>8 DEF ListTypes
  <2> QED
    BY <1>8, <1>10, <2>1 DEF Moves, Newer
<1> QED
  BY <1>3, <1>4, <1>5, <1>6, <1>7, <1>8, <1>11 DEF ListInv

(* An entry with another slot.                                             *)
LEMMA SlotElements ==
  ASSUME ListTypes, NEW i \in DOMAIN list, NEW s \in 0..Slots,
         list' = [list EXCEPT ![i].slot = s]
  PROVE  /\ list' \in Seq(Entries) /\ Len(list') = Len(list)
         /\ DOMAIN list' = 1..Len(list) /\ i \in 1..Len(list)
         /\ \A j \in 1..Len(list) : /\ list'[j].id = list[j].id
                                    /\ j # i => list'[j] = list[j]
         /\ list'[i].slot = s
<1>1. list \in Seq(Entries)
  BY DEF ListTypes
<1>2. /\ DOMAIN list = 1..Len(list) /\ Len(list) \in Nat
      /\ list[i] \in Entries
  BY <1>1, ElementsOf
<1> DEFINE e == [list[i] EXCEPT !.slot = s]
<1>3. e \in Entries /\ e.id = list[i].id /\ e.slot = s
  BY <1>2 DEF Entries
<1>4. list' = [list EXCEPT ![i] = e]
  OBVIOUS
<1> HIDE DEF e
<1>5. /\ list' \in Seq(Entries) /\ Len(list') = Len(list)
      /\ DOMAIN list' = DOMAIN list /\ list'[i] = e
      /\ \A j \in DOMAIN list : j # i => list'[j] = list[j]
  BY <1>1, <1>2, <1>3, <1>4
<1> QED
  BY <1>2, <1>3, <1>5

(* The list when a slot was freed, or taken.                               *)
SlotsOK ==
  /\ list' \in Seq(Entries) /\ Len(list') = Len(list)
  /\ \A j \in 1..Len(list) : list'[j].id = list[j].id
  /\ param' \in [1..Slots -> 0..loads]
  /\ ~stale => \A s \in 1..Slots : param'[s] <= Len(list)
  /\ ~stale =>
       /\ \A s \in 1..Slots : param'[s] > 0 => list'[param'[s]].slot = s
       /\ \A j \in 1..Len(list) : list'[j].slot > 0 => param'[list'[j].slot] = j

LEMMA ReleasedSlot ==
  ASSUME ListInv, NEW i \in DOMAIN list,
         param' = Released(i), list' = [list EXCEPT ![i].slot = 0]
  PROVE  SlotsOK /\ list'[i].slot = 0
<1>1. ListTypes /\ SlotInv /\ SlotsAgree
  BY DEF ListInv
<1>2. /\ DOMAIN list = 1..Len(list) /\ Len(list) \in Nat /\ i \in 1..Len(list)
      /\ \A j \in 1..Len(list) : list[j].slot \in 0..Slots
  BY <1>1, ListElements
<1>3. 0 \in 0..Slots
  BY IndexBounds
<1>4. /\ list' \in Seq(Entries) /\ Len(list') = Len(list)
      /\ \A j \in 1..Len(list) : /\ list'[j].id = list[j].id
                                 /\ j # i => list'[j] = list[j]
      /\ list'[i].slot = 0
  BY <1>1, <1>3, SlotElements
<1>5. /\ param' \in [1..Slots -> 0..loads]
      /\ \A s \in 1..Slots :
           param'[s] = IF s = list[i].slot THEN 0 ELSE param[s]
  BY <1>1, <1>2 DEF Released, ListTypes
<1>6. ~stale => \A s \in 1..Slots : param'[s] <= Len(list)
  BY <1>1, <1>2, <1>5 DEF SlotInv, ListTypes
<1>7. ASSUME ~stale, NEW s \in 1..Slots, param'[s] > 0
      PROVE  list'[param'[s]].slot = s
  <2>1. s # list[i].slot /\ param'[s] = param[s]
    BY <1>5, <1>7
  <2>2. param[s] \in 1..Len(list) /\ list[param[s]].slot = s
    BY <1>1, <1>2, <1>7, <2>1 DEF SlotInv, SlotsAgree, ListTypes
  <2> QED
    BY <1>4, <2>1, <2>2
<1>8. ASSUME ~stale, NEW j \in 1..Len(list), list'[j].slot > 0
      PROVE  param'[list'[j].slot] = j
  <2>1. j # i /\ list'[j].slot = list[j].slot
    BY <1>3, <1>4, <1>8
  <2>2. list[j].slot \in 1..Slots /\ param[list[j].slot] = j
    BY <1>1, <1>2, <1>8, <2>1 DEF SlotsAgree
  <2>3. list[j].slot # list[i].slot
    BY <1>1, <1>2, <1>8, <2>1, <2>2 DEF SlotsAgree
  <2> QED
    BY <1>5, <2>1, <2>2, <2>3
<1> QED
  BY <1>4, <1>5, <1>6, <1>7, <1>8 DEF SlotsOK

LEMMA TakenSlot ==
  ASSUME ListInv, NEW i \in DOMAIN list, list[i].slot = 0,
         NEW s \in 1..Slots, param[s] = 0, Take(s, i)
  PROVE  SlotsOK
<1>1. ListTypes /\ SlotInv /\ SlotsAgree
  BY DEF ListInv
<1>2. /\ DOMAIN list = 1..Len(list) /\ Len(list) \in Nat /\ i \in 1..Len(list)
      /\ \A j \in 1..Len(list) : list[j].slot \in 0..Slots
  BY <1>1, ListElements
<1>3. s \in 0..Slots /\ i \in 0..loads
  BY <1>1, <1>2 DEF ListTypes
<1>4. list' = [list EXCEPT ![i].slot = s] /\ param' = [param EXCEPT ![s] = i]
  BY DEF Take
<1>5. /\ list' \in Seq(Entries) /\ Len(list') = Len(list)
      /\ \A j \in 1..Len(list) : /\ list'[j].id = list[j].id
                                 /\ j # i => list'[j] = list[j]
      /\ list'[i].slot = s
  BY <1>1, <1>3, <1>4, SlotElements
<1>6. /\ param' \in [1..Slots -> 0..loads] /\ param'[s] = i
      /\ \A r \in 1..Slots : r # s => param'[r] = param[r]
  BY <1>1, <1>3, <1>4 DEF ListTypes
<1>7. ~stale => \A r \in 1..Slots : param'[r] <= Len(list)
  BY <1>1, <1>2, <1>6 DEF SlotInv
<1>8. ASSUME ~stale, NEW r \in 1..Slots, param'[r] > 0
      PROVE  list'[param'[r]].slot = r
  <2>1. CASE r = s
    BY <1>5, <1>6, <2>1
  <2>2. CASE r # s
    <3>1. param[r] \in 1..Len(list) /\ list[param[r]].slot = r
      BY <1>1, <1>2, <1>6, <1>8, <2>2 DEF SlotInv, SlotsAgree, ListTypes
    <3> QED
      BY <1>5, <1>6, <2>2, <3>1
  <2> QED
    BY <2>1, <2>2
<1>9. ASSUME ~stale, NEW j \in 1..Len(list), list'[j].slot > 0
      PROVE  param'[list'[j].slot] = j
  <2>1. CASE j = i
    BY <1>5, <1>6, <2>1
  <2>2. CASE j # i
    <3>1. list'[j].slot = list[j].slot /\ list[j].slot \in 1..Slots
      BY <1>2, <1>5, <1>9, <2>2
    <3>2. param[list[j].slot] = j
      BY <1>1, <1>2, <1>9, <3>1 DEF SlotsAgree
    <3>3. list[j].slot # s
      BY <3>2
    <3> QED
      BY <1>6, <3>1, <3>2, <3>3
  <2> QED
    BY <2>1, <2>2
<1> QED
  BY <1>5, <1>6, <1>7, <1>8, <1>9 DEF SlotsOK

LEMMA SlotsKept ==
  ASSUME ListInv, SlotsOK,
         UNCHANGED <<active, activeId, clientVer, stale, loads>>,
         unloading' \in 0..Len(list),
         unloading' > 0 => list'[unloading'].slot = 0
  PROVE  ListInv'
<1>1. ListTypes /\ ActiveFollowsPlugin
  BY DEF ListInv
<1>2. DOMAIN list' = 1..Len(list) /\ DOMAIN list = 1..Len(list)
  BY <1>1, ElementsOf, ListElements DEF SlotsOK
<1>3. ListTypes'
  BY <1>1 DEF ListTypes, SlotsOK
<1>4. ActiveFollowsPlugin'
  BY <1>1 DEF ActiveFollowsPlugin, ListTypes, SlotsOK
<1>5. SlotInv' /\ SlotsAgree'
  BY <1>2 DEF SlotsOK, SlotInv, SlotsAgree
<1> QED
  BY <1>3, <1>4, <1>5 DEF ListInv

(* The list when a plugin is gone.                                         *)
LEMMA ShorterList ==
  ASSUME ListInv, ErasePlugin
  PROVE  ListInv' /\ Renews /\ Now' = Ahead /\ Ahead' = Ahead
<1> DEFINE i == unloading
           rest == RemoveAt(list, i)
           next == IF active # i \/ rest = <<>> THEN 0
                   ELSE IF i > Len(rest) THEN Len(rest) ELSE i
<1>1. ListTypes /\ SlotInv /\ ActiveFollowsPlugin /\ SlotsAgree
  BY DEF ListInv
<1>2. /\ DOMAIN list = 1..Len(list) /\ Len(list) \in Nat
      /\ list \in Seq(Entries)
      /\ i \in 1..Len(list) /\ i \in DOMAIN list
      /\ \A j \in 1..Len(list) : list[j].id \in Nat /\ list[j].slot \in 0..Slots
  BY <1>1, ListElements DEF ListTypes, ErasePlugin
<1>3. /\ list' = rest /\ unloading' = 0 /\ clientVer' = clientVer + 1
      /\ stale' = (stale \/ \E s \in 1..Slots : param[s] > i)
      /\ UNCHANGED <<param, loads>>
  BY DEF ErasePlugin, counters
<1>4. IF next > 0 /\ rest[next].ok
        THEN Edited(next, rest[next])
        ELSE /\ active' = AfterUnload(active, i)
             /\ activeId' = IF active = i THEN 0 ELSE activeId
  BY DEF ErasePlugin
<1>5. /\ rest \in Seq(Entries) /\ Len(rest) = Len(list) - 1
      /\ \A j \in 1..Len(list) - 1 : rest[j] = list[IF j < i THEN j ELSE j + 1]
      /\ DOMAIN rest = 1..Len(list) - 1
  <2>1. /\ rest \in Seq(Entries) /\ Len(rest) = Len(list) - 1
        /\ \A j \in 1..Len(list) - 1 :
             rest[j] = list[IF j < i THEN j ELSE j + 1]
    BY <1>2, RestElements
  <2> QED
    BY <2>1, ElementsOf
<1>6. next \in 0..Len(rest)
  BY <1>2, <1>5
<1>7. next > 0 => rest[next].id \in Nat
  BY <1>2, <1>5, <1>6
<1> HIDE DEF next, rest
<1>8. active' \in 0..Len(rest) /\ activeId' \in Nat
  <2>1. CASE next > 0 /\ rest[next].ok
    BY <1>4, <1>6, <1>7, <2>1 DEF Edited
  <2>2. CASE ~(next > 0 /\ rest[next].ok)
    BY <1>1, <1>2, <1>4, <1>5, <2>2 DEF AfterUnload, ListTypes
  <2> QED
    BY <2>1, <2>2
<1>9. ListTypes'
  <2>1. clientVer + 1 \in Nat /\ Len(rest) <= loads
    BY <1>1, <1>2, <1>5 DEF ListTypes
  <2>2. stale' \in BOOLEAN
    BY <1>3
  <2> QED
    BY <1>1, <1>3, <1>5, <1>8, <2>1, <2>2 DEF ListTypes
<1>10. ActiveFollowsPlugin'
  <2>1. CASE next > 0 /\ rest[next].ok
    BY <1>3, <1>4, <2>1 DEF ActiveFollowsPlugin, Edited
  <2>2. CASE ~(next > 0 /\ rest[next].ok)
    <3> SUFFICES ASSUME activeId' > 0
                 PROVE  active' > 0 /\ rest[active'].id = activeId'
      BY <1>3 DEF ActiveFollowsPlugin
    <3>1. active # i /\ activeId' = activeId
      BY <1>4, <2>2
    <3>2. active \in 1..Len(list) /\ list[active].id = activeId
      BY <1>1, <3>1 DEF ActiveFollowsPlugin, ListTypes
    <3>3. CASE i < active
      <4>1. /\ active' = active - 1 /\ active - 1 \in 1..Len(list) - 1
            /\ ~(active - 1 < i) /\ (active - 1) + 1 = active
        BY <1>2, <1>4, <2>2, <3>1, <3>2, <3>3 DEF AfterUnload
      <4> QED
        BY <1>5, <3>1, <3>2, <4>1
    <3>4. CASE active < i
      <4>1. active' = active /\ active \in 1..Len(list) - 1
        BY <1>2, <1>4, <2>2, <3>1, <3>2, <3>4 DEF AfterUnload
      <4> QED
        BY <1>5, <3>1, <3>2, <3>4, <4>1
    <3> QED
      BY <1>2, <3>1, <3>2, <3>3, <3>4
  <2> QED
    BY <2>1, <2>2
(* Without stale all slots are in front.                                   *)
<1>11. ASSUME ~stale', NEW s \in 1..Slots
       PROVE  param[s] \in 0..i - 1
  <2>1. ~stale /\ ~(param[s] > i) /\ param[s] \in 0..Len(list)
    <3>1. ~stale /\ ~(\E r \in 1..Slots : param[r] > i)
      BY <1>3, <1>11
    <3>2. param[s] \in 0..Len(list)
      BY <1>1, <3>1 DEF SlotInv, ListTypes
    <3> QED
      BY <3>1, <3>2
  <2>2. param[s] # i
    BY <1>1, <1>2, <1>11, <2>1 DEF SlotInv, SlotsAgree
  <2> QED
    BY <1>2, <2>1, <2>2
<1>12. SlotInv'
  <2> SUFFICES ASSUME ~stale', NEW s \in 1..Slots
               PROVE  param'[s] <= Len(list')
    BY <1>3 DEF SlotInv
  <2> QED
    BY <1>2, <1>3, <1>5, <1>11
<1>13. SlotsAgree'
  <2> SUFFICES ASSUME ~stale'
               PROVE  /\ \A s \in 1..Slots :
                           param[s] > 0 => rest[param[s]].slot = s
                      /\ \A j \in DOMAIN rest :
                           rest[j].slot > 0 => param[rest[j].slot] = j
    BY <1>3 DEF SlotsAgree
  <2>1. ~stale
    BY <1>3
  <2>2. ASSUME NEW s \in 1..Slots, param[s] > 0
        PROVE  rest[param[s]].slot = s
    <3>1. param[s] \in 1..Len(list) - 1 /\ param[s] < i
      BY <1>2, <1>11, <2>2
    <3> QED
      BY <1>1, <1>5, <2>1, <2>2, <3>1 DEF SlotsAgree
  <2>3. ASSUME NEW j \in DOMAIN rest, rest[j].slot > 0
        PROVE  param[rest[j].slot] = j
    <3> DEFINE k == IF j < i THEN j ELSE j + 1
    <3>1. k \in 1..Len(list) /\ rest[j] = list[k]
      BY <1>2, <1>5
    <3> HIDE DEF k
    <3>2. param[list[k].slot] = k /\ list[k].slot \in 1..Slots
      BY <1>1, <1>2, <2>1, <2>3, <3>1 DEF SlotsAgree
    <3>3. k < i
      BY <1>2, <1>11, <3>1, <3>2
    <3>4. k = j
      BY <1>2, <1>5, <3>3 DEF k
    <3> QED
      BY <3>1, <3>2, <3>4
  <2> QED
    BY <2>2, <2>3
<1>14. /\ Ids(list) \in Seq(Nat) /\ Len(Ids(list)) = Len(list)
       /\ DOMAIN Ids(list) = 1..Len(list)
       /\ \A j \in 1..Len(list) : Ids(list)[j] = list[j].id
  BY <1>2, IdsElements
<1>15. /\ Ids(rest) \in Seq(Nat) /\ Len(Ids(rest)) = Len(list) - 1
       /\ \A j \in 1..Len(list) - 1 : Ids(rest)[j] = rest[j].id
  BY <1>5, IdsElements
<1>16. /\ RemoveAt(Ids(list), i) \in Seq(Nat)
       /\ Len(RemoveAt(Ids(list), i)) = Len(list) - 1
       /\ \A j \in 1..Len(list) - 1 :
            RemoveAt(Ids(list), i)[j] = Ids(list)[IF j < i THEN j ELSE j + 1]
  <2>1. i \in DOMAIN Ids(list)
    BY <1>2, <1>14
  <2> QED
    BY <1>14, <2>1, RestElements
<1>17. Ids(rest) = RemoveAt(Ids(list), i)
  <2>1. \A j \in 1..Len(list) - 1 : Ids(rest)[j] = RemoveAt(Ids(list), i)[j]
    <3> TAKE j \in 1..Len(list) - 1
    <3>1. (IF j < i THEN j ELSE j + 1) \in 1..Len(list)
      BY <1>2
    <3> QED
      BY <1>5, <1>14, <1>15, <1>16, <3>1
  <2> QED
    BY <1>15, <1>16, <2>1, IdsEqual
<1>18. Now' = Ahead /\ Ahead' = Ahead
  <2>1. Now' = Version(rest, clientVer + 1) /\ Ahead' = Now'
    BY <1>3 DEF Now, Ahead, Without
  <2>2. Ahead = [ids |-> RemoveAt(Ids(list), i), ver |-> clientVer + 1]
    BY <1>2 DEF Ahead, Without
  <2> QED
    BY <1>17, <2>1, <2>2 DEF Version
<1>19. Ahead.ver <= Ahead.ver
  BY <1>1, ListVersions DEF Lists
<1> QED
  BY <1>9, <1>10, <1>12, <1>13, <1>18, <1>19 DEF Renews, ListInv

(* The slots that a connection found are bound again: to what they are     *)
(* bound to, unless the list changed.                                      *)
LEMMA BoundList ==
  ASSUME ListInv, QueueTypes, Bind
  PROVE  ListInv' /\ Now' = Now /\ Ahead' = Ahead /\ Renews
<1> DEFINE idx == Head(functors).idx
           inRange == {b \in idx : b.i \in DOMAIN list}
           bound(s) == {b \in inRange : b.s = s}
           mine(i) == {b \in inRange : b.i = i}
<1>1. ListTypes /\ SlotInv /\ ActiveFollowsPlugin /\ SlotsAgree
  BY DEF ListInv
<1>2. /\ DOMAIN list = 1..Len(list) /\ Len(list) \in Nat
      /\ list \in Seq(Entries)
      /\ \A j \in 1..Len(list) :
           /\ list[j] \in Entries /\ list[j].id \in Nat
           /\ list[j].slot \in 0..Slots
  BY <1>1, ListElements DEF ListTypes
<1>3. idx \subseteq [i : Nat, s : 1..Slots]
  <2>1. functors \in Seq(Functors) /\ functors # <<>>
    BY DEF QueueTypes, Bind
  <2>2. Head(functors) \in Functors /\ Head(functors).type = "bind"
    BY <2>1, TailElements DEF Bind
  <2>3. Head(functors) \in Bindings
    BY <2>2 DEF Functors, Values, Settings
  <2> QED
    BY <2>3 DEF Bindings
<1>4. /\ param' = [s \in 1..Slots |->
                     IF bound(s) = {} THEN param[s]
                     ELSE (CHOOSE b \in bound(s) : TRUE).i]
      /\ list' = [i \in DOMAIN list |->
                    IF mine(i) = {} THEN list[i]
                    ELSE [list[i] EXCEPT
                            !.slot = (CHOOSE b \in mine(i) : TRUE).s]]
      /\ stale' = (\/ stale \/ Head(functors).ver # clientVer
                   \/ idx # Automated)
      /\ \/ active > 0 /\ Edited(active, list[active])
         \/ active' = active /\ activeId' = activeId
      /\ unloading = 0 /\ UNCHANGED <<unloading, clientVer, loads>>
  BY DEF Bind, counters, Free
<1>5. ASSUME NEW s \in 1..Slots, bound(s) # {}
      PROVE  (CHOOSE b \in bound(s) : TRUE) \in bound(s)
  BY <1>5
<1>6. ASSUME NEW i \in 1..Len(list), mine(i) # {}
      PROVE  (CHOOSE b \in mine(i) : TRUE) \in mine(i)
  BY <1>6
<1>7. ASSUME NEW s \in 1..Slots
      PROVE  \/ param'[s] = param[s]
             \/ \E b \in inRange : b.s = s /\ param'[s] = b.i
  BY <1>4, <1>5
<1>8. ASSUME NEW i \in 1..Len(list)
      PROVE  \/ list'[i] = list[i]
             \/ \E b \in inRange :
                  b.i = i /\ list'[i] = [list[i] EXCEPT !.slot = b.s]
  BY <1>2, <1>4, <1>6
<1>9. \A b \in inRange : b.i \in 1..Len(list) /\ b.s \in 1..Slots /\ b \in idx
  BY <1>2, <1>3
<1>10. DOMAIN list' = 1..Len(list) /\ DOMAIN param' = 1..Slots
  BY <1>2, <1>4
<1>11. inRange \subseteq idx
  OBVIOUS
<1>12. /\ list' = [i \in 1..Len(list) |-> list'[i]]
       /\ param' = [s \in 1..Slots |-> param'[s]]
  BY <1>2, <1>4
<1> HIDE DEF idx, inRange, bound, mine
<1>13. \A i \in 1..Len(list) :
         list'[i] \in Entries /\ list'[i].id = list[i].id
  <2> TAKE i \in 1..Len(list)
  <2>1. CASE list'[i] = list[i]
    BY <1>2, <2>1
  <2>2. ASSUME NEW b \in inRange, list'[i] = [list[i] EXCEPT !.slot = b.s]
        PROVE  list'[i] \in Entries /\ list'[i].id = list[i].id
    <3>1. b.s \in 0..Slots /\ list[i] \in Entries
      BY <1>2, <1>9
    <3> QED
      BY <2>2, <3>1 DEF Entries
  <2> QED
    BY <1>8, <2>1, <2>2
<1>14. list' \in Seq(Entries) /\ Len(list') = Len(list)
  <2>1. [i \in 1..Len(list) |-> list'[i]] \in Seq(Entries)
    BY <1>2, <1>13
  <2>2. Len([i \in 1..Len(list) |-> list'[i]]) = Len(list)
    BY <1>2, <2>1
  <2> QED
    BY <1>12, <2>1, <2>2
<1>15. param' \in [1..Slots -> 0..loads]
  <2>1. \A s \in 1..Slots : param'[s] \in 0..loads
    BY <1>1, <1>2, <1>7, <1>9 DEF ListTypes
  <2> QED
    BY <1>12, <2>1
<1>16. active' \in 0..Len(list) /\ activeId' \in Nat
  BY <1>1, <1>2, <1>4 DEF ListTypes, Edited
<1>17. ListTypes'
  BY <1>1, <1>4, <1>14, <1>15, <1>16 DEF ListTypes
<1>18. ActiveFollowsPlugin'
  <2>1. active \in 0..Len(list)
    BY <1>1 DEF ListTypes
  <2> QED
    BY <1>1, <1>4, <1>13, <2>1 DEF ActiveFollowsPlugin, Edited
<1>19. ASSUME ~stale'
       PROVE  /\ \A s \in 1..Slots : param'[s] = param[s]
              /\ \A i \in 1..Len(list) : list'[i].slot = list[i].slot
  <2>1. ~stale /\ idx = Automated
    BY <1>4, <1>19
  <2>2. ASSUME NEW b \in inRange
        PROVE  list[b.i].slot = b.s /\ param[b.s] = b.i
    <3>1. b \in Automated /\ b.i \in 1..Len(list) /\ b.s \in 1..Slots
      BY <1>9, <2>1
    <3>2. list[b.i].slot = b.s
      BY <3>1 DEF Automated
    <3> QED
      BY <1>1, <1>2, <2>1, <3>1, <3>2 DEF SlotsAgree
  <2>3. \A s \in 1..Slots : param'[s] = param[s]
    BY <1>7, <2>2
  <2>4. ASSUME NEW i \in 1..Len(list)
        PROVE  list'[i].slot = list[i].slot
    <3>1. CASE list'[i] = list[i]
      BY <3>1
    <3>2. ASSUME NEW b \in inRange, b.i = i,
                 list'[i] = [list[i] EXCEPT !.slot = b.s]
          PROVE  list'[i].slot = list[i].slot
      BY <1>2, <2>2, <3>2 DEF Entries
    <3> QED
      BY <1>8, <3>1, <3>2
  <2> QED
    BY <2>3, <2>4
<1>20. SlotInv'
  <2> SUFFICES ASSUME ~stale', NEW s \in 1..Slots
               PROVE  param'[s] <= Len(list')
    <3>1. unloading' = 0
      BY <1>4
    <3> QED
      BY <3>1 DEF SlotInv
  <2>1. ~stale
    BY <1>4
  <2> QED
    BY <1>1, <1>14, <1>19, <2>1 DEF SlotInv
<1>21. SlotsAgree'
  <2> SUFFICES ASSUME ~stale'
               PROVE  /\ \A s \in 1..Slots :
                           param'[s] > 0 => list'[param'[s]].slot = s
                      /\ \A i \in 1..Len(list) :
                           list'[i].slot > 0 => param'[list'[i].slot] = i
    BY <1>10 DEF SlotsAgree
  <2>1. ~stale
    BY <1>4
  <2>2. ASSUME NEW s \in 1..Slots, param'[s] > 0
        PROVE  list'[param'[s]].slot = s
    <3>1. param'[s] = param[s] /\ param[s] \in 1..Len(list)
      BY <1>1, <1>19, <2>1, <2>2 DEF SlotInv, ListTypes
    <3> QED
      BY <1>1, <1>19, <2>1, <2>2, <3>1 DEF SlotsAgree
  <2>3. ASSUME NEW i \in 1..Len(list), list'[i].slot > 0
        PROVE  param'[list'[i].slot] = i
    <3>1. list'[i].slot = list[i].slot /\ list[i].slot \in 1..Slots
      BY <1>2, <1>19, <2>3
    <3> QED
      BY <1>1, <1>2, <1>19, <2>1, <2>3, <3>1 DEF SlotsAgree
  <2> QED
    BY <2>2, <2>3
<1> QED
  BY <1>1, <1>4, <1>13, <1>14, <1>17, <1>18, <1>20, <1>21, SameNames DEF ListInv

-----------------------------------------------------------------------------
(* The actions keep the invariant.                                         *)

(* What an action may do to the queues and to the history of values.       *)
NotesKept ==
  \/ notes' = notes
  \/ notes' = <<>>
  \/ notes # <<>> /\ notes' = Tail(notes)
  \/ \E n \in Notices : notes' = Append(notes, n) /\ NoteMeans(n)

FunctorsKept ==
  \/ functors' = functors
  \/ functors # <<>> /\ functors' = Tail(functors)
  \/ \E f \in Functors :
       /\ FunctorMeans(f)
       /\ \/ functors' = Append(functors, f)
          \/ functors # <<>> /\ functors' = Append(Tail(functors), f)

WrongGrows ==
  \A w \in wrong' :
    \/ w \in wrong
    \/ w \in [crossed : BOOLEAN, stale : BOOLEAN] /\ (w.crossed \/ w.stale)

LEMMA Assembled ==
  ASSUME IndexInv, ListInv', Moves, ChainInv',
         TrailInv' /\ requests' \in Seq(Requests),
         NotesKept, FunctorsKept, WrongGrows
  PROVE  IndexInv'
<1>1. /\ QueueTypes /\ NotesMean /\ FunctorsMean /\ MisdirectionsExplained
      /\ ListTypes /\ ListTypes'
  BY DEF IndexInv, ListInv
<1>2. notes' \in Seq(Notices) /\ NotesMean'
  BY <1>1, NotesStill DEF NotesKept
<1>3. functors' \in Seq(Functors) /\ FunctorsMean'
  BY <1>1, FunctorsStill DEF FunctorsKept
<1>4. /\ wrong' \subseteq [crossed : BOOLEAN, stale : BOOLEAN]
      /\ MisdirectionsExplained'
  <2>1. wrong \subseteq [crossed : BOOLEAN, stale : BOOLEAN]
    BY <1>1 DEF QueueTypes
  <2>2. \A w \in wrong : w.crossed \/ w.stale
    BY <1>1 DEF MisdirectionsExplained
  <2>3. \A w \in wrong' : w.crossed \/ w.stale
    BY <2>2 DEF WrongGrows
  <2>4. wrong' \subseteq [crossed : BOOLEAN, stale : BOOLEAN]
    BY <2>1 DEF WrongGrows
  <2> QED
    BY <2>3, <2>4 DEF MisdirectionsExplained
<1>5. QueueTypes'
  BY <1>2, <1>3, <1>4 DEF QueueTypes
<1> QED
  BY <1>2, <1>3, <1>4, <1>5 DEF IndexInv

LEMMA IndexParts ==
  ASSUME IndexInv
  PROVE  /\ ListInv /\ ListTypes /\ SlotInv /\ ActiveFollowsPlugin /\ SlotsAgree
         /\ ChainInv /\ ChainTypes /\ PlaceInv /\ QueueTypes
         /\ TrailInv /\ NotesMean /\ FunctorsMean /\ MisdirectionsExplained
BY DEF IndexInv, ListInv, ChainInv

(* Steps of the client leave the chain alone.                              *)
LEMMA ChainKept ==
  ASSUME ChainInv, UNCHANGED <<server, serverVer, loads>>
  PROVE  ChainInv' /\ Served' = Served
BY DEF ChainInv, ChainTypes, PlaceInv, Served, server

LEMMA ServedNow ==
  ASSUME UNCHANGED <<server, serverVer>>
  PROVE  Served' = Served
BY DEF Served, server

LEMMA WrongKept ==
  ASSUME wrong' = wrong
  PROVE  WrongGrows
BY DEF WrongGrows

LEMMA AskedOne ==
  ASSUME NEW q \in Seq(Requests), NEW r \in Requests
  PROVE  q \o <<r>> = Append(q, r)
OBVIOUS

(* Requests that change no list.                                           *)
Plain(msgs) ==
  \/ msgs = <<>>
  \/ \E r \in Requests : /\ msgs = <<r>> /\ r.type \notin {"Exchange", "Del"}
                         /\ Finds(r, Ahead)

LEMMA PlainAsked ==
  ASSUME IndexInv, ListTypes', Renews, Now' = Now, Ahead' = Ahead,
         Served' = Served, NEW msgs, Plain(msgs), Ask(msgs)
  PROVE  TrailInv' /\ requests' \in Seq(Requests)
<1>1. ListTypes /\ QueueTypes /\ TrailInv /\ requests \in Seq(Requests)
  BY IndexParts DEF QueueTypes
<1>2. requests' = requests \o msgs
  BY DEF Ask
<1>3. CASE msgs = <<>>
  <2>1. requests' = requests
    BY <1>1, <1>2, <1>3
  <2> QED
    BY <1>1, <2>1, TrailStays
<1>4. ASSUME NEW r \in Requests, msgs = <<r>>,
             r.type \notin {"Exchange", "Del"},
             Finds(r, Ahead)
      PROVE  TrailInv' /\ requests' \in Seq(Requests)
  <2>1. requests' = Append(requests, r)
    BY <1>1, <1>2, <1>4, AskedOne
  <2>2. LeadsTo(r, Ahead, Ahead')
    BY <1>4 DEF LeadsTo
  <2> QED
    BY <1>1, <1>4, <2>1, <2>2, TrailSend
<1> QED
  BY <1>3, <1>4 DEF Plain

LEMMA EditAsks ==
  ASSUME ListTypes, Free, NEW i \in DOMAIN list
  PROVE  Plain(EditRequest(i, list[i]))
<1> DEFINE r == [type |-> "Edit", a |-> i, b |-> 0, id |-> list[i].id,
                 ver |-> clientVer, stale |-> stale]
<1>1. i \in Nat /\ i \in 1..Len(list) /\ list[i].id \in Nat
  BY ListElements
<1>2. /\ r \in Requests /\ r.type = "Edit" /\ r.a = i /\ r.id = list[i].id
  BY <1>1 DEF ListTypes, Requests
<1>3. EditRequest(i, list[i]) = <<>> \/ EditRequest(i, list[i]) = <<r>>
  BY DEF EditRequest
<1> HIDE DEF r
<1>4. i \in DOMAIN Ahead.ids /\ Ahead.ids[i] = list[i].id
  <2>1. Ahead.ids = Ids(list)
    BY ListVersions DEF Free
  <2>2. /\ DOMAIN Ids(list) = 1..Len(list)
        /\ \A j \in 1..Len(list) : Ids(list)[j] = list[j].id
    BY IdsElements DEF ListTypes
  <2> QED
    BY <1>1, <2>1, <2>2
<1>5. Finds(r, Ahead)
  BY <1>2, <1>4 DEF Finds
<1> QED
  BY <1>2, <1>3, <1>5 DEF Plain

LEMMA EditPluginInv ==
  ASSUME IndexInv, NEW i \in DOMAIN list, EditPlugin(i)
  PROVE  IndexInv'
<1>1. /\ ListInv /\ ListTypes /\ ChainInv /\ i \in Nat /\ list[i].id \in Nat
      /\ list \in Seq(Entries)
  BY IndexParts, ListElements DEF ListTypes
<1>2. /\ Free /\ Edited(i, list[i]) /\ Ask(EditRequest(i, list[i]))
      /\ UNCHANGED <<list, param, unloading, functors, notes, clientVer,
                     serverVer, stale, wrong, loads, server>>
  BY DEF EditPlugin, Call
<1>3. ListInv' /\ Now' = Now /\ Ahead' = Ahead /\ Renews
  BY <1>1, <1>2, ListKept DEF ActiveKept
<1>4. ChainInv' /\ Served' = Served
  BY <1>1, <1>2, ChainKept
<1>5. TrailInv' /\ requests' \in Seq(Requests)
  <2>1. Plain(EditRequest(i, list[i]))
    BY <1>1, <1>2, EditAsks
  <2> QED
    BY <1>2, <1>3, <1>4, <2>1, PlainAsked DEF ListInv
<1> QED
  BY <1>2, <1>3, <1>4, <1>5, Assembled, RenewsMoves, WrongKept
     DEF NotesKept, FunctorsKept

LEMMA HidePluginInv ==
  ASSUME IndexInv, HidePlugin
  PROVE  IndexInv'
<1> DEFINE r == [type |-> "Hide", a |-> 0, b |-> 0, id |-> 0, ver |-> clientVer,
                 stale |-> stale]
<1>1. ListInv /\ ListTypes /\ ChainInv /\ list \in Seq(Entries)
  BY IndexParts DEF ListTypes
<1>2. /\ active' = 0 /\ activeId' = 0 /\ Ask(<<r>>)
      /\ UNCHANGED <<list, param, unloading, functors, notes, clientVer,
                     serverVer, stale, wrong, loads, server>>
  BY DEF HidePlugin
<1>3. r \in Requests /\ r.type = "Hide"
  BY <1>1 DEF ListTypes, Requests
<1> HIDE DEF r
<1>4. Plain(<<r>>)
  BY <1>3 DEF Plain, Finds
<1>5. ListInv' /\ Now' = Now /\ Ahead' = Ahead /\ Renews
  BY <1>1, <1>2, ListKept DEF ActiveKept
<1>6. ChainInv' /\ Served' = Served
  BY <1>1, <1>2, ChainKept
<1>7. TrailInv' /\ requests' \in Seq(Requests)
  BY <1>2, <1>4, <1>5, <1>6, PlainAsked DEF ListInv
<1> QED
  BY <1>2, <1>5, <1>6, <1>7, Assembled, RenewsMoves, WrongKept
     DEF NotesKept, FunctorsKept

LEMMA ExchangePluginsInv ==
  ASSUME IndexInv, NEW a \in DOMAIN list, NEW b \in DOMAIN list,
         ExchangePlugins(a, b)
  PROVE  IndexInv'
<1> DEFINE r == [type |-> "Exchange", a |-> a, b |-> b, id |-> 0,
                 ver |-> clientVer, stale |-> stale]
<1>1. /\ ListInv /\ ListTypes /\ ChainInv /\ QueueTypes /\ TrailInv
      /\ requests \in Seq(Requests)
  BY IndexParts DEF QueueTypes
<1>2. /\ Free /\ list' = Swapped(list, a, b)
      /\ param' = [s \in 1..Slots |-> Exchanged(param[s], a, b)]
      /\ active' = Exchanged(active, a, b) /\ clientVer' = clientVer + 1
      /\ Ask(<<r>>)
      /\ UNCHANGED <<unloading, activeId, functors, notes, server, serverVer,
                     stale, wrong, loads>>
  BY DEF ExchangePlugins, Call
<1>3. a \in Nat /\ b \in Nat
  BY <1>1, ListElements
<1>4. r \in Requests /\ r.type = "Exchange" /\ r.a = a /\ r.b = b
  BY <1>1, <1>3 DEF ListTypes, Requests
<1> HIDE DEF r
<1>5. /\ ListInv' /\ Renews
      /\ Ahead' = [ids |-> Swapped(Ahead.ids, a, b), ver |-> Ahead.ver + 1]
      /\ a \in DOMAIN Ahead.ids /\ b \in DOMAIN Ahead.ids
  BY <1>1, <1>2, SwappedList
<1>6. ChainInv' /\ Served' = Served
  BY <1>1, <1>2, ChainKept
<1>7. requests' = Append(requests, r)
  BY <1>1, <1>2, <1>4, AskedOne DEF Ask
<1>8. LeadsTo(r, Ahead, Ahead') /\ Finds(r, Ahead)
  BY <1>4, <1>5 DEF LeadsTo, Finds
<1>9. TrailInv' /\ requests' \in Seq(Requests)
  BY <1>1, <1>4, <1>5, <1>6, <1>7, <1>8, TrailSend DEF ListInv
<1> QED
  BY <1>2, <1>5, <1>6, <1>9, Assembled, RenewsMoves, WrongKept
     DEF NotesKept, FunctorsKept

LEMMA LoadPluginInv ==
  ASSUME IndexInv, LoadPlugin
  PROVE  IndexInv'
<1>1. /\ ListInv /\ ListTypes /\ ChainInv /\ ChainTypes /\ PlaceInv /\ TrailInv
  BY IndexParts
<1>2. /\ Free /\ requests = <<>> /\ loads' = loads + 1
      /\ chain' = Append(chain, Processor(loads + 1, Len(chain) + 1))
      /\ list' = Append(list, Loaded(loads + 1))
      /\ UNCHANGED <<param, active, unloading, functors, requests, notes,
                     editor, window, clientVer, serverVer, activeId, stale,
                     wrong>>
  BY DEF LoadPlugin, Call
<1>3. /\ ListInv' /\ Moves /\ Now' = Ahead' /\ Ahead'.ver = Ahead.ver
      /\ Len(list') = Len(list) + 1 /\ list'[Len(list) + 1].id = loads + 1
      /\ \A i \in 1..Len(list) : list'[i] = list[i]
  BY <1>1, <1>2, LongerList
<1>4. Served = Ahead /\ Ahead = Now
  BY <1>1, <1>2, TrailEmpty, ListVersions DEF Free
<1>5. /\ list \in Seq(Entries) /\ list' \in Seq(Entries)
      /\ chain \in Seq(Processors)
      /\ Len(chain) <= loads /\ Len(chain) \in Nat /\ loads \in Nat
      /\ DOMAIN chain = 1..Len(chain)
  BY <1>1, <1>3, ElementsOf DEF ListTypes, ChainTypes, ListInv
<1>6. Processor(loads + 1, Len(chain) + 1) \in Processors
  BY <1>5 DEF Processor, Processors
<1>7. /\ chain' \in Seq(Processors) /\ Len(chain') = Len(chain) + 1
      /\ \A j \in 1..Len(chain) : chain'[j] = chain[j]
      /\ chain'[Len(chain) + 1] = Processor(loads + 1, Len(chain) + 1)
      /\ DOMAIN chain' = 1..Len(chain) + 1
  BY <1>2, <1>5, <1>6, AppendElements, ElementsOf
<1>8. ChainInv'
  <2>1. editor \in 0..loads + 1 /\ Len(chain) + 1 <= loads + 1
    BY <1>1, <1>5 DEF ChainTypes
  <2>2. ChainTypes'
    BY <1>1, <1>2, <1>7, <2>1 DEF ChainTypes
  <2>3. PlaceInv'
    BY <1>1, <1>5, <1>7 DEF PlaceInv, Processor
  <2> QED
    BY <2>2, <2>3 DEF ChainInv
<1>9. /\ Ids(list) = Ids(chain) /\ serverVer = clientVer
  <2>1. Now.ids = Ids(list) /\ Now.ver = clientVer
    BY DEF Now, Version
  <2>2. Served.ids = Ids(chain) /\ Served.ver = serverVer
    BY DEF Served, Version
  <2> QED
    BY <1>4, <2>1, <2>2
<1>10. /\ Len(list) = Len(chain)
       /\ \A j \in 1..Len(chain) : list[j].id = chain[j].id
  <2>1. /\ Len(Ids(list)) = Len(list)
        /\ \A j \in 1..Len(list) : Ids(list)[j] = list[j].id
    BY <1>5, IdsElements
  <2>2. /\ Len(Ids(chain)) = Len(chain)
        /\ \A j \in 1..Len(chain) : Ids(chain)[j] = chain[j].id
    BY <1>5, IdsElements
  <2> QED
    BY <1>9, <2>1, <2>2
<1>11. \A j \in 1..Len(chain) + 1 : list'[j].id = chain'[j].id
  <2> TAKE j \in 1..Len(chain) + 1
  <2>1. CASE j \in 1..Len(chain)
    BY <1>3, <1>7, <1>10, <2>1
  <2>2. CASE j = Len(chain) + 1
    BY <1>3, <1>7, <1>10, <2>2 DEF Processor
  <2> QED
    BY <1>5, <2>1, <2>2
<1>12. Ids(list') = Ids(chain')
  <2>1. /\ Ids(list') \in Seq(Nat) /\ Len(Ids(list')) = Len(list')
        /\ \A j \in 1..Len(list') : Ids(list')[j] = list'[j].id
    BY <1>5, IdsElements
  <2>2. /\ Ids(chain') \in Seq(Nat) /\ Len(Ids(chain')) = Len(chain')
        /\ \A j \in 1..Len(chain') : Ids(chain')[j] = chain'[j].id
    BY <1>7, IdsElements
  <2>3. /\ Len(Ids(list')) = Len(chain) + 1
        /\ Len(Ids(chain')) = Len(chain) + 1
    BY <1>3, <1>7, <1>10, <2>1, <2>2
  <2>4. \A j \in 1..Len(chain) + 1 : Ids(list')[j] = Ids(chain')[j]
    BY <1>3, <1>7, <1>10, <1>11, <2>1, <2>2
  <2> QED
    BY <2>1, <2>2, <2>3, <2>4, IdsEqual
<1>13. Served' = Ahead'
  BY <1>2, <1>3, <1>9, <1>12 DEF Served, Now, Version
<1>14. TrailInv' /\ requests' \in Seq(Requests)
  BY <1>2, <1>3, <1>13, TrailFresh DEF ListInv
<1> QED
  BY <1>2, <1>3, <1>8, <1>14, Assembled, WrongKept DEF NotesKept, FunctorsKept

LEMMA UnloadPluginInv ==
  ASSUME IndexInv, NEW i \in DOMAIN list, UnloadPlugin(i)
  PROVE  IndexInv'
<1> DEFINE r == [type |-> "Del", a |-> i, b |-> 0, id |-> 0, ver |-> clientVer,
                 stale |-> stale]
<1>1. /\ ListInv /\ ListTypes /\ ChainInv /\ QueueTypes /\ TrailInv
      /\ requests \in Seq(Requests) /\ list \in Seq(Entries)
  BY IndexParts DEF QueueTypes, ListTypes
<1>2. /\ Free /\ param' = Released(i) /\ list' = [list EXCEPT ![i].slot = 0]
      /\ Ask(<<r>>) /\ unloading' = i
      /\ UNCHANGED <<active, activeId, functors, notes, server, clientVer,
                     serverVer, stale, wrong, loads>>
  BY DEF UnloadPlugin, Call
<1>3. i \in 1..Len(list) /\ Len(list) \in Nat /\ i # 0
  BY <1>1, ListElements
<1>4. r \in Requests /\ r.type = "Del" /\ r.a = i
  BY <1>1, <1>3 DEF ListTypes, Requests
<1> HIDE DEF r
<1>5. SlotsOK /\ list'[i].slot = 0
  BY <1>1, <1>2, ReleasedSlot
<1>6. ListInv'
  BY <1>1, <1>2, <1>3, <1>5, SlotsKept
<1>7. Ids(list') = Ids(list)
  <2>1. /\ Ids(list) \in Seq(Nat) /\ Len(Ids(list)) = Len(list)
        /\ \A j \in 1..Len(list) : Ids(list)[j] = list[j].id
    BY <1>1, IdsElements
  <2>2. list' \in Seq(Entries) /\ Len(list') = Len(list)
    BY <1>5 DEF SlotsOK
  <2>3. /\ Ids(list') \in Seq(Nat) /\ Len(Ids(list')) = Len(list)
        /\ \A j \in 1..Len(list) : Ids(list')[j] = list'[j].id
    BY <2>2, IdsElements
  <2>4. \A j \in 1..Len(list) : Ids(list')[j] = Ids(list)[j]
    BY <1>5, <2>1, <2>3 DEF SlotsOK
  <2> QED
    BY <2>1, <2>3, <2>4, IdsEqual
<1>8. /\ Ahead = Now /\ Now' = Now /\ Now.ver = clientVer
      /\ Now.ids = Ids(list) /\ i \in DOMAIN Now.ids
      /\ Ahead' = [ids |-> RemoveAt(Now.ids, i), ver |-> Now.ver + 1]
  <2>1. Ahead = Now /\ Now.ver = clientVer /\ Now.ids = Ids(list)
    BY <1>1, <1>2, ListVersions DEF Free
  <2>2. Now' = Now
    BY <1>2, <1>7 DEF Now, Version
  <2>3. i \in DOMAIN Ids(list)
    BY <1>1, <1>3, IdsElements
  <2>4. Ahead' = [ids |-> RemoveAt(Ids(list), i), ver |-> clientVer + 1]
    BY <1>2, <1>3, <1>7 DEF Ahead, Without
  <2> QED
    BY <2>1, <2>2, <2>3, <2>4
<1>9. Renews
  <2>1. Now.ver \in Nat
    BY <1>1, <1>8 DEF ListTypes
  <2> QED
    BY <1>8, <2>1 DEF Renews
<1>10. ChainInv' /\ Served' = Served
  BY <1>1, <1>2, ChainKept
<1>11. requests' = Append(requests, r)
  BY <1>1, <1>2, <1>4, AskedOne DEF Ask
<1>12. LeadsTo(r, Ahead, Ahead') /\ Finds(r, Ahead)
  BY <1>4, <1>8 DEF LeadsTo, Finds
<1>13. TrailInv' /\ requests' \in Seq(Requests)
  BY <1>1, <1>4, <1>6, <1>9, <1>10, <1>11, <1>12, TrailSend DEF ListInv
<1> QED
  BY <1>2, <1>6, <1>9, <1>10, <1>13, Assembled, RenewsMoves, WrongKept
     DEF NotesKept, FunctorsKept

LEMMA ErasePluginInv ==
  ASSUME IndexInv, ErasePlugin
  PROVE  IndexInv'
<1> DEFINE rest == RemoveAt(list, unloading)
           next == IF active # unloading \/ rest = <<>> THEN 0
                   ELSE IF unloading > Len(rest) THEN Len(rest) ELSE unloading
           e == EditRequest(next, rest[next])
<1>1. /\ ListInv /\ ListTypes /\ ChainInv /\ QueueTypes /\ TrailInv
      /\ requests \in Seq(Requests) /\ list \in Seq(Entries)
  BY IndexParts DEF QueueTypes, ListTypes
<1>2. /\ unloading > 0 /\ requests = <<>>
      /\ UNCHANGED <<functors, notes, server, serverVer, wrong, loads>>
  BY DEF ErasePlugin, counters
<1>3. ListInv' /\ Renews /\ Now' = Ahead /\ Ahead' = Ahead
  BY <1>1, ShorterList
<1>4. ChainInv' /\ Served' = Served
  BY <1>1, <1>2, ChainKept
<1>5. IF next > 0 /\ rest[next].ok
        THEN requests' = <<[e[1] EXCEPT !.ver = clientVer + 1]>>
        ELSE UNCHANGED requests
  BY DEF ErasePlugin
<1>6. unloading \in DOMAIN list /\ unloading \in 1..Len(list)
  BY <1>1, <1>2, ListElements DEF ListTypes
<1>7. /\ rest \in Seq(Entries) /\ Len(rest) = Len(list) - 1
      /\ DOMAIN rest = 1..Len(rest)
  BY <1>1, <1>6, RestElements, ElementsOf
<1>8. next \in 0..Len(rest) /\ Len(rest) \in Nat
  BY <1>6, <1>7
<1> HIDE DEF rest, next
<1>9. ASSUME next > 0 /\ rest[next].ok
      PROVE  TrailInv' /\ requests' \in Seq(Requests)
  <2> DEFINE r == [type |-> "Edit", a |-> next, b |-> 0, id |-> rest[next].id,
                   ver |-> clientVer + 1, stale |-> stale]
  <2>1. rest[next] \in Entries
    BY <1>7, <1>8, <1>9
  <2>2. next \in Nat /\ rest[next].id \in Nat
    BY <1>8, <2>1 DEF Entries
  <2>3. /\ r \in Requests /\ r.type = "Edit"
        /\ r.a = next /\ r.id = rest[next].id
    BY <1>1, <2>2 DEF ListTypes, Requests
  <2>4. requests' = <<r>>
    BY <1>5, <1>9 DEF EditRequest
  <2> HIDE DEF r
  <2>5. requests' = Append(requests, r)
    BY <1>2, <2>4
  <2>6. LeadsTo(r, Ahead, Ahead')
    BY <1>3, <2>3 DEF LeadsTo
  <2>7. Finds(r, Ahead)
    <3>1. Ahead.ids = Ids(list')
      BY <1>3, NextVersions DEF ListInv
    <3>2. list' = rest
      BY DEF ErasePlugin, rest
    <3>3. next \in DOMAIN Ids(rest) /\ Ids(rest)[next] = rest[next].id
      BY <1>7, <1>8, <1>9, IdsElements
    <3> QED
      BY <2>3, <3>1, <3>2, <3>3 DEF Finds
  <2> QED
    BY <1>1, <1>3, <1>4, <2>3, <2>5, <2>6, <2>7, TrailSend DEF ListInv
<1>10. ASSUME ~(next > 0 /\ rest[next].ok)
       PROVE  TrailInv' /\ requests' \in Seq(Requests)
  <2>1. requests' = <<>> /\ Served' = Ahead'
    BY <1>1, <1>2, <1>3, <1>4, <1>5, <1>10, TrailEmpty
  <2> QED
    BY <1>3, <2>1, TrailFresh DEF ListInv
<1>11. TrailInv' /\ requests' \in Seq(Requests)
  BY <1>9, <1>10
<1> QED
  BY <1>2, <1>3, <1>4, <1>11, Assembled, RenewsMoves, WrongKept
     DEF NotesKept, FunctorsKept

LEMMA SlotActionsInv ==
  ASSUME IndexInv, NEW i \in DOMAIN list,
         EnableAutomation(i) \/ DisableAutomation(i)
  PROVE  IndexInv'
<1>1. /\ ListInv /\ ListTypes /\ ChainInv /\ QueueTypes /\ TrailInv
      /\ requests \in Seq(Requests) /\ SlotInv
  BY IndexParts DEF QueueTypes
<1>2. /\ UNCHANGED <<active, unloading, functors, requests, notes, server,
                     clientVer, serverVer, activeId, stale, wrong, loads>>
      /\ unloading = 0
  BY DEF EnableAutomation, DisableAutomation, Call, Free
<1>3. SlotsOK
  <2>1. CASE EnableAutomation(i)
    <3>1. PICK s \in 1..Slots : param[s] = 0 /\ Take(s, i)
      BY <2>1 DEF EnableAutomation
    <3>2. list[i].slot = 0
      BY <2>1 DEF EnableAutomation
    <3> QED
      BY <1>1, <3>1, <3>2, TakenSlot
  <2>2. CASE DisableAutomation(i)
    BY <1>1, <2>2, ReleasedSlot DEF DisableAutomation
  <2> QED
    BY <2>1, <2>2
<1>4. 0 \in 0..Len(list)
  BY <1>1, ListElements
<1>5. ListInv'
  BY <1>1, <1>2, <1>3, <1>4, SlotsKept
<1>6. Now' = Now /\ Ahead' = Ahead /\ Renews
  BY <1>1, <1>2, <1>3, <1>5, SameNames DEF SlotsOK, ListInv
<1>7. ChainInv' /\ Served' = Served
  BY <1>1, <1>2, ChainKept
<1>8. TrailInv' /\ requests' \in Seq(Requests)
  BY <1>1, <1>2, <1>5, <1>6, <1>7, TrailStays DEF ListInv
<1> QED
  BY <1>2, <1>5, <1>6, <1>7, <1>8, Assembled, RenewsMoves, WrongKept
     DEF NotesKept, FunctorsKept

(* Steps that change neither list nor chain.                               *)
LEMMA QuietStep ==
  ASSUME IndexInv,
         UNCHANGED <<list, param, unloading, clientVer, stale, loads, server,
                     serverVer>>,
         ActiveKept, NotesKept, FunctorsKept, WrongGrows,
         requests' = requests \/ \E msgs : Plain(msgs) /\ Ask(msgs)
  PROVE  IndexInv'
<1>1. /\ ListInv /\ ListTypes /\ ChainInv /\ QueueTypes /\ TrailInv
      /\ list \in Seq(Entries) /\ requests \in Seq(Requests)
  BY IndexParts DEF ListTypes, QueueTypes
<1>2. ListInv' /\ Now' = Now /\ Ahead' = Ahead /\ Renews
  BY <1>1, ListKept
<1>3. ChainInv' /\ Served' = Served
  BY <1>1, ChainKept
<1>4. TrailInv' /\ requests' \in Seq(Requests)
  <2>1. CASE requests' = requests
    BY <1>1, <1>2, <1>3, <2>1, TrailStays DEF ListInv
  <2>2. ASSUME NEW msgs, Plain(msgs), Ask(msgs)
        PROVE  TrailInv' /\ requests' \in Seq(Requests)
    BY <1>2, <1>3, <2>2, PlainAsked DEF ListInv
  <2> QED
    BY <2>1, <2>2
<1> QED
  BY <1>2, <1>3, <1>4, Assembled, RenewsMoves

(* The place of a plugin of the list says which one it is.                 *)
LEMMA PlaceDenotes ==
  ASSUME ListTypes, Free, NEW i \in DOMAIN list
  PROVE  Denotes(clientVer, i, list[i].id)
<1>1. Ahead = Now /\ Now.ver = clientVer /\ Now.ids = Ids(list)
  BY ListVersions DEF Free
<1>2. i \in DOMAIN Ids(list) /\ Ids(list)[i] = list[i].id
  BY IdsElements DEF ListTypes
<1>3. clientVer <= clientVer
  BY DEF ListTypes
<1> QED
  BY <1>1, <1>2, <1>3 DEF Denotes

LEMMA ChangeValueInv ==
  ASSUME IndexInv, NEW i \in DOMAIN list, ChangeValue(i)
  PROVE  IndexInv'
<1> DEFINE f == Functor("update", i, list[i].id,
                        [ver |-> clientVer, stale |-> stale])
<1>1. ListTypes /\ i \in Nat /\ list[i].id \in Nat
  BY IndexParts, ListElements
<1>2. /\ functors' = Append(functors, f) /\ Free
      /\ UNCHANGED <<list, param, active, unloading, requests, notes, server,
                     clientVer, serverVer, activeId, stale, wrong, loads>>
  BY DEF ChangeValue, Call, Post, clientSide
<1>3. /\ f \in Functors /\ f.type = "update" /\ f.ver = clientVer
      /\ f.idx = i /\ f.id = list[i].id
  BY <1>1 DEF Functor, Functors, Values, ListTypes
<1> HIDE DEF f
<1>4. FunctorMeans(f)
  BY <1>1, <1>2, <1>3, PlaceDenotes DEF FunctorMeans
<1> QED
  BY <1>2, <1>3, <1>4, QuietStep, WrongKept
     DEF ActiveKept, NotesKept, FunctorsKept

(* The functor that runs.                                                  *)
LEMMA HeadFunctor ==
  ASSUME IndexInv, functors # <<>>
  PROVE  Head(functors) \in Functors /\ FunctorMeans(Head(functors))
<1>1. functors \in Seq(Functors) /\ FunctorsMean
  BY IndexParts DEF QueueTypes
<1>2. /\ Head(functors) = functors[1] /\ Head(functors) \in Functors
      /\ Len(functors) \in Nat \ {0}
  BY <1>1, TailElements
<1>3. 1 \in 1..Len(functors)
  BY <1>2
<1>4. FunctorMeans(functors[1])
  BY <1>1, <1>3 DEF FunctorsMean
<1> QED
  BY <1>2, <1>4 DEF FunctorMeans

LEMMA SkipUpdateInv ==
  ASSUME IndexInv, SkipUpdate
  PROVE  IndexInv'
<1>1. /\ functors # <<>> /\ functors' = Tail(functors)
      /\ UNCHANGED <<list, param, active, unloading, requests, notes, server,
                     clientVer, serverVer, activeId, stale, wrong, loads>>
  BY DEF SkipUpdate, Handled, clientSide, counters
<1> QED
  BY <1>1, QuietStep, WrongKept DEF ActiveKept, NotesKept, FunctorsKept

LEMMA HideFromServerInv ==
  ASSUME IndexInv, HideFromServer
  PROVE  IndexInv'
<1>1. /\ functors # <<>> /\ functors' = Tail(functors)
      /\ active' = 0 /\ activeId' = 0
      /\ UNCHANGED <<list, param, unloading, requests, notes, server,
                     clientVer, serverVer, stale, wrong, loads>>
  BY DEF HideFromServer, Handled, counters
<1> QED
  BY <1>1, QuietStep, WrongKept DEF ActiveKept, NotesKept, FunctorsKept

(* A value that meets the version it was meant for comes to its plugin.    *)
LEMMA ArrivesRight ==
  ASSUME NEW id, NEW got, NEW f, NEW ver, f.stale \in BOOLEAN,
         Arrives(id, got, f, ver),
         f.stale \/ f.ver # ver \/ got = id
  PROVE  WrongGrows
<1>1. CASE got = id
  BY <1>1 DEF Arrives, WrongGrows
<1>2. CASE got # id
  <2> DEFINE w == [crossed |-> f.ver # ver, stale |-> f.stale]
  <2>1. /\ w \in [crossed : BOOLEAN, stale : BOOLEAN]
        /\ w.crossed = (f.ver # ver) /\ w.stale = f.stale
    OBVIOUS
  <2>2. wrong' = wrong \cup {w}
    BY <1>2 DEF Arrives
  <2> HIDE DEF w
  <2>3. w.crossed \/ w.stale
    BY <1>2, <2>1
  <2> QED
    BY <2>1, <2>2, <2>3 DEF WrongGrows
<1> QED
  BY <1>1, <1>2

LEMMA DenotesNow ==
  ASSUME ListTypes, NEW ver, ver = clientVer, NEW i, NEW id, Denotes(ver, i, id)
  PROVE  i \in DOMAIN list /\ i \in 1..Len(list) /\ list[i].id = id
<1>1. Now.ver = clientVer /\ Now.ids = Ids(list)
  BY ListVersions
<1>2. i \in DOMAIN Ids(list) /\ Ids(list)[i] = id
  BY <1>1 DEF Denotes
<1>3. /\ DOMAIN Ids(list) = 1..Len(list) /\ DOMAIN list = 1..Len(list)
      /\ \A j \in 1..Len(list) : Ids(list)[j] = list[j].id
  BY IdsElements DEF ListTypes
<1> QED
  BY <1>2, <1>3

LEMMA SetAsks ==
  ASSUME NEW a \in Nat, NEW f, f.id \in Nat, f.ver \in Nat, f.stale \in BOOLEAN,
         f.stale \/ Denotes(f.ver, a, f.id)
  PROVE  Plain(<<SetRequest(a, f)>>)
<1> DEFINE r == SetRequest(a, f)
<1>1. /\ r \in Requests /\ r.type = "Set" /\ r.a = a /\ r.id = f.id
      /\ r.ver = f.ver /\ r.stale = f.stale
  BY DEF SetRequest, Requests
<1> HIDE DEF r
<1>2. Finds(r, Ahead)
  BY <1>1 DEF Finds, Denotes
<1>3. Plain(<<r>>)
  BY <1>1, <1>2 DEF Plain
<1> QED
  BY <1>3 DEF r

(* The slot that a value goes through is that of its plugin.               *)
LEMMA UpdateValueInv ==
  ASSUME IndexInv, UpdateValue
  PROVE  IndexInv'
<1> DEFINE f == Head(functors)
           s == list[f.idx].slot
           set == s > 0 /\ param[s] > 0 /\ param[s] <= Len(list)
           g == Functor("set", s, f.id,
                        [ver |-> f.ver, stale |-> f.stale \/ stale])
<1>1. /\ ListTypes /\ SlotsAgree /\ SlotInv /\ QueueTypes
      /\ functors \in Seq(Functors)
  BY IndexParts DEF QueueTypes
<1>2. /\ functors # <<>> /\ f.type \in {"value", "update"}
      /\ f.idx \in DOMAIN list
      /\ Arrives(f.id, list[f.idx].id, f, clientVer)
      /\ functors' = Tail(functors) \o (IF set THEN <<g>> ELSE <<>>)
      /\ requests' = requests \/ Ask(<<SetRequest(f.idx, f)>>)
      /\ UNCHANGED <<list, param, active, unloading, notes, server, clientVer,
                     serverVer, activeId, stale, loads>>
  BY DEF UpdateValue, OutOfRange, clientSide, counters
<1>3. f \in Functors /\ FunctorMeans(f)
  BY <1>2, HeadFunctor
<1>4. f \in Values
  BY <1>2, <1>3 DEF Functors, Settings, Bindings
<1>5. /\ f.idx \in Nat /\ f.id \in Nat /\ f.ver \in Nat /\ f.stale \in BOOLEAN
      /\ f.stale \/ Denotes(f.ver, f.idx, f.id)
  BY <1>2, <1>3, <1>4 DEF Values, FunctorMeans
<1>6. Tail(functors) \in Seq(Functors)
  BY <1>1, <1>2, TailElements
<1>7. /\ s \in 0..Slots /\ stale \in BOOLEAN /\ param \in [1..Slots -> 0..loads]
      /\ loads \in Nat
  BY <1>1, <1>2, ListElements DEF ListTypes
<1> HIDE DEF f
<1>8. WrongGrows
  <2>1. f.stale \/ f.ver # clientVer \/ list[f.idx].id = f.id
    BY <1>1, <1>5, DenotesNow
  <2> QED
    BY <1>2, <1>5, <2>1, ArrivesRight
<1>9. ASSUME set
      PROVE  g \in Functors /\ FunctorMeans(g)
  <2>1. s \in 1..Slots /\ param[s] \in Nat
    BY <1>7, <1>9
  <2>2. f.stale \/ stale \in BOOLEAN
    BY <1>5, <1>7
  <2>3. /\ g \in Settings /\ g.type = "set" /\ g.ver = f.ver /\ g.id = f.id
        /\ g.stale = (f.stale \/ stale) /\ g.was = param[s]
    BY <1>5, <2>1, <2>2 DEF Functor, Settings
  <2>4. ~stale => param[s] = f.idx
    BY <1>1, <1>2, <2>1 DEF SlotsAgree
  <2> HIDE DEF g
  <2>5. g.stale \/ Denotes(g.ver, g.was, g.id)
    BY <1>5, <1>7, <2>3, <2>4
  <2> QED
    BY <2>3, <2>5 DEF Functors, FunctorMeans
<1>10. FunctorsKept
  <2>1. CASE set
    <3>1. functors' = Append(Tail(functors), g)
      BY <1>2, <1>6, <2>1
    <3> QED
      BY <1>2, <1>9, <2>1, <3>1 DEF FunctorsKept
  <2>2. CASE ~set
    <3>1. functors' = Tail(functors)
      BY <1>2, <1>6, <2>2
    <3> QED
      BY <1>2, <3>1 DEF FunctorsKept
  <2> QED
    BY <2>1, <2>2
<1>11. Plain(<<SetRequest(f.idx, f)>>)
  BY <1>5, SetAsks
<1> QED
  BY <1>2, <1>8, <1>10, <1>11, QuietStep DEF ActiveKept, NotesKept

LEMMA SetValueInv ==
  ASSUME IndexInv, SetValue
  PROVE  IndexInv'
<1> DEFINE f == Head(functors)
           off == f.stale \/ stale \/ param[f.idx] # f.was
           g == [f EXCEPT !.stale = off]
<1>1. ListTypes
  BY IndexParts
<1>2. /\ functors # <<>> /\ f.type = "set" /\ functors' = Tail(functors)
      /\ Ask(<<SetRequest(param[f.idx], g)>>)
      /\ UNCHANGED <<list, param, active, unloading, notes, server, clientVer,
                     serverVer, activeId, stale, wrong, loads>>
  BY DEF SetValue, Handled, clientSide, counters
<1>3. f \in Functors /\ FunctorMeans(f)
  BY <1>2, HeadFunctor
<1>4. f \in Settings
  BY <1>2, <1>3 DEF Functors, Values, Bindings
<1>5. /\ f.idx \in 1..Slots /\ f.id \in Nat /\ f.ver \in Nat
      /\ f.stale \in BOOLEAN
      /\ f.stale \/ Denotes(f.ver, f.was, f.id)
  BY <1>2, <1>3, <1>4 DEF Settings, FunctorMeans
<1>6. param[f.idx] \in Nat /\ stale \in BOOLEAN
  BY <1>1, <1>5 DEF ListTypes
<1>7. off \in BOOLEAN
  BY <1>5, <1>6
<1>8. off \/ (~f.stale /\ param[f.idx] = f.was)
  OBVIOUS
<1> HIDE DEF off
<1>9. g.id = f.id /\ g.ver = f.ver /\ g.stale = off
  BY <1>4 DEF Settings
<1> HIDE DEF f, g
<1>10. Plain(<<SetRequest(param[f.idx], g)>>)
  BY <1>5, <1>6, <1>7, <1>8, <1>9, SetAsks
<1> QED
  BY <1>2, <1>10, QuietStep, WrongKept DEF ActiveKept, NotesKept, FunctorsKept

LEMMA BindInv ==
  ASSUME IndexInv, Bind
  PROVE  IndexInv'
<1> DEFINE f == Head(functors)
           inRange == {b \in f.idx : b.i \in DOMAIN list}
           w == [crossed |-> f.ver # clientVer, stale |-> FALSE]
<1>1. /\ ListInv /\ ListTypes /\ ChainInv /\ QueueTypes /\ TrailInv
      /\ requests \in Seq(Requests)
  BY IndexParts DEF QueueTypes
<1>2. /\ functors # <<>> /\ functors' = Tail(functors) /\ f.type = "bind"
      /\ wrong' = IF inRange = f.idx THEN wrong ELSE wrong \cup {w}
      /\ Free
      /\ UNCHANGED <<notes, server, serverVer, loads>>
  BY DEF Bind, Handled, counters
<1>3. \/ active > 0 /\ Ask(EditRequest(active, list[active]))
      \/ requests' = requests
  BY DEF Bind
<1>4. ListInv' /\ Now' = Now /\ Ahead' = Ahead /\ Renews
  BY <1>1, BoundList
<1>5. ChainInv' /\ Served' = Served
  BY <1>1, <1>2, ChainKept
<1>6. TrailInv' /\ requests' \in Seq(Requests)
  <2>1. CASE requests' = requests
    BY <1>1, <1>4, <1>5, <2>1, TrailStays DEF ListInv
  <2>2. CASE active > 0 /\ Ask(EditRequest(active, list[active]))
    <3>1. active \in DOMAIN list
      BY <1>1, <2>2, ListElements DEF ListTypes
    <3>2. Plain(EditRequest(active, list[active]))
      BY <1>1, <1>2, <3>1, EditAsks
    <3> QED
      BY <1>4, <1>5, <2>2, <3>2, PlainAsked DEF ListInv
  <2> QED
    BY <1>3, <2>1, <2>2
<1>7. FunctorMeans(f)
  BY <1>2, HeadFunctor
<1> HIDE DEF f
<1>8. inRange = f.idx \/ f.ver # clientVer
  <2> SUFFICES ASSUME f.ver = clientVer, NEW b \in f.idx
               PROVE  b.i \in DOMAIN list
    OBVIOUS
  <2>1. PICK id \in Nat : Denotes(f.ver, b.i, id)
    BY <1>2, <1>7 DEF FunctorMeans
  <2> QED
    BY <1>1, <2>1, DenotesNow
<1>9. WrongGrows
  <2>1. CASE inRange = f.idx
    BY <1>2, <2>1 DEF WrongGrows
  <2>2. CASE inRange # f.idx
    <3>1. w \in [crossed : BOOLEAN, stale : BOOLEAN] /\ w.crossed
      BY <1>8, <2>2
    <3>2. wrong' = wrong \cup {w}
      BY <1>2, <2>2
    <3> HIDE DEF w
    <3> QED
      BY <3>1, <3>2 DEF WrongGrows
  <2> QED
    BY <2>1, <2>2
<1> QED
  BY <1>2, <1>4, <1>5, <1>6, <1>9, Assembled, RenewsMoves
     DEF NotesKept, FunctorsKept

LEMMA HeadNote ==
  ASSUME IndexInv, notes # <<>>
  PROVE  Head(notes) \in Notices /\ NoteMeans(Head(notes))
<1>1. notes \in Seq(Notices) /\ NotesMean
  BY IndexParts DEF QueueTypes
<1>2. /\ Head(notes) = notes[1] /\ Head(notes) \in Notices
      /\ Len(notes) \in Nat \ {0}
  BY <1>1, TailElements
<1>3. 1 \in 1..Len(notes)
  BY <1>2
<1>4. NoteMeans(notes[1])
  BY <1>1, <1>3 DEF NotesMean
<1> QED
  BY <1>2, <1>4 DEF NoteMeans

LEMMA ReceiveInv ==
  ASSUME IndexInv, Receive
  PROVE  IndexInv'
<1> DEFINE n == Head(notes)
<1>1. /\ ListInv /\ ListTypes /\ ChainInv /\ QueueTypes /\ TrailInv
      /\ requests \in Seq(Requests) /\ list \in Seq(Entries)
  BY IndexParts DEF QueueTypes, ListTypes
<1>2. /\ notes # <<>> /\ notes' = Tail(notes)
      /\ UNCHANGED <<param, active, unloading, requests, server, clientVer,
                     serverVer, activeId, stale, loads>>
  BY DEF Receive, counters
<1>3. \/ /\ n.type = "value" /\ Post(Functor("value", n.idx, n.id, n))
         /\ UNCHANGED <<list, wrong>>
      \/ /\ n.type = "status" /\ n.idx \in DOMAIN list
         /\ list' = [list EXCEPT ![n.idx].ok = ~@]
         /\ Arrives(n.id, list[n.idx].id, n, clientVer)
         /\ UNCHANGED functors
      \/ UNCHANGED <<list, wrong, functors>>
      \/ /\ Post(Functor("hide", n.idx, n.id, n))
         /\ UNCHANGED <<list, wrong>>
  BY DEF Receive
<1>4. n \in Notices /\ NoteMeans(n)
  BY <1>2, HeadNote
<1> HIDE DEF n
<1>5. /\ n.idx \in Nat /\ n.id \in Nat /\ n.ver \in Nat /\ n.stale \in BOOLEAN
      /\ n.type = "hide" \/ n.stale \/ Denotes(n.ver, n.idx, n.id)
  BY <1>4 DEF Notices, NoteMeans
<1>6. ASSUME NEW t \in {"value", "hide"}
      PROVE  /\ Functor(t, n.idx, n.id, n) \in Functors
             /\ Functor(t, n.idx, n.id, n).type = t
             /\ Functor(t, n.idx, n.id, n).ver = n.ver
             /\ Functor(t, n.idx, n.id, n).idx = n.idx
             /\ Functor(t, n.idx, n.id, n).id = n.id
             /\ Functor(t, n.idx, n.id, n).stale = n.stale
  BY <1>5 DEF Functor, Functors, Values
<1>7. CASE n.type = "value" /\ Post(Functor("value", n.idx, n.id, n))
           /\ UNCHANGED <<list, wrong>>
  <2>1. FunctorMeans(Functor("value", n.idx, n.id, n))
    BY <1>5, <1>6, <1>7 DEF FunctorMeans
  <2>2. FunctorsKept
    BY <1>6, <1>7, <2>1 DEF FunctorsKept, Post
  <2> QED
    BY <1>2, <1>7, <2>2, QuietStep, WrongKept DEF ActiveKept, NotesKept
<1>8. CASE Post(Functor("hide", n.idx, n.id, n)) /\ UNCHANGED <<list, wrong>>
  <2>1. FunctorMeans(Functor("hide", n.idx, n.id, n))
    BY <1>6 DEF FunctorMeans
  <2>2. FunctorsKept
    BY <1>6, <1>8, <2>1 DEF FunctorsKept, Post
  <2> QED
    BY <1>2, <1>8, <2>2, QuietStep, WrongKept DEF ActiveKept, NotesKept
<1>9. CASE UNCHANGED <<list, wrong, functors>>
  BY <1>2, <1>9, QuietStep, WrongKept DEF ActiveKept, NotesKept, FunctorsKept
<1>10. CASE /\ n.type = "status" /\ n.idx \in DOMAIN list
            /\ list' = [list EXCEPT ![n.idx].ok = ~@]
            /\ Arrives(n.id, list[n.idx].id, n, clientVer)
            /\ UNCHANGED functors
  <2>1. /\ n.idx \in DOMAIN list /\ DOMAIN list = 1..Len(list)
        /\ list[n.idx] \in Entries
    BY <1>1, <1>10, ListElements
  <2> DEFINE e == [list[n.idx] EXCEPT !.ok = ~@]
  <2>2. /\ e \in Entries /\ e.id = list[n.idx].id /\ e.slot = list[n.idx].slot
    BY <2>1 DEF Entries
  <2>3. list' = [list EXCEPT ![n.idx] = e]
    BY <1>10
  <2> HIDE DEF e
  <2>4. /\ list' \in Seq(Entries) /\ Len(list') = Len(list)
        /\ \A i \in 1..Len(list) :
             list'[i].id = list[i].id /\ list'[i].slot = list[i].slot
    BY <1>1, <2>1, <2>2, <2>3
  <2>5. ListInv' /\ Now' = Now /\ Ahead' = Ahead /\ Renews
    BY <1>1, <1>2, <2>4, ListKept DEF ActiveKept
  <2>6. ChainInv' /\ Served' = Served
    BY <1>1, <1>2, ChainKept
  <2>7. TrailInv' /\ requests' \in Seq(Requests)
    BY <1>1, <1>2, <2>5, <2>6, TrailStays DEF ListInv
  <2>8. WrongGrows
    <3>1. n.stale \/ n.ver # clientVer \/ list[n.idx].id = n.id
      BY <1>1, <1>5, <1>10, DenotesNow
    <3> QED
      BY <1>5, <1>10, <3>1, ArrivesRight
  <2> QED
    BY <1>2, <1>10, <2>5, <2>6, <2>7, <2>8, Assembled, RenewsMoves
       DEF NotesKept, FunctorsKept
<1> QED
  BY <1>3, <1>7, <1>8, <1>9, <1>10

(* A new session: the list is loaded into an empty chain.                  *)
LEMMA NewSessionInv ==
  ASSUME IndexInv, NewSession
  PROVE  IndexInv'
<1> DEFINE f == [type |-> "bind", id |-> 0, ver |-> clientVer, stale |-> FALSE,
                 idx |-> Automated]
<1>1. /\ ListInv /\ ListTypes /\ list \in Seq(Entries)
  BY IndexParts DEF ListTypes
<1>2. /\ Free /\ requests' = <<>> /\ notes' = <<>>
      /\ chain' = [i \in DOMAIN list |-> Processor(list[i].id, i)]
      /\ list' = [i \in DOMAIN list |-> [list[i] EXCEPT !.ok = TRUE]]
      /\ editor' = 0 /\ window' = NoWindow /\ serverVer' = clientVer
      /\ functors' = Append(functors, f)
      /\ UNCHANGED <<param, active, unloading, clientVer, activeId, stale,
                     wrong, loads>>
  BY DEF NewSession, Post
<1>3. /\ DOMAIN list = 1..Len(list) /\ Len(list) \in Nat
      /\ \A i \in 1..Len(list) :
           /\ list[i] \in Entries /\ list[i].id \in Nat
           /\ list[i].slot \in 0..Slots
  BY <1>1, ListElements
<1>4. \A e \in Entries : /\ [e EXCEPT !.ok = TRUE] \in Entries
                         /\ [e EXCEPT !.ok = TRUE].id = e.id
                         /\ [e EXCEPT !.ok = TRUE].slot = e.slot
  BY DEF Entries
<1>5. /\ \A i \in 1..Len(list) : /\ list'[i] \in Entries
                                 /\ list'[i].id = list[i].id
                                 /\ list'[i].slot = list[i].slot
      /\ list' = [i \in 1..Len(list) |-> list'[i]]
  BY <1>2, <1>3, <1>4
<1>6. list' \in Seq(Entries) /\ Len(list') = Len(list)
  <2>1. [i \in 1..Len(list) |-> list'[i]] \in Seq(Entries)
    BY <1>3, <1>5
  <2>2. Len([i \in 1..Len(list) |-> list'[i]]) = Len(list)
    BY <1>3, <2>1
  <2> QED
    BY <1>5, <2>1, <2>2
<1>7. ListInv' /\ Now' = Now /\ Ahead' = Ahead /\ Renews
  BY <1>1, <1>2, <1>5, <1>6, ListKept DEF ActiveKept
<1>8. \A i \in 1..Len(list) :
        /\ Processor(list[i].id, i) \in Processors
        /\ Processor(list[i].id, i).id = list[i].id
        /\ Processor(list[i].id, i).idx = i
  BY <1>3 DEF Processor, Processors
<1>9. /\ \A i \in 1..Len(list) : chain'[i] = Processor(list[i].id, i)
      /\ chain' = [i \in 1..Len(list) |-> chain'[i]]
  BY <1>2, <1>3
<1>10. chain' \in Seq(Processors) /\ Len(chain') = Len(list)
  <2>1. [i \in 1..Len(list) |-> chain'[i]] \in Seq(Processors)
    BY <1>3, <1>8, <1>9
  <2>2. Len([i \in 1..Len(list) |-> chain'[i]]) = Len(list)
    BY <1>3, <2>1
  <2> QED
    BY <1>9, <2>1, <2>2
<1>11. ChainInv'
  <2>1. Len(list) <= loads /\ loads \in Nat /\ clientVer \in Nat
    BY <1>1 DEF ListTypes
  <2>2. NoWindow \in Windows /\ 0 \in 0..loads
    BY <2>1 DEF NoWindow, Windows
  <2>3. ChainTypes'
    BY <1>2, <1>10, <2>1, <2>2 DEF ChainTypes
  <2>4. DOMAIN chain' = 1..Len(list)
    BY <1>10, ElementsOf
  <2>5. PlaceInv'
    BY <1>8, <1>9, <2>4 DEF PlaceInv
  <2> QED
    BY <2>3, <2>5 DEF ChainInv
<1>12. Served' = Ahead'
  <2>1. /\ Ids(list) \in Seq(Nat) /\ Len(Ids(list)) = Len(list)
        /\ \A i \in 1..Len(list) : Ids(list)[i] = list[i].id
    BY <1>1, IdsElements
  <2>2. /\ Ids(chain') \in Seq(Nat) /\ Len(Ids(chain')) = Len(chain')
        /\ \A i \in 1..Len(chain') : Ids(chain')[i] = chain'[i].id
    BY <1>10, IdsElements
  <2>3. Ids(chain') = Ids(list)
    <3>1. Len(Ids(chain')) = Len(list)
      BY <1>10, <2>2
    <3>2. \A i \in 1..Len(list) : Ids(chain')[i] = Ids(list)[i]
      BY <1>8, <1>9, <1>10, <2>1, <2>2
    <3> QED
      BY <2>1, <2>2, <3>1, <3>2, IdsEqual
  <2>4. Ahead' = Now
    BY <1>1, <1>2, <1>7, ListVersions DEF Free
  <2> QED
    BY <1>2, <2>3, <2>4 DEF Served, Now, Version
<1>13. TrailInv' /\ requests' \in Seq(Requests)
  BY <1>2, <1>7, <1>12, TrailFresh DEF ListInv
<1>14. f \in Functors /\ FunctorMeans(f)
  <2>1. \A b \in Automated :
          /\ b \in [i : Nat, s : 1..Slots]
          /\ b.i \in DOMAIN list
    BY <1>3 DEF Automated
  <2>2. f \in Functors
    <3>1. Automated \in SUBSET [i : Nat, s : 1..Slots]
      BY <2>1
    <3>2. clientVer \in Nat
      BY <1>1 DEF ListTypes
    <3>3. f \in Bindings
      BY <3>1, <3>2 DEF Bindings
    <3> QED
      BY <3>3 DEF Functors
  <2>3. \A b \in Automated : \E id \in Nat : Denotes(clientVer, b.i, id)
    BY <1>1, <1>2, <1>3, <2>1, PlaceDenotes
  <2> QED
    BY <2>2, <2>3 DEF FunctorMeans
<1> HIDE DEF f
<1>15. FunctorsKept
  BY <1>2, <1>14 DEF FunctorsKept
<1> QED
  BY <1>2, <1>7, <1>11, <1>13, <1>15, Assembled, RenewsMoves, WrongKept
     DEF NotesKept

-----------------------------------------------------------------------------
(* The worker.                                                             *)

LEMMA ChainElements ==
  ASSUME ChainTypes
  PROVE  /\ DOMAIN chain = 1..Len(chain) /\ Len(chain) \in Nat
         /\ chain \in Seq(Processors)
         /\ \A j \in 1..Len(chain) :
              /\ chain[j] \in Processors /\ chain[j].id \in Nat
              /\ chain[j].idx \in Nat /\ chain[j].behind \in BOOLEAN
<1>1. chain \in Seq(Processors)
  BY DEF ChainTypes
<1>2. \A e \in Processors :
        e.id \in Nat /\ e.idx \in Nat /\ e.behind \in BOOLEAN
  BY DEF Processors
<1> QED
  BY <1>1, <1>2, ElementsOf

LEMMA ServedFacts ==
  ASSUME ChainTypes
  PROVE  /\ Served.ids = Ids(chain) /\ Served.ver = serverVer
         /\ Ids(chain) \in Seq(Nat) /\ Len(Ids(chain)) = Len(chain)
         /\ DOMAIN Ids(chain) = 1..Len(chain)
         /\ \A j \in 1..Len(chain) : Ids(chain)[j] = chain[j].id
<1>1. chain \in Seq(Processors)
  BY DEF ChainTypes
<1> QED
  BY <1>1, IdsElements DEF Served, Version

(* A request that was handled.                                             *)
LEMMA HandledStep ==
  ASSUME IndexInv, NEW type, Handle(type), ChainInv', WrongGrows,
         \A y \in Lists : LeadsTo(Head(requests), Served, y) => Served' = y
  PROVE  IndexInv'
<1>1. /\ ListInv /\ ListTypes /\ QueueTypes /\ TrailInv /\ list \in Seq(Entries)
  BY IndexParts DEF ListTypes
<1>2. /\ requests # <<>> /\ requests' = Tail(requests)
      /\ UNCHANGED <<list, param, active, unloading, functors, notes,
                     clientVer, activeId, stale, loads>>
  BY DEF Handle, clientSide, counters
<1>3. ListInv' /\ Now' = Now /\ Ahead' = Ahead /\ Renews
  BY <1>1, <1>2, ListKept DEF ActiveKept
<1>4. TrailInv' /\ requests' \in Seq(Requests)
  BY <1>1, <1>2, <1>3, TrailHandle DEF ListInv
<1> QED
  BY <1>2, <1>3, <1>4, Assembled, RenewsMoves DEF NotesKept, FunctorsKept

LEMMA HandleOthersInv ==
  ASSUME IndexInv, HandleEdit \/ HandleHide \/ HandleSet
  PROVE  IndexInv'
<1> DEFINE r == Head(requests)
<1>1. /\ ChainInv /\ ChainTypes /\ PlaceInv /\ QueueTypes /\ TrailInv
  BY IndexParts
<1>2. PICK type \in {"Edit", "Hide", "Set"} : Handle(type)
  BY DEF HandleEdit, HandleHide, HandleSet
<1>3. /\ requests # <<>> /\ r.type \notin {"Exchange", "Del"} /\ loads' = loads
  BY <1>2 DEF Handle, counters
<1>4. UNCHANGED <<chain, serverVer>>
  BY DEF HandleEdit, HandleHide, HandleSet
<1>5. r \in Requests /\ Finds(r, Served)
  BY <1>1, <1>3, TrailHead
<1>6. Served' = Served
  BY <1>4 DEF Served
<1> HIDE DEF r
<1>7. \A y \in Lists : LeadsTo(r, Served, y) => Served' = y
  BY <1>3, <1>6 DEF LeadsTo
<1>8. editor' \in 0..loads /\ window' \in Windows
  <2>1. editor \in 0..loads /\ window \in Windows /\ loads \in Nat
    BY IndexParts DEF ChainTypes, ListTypes
  <2>2. NoWindow \in Windows /\ 0 \in 0..loads
    BY <2>1 DEF NoWindow, Windows
  <2>3. CASE HandleEdit
    <3>1. CASE UNCHANGED <<editor, window>>
      BY <2>1, <3>1
    <3>2. CASE r.a \in DOMAIN chain /\ editor' = r.a
               /\ \/ window' = window
                  \/ window' = [id |-> chain[r.a].id, idx |-> r.a]
      <4>1. /\ r.a \in 1..Len(chain)
            /\ Len(chain) <= loads /\ Len(chain) \in Nat
            /\ chain[r.a].id \in Nat
        BY <1>1, <3>2, ChainElements DEF ChainTypes
      <4>2. [id |-> chain[r.a].id, idx |-> r.a] \in Windows
        BY <4>1 DEF Windows
      <4> QED
        BY <2>1, <3>2, <4>1, <4>2
    <3> QED
      BY <2>3, <3>1, <3>2 DEF HandleEdit, r
  <2>4. CASE HandleHide
    BY <2>1, <2>2, <2>4 DEF HandleHide
  <2>5. CASE HandleSet
    BY <2>1, <2>5 DEF HandleSet
  <2> QED
    BY <2>3, <2>4, <2>5
<1>9. ChainInv'
  BY <1>1, <1>3, <1>4, <1>8 DEF ChainInv, ChainTypes, PlaceInv
<1>10. WrongGrows
  <2>1. CASE wrong' = wrong
    BY <2>1, WrongKept
  <2>2. CASE /\ HandleSet /\ r.a \in DOMAIN chain
             /\ Arrives(r.id, chain[r.a].id, r, serverVer)
    <3>1. r.type = "Set" /\ r.stale \in BOOLEAN
      BY <1>5, <2>2 DEF HandleSet, Handle, Requests, r
    <3>2. r.a \in DOMAIN Ids(chain) /\ Ids(chain)[r.a] = chain[r.a].id
      BY <1>1, <2>2, ChainElements, ServedFacts
    <3>3. r.stale \/ r.ver # serverVer \/ chain[r.a].id = r.id
      BY <1>1, <1>5, <3>1, <3>2, ServedFacts DEF Finds
    <3> QED
      BY <2>2, <3>1, <3>3, ArrivesRight
  <2> QED
    BY <2>1, <2>2 DEF HandleEdit, HandleHide, HandleSet, r
<1> QED
  BY <1>2, <1>7, <1>9, <1>10, HandledStep DEF r

(* A processor that gets the index of its place.                           *)
Placed(t, a) == [t EXCEPT ![a].idx = a, ![a].behind = FALSE]

LEMMA PlacedElements ==
  ASSUME NEW t \in Seq(Processors), NEW a \in DOMAIN t
  PROVE  /\ Placed(t, a) \in Seq(Processors) /\ Len(Placed(t, a)) = Len(t)
         /\ DOMAIN Placed(t, a) = DOMAIN t
         /\ \A j \in DOMAIN t : /\ Placed(t, a)[j].id = t[j].id
                                /\ j # a => Placed(t, a)[j] = t[j]
         /\ Placed(t, a)[a].idx = a
<1> DEFINE e == [t[a] EXCEPT !.idx = a, !.behind = FALSE]
           f == [j \in 1..Len(t) |-> IF j = a THEN e ELSE t[j]]
<1>1. t[a] \in Processors /\ a \in Nat
  BY ElementsOf
<1>2. e \in Processors /\ e.id = t[a].id /\ e.idx = a
  BY <1>1 DEF Processors
<1>3. Placed(t, a) = [t EXCEPT ![a] = e]
  BY DEF Placed
<1> HIDE DEF e
<1>4. /\ DOMAIN t = 1..Len(t) /\ Len(t) \in Nat /\ a \in 1..Len(t)
      /\ \A j \in 1..Len(t) : t[j] \in Processors
  BY ElementsOf
<1>5. Placed(t, a) = f
  BY <1>3, <1>4
<1>6. \A j \in 1..Len(t) : (IF j = a THEN e ELSE t[j]) \in Processors
  BY <1>2, <1>4
<1>7. f \in Seq(Processors)
  BY <1>4, <1>6
<1>8. Len(f) = Len(t)
  BY <1>4, <1>7
<1>9. /\ DOMAIN f = 1..Len(t) /\ f[a] = e
      /\ \A j \in 1..Len(t) : j # a => f[j] = t[j]
  BY <1>4
<1> HIDE DEF f
<1> QED
  BY <1>2, <1>4, <1>5, <1>7, <1>8, <1>9

(* Both processors get the index of their new place.                       *)
LEMMA HandleExchangeInv ==
  ASSUME IndexInv, HandleExchange
  PROVE  /\ IndexInv'
         /\ DOMAIN chain' = DOMAIN chain
         /\ \A j \in DOMAIN chain :
              LET k == Exchanged(j, Head(requests).a, Head(requests).b) IN
                k \in DOMAIN chain /\ chain'[j].id = chain[k].id
         /\ Head(requests).a \in DOMAIN chain
         /\ Head(requests).b \in DOMAIN chain
<1> DEFINE r == Head(requests)
           a == r.a
           b == r.b
           t == Swapped(chain, a, b)
           u == Placed(t, a)
<1>1. ChainInv /\ ChainTypes /\ PlaceInv /\ QueueTypes /\ TrailInv
  BY IndexParts
<1>2. /\ Handle("Exchange") /\ requests # <<>> /\ r.type = "Exchange"
      /\ ExchangeProcessors(a, b) /\ serverVer' = serverVer + 1
      /\ UNCHANGED <<editor, window, wrong, loads>>
  BY DEF HandleExchange, Handle, counters
<1>3. PICK y \in Lists : LeadsTo(r, Served, y)
  BY <1>1, <1>2, TrailHead
<1> HIDE DEF r, a, b
<1>4. a \in DOMAIN Ids(chain) /\ b \in DOMAIN Ids(chain)
  BY <1>1, <1>2, <1>3, ServedFacts DEF LeadsTo, a, b
<1>5. /\ DOMAIN chain = 1..Len(chain) /\ Len(chain) \in Nat
      /\ chain \in Seq(Processors)
      /\ a \in DOMAIN chain /\ b \in DOMAIN chain
  BY <1>1, <1>4, ChainElements, ServedFacts
<1>6. /\ t \in Seq(Processors) /\ Len(t) = Len(chain)
      /\ DOMAIN t = DOMAIN chain
      /\ \A j \in DOMAIN chain : t[j] = chain[Exchanged(j, a, b)]
      /\ \A j \in DOMAIN chain : Exchanged(j, a, b) \in DOMAIN chain
  BY <1>5, SwappedElements, ZenonT(60)
<1>7. chain' = Placed(u, b)
  <2>1. {a, b} \subseteq DOMAIN chain
    BY <1>5
  <2> QED
    BY <1>2, <2>1 DEF ExchangeProcessors, Placed
<1> HIDE DEF t
<1>15. t \in Seq(Processors) /\ a \in DOMAIN t
  BY <1>5, <1>6
<1>8. /\ u \in Seq(Processors) /\ Len(u) = Len(t)
      /\ DOMAIN u = DOMAIN t
      /\ \A j \in DOMAIN t : /\ u[j].id = t[j].id
                             /\ j # a => u[j] = t[j]
      /\ u[a].idx = a
  BY <1>15, PlacedElements
<1> HIDE DEF u
<1>17. u \in Seq(Processors) /\ b \in DOMAIN u
  BY <1>5, <1>6, <1>8
<1>16. /\ Placed(u, b) \in Seq(Processors) /\ Len(Placed(u, b)) = Len(u)
       /\ DOMAIN Placed(u, b) = DOMAIN u
       /\ \A j \in DOMAIN u : /\ Placed(u, b)[j].id = u[j].id
                              /\ j # b => Placed(u, b)[j] = u[j]
       /\ Placed(u, b)[b].idx = b
  BY <1>17, PlacedElements
<1>9. /\ chain' \in Seq(Processors) /\ Len(chain') = Len(u)
      /\ DOMAIN chain' = DOMAIN u
      /\ \A j \in DOMAIN u : /\ chain'[j].id = u[j].id
                             /\ j # b => chain'[j] = u[j]
      /\ chain'[b].idx = b
  BY <1>7, <1>16
<1>10. PlaceInv'
  <2> SUFFICES ASSUME NEW j \in DOMAIN chain'
               PROVE  chain'[j].behind \/ chain'[j].idx = j
    BY DEF PlaceInv
  <2>1. j \in DOMAIN chain /\ j \in DOMAIN t /\ j \in DOMAIN u
    BY <1>6, <1>8, <1>9
  <2>2. CASE j = b
    BY <1>9, <2>2
  <2>3. CASE j = a /\ j # b
    BY <1>8, <1>9, <2>1, <2>3
  <2>4. CASE j # a /\ j # b
    <3>1. chain'[j] = chain[j]
      <4>1. Exchanged(j, a, b) = j
        BY <2>4 DEF Exchanged
      <4>2. chain'[j] = u[j]
        BY <1>9, <2>1, <2>4
      <4>3. u[j] = t[j]
        BY <1>8, <2>1, <2>4
      <4>4. t[j] = chain[j]
        BY <1>6, <2>1, <4>1
      <4> QED
        BY <4>2, <4>3, <4>4
    <3> QED
      BY <1>1, <2>1, <3>1 DEF PlaceInv
  <2> QED
    BY <2>2, <2>3, <2>4
<1>11. ChainInv'
  <2>1. Len(chain') = Len(chain)
    BY <1>6, <1>8, <1>9
  <2> QED
    BY <1>1, <1>2, <1>9, <1>10, <2>1 DEF ChainInv, ChainTypes
<1>12. Served' = [ids |-> Swapped(Served.ids, a, b), ver |-> Served.ver + 1]
  <2> DEFINE s == Ids(chain)
             x == Swapped(s, a, b)
  <2>1. /\ Served.ids = s /\ Served.ver = serverVer
        /\ s \in Seq(Nat) /\ Len(s) = Len(chain) /\ DOMAIN s = 1..Len(chain)
        /\ \A j \in 1..Len(chain) : s[j] = chain[j].id
    BY <1>1, ServedFacts
  <2>2. Served' = [ids |-> Ids(chain'), ver |-> serverVer + 1]
    BY <1>2 DEF Served, Version
  <2>3. /\ Ids(chain') \in Seq(Nat) /\ Len(Ids(chain')) = Len(chain)
        /\ \A j \in 1..Len(chain) : Ids(chain')[j] = chain'[j].id
    BY <1>6, <1>8, <1>9, IdsElements
  <2> HIDE DEF s
  <2>4. /\ x \in Seq(Nat) /\ Len(x) = Len(chain)
        /\ \A j \in 1..Len(chain) : x[j] = s[Exchanged(j, a, b)]
    BY <1>5, <2>1 DEF Swapped, Exchanged
  <2> HIDE DEF x
  <2>5. \A j \in 1..Len(chain) : Ids(chain')[j] = x[j]
    <3> TAKE j \in 1..Len(chain)
    <3>1. /\ j \in DOMAIN chain /\ j \in DOMAIN t /\ j \in DOMAIN u
          /\ Exchanged(j, a, b) \in 1..Len(chain)
      BY <1>5, <1>6, <1>8
    <3>2. Ids(chain')[j] = chain[Exchanged(j, a, b)].id
      <4>1. Ids(chain')[j] = chain'[j].id
        BY <2>3
      <4>2. chain'[j].id = u[j].id
        BY <1>9, <3>1
      <4>3. u[j].id = t[j].id
        BY <1>8, <3>1
      <4>4. t[j] = chain[Exchanged(j, a, b)]
        BY <1>6, <3>1
      <4> QED
        BY <4>1, <4>2, <4>3, <4>4
    <3>3. x[j] = chain[Exchanged(j, a, b)].id
      BY <2>1, <2>4, <3>1
    <3> QED
      BY <3>2, <3>3
  <2>6. Ids(chain') = x
    BY <2>3, <2>4, <2>5, IdsEqual
  <2> QED
    BY <2>1, <2>2, <2>6 DEF x
<1>13. \A z \in Lists : LeadsTo(r, Served, z) => Served' = z
  BY <1>2, <1>12 DEF LeadsTo, a, b
<1>14. IndexInv'
  BY <1>2, <1>11, <1>13, HandledStep, WrongKept DEF r
<1>18. \A j \in DOMAIN chain : /\ Exchanged(j, a, b) \in DOMAIN chain
                               /\ chain'[j].id = chain[Exchanged(j, a, b)].id
  <2> TAKE j \in DOMAIN chain
  <2>1. /\ j \in DOMAIN t /\ j \in DOMAIN u
        /\ Exchanged(j, a, b) \in DOMAIN chain
        /\ t[j] = chain[Exchanged(j, a, b)]
    BY <1>6, <1>8
  <2>2. chain'[j].id = u[j].id
    BY <1>9, <2>1
  <2>3. u[j].id = t[j].id
    BY <1>8, <2>1
  <2> QED
    BY <2>1, <2>2, <2>3
<1> QED
  BY <1>5, <1>6, <1>8, <1>9, <1>14, <1>18 DEF a, b, r

(* Those behind keep their indexes.                                        *)
LEMMA HandleDelInv ==
  ASSUME IndexInv, HandleDel
  PROVE  /\ IndexInv'
         /\ DOMAIN chain = 1..Len(chain) /\ Len(chain) \in Nat
         /\ DOMAIN chain' = 1..Len(chain) - 1
         /\ \A j \in 1..Len(chain) - 1 :
              chain'[j].id = chain[IF j < Head(requests).a THEN j ELSE j + 1].id
         /\ Head(requests).a \in DOMAIN chain
<1> DEFINE r == Head(requests)
           i == r.a
           rest == RemoveAt(chain, i)
<1>1. /\ ChainInv /\ ChainTypes /\ PlaceInv /\ QueueTypes /\ TrailInv
      /\ loads \in Nat
  BY IndexParts DEF ListTypes
<1>2. /\ Handle("Del") /\ requests # <<>> /\ r.type = "Del"
      /\ chain' = [j \in DOMAIN rest |->
                     IF j < i THEN chain[j]
                     ELSE [chain[j + 1] EXCEPT !.behind = TRUE]]
      /\ editor' = 0 \/ editor' = editor
      /\ window' = NoWindow \/ window' = window
      /\ serverVer' = serverVer + 1
      /\ UNCHANGED <<wrong, loads>>
  BY DEF HandleDel, Handle, counters
<1>3. PICK y \in Lists : LeadsTo(r, Served, y)
  BY <1>1, <1>2, TrailHead
<1> HIDE DEF r, i
<1>4. i \in DOMAIN Ids(chain)
  BY <1>1, <1>2, <1>3, ServedFacts DEF LeadsTo, i
<1>5. /\ DOMAIN chain = 1..Len(chain) /\ Len(chain) \in Nat
      /\ chain \in Seq(Processors) /\ i \in DOMAIN chain /\ i \in 1..Len(chain)
      /\ \A j \in 1..Len(chain) : chain[j] \in Processors
  BY <1>1, <1>4, ChainElements, ServedFacts
<1>6. /\ rest \in Seq(Processors) /\ Len(rest) = Len(chain) - 1
      /\ DOMAIN rest = 1..Len(chain) - 1
  <2>1. /\ rest \in Seq(Processors) /\ Len(rest) = Len(chain) - 1
        /\ \A j \in 1..Len(chain) - 1 :
             rest[j] = chain[IF j < i THEN j ELSE j + 1]
    <3>1. chain \in Seq(Processors) /\ i \in DOMAIN chain
      BY <1>5
    <3> QED
      BY <3>1, RestElements, Zenon
  <2> HIDE DEF rest
  <2> QED
    BY <2>1, ElementsOf
<1> HIDE DEF rest
<1>7. \A e \in Processors : /\ [e EXCEPT !.behind = TRUE] \in Processors
                            /\ [e EXCEPT !.behind = TRUE].id = e.id
                            /\ [e EXCEPT !.behind = TRUE].behind = TRUE
  BY DEF Processors
<1>8. ASSUME NEW j \in 1..Len(chain) - 1
      PROVE  /\ chain'[j] \in Processors
             /\ chain'[j].id = chain[IF j < i THEN j ELSE j + 1].id
             /\ chain'[j].behind \/ (j < i /\ chain'[j] = chain[j])
  <2>1. CASE j < i
    <3>1. chain'[j] = chain[j] /\ j \in 1..Len(chain)
      BY <1>2, <1>5, <1>6, <2>1
    <3> QED
      BY <1>5, <2>1, <3>1
  <2>2. CASE ~(j < i)
    <3>1. /\ chain'[j] = [chain[j + 1] EXCEPT !.behind = TRUE]
          /\ j + 1 \in 1..Len(chain)
      BY <1>2, <1>5, <1>6, <2>2
    <3>2. chain[j + 1] \in Processors
      BY <1>5, <3>1
    <3> QED
      BY <1>7, <2>2, <3>1, <3>2
  <2> QED
    BY <2>1, <2>2
<1>9. chain' = [j \in 1..Len(chain) - 1 |-> chain'[j]]
  BY <1>2, <1>6
<1>10. chain' \in Seq(Processors) /\ Len(chain') = Len(chain) - 1
  <2>1. Len(chain) - 1 \in Nat
    BY <1>5
  <2>2. [j \in 1..Len(chain) - 1 |-> chain'[j]] \in Seq(Processors)
    BY <1>8, <2>1
  <2>3. Len([j \in 1..Len(chain) - 1 |-> chain'[j]]) = Len(chain) - 1
    BY <2>1, <2>2
  <2> QED
    BY <1>9, <2>2, <2>3
<1>11. ChainInv'
  <2>1. NoWindow \in Windows /\ 0 \in 0..loads
    BY <1>1 DEF NoWindow, Windows
  <2>2. Len(chain) - 1 <= loads /\ serverVer + 1 \in Nat
    BY <1>1, <1>5 DEF ChainTypes
  <2>3. editor' \in 0..loads /\ window' \in Windows
    BY <1>1, <1>2, <2>1 DEF ChainTypes
  <2>4. ChainTypes'
    BY <1>2, <1>10, <2>2, <2>3 DEF ChainTypes
  <2>5. DOMAIN chain' = 1..Len(chain) - 1
    BY <1>10, ElementsOf
  <2>6. PlaceInv'
    <3> SUFFICES ASSUME NEW j \in DOMAIN chain', ~chain'[j].behind
                 PROVE  chain'[j].idx = j
      BY DEF PlaceInv
    <3>1. chain'[j] = chain[j] /\ j \in DOMAIN chain
      BY <1>5, <1>8, <2>5
    <3> QED
      BY <1>1, <3>1 DEF PlaceInv
  <2> QED
    BY <2>4, <2>6 DEF ChainInv
<1>12. Served' = [ids |-> RemoveAt(Served.ids, i), ver |-> Served.ver + 1]
  <2>1. /\ Served.ids = Ids(chain) /\ Served.ver = serverVer
        /\ Ids(chain) \in Seq(Nat) /\ Len(Ids(chain)) = Len(chain)
        /\ \A j \in 1..Len(chain) : Ids(chain)[j] = chain[j].id
    BY <1>1, ServedFacts
  <2>2. Served' = [ids |-> Ids(chain'), ver |-> serverVer + 1]
    BY <1>2 DEF Served, Version
  <2>3. /\ Ids(chain') \in Seq(Nat) /\ Len(Ids(chain')) = Len(chain) - 1
        /\ \A j \in 1..Len(chain) - 1 : Ids(chain')[j] = chain'[j].id
    BY <1>10, IdsElements
  <2>4. /\ RemoveAt(Ids(chain), i) \in Seq(Nat)
        /\ Len(RemoveAt(Ids(chain), i)) = Len(chain) - 1
        /\ \A j \in 1..Len(chain) - 1 :
             RemoveAt(Ids(chain), i)[j] = Ids(chain)[IF j < i THEN j ELSE j + 1]
    BY <1>4, <2>1, RestElements
  <2>5. \A j \in 1..Len(chain) - 1 : Ids(chain')[j] = RemoveAt(Ids(chain), i)[j]
    <3> TAKE j \in 1..Len(chain) - 1
    <3>1. (IF j < i THEN j ELSE j + 1) \in 1..Len(chain)
      BY <1>5
    <3> QED
      BY <1>8, <2>1, <2>3, <2>4, <3>1
  <2>6. Ids(chain') = RemoveAt(Ids(chain), i)
    BY <2>3, <2>4, <2>5, IdsEqual
  <2> QED
    BY <2>1, <2>2, <2>6
<1>13. \A z \in Lists : LeadsTo(r, Served, z) => Served' = z
  BY <1>2, <1>12 DEF LeadsTo, i
<1>14. IndexInv'
  BY <1>2, <1>11, <1>13, HandledStep, WrongKept DEF r
<1>15. DOMAIN chain' = 1..Len(chain) - 1
  BY <1>10, ElementsOf
<1> QED
  BY <1>5, <1>8, <1>14, <1>15 DEF i, r

(* What a plugin reports says which one it is, if the client knows.        *)
LEMMA NotifyInv ==
  ASSUME IndexInv, NEW i \in DOMAIN chain, NEW type \in {"value", "status"},
         Notify(i, type)
  PROVE  IndexInv'
<1> DEFINE n == Note(type, chain[i].idx, chain[i].id, chain[i].behind)
<1>1. /\ ChainTypes /\ PlaceInv /\ QueueTypes /\ TrailInv
  BY IndexParts
<1>2. /\ notes' = Append(notes, n)
      /\ UNCHANGED <<list, param, active, unloading, functors, requests,
                     server, clientVer, serverVer, activeId, stale, wrong,
                     loads>>
  BY DEF Notify, clientSide
<1>3. /\ i \in 1..Len(chain) /\ chain[i].id \in Nat /\ chain[i].idx \in Nat
      /\ chain[i].behind \in BOOLEAN /\ serverVer \in Nat
  BY <1>1, ChainElements DEF ChainTypes
<1>4. /\ n \in Notices /\ n.idx = chain[i].idx /\ n.id = chain[i].id
      /\ n.ver = serverVer /\ n.stale = chain[i].behind
  BY <1>3 DEF Note, Notices
<1> HIDE DEF n
<1>5. Denotes(serverVer, i, chain[i].id)
  <2>1. /\ Served.ids = Ids(chain) /\ Served.ver = serverVer
        /\ i \in DOMAIN Ids(chain) /\ Ids(chain)[i] = chain[i].id
    BY <1>1, <1>3, ServedFacts
  <2>2. Known(Served)
    BY <1>1, TrailServed
  <2> QED
    BY <2>1, <2>2 DEF Known, Denotes
<1>6. NoteMeans(n)
  BY <1>1, <1>4, <1>5 DEF NoteMeans, PlaceInv
<1> QED
  BY <1>2, <1>4, <1>6, QuietStep, WrongKept
     DEF ActiveKept, NotesKept, FunctorsKept

LEMMA CloseWindowInv ==
  ASSUME IndexInv, CloseWindow
  PROVE  IndexInv'
<1> DEFINE n == Note("hide", window.idx, window.id, FALSE)
<1>1. /\ ListInv /\ ListTypes /\ ChainInv /\ ChainTypes /\ PlaceInv /\ TrailInv
      /\ list \in Seq(Entries) /\ QueueTypes /\ requests \in Seq(Requests)
  BY IndexParts DEF ListTypes, QueueTypes
<1>2. /\ notes' = Append(notes, n) /\ window' = NoWindow
      /\ UNCHANGED <<list, param, active, unloading, functors, requests, chain,
                     editor, clientVer, serverVer, activeId, stale, wrong,
                     loads>>
  BY DEF CloseWindow, clientSide
<1>3. window.id \in Nat /\ window.idx \in Nat /\ serverVer \in Nat
  BY <1>1 DEF ChainTypes, Windows
<1>4. n \in Notices /\ n.type = "hide"
  BY <1>3 DEF Note, Notices
<1> HIDE DEF n
<1>5. NotesKept
  BY <1>2, <1>4 DEF NotesKept, NoteMeans
<1>6. ListInv' /\ Now' = Now /\ Ahead' = Ahead /\ Renews
  BY <1>1, <1>2, ListKept DEF ActiveKept
<1>7. ChainInv' /\ Served' = Served
  BY <1>1, <1>2 DEF ChainInv, ChainTypes, PlaceInv, NoWindow, Windows, Served
<1>8. TrailInv' /\ requests' \in Seq(Requests)
  BY <1>1, <1>2, <1>6, <1>7, TrailStays DEF ListInv
<1> QED
  BY <1>2, <1>5, <1>6, <1>7, <1>8, Assembled, RenewsMoves, WrongKept
     DEF FunctorsKept

-----------------------------------------------------------------------------
(* The invariant holds, and says what was to be shown.                     *)

LEMMA InitIndexInv == IndexesInit => IndexInv
<1> SUFFICES ASSUME IndexesInit PROVE IndexInv
  OBVIOUS
<1> USE DEF IndexesInit
<1>1. Plugins \in Nat /\ Slots \in Nat
  BY IndexBounds
<1>2. \A i \in 1..Plugins : /\ Loaded(i) \in Entries
                            /\ Loaded(i).id = i /\ Loaded(i).slot = 0
  BY <1>1 DEF Loaded, Entries
<1>3. \A i \in 1..Plugins : /\ Processor(i, i) \in Processors
                            /\ Processor(i, i).id = i /\ Processor(i, i).idx = i
  BY <1>1 DEF Processor, Processors
<1>4. /\ DOMAIN list = 1..Plugins /\ \A i \in 1..Plugins : list[i] = Loaded(i)
      /\ DOMAIN chain = 1..Plugins
      /\ \A i \in 1..Plugins : chain[i] = Processor(i, i)
  OBVIOUS
<1>5. list \in Seq(Entries) /\ Len(list) = Plugins
  <2>1. [i \in 1..Plugins |-> Loaded(i)] \in Seq(Entries)
    BY <1>1, <1>2
  <2> QED
    BY <1>1, <2>1
<1>6. chain \in Seq(Processors) /\ Len(chain) = Plugins
  <2>1. [i \in 1..Plugins |-> Processor(i, i)] \in Seq(Processors)
    BY <1>1, <1>3
  <2> QED
    BY <1>1, <2>1
<1>7. ListTypes
  <2>1. param \in [1..Slots -> 0..loads]
    BY <1>1
  <2>2. /\ loads \in Nat /\ clientVer \in Nat /\ activeId \in Nat
        /\ stale \in BOOLEAN
    BY <1>1
  <2>3. /\ Len(list) <= loads
        /\ active \in 0..Len(list) /\ unloading \in 0..Len(list)
    BY <1>1, <1>5
  <2> QED
    BY <1>5, <2>1, <2>2, <2>3 DEF ListTypes
<1>8. ListInv
  <2>1. SlotInv
    BY <1>1, <1>5 DEF SlotInv
  <2>2. ActiveFollowsPlugin
    BY DEF ActiveFollowsPlugin
  <2>3. SlotsAgree
    BY <1>2, <1>4 DEF SlotsAgree
  <2> QED
    BY <1>7, <2>1, <2>2, <2>3 DEF ListInv
<1>9. ChainInv
  <2>1. window \in Windows /\ editor \in 0..loads
    BY <1>1 DEF NoWindow, Windows
  <2>2. ChainTypes
    BY <1>1, <1>6, <2>1 DEF ChainTypes
  <2>3. PlaceInv
    BY <1>3, <1>4 DEF PlaceInv
  <2> QED
    BY <2>2, <2>3 DEF ChainInv
<1>10. QueueTypes
  BY DEF QueueTypes
<1>11. Served = Ahead /\ Now = Ahead
  <2>1. /\ Now.ver = 0 /\ Now.ids = Ids(list) /\ Ahead = Now
        /\ Now = [ids |-> Ids(list), ver |-> 0]
    BY <1>7, ListVersions DEF Now, Version
  <2>2. Served = [ids |-> Ids(chain), ver |-> 0]
    BY DEF Served, Version
  <2>3. /\ Ids(list) \in Seq(Nat) /\ Len(Ids(list)) = Plugins
        /\ \A i \in 1..Plugins : Ids(list)[i] = list[i].id
    BY <1>5, IdsElements
  <2>4. /\ Ids(chain) \in Seq(Nat) /\ Len(Ids(chain)) = Plugins
        /\ \A i \in 1..Plugins : Ids(chain)[i] = chain[i].id
    BY <1>6, IdsElements
  <2>5. \A i \in 1..Plugins : Ids(list)[i] = Ids(chain)[i]
    <3> TAKE i \in 1..Plugins
    <3>1. list[i].id = i /\ chain[i].id = i
      BY <1>2, <1>3, <1>4
    <3> QED
      BY <2>3, <2>4, <3>1
  <2>6. Ids(list) = Ids(chain)
    BY <2>3, <2>4, <2>5, IdsEqual
  <2> QED
    BY <2>1, <2>2, <2>6
<1>12. TrailInv
  <2>1. Ahead \in Lists
    BY <1>7, ListVersions
  <2>2. PICK y \in Lists : y = Ahead
    BY <2>1
  <2> DEFINE g == <<y>>
  <2>3. g \in Seq(Lists) /\ Len(g) = 1 /\ g[1] = y
    OBVIOUS
  <2>4. Len(<<>>) = 0
    OBVIOUS
  <2> HIDE DEF g
  <2>5. Trail(requests, g)
    BY <2>3, <2>4 DEF Trail
  <2>6. Ahead.ver <= Ahead.ver
    BY <2>1 DEF Lists
  <2>7. \A k \in 1..Len(g) : Known(g[k])
    BY <1>11, <2>2, <2>3, <2>6 DEF Known
  <2> QED
    BY <1>11, <2>2, <2>3, <2>5, <2>7 DEF TrailInv
<1>13. NotesMean /\ FunctorsMean /\ MisdirectionsExplained
  BY DEF NotesMean, FunctorsMean, MisdirectionsExplained
<1> QED
  BY <1>8, <1>9, <1>10, <1>12, <1>13 DEF IndexInv

LEMMA NextIndexInv ==
  ASSUME IndexInv, [IndexesNext]_indexVars
  PROVE  IndexInv'
<1>1. CASE UNCHANGED indexVars
  <2>1. UNCHANGED <<list, param, unloading, clientVer, stale, loads, server,
                    serverVer, active, activeId, notes, functors, wrong,
                    requests>>
    BY <1>1 DEF indexVars, clientSide, server, counters
  <2> QED
    BY <2>1, QuietStep, WrongKept DEF ActiveKept, NotesKept, FunctorsKept
<1>2. ASSUME NEW i \in DOMAIN list, EditPlugin(i)
      PROVE  IndexInv'
  BY <1>2, EditPluginInv
<1>3. ASSUME NEW i \in DOMAIN list, UnloadPlugin(i)
      PROVE  IndexInv'
  BY <1>3, UnloadPluginInv
<1>4. ASSUME NEW i \in DOMAIN list, EnableAutomation(i) \/ DisableAutomation(i)
      PROVE  IndexInv'
  BY <1>4, SlotActionsInv
<1>5. ASSUME NEW i \in DOMAIN list, ChangeValue(i)
      PROVE  IndexInv'
  BY <1>5, ChangeValueInv
<1>6. ASSUME NEW i \in DOMAIN list, i + 1 \in DOMAIN list,
             ExchangePlugins(i, i + 1)
      PROVE  IndexInv'
  BY <1>6, ExchangePluginsInv
<1>7. CASE HidePlugin
  BY <1>7, HidePluginInv
<1>8. CASE LoadPlugin
  BY <1>8, LoadPluginInv
<1>9. CASE ErasePlugin
  BY <1>9, ErasePluginInv
<1>10. CASE SkipUpdate
  BY <1>10, SkipUpdateInv
<1>11. CASE UpdateValue
  BY <1>11, UpdateValueInv
<1>12. CASE SetValue
  BY <1>12, SetValueInv
<1>13. CASE HideFromServer
  BY <1>13, HideFromServerInv
<1>14. CASE Bind
  BY <1>14, BindInv
<1>15. CASE Receive
  BY <1>15, ReceiveInv
<1>16. CASE NewSession
  BY <1>16, NewSessionInv
<1>17. CASE HandleExchange
  BY <1>17, HandleExchangeInv
<1>18. CASE HandleDel
  BY <1>18, HandleDelInv
<1>19. CASE HandleEdit \/ HandleHide \/ HandleSet
  BY <1>19, HandleOthersInv
<1>20. ASSUME NEW i \in DOMAIN chain, NEW type \in {"value", "status"},
              Notify(i, type)
       PROVE  IndexInv'
  BY <1>20, NotifyInv
<1>21. CASE CloseWindow
  BY <1>21, CloseWindowInv
<1>22. CASE User
  BY <1>2, <1>3, <1>4, <1>5, <1>6, <1>7, <1>8, <1>22 DEF User
<1>23. CASE MessageThread
  BY <1>9, <1>10, <1>11, <1>12, <1>13, <1>14, <1>23 DEF MessageThread
<1>24. CASE Worker
  BY <1>17, <1>18, <1>19, <1>24 DEF Worker
<1> QED
  BY <1>1, <1>15, <1>16, <1>20, <1>21, <1>22, <1>23, <1>24 DEF IndexesNext

(* At the same version, list and chain are the same.                       *)
LEMMA SameVersion ==
  ASSUME IndexInv, clientVer = serverVer
  PROVE  /\ Len(list) = Len(chain)
         /\ \A i \in DOMAIN list : list[i].id = chain[i].id
<1>1. /\ ListTypes /\ ChainTypes /\ TrailInv /\ QueueTypes
      /\ list \in Seq(Entries)
  BY IndexParts DEF ListTypes
<1>2. Known(Served)
  BY <1>1, TrailServed
<1>3. /\ Served.ids = Ids(chain) /\ Served.ver = serverVer
      /\ Len(Ids(chain)) = Len(chain)
      /\ \A j \in 1..Len(chain) : Ids(chain)[j] = chain[j].id
  BY <1>1, ServedFacts
<1>4. Now.ver = clientVer /\ Now.ids = Ids(list)
  BY <1>1, ListVersions
<1>5. Ids(list) = Ids(chain)
  BY <1>2, <1>3, <1>4 DEF Known
<1>6. /\ Len(Ids(list)) = Len(list) /\ DOMAIN list = 1..Len(list)
      /\ \A i \in 1..Len(list) : Ids(list)[i] = list[i].id
  BY <1>1, IdsElements
<1>7. Len(list) = Len(chain)
  BY <1>3, <1>5, <1>6
<1>8. ASSUME NEW i \in DOMAIN list
      PROVE  list[i].id = chain[i].id
  <2>1. i \in 1..Len(list) /\ i \in 1..Len(chain)
    BY <1>6, <1>7
  <2> QED
    BY <1>3, <1>5, <1>6, <2>1
<1> QED
  BY <1>7, <1>8

LEMMA IndexInvFollows == IndexInv => IndexesFollow /\ MisdirectionsExplained
<1> SUFFICES ASSUME IndexInv
             PROVE  IndexesFollow /\ MisdirectionsExplained
  OBVIOUS
<1>1. /\ ListTypes /\ ChainTypes /\ ActiveFollowsPlugin /\ SlotsAgree
      /\ MisdirectionsExplained
  BY IndexParts
<1>2. \A i \in DOMAIN list : list[i].slot \in 0..Slots /\ list[i].ok \in BOOLEAN
  BY <1>1, ListElements
<1>3. IndexTypes
  BY <1>1, <1>2, SameVersion DEF IndexTypes, ListTypes, ChainTypes
<1> QED
  BY <1>1, <1>3 DEF IndexesFollow

-----------------------------------------------------------------------------
(* No plugin is in the list, or in the chain, twice.                       *)

(* The numbers of the plugins of s are different ones up to n.             *)
Distinct(s, n) ==
  /\ \A i, j \in DOMAIN s : s[i].id = s[j].id => i = j
  /\ \A i \in DOMAIN s : s[i].id \in 1..n

NamesInv == Distinct(list, loads) /\ Distinct(chain, loads)

LEMMA DistinctPart ==
  ASSUME NEW s, NEW t, NEW n, Distinct(s, n),
         NEW f \in [DOMAIN t -> DOMAIN s],
         \A i, j \in DOMAIN t : f[i] = f[j] => i = j,
         \A i \in DOMAIN t : t[i].id = s[f[i]].id
  PROVE  Distinct(t, n)
BY DEF Distinct

LEMMA DistinctSame ==
  ASSUME NEW s, NEW t, NEW n, Distinct(s, n), DOMAIN t = DOMAIN s,
         \A i \in DOMAIN s : t[i].id = s[i].id
  PROVE  Distinct(t, n)
BY DEF Distinct

LEMMA DistinctExchanged ==
  ASSUME NEW s, NEW t, NEW n, NEW a, NEW b, Distinct(s, n),
         DOMAIN t = DOMAIN s,
         \A j \in DOMAIN s : /\ Exchanged(j, a, b) \in DOMAIN s
                             /\ t[j].id = s[Exchanged(j, a, b)].id
  PROVE  Distinct(t, n)
<1> DEFINE f == [j \in DOMAIN t |-> Exchanged(j, a, b)]
<1>1. f \in [DOMAIN t -> DOMAIN s]
  OBVIOUS
<1>2. \A i, j \in DOMAIN t : f[i] = f[j] => i = j
  BY DEF Exchanged
<1>3. \A i \in DOMAIN t : t[i].id = s[f[i]].id
  OBVIOUS
<1> HIDE DEF f
<1> QED
  BY <1>1, <1>2, <1>3, DistinctPart

LEMMA DistinctRest ==
  ASSUME NEW s, NEW t, NEW n, NEW l \in Nat, NEW i \in 1..l, Distinct(s, n),
         DOMAIN s = 1..l, DOMAIN t = 1..l - 1,
         \A j \in 1..l - 1 : t[j].id = s[IF j < i THEN j ELSE j + 1].id
  PROVE  Distinct(t, n)
<1> DEFINE f == [j \in DOMAIN t |-> IF j < i THEN j ELSE j + 1]
<1>1. f \in [DOMAIN t -> DOMAIN s]
  OBVIOUS
<1>2. \A k, j \in DOMAIN t : f[k] = f[j] => k = j
  OBVIOUS
<1>3. \A j \in DOMAIN t : t[j].id = s[f[j]].id
  OBVIOUS
<1> HIDE DEF f
<1> QED
  <2> SUFFICES ASSUME NEW j \in DOMAIN t
               PROVE  /\ t[j].id \in 1..n
                      /\ \A k \in DOMAIN t : t[j].id = t[k].id => j = k
    BY DEF Distinct
  <2>1. f[j] \in DOMAIN s /\ t[j].id = s[f[j]].id
    BY <1>1, <1>3
  <2>2. ASSUME NEW k \in DOMAIN t, t[j].id = t[k].id
        PROVE  j = k
    <3>1. f[k] \in DOMAIN s /\ t[k].id = s[f[k]].id
      BY <1>1, <1>3
    <3>2. f[j] = f[k]
      BY <2>1, <2>2, <3>1 DEF Distinct
    <3> QED
      BY <1>2, <3>2
  <2>3. t[j].id \in 1..n
    BY <2>1 DEF Distinct
  <2> QED
    BY <2>2, <2>3

LEMMA DistinctMore ==
  ASSUME NEW s, NEW t, NEW n \in Nat, NEW l \in Nat, Distinct(s, n),
         DOMAIN s = 1..l, DOMAIN t = 1..l + 1,
         \A j \in 1..l : t[j].id = s[j].id, t[l + 1].id = n + 1
  PROVE  Distinct(t, n + 1)
<1>1. \A j \in 1..l : t[j].id \in 1..n
  BY DEF Distinct
<1>2. \A j \in DOMAIN t : j \in 1..l \/ j = l + 1
  OBVIOUS
<1>3. \A j \in DOMAIN t : t[j].id \in 1..n + 1
  BY <1>1, <1>2
<1>4. ASSUME NEW i \in DOMAIN t, NEW j \in DOMAIN t, t[i].id = t[j].id
      PROVE  i = j
  <2>1. CASE i \in 1..l /\ j \in 1..l
    BY <1>4, <2>1 DEF Distinct
  <2>2. CASE i = l + 1 /\ j = l + 1
    BY <2>2
  <2>3. CASE i \in 1..l /\ j = l + 1
    BY <1>1, <1>4, <2>3
  <2>4. CASE i = l + 1 /\ j \in 1..l
    BY <1>1, <1>4, <2>4
  <2> QED
    BY <1>2, <2>1, <2>2, <2>3, <2>4
<1> QED
  BY <1>3, <1>4 DEF Distinct

(* Steps that leave the plugins of the list where they are.                *)
LEMMA NamesKept ==
  ASSUME NamesInv, UNCHANGED <<chain, loads>>, DOMAIN list' = DOMAIN list,
         \A i \in DOMAIN list : list'[i].id = list[i].id
  PROVE  NamesInv'
<1>1. Distinct(list', loads)
  BY DistinctSame DEF NamesInv
<1> QED
  BY <1>1 DEF NamesInv

LEMMA NamesNext ==
  ASSUME IndexInv, NamesInv, [IndexesNext]_indexVars
  PROVE  NamesInv'
<1> USE DEF clientSide, server, counters
<1>1. /\ ListInv /\ ListTypes /\ ChainTypes
      /\ list \in Seq(Entries) /\ chain \in Seq(Processors) /\ loads \in Nat
  BY IndexParts DEF ListTypes, ChainTypes
<1>2. /\ DOMAIN list = 1..Len(list) /\ Len(list) \in Nat
      /\ DOMAIN chain = 1..Len(chain) /\ Len(chain) \in Nat
  BY <1>1, ListElements, ChainElements
<1>3. ASSUME UNCHANGED <<list, chain, loads>>
      PROVE  NamesInv'
  BY <1>3, NamesKept
<1>4. ASSUME NEW i \in DOMAIN list, NEW s, list' = [list EXCEPT ![i].slot = s],
             UNCHANGED <<chain, loads>>
      PROVE  NamesInv'
  <2>1. DOMAIN list' = DOMAIN list
    BY <1>4
  <2>2. \A j \in DOMAIN list : list'[j].id = list[j].id
    BY <1>4
  <2> QED
    BY <1>4, <2>1, <2>2, NamesKept
<1>5. CASE UNCHANGED indexVars
  BY <1>3, <1>5 DEF indexVars
<1>6. CASE User
  <2>1. ASSUME NEW i \in DOMAIN list, EditPlugin(i) \/ ChangeValue(i)
        PROVE  NamesInv'
    BY <1>3, <2>1 DEF EditPlugin, ChangeValue, Post
  <2>2. ASSUME NEW i \in DOMAIN list,
               UnloadPlugin(i) \/ DisableAutomation(i)
        PROVE  NamesInv'
    BY <1>4, <2>2 DEF UnloadPlugin, DisableAutomation
  <2>3. ASSUME NEW i \in DOMAIN list, EnableAutomation(i)
        PROVE  NamesInv'
    BY <1>4, <2>3 DEF EnableAutomation, Take
  <2>4. ASSUME NEW i \in DOMAIN list, i + 1 \in DOMAIN list,
               ExchangePlugins(i, i + 1)
        PROVE  NamesInv'
    <3>1. list' = Swapped(list, i, i + 1) /\ UNCHANGED <<chain, loads>>
      BY <2>4 DEF ExchangePlugins
    <3>2. /\ DOMAIN list' = DOMAIN list
          /\ \A j \in DOMAIN list : /\ Exchanged(j, i, i + 1) \in DOMAIN list
                                    /\ list'[j] = list[Exchanged(j, i, i + 1)]
      BY <1>1, <2>4, <3>1, SwappedElements
    <3>3. Distinct(list', loads)
      BY <3>2, DistinctExchanged DEF NamesInv
    <3> QED
      BY <3>1, <3>3 DEF NamesInv
  <2>5. CASE HidePlugin
    BY <1>3, <2>5 DEF HidePlugin
  <2>6. CASE LoadPlugin
    <3>1. /\ loads' = loads + 1
          /\ chain' = Append(chain, Processor(loads + 1, Len(chain) + 1))
          /\ list' = Append(list, Loaded(loads + 1))
      BY <2>6 DEF LoadPlugin
    <3>2. /\ DOMAIN list' = 1..Len(list) + 1
          /\ \A j \in 1..Len(list) : list'[j].id = list[j].id
          /\ list'[Len(list) + 1].id = loads + 1
      BY <1>1, <1>2, <3>1 DEF Loaded
    <3>3. /\ DOMAIN chain' = 1..Len(chain) + 1
          /\ \A j \in 1..Len(chain) : chain'[j].id = chain[j].id
          /\ chain'[Len(chain) + 1].id = loads + 1
      BY <1>1, <1>2, <3>1 DEF Processor
    <3>4. Distinct(list', loads + 1)
      BY <1>1, <1>2, <3>2, DistinctMore DEF NamesInv
    <3>5. Distinct(chain', loads + 1)
      BY <1>1, <1>2, <3>3, DistinctMore DEF NamesInv
    <3> QED
      BY <3>1, <3>4, <3>5 DEF NamesInv
  <2> QED
    BY <1>6, <2>1, <2>2, <2>3, <2>4, <2>5, <2>6 DEF User
<1>7. CASE MessageThread
  <2>1. CASE ErasePlugin
    <3>1. /\ list' = RemoveAt(list, unloading) /\ unloading \in DOMAIN list
          /\ unloading \in 1..Len(list) /\ UNCHANGED <<chain, loads>>
      BY <1>1, <1>2, <2>1 DEF ErasePlugin, ListTypes
    <3>2. /\ list' \in Seq(Entries) /\ Len(list') = Len(list) - 1
          /\ \A j \in 1..Len(list) - 1 :
               list'[j] = list[IF j < unloading THEN j ELSE j + 1]
      BY <1>1, <3>1, RestElements
    <3>3. DOMAIN list' = 1..Len(list) - 1
      BY <3>2, ElementsOf
    <3>4. \A j \in 1..Len(list) - 1 :
            list'[j].id = list[IF j < unloading THEN j ELSE j + 1].id
      BY <3>2
    <3>5. Distinct(list, loads)
      BY DEF NamesInv
    <3>6. Distinct(list', loads)
      BY <1>2, <3>1, <3>3, <3>4, <3>5, DistinctRest
    <3> QED
      BY <3>1, <3>6 DEF NamesInv
  <2>2. CASE SkipUpdate \/ SetValue \/ HideFromServer
    BY <1>3, <2>2 DEF SkipUpdate, SetValue, HideFromServer
  <2>3. CASE UpdateValue
    BY <1>3, <2>3 DEF UpdateValue
  <2>4. CASE Bind
    <3>1. UNCHANGED <<chain, loads>>
      BY <2>4 DEF Bind
    <3>2. DOMAIN list' = DOMAIN list
      BY <2>4 DEF Bind
    <3>3. \A i \in DOMAIN list : list'[i].id = list[i].id
      BY <2>4 DEF Bind
    <3> QED
      BY <3>1, <3>2, <3>3, NamesKept
  <2> QED
    BY <1>7, <2>1, <2>2, <2>3, <2>4 DEF MessageThread
<1>8. CASE Receive
  <2>1. UNCHANGED <<chain, loads>>
    BY <1>8 DEF Receive
  <2>2. \/ list' = list
        \/ \E i \in DOMAIN list : list' = [list EXCEPT ![i].ok = ~@]
    BY <1>8 DEF Receive
  <2>3. CASE list' = list
    BY <1>3, <2>1, <2>3
  <2>4. ASSUME NEW i \in DOMAIN list, list' = [list EXCEPT ![i].ok = ~@]
        PROVE  NamesInv'
    <3>1. list[i] \in Entries
      BY <1>1, <1>2
    <3>2. [list[i] EXCEPT !.ok = ~@].id = list[i].id
      BY <3>1 DEF Entries
    <3>3. DOMAIN list' = DOMAIN list
      BY <2>4
    <3>4. \A j \in DOMAIN list :
            list'[j] = IF j = i THEN [list[i] EXCEPT !.ok = ~@] ELSE list[j]
      BY <2>4
    <3>5. \A j \in DOMAIN list : list'[j].id = list[j].id
      BY <3>2, <3>4
    <3> QED
      BY <2>1, <3>3, <3>5, NamesKept
  <2> QED
    BY <2>2, <2>3, <2>4
<1>9. CASE NewSession
  <2>1. /\ chain' = [i \in DOMAIN list |-> Processor(list[i].id, i)]
        /\ list' = [i \in DOMAIN list |-> [list[i] EXCEPT !.ok = TRUE]]
        /\ loads' = loads
    BY <1>9 DEF NewSession
  <2>2. DOMAIN chain' = DOMAIN list /\ DOMAIN list' = DOMAIN list
    BY <2>1
  <2>3. \A i \in DOMAIN list : chain'[i].id = list[i].id
    BY <2>1 DEF Processor
  <2>4. \A i \in DOMAIN list : list'[i].id = list[i].id
    <3>1. \A i \in DOMAIN list : list[i] \in Entries
      BY <1>1, <1>2
    <3>2. \A e \in Entries : [e EXCEPT !.ok = TRUE].id = e.id
      BY DEF Entries
    <3> QED
      BY <2>1, <3>1, <3>2
  <2>5. Distinct(list, loads)
    BY DEF NamesInv
  <2>6. Distinct(chain', loads) /\ Distinct(list', loads)
    BY <2>2, <2>3, <2>4, <2>5, DistinctSame
  <2> QED
    BY <2>1, <2>6 DEF NamesInv
<1>10. CASE Worker
  <2>1. CASE HandleExchange
    <3>1. /\ DOMAIN chain' = DOMAIN chain
          /\ \A j \in DOMAIN chain :
               LET k == Exchanged(j, Head(requests).a, Head(requests).b) IN
                 k \in DOMAIN chain /\ chain'[j].id = chain[k].id
      BY <2>1, HandleExchangeInv
    <3>2. Distinct(chain', loads)
      BY <3>1, DistinctExchanged DEF NamesInv
    <3> QED
      BY <2>1, <3>2 DEF HandleExchange, Handle, NamesInv
  <2>2. CASE HandleDel
    <3>1. /\ DOMAIN chain' = 1..Len(chain) - 1
          /\ \A j \in 1..Len(chain) - 1 :
               chain'[j].id =
                 chain[IF j < Head(requests).a THEN j ELSE j + 1].id
          /\ Head(requests).a \in 1..Len(chain)
      BY <1>2, <2>2, HandleDelInv
    <3>2. Distinct(chain, loads)
      BY DEF NamesInv
    <3>3. Distinct(chain', loads)
      BY <1>2, <3>1, <3>2, DistinctRest
    <3>4. UNCHANGED <<list, loads>>
      BY <2>2 DEF HandleDel, Handle
    <3> QED
      BY <3>3, <3>4 DEF NamesInv
  <2>3. CASE HandleEdit \/ HandleHide \/ HandleSet
    BY <1>3, <2>3 DEF HandleEdit, HandleHide, HandleSet, Handle
  <2> QED
    BY <1>10, <2>1, <2>2, <2>3 DEF Worker
<1>11. ASSUME NEW i \in DOMAIN chain, NEW type, Notify(i, type)
       PROVE  NamesInv'
  BY <1>3, <1>11 DEF Notify
<1>12. CASE CloseWindow
  BY <1>3, <1>12 DEF CloseWindow
<1> QED
  BY <1>5, <1>6, <1>7, <1>8, <1>9, <1>10, <1>11, <1>12 DEF IndexesNext

LEMMA InitNames == IndexesInit => NamesInv
<1> SUFFICES ASSUME IndexesInit
             PROVE  NamesInv
  OBVIOUS
<1>1. Distinct(list, loads)
  BY DEF IndexesInit, Loaded, Distinct
<1>2. Distinct(chain, loads)
  BY DEF IndexesInit, Processor, Distinct
<1> QED
  BY <1>1, <1>2 DEF NamesInv

-----------------------------------------------------------------------------
(* The editor that the client asked for.  As long as the active plugin is  *)
(* where it was then, the server will show it, shows it, or has let the    *)
(* client know that it was closed.                                         *)

(* A request that leaves the editor of the plugin at p open.               *)
Harmless(r, p) ==
  /\ r.type \notin {"Edit", "Hide"}
  /\ r.type = "Del" => r.a > p
  /\ r.type = "Exchange" => p \notin {r.a, r.b}

Calm(q, p) == \A j \in 1..Len(q) : Harmless(q[j], p)

EditComes(q, p, id) ==
  \E k \in 1..Len(q) :
    /\ q[k].type = "Edit" /\ q[k].a = p /\ q[k].id = id
    /\ \A j \in k + 1..Len(q) : Harmless(q[j], p)

EditorOpen ==
  /\ editor = active /\ active \in DOMAIN chain
  /\ chain[active].id = activeId /\ window.id = activeId

NoteFor(ns, p) ==
  \E k \in 1..Len(ns) : ns[k].type = "hide" /\ ns[k].idx = p
HideIn(fs) == \E k \in 1..Len(fs) : fs[k].type = "hide"
HideComes == NoteFor(notes, active) \/ HideIn(functors)

Watched == activeId > 0 /\ ~moved /\ unloading \notin 1..active

ShownInv ==
  Watched => \/ EditComes(requests, active, activeId)
             \/ EditorOpen /\ Calm(requests, active)
             \/ HideComes

LEMMA QueueMore ==
  ASSUME NEW q \in Seq(Requests), NEW r \in Requests, NEW p, NEW id,
         Harmless(r, p)
  PROVE  /\ EditComes(q, p, id) => EditComes(Append(q, r), p, id)
         /\ Calm(q, p) => Calm(Append(q, r), p)
<1> DEFINE t == Append(q, r)
<1>1. /\ Len(t) = Len(q) + 1 /\ Len(q) \in Nat
      /\ \A j \in 1..Len(q) : t[j] = q[j]
      /\ t[Len(q) + 1] = r
  BY AppendElements, ElementsOf
<1> HIDE DEF t
<1>2. ASSUME Calm(q, p)
      PROVE  Calm(t, p)
  BY <1>1, <1>2 DEF Calm
<1>3. ASSUME EditComes(q, p, id)
      PROVE  EditComes(t, p, id)
  <2>1. PICK k \in 1..Len(q) :
          /\ q[k].type = "Edit" /\ q[k].a = p /\ q[k].id = id
          /\ \A j \in k + 1..Len(q) : Harmless(q[j], p)
    BY <1>3 DEF EditComes
  <2>2. k \in 1..Len(t) /\ t[k] = q[k]
    BY <1>1
  <2>3. ASSUME NEW j \in k + 1..Len(t)
        PROVE  Harmless(t[j], p)
    <3>1. CASE j = Len(q) + 1
      BY <1>1, <3>1
    <3>2. CASE j # Len(q) + 1
      <4>1. j \in k + 1..Len(q) /\ j \in 1..Len(q)
        BY <1>1, <3>2
      <4> QED
        BY <1>1, <2>1, <4>1
    <3> QED
      BY <3>1, <3>2
  <2> QED
    BY <2>1, <2>2, <2>3 DEF EditComes
<1> QED
  BY <1>2, <1>3 DEF t

LEMMA QueueEdit ==
  ASSUME NEW q \in Seq(Requests), NEW r \in Requests, r.type = "Edit"
  PROVE  EditComes(Append(q, r), r.a, r.id)
<1> DEFINE t == Append(q, r)
<1>1. Len(t) = Len(q) + 1 /\ Len(q) \in Nat /\ t[Len(q) + 1] = r
  BY AppendElements, ElementsOf
<1> HIDE DEF t
<1>2. Len(t) \in 1..Len(t) /\ t[Len(t)] = r
  BY <1>1
<1>3. \A j \in Len(t) + 1..Len(t) : Harmless(t[j], r.a)
  BY <1>1
<1>4. EditComes(t, r.a, r.id)
  BY <1>2, <1>3 DEF EditComes
<1> QED
  BY <1>4 DEF t

LEMMA QueueTail ==
  ASSUME NEW q \in Seq(Requests), q # <<>>, NEW p, NEW id
  PROVE  /\ EditComes(q, p, id) =>
              \/ EditComes(Tail(q), p, id)
              \/ /\ Head(q).type = "Edit" /\ Head(q).a = p /\ Head(q).id = id
                 /\ Calm(Tail(q), p)
         /\ Calm(q, p) => Calm(Tail(q), p) /\ Harmless(Head(q), p)
<1> DEFINE t == Tail(q)
<1>1. /\ Len(t) = Len(q) - 1 /\ Len(q) \in Nat \ {0} /\ Head(q) = q[1]
      /\ \A j \in 1..Len(q) - 1 : t[j] = q[j + 1]
  BY TailElements
<1> HIDE DEF t
<1>2. \A j \in 1..Len(t) : j + 1 \in 1..Len(q) /\ t[j] = q[j + 1]
  BY <1>1
<1>3. ASSUME Calm(q, p)
      PROVE  Calm(t, p) /\ Harmless(Head(q), p)
  BY <1>1, <1>2, <1>3 DEF Calm
<1>4. ASSUME EditComes(q, p, id)
      PROVE  \/ EditComes(t, p, id)
             \/ /\ Head(q).type = "Edit" /\ Head(q).a = p /\ Head(q).id = id
                /\ Calm(t, p)
  <2>1. PICK k \in 1..Len(q) :
          /\ q[k].type = "Edit" /\ q[k].a = p /\ q[k].id = id
          /\ \A j \in k + 1..Len(q) : Harmless(q[j], p)
    BY <1>4 DEF EditComes
  <2>2. CASE k = 1
    <3>1. \A j \in 1..Len(t) : j + 1 \in k + 1..Len(q)
      BY <1>1, <2>2
    <3>2. Calm(t, p)
      BY <1>2, <2>1, <3>1 DEF Calm
    <3> QED
      BY <1>1, <2>1, <2>2, <3>2
  <2>3. CASE k # 1
    <3>1. k - 1 \in 1..Len(t) /\ t[k - 1] = q[k]
      BY <1>1, <2>3
    <3>2. ASSUME NEW j \in (k - 1) + 1..Len(t)
          PROVE  Harmless(t[j], p)
      <4>1. j \in 1..Len(t) /\ j + 1 \in k + 1..Len(q)
        BY <1>1, <2>3
      <4> QED
        BY <1>2, <2>1, <4>1
    <3> QED
      BY <2>1, <3>1, <3>2 DEF EditComes
  <2> QED
    BY <2>2, <2>3
<1> QED
  BY <1>3, <1>4 DEF t

(* A functor or a note that hides the editor stays until it is handled.    *)
LEMMA HideStays ==
  ASSUME NEW S, NEW fs \in Seq(S), HideIn(fs)
  PROVE  /\ \A g : HideIn(Append(fs, g))
         /\ fs # <<>>
         /\ Head(fs).type # "hide" => HideIn(Tail(fs))
<1>1. PICK k \in 1..Len(fs) : fs[k].type = "hide"
  BY DEF HideIn
<1>2. ASSUME NEW g
      PROVE  HideIn(Append(fs, g))
  <2>1. fs \in Seq(S \cup {g}) /\ g \in S \cup {g}
    OBVIOUS
  <2>2. /\ Len(Append(fs, g)) = Len(fs) + 1 /\ Len(fs) \in Nat
        /\ \A j \in 1..Len(fs) : Append(fs, g)[j] = fs[j]
    BY <2>1
  <2>3. k \in 1..Len(Append(fs, g)) /\ Append(fs, g)[k].type = "hide"
    BY <1>1, <2>2
  <2> QED
    BY <2>3 DEF HideIn
<1>3. fs # <<>>
  BY <1>1
<1>4. ASSUME Head(fs).type # "hide"
      PROVE  HideIn(Tail(fs))
  <2>1. /\ Len(Tail(fs)) = Len(fs) - 1 /\ Len(fs) \in Nat /\ Head(fs) = fs[1]
        /\ \A j \in 1..Len(fs) - 1 : Tail(fs)[j] = fs[j + 1]
    BY <1>3, TailElements
  <2>2. k # 1
    BY <1>1, <1>4, <2>1
  <2>3. k - 1 \in 1..Len(fs) - 1 /\ Tail(fs)[k - 1] = fs[k]
    BY <2>1, <2>2
  <2>4. k - 1 \in 1..Len(Tail(fs)) /\ Tail(fs)[k - 1].type = "hide"
    BY <1>1, <2>1, <2>3
  <2> QED
    BY <2>4 DEF HideIn
<1> QED
  BY <1>2, <1>3, <1>4

LEMMA NoteStays ==
  ASSUME NEW ns \in Seq(Notices), NEW p
  PROVE  /\ \A n \in Notices :
              /\ NoteFor(ns, p) => NoteFor(Append(ns, n), p)
              /\ n.type = "hide" /\ n.idx = p => NoteFor(Append(ns, n), p)
         /\ NoteFor(ns, p) =>
              /\ ns # <<>>
              /\ \/ NoteFor(Tail(ns), p)
                 \/ Head(ns).type = "hide" /\ Head(ns).idx = p
<1>1. ASSUME NEW n \in Notices
      PROVE  /\ NoteFor(ns, p) => NoteFor(Append(ns, n), p)
             /\ n.type = "hide" /\ n.idx = p => NoteFor(Append(ns, n), p)
  <2> DEFINE t == Append(ns, n)
  <2>1. /\ Len(t) = Len(ns) + 1 /\ Len(ns) \in Nat
        /\ \A j \in 1..Len(ns) : t[j] = ns[j]
        /\ t[Len(ns) + 1] = n
    BY AppendElements, ElementsOf
  <2> HIDE DEF t
  <2>2. NoteFor(ns, p) => NoteFor(t, p)
    BY <2>1 DEF NoteFor
  <2>3. n.type = "hide" /\ n.idx = p => NoteFor(t, p)
    BY <2>1 DEF NoteFor
  <2> QED
    BY <2>2, <2>3 DEF t
<1>2. ASSUME NoteFor(ns, p)
      PROVE  /\ ns # <<>>
             /\ \/ NoteFor(Tail(ns), p)
                \/ Head(ns).type = "hide" /\ Head(ns).idx = p
  <2>1. PICK k \in 1..Len(ns) : ns[k].type = "hide" /\ ns[k].idx = p
    BY <1>2 DEF NoteFor
  <2>2. ns # <<>>
    BY <2>1
  <2>3. /\ Len(Tail(ns)) = Len(ns) - 1 /\ Len(ns) \in Nat /\ Head(ns) = ns[1]
        /\ \A j \in 1..Len(ns) - 1 : Tail(ns)[j] = ns[j + 1]
    BY <2>2, TailElements
  <2>4. CASE k = 1
    BY <2>1, <2>2, <2>3, <2>4
  <2>5. CASE k # 1
    <3>1. k - 1 \in 1..Len(ns) - 1 /\ Tail(ns)[k - 1] = ns[k]
      BY <2>3, <2>5
    <3>2. k - 1 \in 1..Len(Tail(ns))
      BY <2>3, <3>1
    <3>3. Tail(ns)[k - 1].type = "hide" /\ Tail(ns)[k - 1].idx = p
      BY <2>1, <3>1
    <3>4. NoteFor(Tail(ns), p)
      BY <3>2, <3>3 DEF NoteFor
    <3> QED
      BY <2>2, <3>4, Zenon
  <2> QED
    BY <2>4, <2>5, Zenon
<1> QED
  BY <1>1, <1>2

(* Steps that neither ask for another editor nor close one.                *)
LEMMA ShownKept ==
  ASSUME ShownInv, QueueTypes,
         active' = active, activeId' = activeId, Watched' => Watched,
         Watched' => \/ requests' = requests
                     \/ \E r \in Requests : /\ requests' = Append(requests, r)
                                            /\ Harmless(r, active),
         UNCHANGED <<editor, window>>,
         active \in DOMAIN chain =>
           active \in DOMAIN chain' /\ chain'[active].id = chain[active].id,
         HideComes => HideComes'
  PROVE  ShownInv'
<1> SUFFICES ASSUME Watched'
             PROVE  \/ EditComes(requests', active, activeId)
                    \/ EditorOpen' /\ Calm(requests', active)
                    \/ HideComes'
  BY DEF ShownInv
<1>1. requests \in Seq(Requests)
  BY DEF QueueTypes
<1>2. /\ EditComes(requests, active, activeId)
           => EditComes(requests', active, activeId)
      /\ Calm(requests, active) => Calm(requests', active)
  <2>1. CASE requests' = requests
    BY <2>1
  <2>2. ASSUME NEW r \in Requests, requests' = Append(requests, r),
               Harmless(r, active)
        PROVE  /\ EditComes(requests, active, activeId)
                    => EditComes(requests', active, activeId)
               /\ Calm(requests, active) => Calm(requests', active)
    BY <1>1, <2>2, QueueMore
  <2> QED
    BY <2>1, <2>2
<1>3. EditorOpen => EditorOpen'
  BY DEF EditorOpen
<1> QED
  BY <1>2, <1>3 DEF ShownInv

(* Steps with which the client asks for an editor, or takes none for shown.*)
LEMMA ShownAsked ==
  ASSUME QueueTypes,
         \/ ~(activeId' > 0) \/ moved'
         \/ \E r \in Requests : /\ requests' = Append(requests, r)
                                /\ r.type = "Edit"
                                /\ r.a = active' /\ r.id = activeId'
  PROVE  ShownInv'
<1>1. requests \in Seq(Requests)
  BY DEF QueueTypes
<1>2. ASSUME NEW r \in Requests, requests' = Append(requests, r),
             r.type = "Edit", r.a = active', r.id = activeId'
      PROVE  ShownInv'
  <2>1. EditComes(requests', active', activeId')
    BY <1>1, <1>2, QueueEdit
  <2> QED
    BY <2>1 DEF ShownInv
<1>3. ASSUME ~(activeId' > 0) \/ moved'
      PROVE  ShownInv'
  BY <1>3 DEF ShownInv, Watched
<1> QED
  BY <1>2, <1>3

LEMMA EditShown ==
  ASSUME QueueTypes, ListTypes, NEW i \in Nat, NEW p, p.id \in Nat,
         Edited(i, p), Ask(EditRequest(i, p))
  PROVE  ShownInv'
<1> DEFINE r == [type |-> "Edit", a |-> i, b |-> 0, id |-> p.id,
                 ver |-> clientVer, stale |-> stale]
<1>1. /\ r \in Requests /\ r.type = "Edit" /\ r.a = i /\ r.id = p.id
  BY DEF ListTypes, Requests
<1>2. requests \in Seq(Requests)
  BY DEF QueueTypes
<1>3. active' = i /\ activeId' = IF p.ok THEN p.id ELSE 0
  BY DEF Edited
<1>4. requests' = requests \o (IF p.ok THEN <<r>> ELSE <<>>)
  BY DEF Ask, EditRequest
<1> HIDE DEF r
<1>5. CASE p.ok
  <2>1. requests' = Append(requests, r)
    BY <1>1, <1>2, <1>4, <1>5, AskedOne
  <2> QED
    BY <1>1, <1>3, <1>5, <2>1, ShownAsked
<1>6. CASE ~p.ok
  <2>1. ~(activeId' > 0)
    BY <1>3, <1>6
  <2> QED
    BY <2>1, ShownAsked
<1> QED
  BY <1>5, <1>6

(* The calls of the user.                                                  *)
LEMMA UserShown ==
  ASSUME IndexInv, ShownInv, User
  PROVE  ShownInv'
<1> USE DEF clientSide, server, counters
<1>1. /\ ListInv /\ ListTypes /\ ChainTypes /\ QueueTypes
      /\ list \in Seq(Entries) /\ chain \in Seq(Processors)
      /\ requests \in Seq(Requests) /\ functors \in Seq(Functors)
      /\ clientVer \in Nat /\ stale \in BOOLEAN
      /\ active \in 0..Len(list) /\ unloading \in 0..Len(list)
  BY IndexParts DEF ListTypes, ChainTypes, QueueTypes
<1>2. /\ DOMAIN list = 1..Len(list) /\ Len(list) \in Nat
      /\ DOMAIN chain = 1..Len(chain) /\ Len(chain) \in Nat
      /\ \A i \in 1..Len(list) : list[i].id \in Nat
  BY <1>1, ListElements, ChainElements
<1>3. ASSUME NEW i \in DOMAIN list, EditPlugin(i)
      PROVE  ShownInv'
  <2>1. /\ Edited(i, list[i]) /\ Ask(EditRequest(i, list[i]))
        /\ i \in Nat /\ list[i].id \in Nat
    BY <1>2, <1>3 DEF EditPlugin
  <2> QED
    BY <1>1, <2>1, EditShown
<1>4. ASSUME NEW i \in DOMAIN list, UnloadPlugin(i)
      PROVE  ShownInv'
  <2> DEFINE r == [type |-> "Del", a |-> i, b |-> 0, id |-> 0,
                   ver |-> clientVer, stale |-> stale]
  <2>1. /\ Free /\ Ask(<<r>>) /\ unloading' = i
        /\ UNCHANGED <<active, functors, notes, server, activeId, moved>>
    BY <1>4 DEF UnloadPlugin, Call
  <2>2. r \in Requests /\ r.type = "Del" /\ r.a = i
    BY <1>1, <1>2 DEF Requests
  <2> HIDE DEF r
  <2>3. requests' = Append(requests, r)
    BY <1>1, <2>1, <2>2, AskedOne DEF Ask
  <2>4. ASSUME Watched'
        PROVE  Watched /\ Harmless(r, active)
    <3>1. i > active
      BY <1>1, <1>2, <2>1, <2>4 DEF Watched
    <3> QED
      BY <2>1, <2>2, <2>4, <3>1 DEF Watched, Free, Harmless
  <2>5. HideComes => HideComes'
    BY <2>1 DEF HideComes
  <2> QED
    BY <1>1, <2>1, <2>2, <2>3, <2>4, <2>5, ShownKept
<1>5. ASSUME NEW i \in DOMAIN list,
             EnableAutomation(i) \/ DisableAutomation(i)
      PROVE  ShownInv'
  <2>1. UNCHANGED <<active, unloading, functors, requests, notes, server,
                    activeId, moved>>
    BY <1>5 DEF EnableAutomation, DisableAutomation
  <2> QED
    BY <1>1, <2>1, ShownKept DEF Watched, HideComes
<1>6. ASSUME NEW i \in DOMAIN list, ChangeValue(i)
      PROVE  ShownInv'
  <2>1. PICK f : functors' = Append(functors, f)
    BY <1>6 DEF ChangeValue, Post
  <2>2. UNCHANGED <<active, unloading, requests, notes, server, activeId,
                    moved>>
    BY <1>6 DEF ChangeValue
  <2>3. HideComes => HideComes'
    BY <1>1, <2>1, <2>2, HideStays DEF HideComes
  <2> QED
    BY <1>1, <2>2, <2>3, ShownKept DEF Watched
<1>7. ASSUME NEW i \in DOMAIN list, i + 1 \in DOMAIN list,
             ExchangePlugins(i, i + 1)
      PROVE  ShownInv'
  <2> DEFINE r == [type |-> "Exchange", a |-> i, b |-> i + 1, id |-> 0,
                   ver |-> clientVer, stale |-> stale]
  <2>1. /\ Ask(<<r>>) /\ active' = Exchanged(active, i, i + 1)
        /\ moved' = (moved \/ active \in {i, i + 1})
        /\ UNCHANGED <<unloading, functors, notes, server, activeId>>
    BY <1>7 DEF ExchangePlugins
  <2>2. r \in Requests /\ r.type = "Exchange" /\ r.a = i /\ r.b = i + 1
    BY <1>1, <1>2, <1>7 DEF Requests
  <2> HIDE DEF r
  <2>3. requests' = Append(requests, r)
    BY <1>1, <2>1, <2>2, AskedOne DEF Ask
  <2>4. CASE active \in {i, i + 1}
    BY <1>1, <2>1, <2>4, ShownAsked
  <2>5. CASE active \notin {i, i + 1}
    <3>1. active' = active
      BY <2>1, <2>5 DEF Exchanged
    <3>2. Harmless(r, active)
      BY <2>2, <2>5 DEF Harmless
    <3>3. Watched' => Watched
      BY <2>1, <3>1 DEF Watched
    <3>4. HideComes => HideComes'
      BY <2>1, <3>1 DEF HideComes
    <3> QED
      BY <1>1, <2>1, <2>2, <2>3, <3>1, <3>2, <3>3, <3>4, ShownKept
  <2> QED
    BY <2>4, <2>5
<1>8. CASE HidePlugin
  <2>1. activeId' = 0
    BY <1>8 DEF HidePlugin
  <2> QED
    BY <1>1, <2>1, ShownAsked
<1>9. CASE LoadPlugin
  <2>1. /\ chain' = Append(chain, Processor(loads + 1, Len(chain) + 1))
        /\ UNCHANGED <<active, unloading, functors, requests, notes, editor,
                       window, activeId, moved>>
    BY <1>9 DEF LoadPlugin
  <2>2. active \in DOMAIN chain =>
          active \in DOMAIN chain' /\ chain'[active].id = chain[active].id
    BY <1>1, <1>2, <2>1
  <2>3. (Watched' => Watched) /\ (HideComes => HideComes')
    BY <2>1 DEF Watched, HideComes
  <2> QED
    BY <1>1, <2>1, <2>2, <2>3, ShownKept
<1> QED
  BY <1>3, <1>4, <1>5, <1>6, <1>7, <1>8, <1>9 DEF User

(* The functors.                                                           *)
LEMMA FunctorsShown ==
  ASSUME IndexInv, ShownInv, MessageThread
  PROVE  ShownInv'
<1> USE DEF clientSide, server, counters
<1>1. /\ ListInv /\ ListTypes /\ ChainTypes /\ QueueTypes
      /\ list \in Seq(Entries)
      /\ requests \in Seq(Requests) /\ functors \in Seq(Functors)
      /\ clientVer \in Nat /\ stale \in BOOLEAN
      /\ active \in 0..Len(list) /\ unloading \in 0..Len(list)
      /\ activeId \in Nat /\ ActiveFollowsPlugin
  BY IndexParts DEF ListTypes, QueueTypes
<1>2. /\ DOMAIN list = 1..Len(list) /\ Len(list) \in Nat
      /\ \A i \in 1..Len(list) : list[i].id \in Nat
  BY <1>1, ListElements
<1>3. CASE ErasePlugin
  <2> DEFINE rest == RemoveAt(list, unloading)
             next == IF active # unloading \/ rest = <<>> THEN 0
                     ELSE IF unloading > Len(rest) THEN Len(rest)
                     ELSE unloading
  <2>1. /\ unloading > 0 /\ requests = <<>> /\ unloading' = 0
        /\ UNCHANGED <<functors, notes, server>>
    BY <1>3 DEF ErasePlugin
  <2>2. CASE next > 0 /\ rest[next].ok
    <3> DEFINE r == [type |-> "Edit", a |-> next, b |-> 0,
                     id |-> rest[next].id, ver |-> clientVer + 1,
                     stale |-> stale]
    <3>1. /\ active' = next /\ activeId' = rest[next].id
          /\ requests' = <<r>>
      BY <1>3, <2>2 DEF ErasePlugin, Edited, EditRequest
    <3>2. unloading \in DOMAIN list
      BY <1>1, <1>2, <2>1
    <3>3. rest \in Seq(Entries) /\ Len(rest) = Len(list) - 1
      BY <1>1, <3>2, RestElements
    <3> HIDE DEF rest
    <3>4. next \in 1..Len(rest)
      BY <1>1, <1>2, <2>1, <2>2, <3>2, <3>3
    <3> HIDE DEF next
    <3>5. next \in Nat /\ rest[next].id \in Nat
      <4>1. rest[next] \in Entries /\ Len(rest) \in Nat
        BY <3>3, <3>4, ElementsOf
      <4> QED
        BY <3>4, <4>1 DEF Entries
    <3>6. /\ r \in Requests /\ r.type = "Edit" /\ r.a = next
          /\ r.id = rest[next].id
      BY <1>1, <3>5 DEF Requests
    <3> HIDE DEF r
    <3>7. requests' = Append(requests, r)
      BY <2>1, <3>1
    <3> QED
      BY <1>1, <3>1, <3>6, <3>7, ShownAsked
  <2>3. CASE ~(next > 0 /\ rest[next].ok)
    <3>1. /\ active' = AfterUnload(active, unloading)
          /\ activeId' = IF active = unloading THEN 0 ELSE activeId
          /\ moved' = (moved \/ unloading <= active)
          /\ requests' = requests
      BY <1>3, <2>3 DEF ErasePlugin
    <3> HIDE DEF next, rest
    <3>2. CASE unloading <= active
      <4>1. moved'
        BY <3>1, <3>2, Zenon
      <4> QED
        BY <1>1, <4>1, ShownAsked, Zenon
    <3>3. CASE ~(unloading <= active)
      <4>0. /\ active < unloading /\ active # unloading
            /\ active \in Nat /\ unloading \in Nat
        BY <1>1, <1>2, <3>3
      <4>1. active' = active /\ activeId' = activeId /\ (~moved' => ~moved)
        <5>1. AfterUnload(active, unloading) = active
          BY <4>0 DEF AfterUnload
        <5>2. activeId' = activeId
          BY <3>1, <4>0
        <5>3. ~moved' => ~moved
          BY <3>1, Zenon
        <5> QED
          BY <3>1, <5>1, <5>2, <5>3
      <4>2. Watched' => Watched
        BY <1>1, <1>2, <3>3, <4>1 DEF Watched
      <4>3. HideComes => HideComes'
        BY <2>1, <4>1 DEF HideComes
      <4> QED
        BY <1>1, <2>1, <3>1, <4>1, <4>2, <4>3, ShownKept
    <3> QED
      BY <3>2, <3>3
  <2> QED
    BY <2>2, <2>3
<1>4. ASSUME functors # <<>>, Head(functors).type # "hide",
             functors' = Tail(functors)
               \/ \E g : functors' = Append(Tail(functors), g),
             UNCHANGED <<active, unloading, notes, server, activeId, moved>>,
             requests' = requests
               \/ \E r \in Requests : /\ requests' = Append(requests, r)
                                      /\ Harmless(r, active)
      PROVE  ShownInv'
  <2>1. Tail(functors) \in Seq(Functors)
    BY <1>1, <1>4, TailElements
  <2>2. HideIn(functors) => HideIn(functors')
    BY <1>1, <1>4, <2>1, HideStays
  <2>3. (Watched' => Watched) /\ (HideComes => HideComes')
    BY <1>4, <2>2 DEF Watched, HideComes
  <2> QED
    BY <1>1, <1>4, <2>3, ShownKept
<1>5. CASE SkipUpdate
  <2>1. /\ functors # <<>> /\ Head(functors).type # "hide"
        /\ functors' = Tail(functors) /\ requests' = requests
        /\ UNCHANGED <<active, unloading, notes, server, activeId, moved>>
    BY <1>5 DEF SkipUpdate, Handled
  <2> QED
    BY <1>4, <2>1
<1>6. ASSUME NEW a \in Nat, NEW f, f.id \in Nat, f.ver \in Nat,
             f.stale \in BOOLEAN, Ask(<<SetRequest(a, f)>>)
      PROVE  \E r \in Requests : /\ requests' = Append(requests, r)
                                 /\ Harmless(r, active)
  <2> DEFINE r == SetRequest(a, f)
  <2>1. r \in Requests /\ r.type = "Set"
    BY <1>6 DEF SetRequest, Requests
  <2> HIDE DEF r
  <2>2. requests' = Append(requests, r)
    BY <1>1, <1>6, <2>1, AskedOne DEF Ask, r
  <2>3. Harmless(r, active)
    BY <2>1 DEF Harmless
  <2> QED
    BY <2>1, <2>2, <2>3
<1>7. CASE UpdateValue
  <2> DEFINE f == Head(functors)
  <2>1. /\ functors # <<>> /\ f.type # "hide" /\ f.type \in {"value", "update"}
        /\ \/ functors' = Tail(functors) \o <<>>
           \/ \E g : functors' = Tail(functors) \o <<g>>
        /\ requests' = requests \/ Ask(<<SetRequest(f.idx, f)>>)
        /\ UNCHANGED <<active, unloading, notes, server, activeId, moved>>
    BY <1>7 DEF UpdateValue
  <2>2. f \in Functors
    BY <2>1, HeadFunctor
  <2> HIDE DEF f
  <2>3. f.idx \in Nat /\ f.id \in Nat /\ f.ver \in Nat /\ f.stale \in BOOLEAN
    BY <2>1, <2>2 DEF Functors, Values, Settings, Bindings
  <2>4. Tail(functors) \in Seq(Functors)
    BY <1>1, <2>1, TailElements
  <2>5. \/ functors' = Tail(functors)
        \/ \E g : functors' = Append(Tail(functors), g)
    <3>1. ASSUME NEW g, functors' = Tail(functors) \o <<g>>
          PROVE  functors' = Append(Tail(functors), g)
      <4>1. Tail(functors) \in Seq(Functors \cup {g}) /\ g \in Functors \cup {g}
        BY <2>4
      <4> QED
        BY <3>1, <4>1
    <3>2. CASE functors' = Tail(functors) \o <<>>
      BY <2>4, <3>2
    <3> QED
      BY <2>1, <3>1, <3>2
  <2>6. \/ requests' = requests
        \/ \E r \in Requests : /\ requests' = Append(requests, r)
                               /\ Harmless(r, active)
    BY <1>6, <2>1, <2>3
  <2> QED
    BY <1>4, <2>1, <2>5, <2>6 DEF f
<1>8. CASE SetValue
  <2> DEFINE f == Head(functors)
             off == f.stale \/ stale \/ param[f.idx] # f.was
             g == [f EXCEPT !.stale = off]
  <2>1. /\ functors # <<>> /\ f.type = "set" /\ functors' = Tail(functors)
        /\ Ask(<<SetRequest(param[f.idx], g)>>)
        /\ UNCHANGED <<active, unloading, notes, server, activeId, moved>>
    BY <1>8 DEF SetValue, Handled
  <2>2. f \in Functors
    BY <2>1, HeadFunctor
  <2>3. off \in BOOLEAN
    OBVIOUS
  <2> HIDE DEF f, off
  <2>4. f \in Settings
    BY <2>1, <2>2 DEF Functors, Values, Settings, Bindings
  <2>5. param[f.idx] \in Nat
    BY <1>1, <2>4, IndexBounds DEF ListTypes, Settings
  <2>6. g.id \in Nat /\ g.ver \in Nat /\ g.stale \in BOOLEAN
    BY <2>3, <2>4 DEF Settings
  <2> HIDE DEF g
  <2>7. \E r \in Requests : /\ requests' = Append(requests, r)
                            /\ Harmless(r, active)
    BY <1>6, <2>1, <2>5, <2>6
  <2> QED
    BY <1>4, <2>1, <2>7 DEF f
<1>9. CASE HideFromServer
  <2>1. activeId' = 0
    BY <1>9 DEF HideFromServer
  <2> QED
    BY <1>1, <2>1, ShownAsked
<1>10. CASE Bind
  <2>1. CASE active > 0
    <3>1. Edited(active, list[active]) /\ Ask(EditRequest(active, list[active]))
      BY <1>10, <2>1 DEF Bind
    <3>2. active \in Nat /\ list[active].id \in Nat
      BY <1>1, <1>2, <2>1
    <3> QED
      BY <1>1, <3>1, <3>2, EditShown
  <2>2. CASE ~(active > 0)
    <3>1. activeId' = activeId
      BY <1>10, <2>2 DEF Bind
    <3>2. ~(activeId' > 0)
      BY <1>1, <2>2, <3>1 DEF ActiveFollowsPlugin
    <3> QED
      BY <1>1, <3>2, ShownAsked
  <2> QED
    BY <2>1, <2>2
<1> QED
  BY <1>3, <1>5, <1>7, <1>8, <1>9, <1>10 DEF MessageThread

(* What the client thread and the worker do.                               *)
LEMMA ClientShown ==
  ASSUME IndexInv, ShownInv, Receive \/ NewSession
  PROVE  ShownInv'
<1> USE DEF clientSide, server, counters
<1>1. /\ QueueTypes /\ notes \in Seq(Notices) /\ functors \in Seq(Functors)
  BY IndexParts DEF QueueTypes
<1>2. CASE NewSession
  <2>1. moved'
    BY <1>2 DEF NewSession
  <2> QED
    BY <1>1, <2>1, ShownAsked, Zenon
<1>3. CASE Receive
  <2> DEFINE n == Head(notes)
  <2>1. /\ notes # <<>> /\ notes' = Tail(notes)
        /\ UNCHANGED <<active, unloading, requests, server, activeId, moved>>
    BY <1>3 DEF Receive
  <2>2. functors' = functors \/ \E g : functors' = Append(functors, g)
    BY <1>3 DEF Receive, Post
  <2>3. n.type = "hide" /\ n.idx = active =>
          functors' = Append(functors, Functor("hide", n.idx, n.id, n))
    BY <1>3 DEF Receive, Post
  <2> HIDE DEF n
  <2>4. HideIn(functors) => HideIn(functors')
    BY <1>1, <2>2, HideStays
  <2>5. n.type = "hide" /\ n.idx = active => HideIn(functors')
    <3> SUFFICES ASSUME n.type = "hide", n.idx = active
                 PROVE  HideIn(functors')
      OBVIOUS
    <3> DEFINE f == Functor("hide", n.idx, n.id, n)
    <3>1. f.type = "hide"
      BY DEF Functor
    <3>2. functors' = Append(functors, f)
      BY <2>3
    <3> HIDE DEF f
    <3>3. functors \in Seq(Functors \cup {f}) /\ f \in Functors \cup {f}
      BY <1>1
    <3>4. /\ Len(functors') \in 1..Len(functors')
          /\ functors'[Len(functors')] = f
      BY <3>2, <3>3
    <3> QED
      BY <3>1, <3>4 DEF HideIn
  <2>6. NoteFor(notes, active) =>
          NoteFor(Tail(notes), active) \/ (n.type = "hide" /\ n.idx = active)
    BY <1>1, NoteStays DEF n
  <2>7. HideComes => HideComes'
    BY <2>1, <2>4, <2>5, <2>6 DEF HideComes
  <2>8. Watched' => Watched
    BY <2>1 DEF Watched
  <2> QED
    BY <1>1, <2>1, <2>7, <2>8, ShownKept
<1> QED
  BY <1>2, <1>3

(* A request that the worker handles: the others stay in the queue.        *)
LEMMA HandledShown ==
  ASSUME QueueTypes, ShownInv, NEW type, Handle(type),
         ASSUME activeId > 0,
                \/ EditorOpen /\ Harmless(Head(requests), active)
                \/ /\ Head(requests).type = "Edit"
                   /\ Head(requests).a = active /\ Head(requests).id = activeId
         PROVE  EditorOpen'
  PROVE  ShownInv'
<1> USE DEF clientSide, counters
<1>1. /\ requests \in Seq(Requests) /\ requests # <<>>
      /\ requests' = Tail(requests)
      /\ UNCHANGED <<active, unloading, functors, notes, activeId, moved>>
  BY DEF Handle, QueueTypes
<1> SUFFICES ASSUME Watched'
             PROVE  \/ EditComes(requests', active, activeId)
                    \/ EditorOpen' /\ Calm(requests', active)
                    \/ HideComes'
  BY <1>1 DEF ShownInv
<1>2. Watched /\ activeId > 0
  BY <1>1 DEF Watched
<1>3. /\ EditComes(requests, active, activeId) =>
           \/ EditComes(requests', active, activeId)
           \/ /\ Head(requests).type = "Edit"
              /\ Head(requests).a = active /\ Head(requests).id = activeId
              /\ Calm(requests', active)
      /\ Calm(requests, active) =>
           Calm(requests', active) /\ Harmless(Head(requests), active)
  BY <1>1, QueueTail
<1>4. CASE EditComes(requests, active, activeId)
  BY <1>2, <1>3, <1>4
<1>5. CASE EditorOpen /\ Calm(requests, active)
  BY <1>2, <1>3, <1>5
<1>6. CASE HideComes
  BY <1>1, <1>6 DEF HideComes
<1> QED
  BY <1>2, <1>4, <1>5, <1>6 DEF ShownInv

LEMMA WorkerShown ==
  ASSUME IndexInv, NamesInv, ShownInv, Worker
  PROVE  ShownInv'
<1> USE DEF clientSide, counters
<1> DEFINE r == Head(requests)
<1>1. /\ QueueTypes /\ ChainTypes /\ TrailInv /\ chain \in Seq(Processors)
      /\ requests \in Seq(Requests)
  BY IndexParts DEF ChainTypes, QueueTypes
<1>2. DOMAIN chain = 1..Len(chain) /\ Len(chain) \in Nat
  BY <1>1, ChainElements
<1>3. CASE HandleExchange
  <2>1. /\ Handle("Exchange") /\ r.type = "Exchange"
        /\ UNCHANGED <<editor, window, active, activeId>>
    BY <1>3 DEF HandleExchange, Handle
  <2>2. /\ DOMAIN chain' = DOMAIN chain
        /\ \A j \in DOMAIN chain :
             chain'[j].id = chain[Exchanged(j, r.a, r.b)].id
    BY <1>3, HandleExchangeInv
  <2> HIDE DEF r
  <2>3. ASSUME EditorOpen /\ Harmless(r, active)
        PROVE  EditorOpen'
    <3>1. Exchanged(active, r.a, r.b) = active
      BY <2>1, <2>3 DEF Harmless, Exchanged
    <3> QED
      BY <2>1, <2>2, <2>3, <3>1 DEF EditorOpen
  <2>4. ~(r.type = "Edit")
    BY <2>1
  <2> QED
    BY <1>1, <2>1, <2>3, <2>4, HandledShown DEF r
<1>4. CASE HandleDel
  <2>1. /\ Handle("Del") /\ r.type = "Del" /\ UNCHANGED <<active, activeId>>
        /\ editor' = IF HidesEditor(r.a) THEN 0 ELSE editor
        /\ window' = IF HidesEditor(r.a) \/ window.id = chain[r.a].id
                       THEN NoWindow ELSE window
    BY <1>4 DEF HandleDel, Handle
  <2>2. /\ DOMAIN chain' = 1..Len(chain) - 1
        /\ \A j \in 1..Len(chain) - 1 :
             chain'[j].id = chain[IF j < r.a THEN j ELSE j + 1].id
        /\ r.a \in DOMAIN chain
    BY <1>4, HandleDelInv
  <2> HIDE DEF r
  <2>3. ASSUME EditorOpen /\ Harmless(r, active)
        PROVE  EditorOpen'
    <3>1. /\ editor = active /\ active \in DOMAIN chain
          /\ chain[active].id = activeId /\ window.id = activeId
          /\ r.a > active
      BY <2>1, <2>3 DEF EditorOpen, Harmless
    <3>2. chain[r.a].id # chain[active].id
      BY <1>2, <2>2, <3>1 DEF NamesInv, Distinct
    <3>3. ~HidesEditor(r.a)
      BY <1>2, <2>2, <3>1 DEF HidesEditor
    <3>4. editor' = editor /\ window' = window
      BY <2>1, <3>1, <3>2, <3>3
    <3>5. active \in 1..Len(chain) - 1 /\ active < r.a
      BY <1>2, <2>2, <3>1
    <3>6. chain'[active].id = chain[active].id
      BY <2>2, <3>5
    <3> QED
      BY <2>1, <2>2, <3>1, <3>4, <3>5, <3>6 DEF EditorOpen
  <2>4. ~(r.type = "Edit")
    BY <2>1
  <2> QED
    BY <1>1, <2>1, <2>3, <2>4, HandledShown DEF r
<1>5. CASE HandleEdit
  <2>1. /\ Handle("Edit") /\ requests # <<>> /\ r.type = "Edit"
        /\ UNCHANGED <<active, activeId, chain>>
        /\ r.a \in DOMAIN chain =>
             /\ editor' = r.a
             /\ window' = IF AlreadyShown(r.a) THEN window
                          ELSE [id |-> chain[r.a].id, idx |-> r.a]
    BY <1>5 DEF HandleEdit, Handle
  <2>2. Finds(r, Served)
    BY <1>1, <2>1, TrailHead
  <2> HIDE DEF r
  <2>3. r.a \in DOMAIN chain /\ chain[r.a].id = r.id
    BY <1>1, <1>2, <2>1, <2>2, ServedFacts DEF Finds
  <2>4. window'.id = r.id
    BY <2>1, <2>3 DEF AlreadyShown
  <2>5. ASSUME r.a = active /\ r.id = activeId
        PROVE  EditorOpen'
    BY <2>1, <2>3, <2>4, <2>5 DEF EditorOpen
  <2>6. ~Harmless(r, active)
    BY <2>1 DEF Harmless
  <2> QED
    BY <1>1, <2>1, <2>5, <2>6, HandledShown DEF r
<1>6. CASE HandleHide
  <2>1. Handle("Hide") /\ r.type = "Hide"
    BY <1>6 DEF HandleHide, Handle
  <2> HIDE DEF r
  <2>2. ~Harmless(r, active) /\ ~(r.type = "Edit")
    BY <2>1 DEF Harmless
  <2> QED
    BY <1>1, <2>1, <2>2, HandledShown DEF r
<1>7. CASE HandleSet
  <2>1. /\ Handle("Set") /\ r.type = "Set"
        /\ UNCHANGED <<active, activeId, chain, editor, window>>
    BY <1>7 DEF HandleSet, Handle
  <2> HIDE DEF r
  <2>2. (EditorOpen => EditorOpen') /\ ~(r.type = "Edit")
    BY <2>1 DEF EditorOpen
  <2> QED
    BY <1>1, <2>1, <2>2, HandledShown DEF r
<1> QED
  BY <1>3, <1>4, <1>5, <1>6, <1>7 DEF Worker

(* What the plugins and their windows notify of.                           *)
LEMMA NotifyShown ==
  ASSUME IndexInv, ShownInv, NEW i \in DOMAIN chain,
         NEW type \in {"value", "status"}, Notify(i, type)
  PROVE  ShownInv'
<1> USE DEF clientSide, server, counters
<1>1. /\ QueueTypes /\ notes \in Seq(Notices) /\ ChainTypes /\ serverVer \in Nat
  BY IndexParts DEF QueueTypes, ChainTypes
<1> DEFINE n == Note(type, chain[i].idx, chain[i].id, chain[i].behind)
<1>2. /\ notes' = Append(notes, n)
      /\ UNCHANGED <<active, unloading, functors, requests, server, activeId,
                     moved>>
  BY DEF Notify
<1>3. n \in Notices
  BY <1>1, ChainElements DEF Note, Notices
<1> HIDE DEF n
<1>4. (Watched' => Watched) /\ (HideComes => HideComes')
  BY <1>1, <1>2, <1>3, NoteStays DEF Watched, HideComes
<1> QED
  BY <1>1, <1>2, <1>4, ShownKept

LEMMA CloseShown ==
  ASSUME IndexInv, NamesInv, ShownInv, CloseWindow
  PROVE  ShownInv'
<1> USE DEF clientSide, counters
<1>1. /\ QueueTypes /\ notes \in Seq(Notices) /\ ChainTypes /\ serverVer \in Nat
      /\ window \in Windows
  BY IndexParts DEF QueueTypes, ChainTypes
<1> DEFINE n == Note("hide", window.idx, window.id, FALSE)
<1>2. /\ notes' = Append(notes, n)
      /\ moved' = (moved \/ \A i \in DOMAIN chain :
                              chain[i].id = window.id => i # window.idx)
      /\ UNCHANGED <<active, unloading, functors, requests, chain, editor,
                     activeId>>
  BY DEF CloseWindow
<1>3. n \in Notices /\ n.type = "hide" /\ n.idx = window.idx
  BY <1>1 DEF Note, Notices, Windows
<1> HIDE DEF n
<1> SUFFICES ASSUME Watched'
             PROVE  EditComes(requests, active, activeId) \/ HideComes'
  BY <1>2 DEF ShownInv
<1>4. Watched
  BY <1>2 DEF Watched
<1>5. CASE EditorOpen
  <2>1. ~moved'
    BY DEF Watched
  <2>2. PICK i \in DOMAIN chain : chain[i].id = window.id /\ i = window.idx
    BY <1>2, <2>1
  <2>3. i = active
    BY <1>5, <2>2 DEF EditorOpen, NamesInv, Distinct
  <2>4. NoteFor(notes', active)
    BY <1>1, <1>2, <1>3, <2>2, <2>3, NoteStays
  <2> QED
    BY <1>2, <2>4 DEF HideComes
<1>6. CASE HideComes
  BY <1>1, <1>2, <1>3, <1>6, NoteStays DEF HideComes
<1> QED
  BY <1>4, <1>5, <1>6 DEF ShownInv

LEMMA ShownNext ==
  ASSUME IndexInv, NamesInv, ShownInv, [IndexesNext]_indexVars
  PROVE  ShownInv'
<1>1. CASE UNCHANGED indexVars
  <2>1. /\ UNCHANGED <<active, unloading, functors, requests, notes, chain,
                       editor, window, activeId, moved>>
    BY <1>1 DEF indexVars, clientSide, server
  <2>2. QueueTypes /\ (Watched' => Watched) /\ (HideComes => HideComes')
    BY <2>1, IndexParts DEF Watched, HideComes
  <2> QED
    BY <2>1, <2>2, ShownKept
<1> QED
  BY <1>1, UserShown, FunctorsShown, ClientShown, WorkerShown, NotifyShown,
     CloseShown DEF IndexesNext

LEMMA InitShown == IndexesInit => ShownInv
BY DEF IndexesInit, ShownInv, Watched

LEMMA ShownFollows == ShownInv => EditorShown
<1> SUFFICES ASSUME ShownInv, functors = <<>>, requests = <<>>, notes = <<>>,
                    Free, activeId > 0, ~moved
             PROVE  window.id = activeId
  BY DEF EditorShown
<1>1. Watched
  BY DEF Watched, Free
<1>2. Len(requests) = 0 /\ Len(functors) = 0 /\ Len(notes) = 0
  OBVIOUS
<1>3. ~EditComes(requests, active, activeId)
  BY <1>2 DEF EditComes
<1>4. ~HideComes
  BY <1>2 DEF HideComes, NoteFor, HideIn
<1> QED
  BY <1>1, <1>3, <1>4 DEF ShownInv, EditorOpen

(* The indexes of the loaded plugins follow them: list and chain have the  *)
(* same plugins in the same order at the same version, the active plugin   *)
(* is the one the user opened, and the slots and the parameters they       *)
(* automate name each other until a plugin is unloaded in front of one.    *)
THEOREM IndexesFollowPlugins == IndexesSpec => []IndexesFollow
<1>1. IndexInv /\ [IndexesNext]_indexVars => IndexInv'
  BY NextIndexInv
<1> QED
  BY <1>1, InitIndexInv, IndexInvFollows, PTL DEF IndexesSpec

(* A value or a status that reaches another plugin than the one it is      *)
(* about met a change of the list or the chain on its way, or went through *)
(* an index that an unloaded plugin in front had made stale: the paths of  *)
(* exchangePlugins(), unloadPlugin(), automation and reconnect add no      *)
(* other way.                                                              *)
THEOREM MisdirectionsAreExplained == IndexesSpec => []MisdirectionsExplained
<1>1. IndexInv /\ [IndexesNext]_indexVars => IndexInv'
  BY NextIndexInv
<1> QED
  BY <1>1, InitIndexInv, IndexInvFollows, PTL DEF IndexesSpec

(* Once nothing is under way the server shows the editor that the client   *)
(* takes for shown, whatever was exchanged, unloaded or closed in between, *)
(* unless the active plugin itself changed its place.                      *)
THEOREM EditorIsShown == IndexesSpec => []EditorShown
<1>1. IndexInv /\ [IndexesNext]_indexVars => IndexInv'
  BY NextIndexInv
<1>2. IndexInv /\ NamesInv /\ [IndexesNext]_indexVars => NamesInv'
  BY NamesNext
<1>3. IndexInv /\ NamesInv /\ ShownInv /\ [IndexesNext]_indexVars => ShownInv'
  BY ShownNext
<1> QED
  BY <1>1, <1>2, <1>3, InitIndexInv, InitNames, InitShown, ShownFollows,
     PTL DEF IndexesSpec
=============================================================================
