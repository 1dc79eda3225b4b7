-------------------------- MODULE CommandProtocol --------------------------
(***************************************************************************)
(* Requests and replies on the command connection: the calls of            *)
(* Plugin/Source/Client.cpp, the framing of Common/Source/Message.hpp and  *)
(* the message loop of Server/Source/Worker.cpp.                           *)
(*                                                                         *)
(* A call checks isReadyLockFree(), takes m_clientMtx, sends its request   *)
(* and reads the replies from the same socket.  Replies carry no number:   *)
(* the next message of the expected type is taken for the answer.  A read  *)
(* that meets another type has consumed the header and leaves the body, a  *)
(* read that times out leaves the answer to whoever reads next.  Some      *)
(* calls report that with m_error, which makes the client thread           *)
(* reconnect; others return silently.                                      *)
(***************************************************************************)
EXTENDS Naturals, Sequences, FiniteSets

CONSTANTS
  Thread,       (* Threads that call the client.                           *)
  ClientThread, (* The one of them that runs Client::run().                *)
  MaxCalls,     (* Bound on the calls.                                     *)
  MaxSessions,  (* Bound on the connections.                               *)
  MaxFaults     (* Bound on lost connections.                              *)

ASSUME ClientThreadAssumption == ClientThread \in Thread

ASSUME ProtocolBounds ==
  MaxCalls \in Nat /\ MaxSessions \in Nat /\ MaxFaults \in Nat

Nobody == "nobody"
ASSUME NobodyIsNoThread == Nobody \notin Thread

VARIABLES
  thread,     (* The call each thread is in, see Idle.                     *)
  holder,     (* Who holds m_clientMtx.                                    *)
  ready,      (* m_ready                                                   *)
  error,      (* m_error                                                   *)
  connected,  (* m_cmdOut is connected to a worker.                        *)
  requests,   (* Requests on their way to the worker.                      *)
  replies,    (* Messages, or what is left of them, on their way back.     *)
  processors  (* Size of the worker's chain.                               *)

(* History.                                                                *)
VARIABLES
  calls,      (* Calls made so far, so the number of the last one.         *)
  abandoned,  (* Calls of this session that ended without their answer.    *)
  silent,     (* Those of them that did not set m_error.                   *)
  stale,      (* Answers a call took that belong to another.               *)
  sessions, faults

flags == <<ready, error>>
stream == <<connected, requests, replies, processors>>
history == <<abandoned, silent, stale>>
bounds == <<sessions, faults>>
vars == <<thread, holder, flags, stream, calls, history, bounds>>

-----------------------------------------------------------------------------
(* The calls: the messages each one waits for and whether a missing one is *)
(* an error of the connection.                                             *)

Call(answers, loud) == [answers |-> answers, loud |-> loud]

AddPlugin == Call(<<"AddPluginResult", "Presets", "Parameters">>, FALSE)
DelPlugin == Call(<<"Result">>, FALSE)
GetPluginSettings == Call(<<"PluginSettings">>, TRUE)
SetPluginSettings == Call(<<>>, TRUE)
GetRecents == Call(<<"RecentsList">>, TRUE)
GetParameterValue == Call(<<"ParameterValue">>, TRUE)
(* A plugin with two parameters.                                           *)
GetAllParameterValues == Call(<<"ParameterValue", "ParameterValue">>, FALSE)
UpdatePluginList == Call(<<"PluginList">>, FALSE)
UpdateCPULoad == Call(<<"CPULoad">>, FALSE)
(* setParameterValue(), bypassPlugin(), editPlugin() and the like.         *)
Notification == Call(<<>>, FALSE)

Requirement ==
  [AddPlugin |-> AddPlugin, DelPlugin |-> DelPlugin,
   GetPluginSettings |-> GetPluginSettings,
   SetPluginSettings |-> SetPluginSettings, GetRecents |-> GetRecents,
   GetParameterValue |-> GetParameterValue,
   GetAllParameterValues |-> GetAllParameterValues,
   UpdatePluginList |-> UpdatePluginList, UpdateCPULoad |-> UpdateCPULoad,
   Notification |-> Notification]

Index == {0, 1}

(* Plugin 0 exists or not, as the chain grows and shrinks, and an answer   *)
(* for it can be taken for one for plugin 1.                               *)
IndexOf(name) == IF name = "GetParameterValue" THEN Index ELSE {0}

(* Plugin 1 runs once per channel and has parameters for both of them.     *)
ChannelsOf(idx) == 0..idx

(* Client::run() loads the plugins of a new session, bypasses some, polls  *)
(* their settings and the load of the server; it alone does the last.      *)
MadeBy(t) ==
  IF t = ClientThread
    THEN {"AddPlugin", "GetPluginSettings", "UpdateCPULoad", "Notification"}
    ELSE DOMAIN Requirement \ {"UpdateCPULoad", "UpdatePluginList"}

Idle == [at |-> "idle", name |-> "Notification", idx |-> 0, channel |-> 0,
         call |-> 0, got |-> 0, seen |-> {}]

Init ==
  /\ thread = [t \in Thread |-> IF t = ClientThread
                                  THEN [Idle EXCEPT !.at = "closed"] ELSE Idle]
  /\ holder = Nobody
  /\ ready = FALSE /\ error = FALSE /\ connected = FALSE
  /\ requests = <<>> /\ replies = <<>> /\ processors = 0
  /\ calls = 0
  /\ abandoned = {} /\ silent = {} /\ stale = {}
  /\ sessions = 0 /\ faults = 0

-----------------------------------------------------------------------------
(* Plausible mistakes.  Each of these operators is what a bug would make   *)
(* of the operator it is named after; no action uses them.                 *)

(* The worker goes on after a failed AddPlugin.                            *)
AddPluginReplies_NoReturn(req, ok) ==
  << [req EXCEPT !.type = "AddPluginResult", !.ok = ok],
     [req EXCEPT !.type = "Presets"], [req EXCEPT !.type = "Parameters"] >>

(* A failed read of an answer is never an error of the connection.         *)
Fails_Quiet(t) ==
  LET call == thread[t].call IN
    /\ error' = error
    /\ abandoned' = abandoned \cup {call}
    /\ silent' = IF Requirement[thread[t].name].loud THEN silent
                                                     ELSE silent \cup {call}

-----------------------------------------------------------------------------
(* The calling threads.                                                    *)

(* isReadyLockFree().  setPluginSettings() does without.                   *)
Begin(t, name, idx, channel) ==
  /\ thread[t].at = "idle"
  /\ calls - sessions < MaxCalls
  /\ name = "SetPluginSettings" \/ (ready /\ ~error)
  /\ calls' = calls + 1
  /\ thread' = [thread EXCEPT ![t] =
                  [at |-> "checked", name |-> name, idx |-> idx,
                   channel |-> channel, call |-> calls + 1, got |-> 0,
                   seen |-> abandoned]]
  /\ UNCHANGED <<holder, flags, stream, history, bounds>>

(* A request names a plugin and a channel of it; an answer with a value    *)
(* names the plugin and is the value of the processor with the number of.  *)
Request(call, name, idx, channel) ==
  [call |-> call, type |-> name, idx |-> idx, channel |-> channel, of |-> idx,
   ok |-> TRUE, whole |-> TRUE]

(* The settings that setPluginSettings() sends are a message of their own. *)
Messages(call, name, idx, channel) ==
  IF name = "SetPluginSettings"
    THEN <<Request(call, name, idx, channel),
           Request(call, "PluginSettings", idx, channel)>>
    ELSE <<Request(call, name, idx, channel)>>

(* LockByID and send().  A call without answers is done.                   *)
Send(t) ==
  LET me == thread[t] IN
    /\ me.at = "checked"
    /\ holder = Nobody
    /\ IF connected
         THEN /\ requests' = requests \o
                 Messages(me.call, me.name, me.idx, me.channel)
              /\ UNCHANGED error
         ELSE /\ error' = (error \/ me.name = "SetPluginSettings")
              /\ UNCHANGED requests
    /\ IF Requirement[me.name].answers = <<>>
         THEN /\ thread' = [thread EXCEPT ![t] = Idle]
              /\ UNCHANGED holder
         ELSE /\ thread' = [thread EXCEPT ![t].at = "read"]
              /\ holder' = t
    /\ UNCHANGED <<ready, connected, replies, processors, calls, history, bounds>>

Return(t) ==
  /\ thread' = [thread EXCEPT ![t] = Idle]
  /\ holder' = Nobody

(* A call ends without its answer.                                         *)
Fails(t) ==
  LET loud == Requirement[thread[t].name].loud
      call == thread[t].call IN
    /\ error' = (error \/ loud)
    /\ abandoned' = abandoned \cup {call}
    /\ silent' = IF loud THEN silent ELSE silent \cup {call}

(* init() reads the list of plugins and does not look at the result.       *)
Connecting(t) == thread[t].name = "UpdatePluginList" /\ ~ready

InitDone(t) ==
  /\ Return(t)
  /\ ready' = TRUE
  /\ error' = FALSE

End(t) == IF Connecting(t) THEN InitDone(t) ELSE Return(t) /\ UNCHANGED flags

FailedEnd(t) ==
  /\ stale' = stale
  /\ UNCHANGED <<connected, requests, processors, calls, bounds>>
  /\ IF Connecting(t)
       THEN /\ InitDone(t)
            /\ abandoned' = abandoned \cup {thread[t].call}
            /\ silent' = silent \cup {thread[t].call}
       ELSE /\ Return(t)
            /\ Fails(t)
            /\ UNCHANGED ready

Expected(t) == Requirement[thread[t].name].answers[thread[t].got + 1]

Arrived(t) == /\ thread[t].at = "read"
              /\ connected
              /\ replies # <<>>

AtAnswer(t) == /\ Arrived(t)
               /\ Head(replies).whole
               /\ Head(replies).type = Expected(t)

(* getParameterValue() compares the indexes of request and answer.         *)
Matches(t, answer) ==
  thread[t].name = "GetParameterValue" => answer.idx = thread[t].idx

IsLast(t, answer) ==
  \/ thread[t].got + 1 = Len(Requirement[thread[t].name].answers)
  \/ ~answer.ok

Take(t) ==
  LET answer == Head(replies)
      me == thread[t] IN
    /\ AtAnswer(t)
    /\ Matches(t, answer)
    /\ replies' = Tail(replies)
    /\ stale' = IF answer.call = me.call THEN stale
                ELSE stale \cup {[from |-> answer.call, seen |-> me.seen]}
    /\ IF IsLast(t, answer)
         THEN End(t)
         ELSE /\ thread' = [thread EXCEPT ![t].got = @ + 1]
              /\ UNCHANGED <<holder, flags>>
    /\ UNCHANGED <<connected, requests, processors, calls, abandoned, silent, bounds>>

(* The answer to another request for a value.                              *)
TakeMismatch(t) ==
  /\ AtAnswer(t)
  /\ ~Matches(t, Head(replies))
  /\ replies' = Tail(replies)
  /\ FailedEnd(t)

Beheaded == <<[Head(replies) EXCEPT !.whole = FALSE]>> \o Tail(replies)

(* "invalid message type": the body stays in the stream.                   *)
WrongType(t) ==
  /\ Arrived(t)
  /\ Head(replies).whole
  /\ Head(replies).type # Expected(t)
  /\ replies' = Beheaded
  /\ FailedEnd(t)

(* "failed to read message body": it did not arrive within two seconds.    *)
BodyTimeout(t) ==
  /\ AtAnswer(t)
  /\ replies' = Beheaded
  /\ FailedEnd(t)

(* The body of an earlier message is read as a header.  It may be longer   *)
(* than a header, as long, or so short that the next header loses bytes.   *)
Misread(t) ==
  /\ Arrived(t)
  /\ ~Head(replies).whole
  /\ \/ replies' = replies
     \/ replies' = Tail(replies)
     \/ /\ Len(replies) > 1
        /\ replies' = <<[replies[2] EXCEPT !.whole = FALSE]>>
                      \o SubSeq(replies, 3, Len(replies))
  /\ FailedEnd(t)

(* Plausible mistake: only addPlugin() stops waiting.                      *)
Timeout_AddPlugin(t) ==
  /\ thread[t].at = "read"
  /\ thread[t].name = "AddPlugin"
  /\ connected
  /\ UNCHANGED replies
  /\ FailedEnd(t)

(* Nothing arrived in time.  The Timeout of addPlugin() covers all of its  *)
(* messages, and when it has passed the next one is not read.              *)
Timeout(t) ==
  /\ thread[t].at = "read"
  /\ connected
  /\ \/ replies = <<>>
     \/ thread[t].name = "AddPlugin" /\ thread[t].got > 0
  /\ UNCHANGED replies
  /\ FailedEnd(t)

(* The socket is gone.                                                     *)
ReadFails(t) ==
  /\ thread[t].at = "read"
  /\ ~connected
  /\ UNCHANGED replies
  /\ FailedEnd(t)

Step(t) ==
  \/ Send(t) \/ Take(t) \/ TakeMismatch(t) \/ WrongType(t) \/ BodyTimeout(t)
  \/ Misread(t) \/ Timeout(t) \/ ReadFails(t)

-----------------------------------------------------------------------------
(* The client thread between its calls.                                    *)

(* isReady() cannot get the mutex for too long.                            *)
LockTimeout ==
  /\ thread[ClientThread].at = "idle"
  /\ holder # Nobody
  /\ error' = TRUE
  /\ UNCHANGED <<thread, holder, ready, stream, calls, history, bounds>>

(* isReady() is false: close().                                            *)
Close ==
  /\ thread[ClientThread].at = "idle"
  /\ holder = Nobody
  /\ error \/ ~ready \/ ~connected
  /\ thread' = [thread EXCEPT ![ClientThread].at = "closed"]
  /\ ready' = FALSE
  /\ connected' = FALSE
  /\ requests' = <<>> /\ replies' = <<>>
  /\ abandoned' = {} /\ silent' = {} /\ stale' = {}
  /\ UNCHANGED <<holder, error, processors, calls, bounds>>

(* init(): the worker of the new session sends its list of plugins first.  *)
Connect ==
  /\ thread[ClientThread].at = "closed"
  /\ holder = Nobody
  /\ sessions < MaxSessions
  /\ sessions' = sessions + 1
  /\ calls' = calls + 1
  /\ holder' = ClientThread
  /\ thread' = [thread EXCEPT ![ClientThread] =
                  [Idle EXCEPT !.at = "read", !.name = "UpdatePluginList",
                               !.call = calls + 1]]
  /\ connected' = TRUE
  /\ requests' = <<Request(calls + 1, "UpdatePluginList", 0, 0)>>
  /\ processors' = 0
  /\ UNCHANGED <<flags, replies, history, faults>>

-----------------------------------------------------------------------------
(* The worker answers one request after the other.                         *)

Handle(name, answers(_)) ==
  /\ connected
  /\ requests # <<>>
  /\ Head(requests).type = name
  /\ requests' = Tail(requests)
  /\ replies' = replies \o answers(Head(requests))
  /\ UNCHANGED <<thread, holder, flags, connected, calls, history, bounds>>

One(type, req) == <<[req EXCEPT !.type = type]>>

AddPluginReplies(req, ok) ==
  IF ok THEN One("AddPluginResult", req) \o One("Presets", req)
             \o One("Parameters", req)
        ELSE <<[req EXCEPT !.type = "AddPluginResult", !.ok = FALSE]>>

(* The processor joins the chain even when it does not load.               *)
HandleAddPlugin(ok) ==
  /\ Handle("AddPlugin", LAMBDA req : AddPluginReplies(req, ok))
  /\ processors' = processors + 1

HandleDelPlugin ==
  /\ Handle("DelPlugin", LAMBDA req : One("Result", req))
  /\ processors' = IF Head(requests).idx < processors THEN processors - 1
                                                      ELSE processors

HandleGetPluginSettings ==
  /\ Handle("GetPluginSettings", LAMBDA req : One("PluginSettings", req))
  /\ UNCHANGED processors

(* The handler reads the second message itself, unless there is no such    *)
(* processor: then the message loop meets it.                              *)
HandleSetPluginSettings ==
  /\ connected
  /\ requests # <<>>
  /\ Head(requests).type = "SetPluginSettings"
  /\ requests' = IF Head(requests).idx < processors
                   THEN SubSeq(requests, 3, Len(requests))
                   ELSE Tail(requests)
  /\ UNCHANGED <<thread, holder, flags, connected, replies, processors, calls,
                 history, bounds>>

(* The handler passes channel and index in each other's place: the answer  *)
(* is labelled with the index, and the value is the one of the processor   *)
(* with the number of the channel, or 0.                                   *)
HandleGetParameterValue ==
  /\ Handle("GetParameterValue",
            LAMBDA req : One("ParameterValue", [req EXCEPT !.of = req.channel]))
  /\ UNCHANGED processors

HandleGetAllParameterValues ==
  /\ Handle("GetAllParameterValues",
            LAMBDA req : IF req.idx < processors
                           THEN One("ParameterValue", req)
                                \o One("ParameterValue", req)
                           ELSE <<>>)
  /\ UNCHANGED processors

HandleRecentsList ==
  /\ Handle("GetRecents", LAMBDA req : One("RecentsList", req))
  /\ UNCHANGED processors

HandlePluginList ==
  /\ Handle("UpdatePluginList", LAMBDA req : One("PluginList", req))
  /\ UNCHANGED processors

HandleCPULoad ==
  /\ Handle("UpdateCPULoad", LAMBDA req : One("CPULoad", req))
  /\ UNCHANGED processors

(* The handlers without an answer, and "unknown message type".             *)
HandleOther(type) ==
  /\ type \in {"Notification", "PluginSettings"}
  /\ Handle(type, LAMBDA req : <<>>)
  /\ UNCHANGED processors

Worker ==
  \/ \E ok \in BOOLEAN : HandleAddPlugin(ok)
  \/ HandleDelPlugin \/ HandleGetPluginSettings \/ HandleSetPluginSettings
  \/ HandleGetParameterValue \/ HandleGetAllParameterValues
  \/ HandleRecentsList \/ HandlePluginList \/ HandleCPULoad
  \/ \E type \in {"Notification", "PluginSettings"} : HandleOther(type)

Disconnect ==
  /\ connected
  /\ faults < MaxFaults
  /\ faults' = faults + 1
  /\ connected' = FALSE
  /\ requests' = <<>> /\ replies' = <<>>
  /\ UNCHANGED <<thread, holder, flags, processors, calls, history, sessions>>

-----------------------------------------------------------------------------
Next ==
  \/ \E t \in Thread : \E name \in MadeBy(t) :
       \E idx \in IndexOf(name) : \E channel \in ChannelsOf(idx) :
         Begin(t, name, idx, channel)
  \/ \E t \in Thread : Step(t)
  \/ LockTimeout \/ Close \/ Connect
  \/ Worker
  \/ Disconnect

Spec == Init /\ [][Next]_vars

FairSpec == Spec /\ \A t \in Thread : WF_vars(Step(t))

-----------------------------------------------------------------------------
(* Properties.                                                             *)

(* Requests are named for their calls, answers for what they carry.        *)
MessageType ==
  DOMAIN Requirement
  \cup {"AddPluginResult", "Presets", "Parameters", "Result", "PluginSettings",
        "RecentsList", "ParameterValue", "PluginList", "CPULoad"}

Message == [call : Nat, type : MessageType, idx : Index, channel : Index,
            of : Index, ok : BOOLEAN, whole : BOOLEAN]

(* m_clientMtx is held by the thread that reads answers, and only by it.   *)
TypeOK ==
  /\ \A t \in Thread :
       /\ thread[t].at \in {"idle", "checked", "read", "closed"}
       /\ thread[t].name \in DOMAIN Requirement
       /\ thread[t].at = "read" <=> holder = t
       /\ thread[t].at = "closed" => t = ClientThread /\ ~ready
  /\ holder \in Thread \cup {Nobody}
  /\ ready \in BOOLEAN /\ error \in BOOLEAN /\ connected \in BOOLEAN
  /\ requests \in Seq(Message) /\ replies \in Seq(Message)
  /\ processors \in Nat
  /\ silent \subseteq abandoned

(* As long as no call of the session ended without its answer, the stream  *)
(* is in step between the calls: the worker sent each call exactly the     *)
(* messages it read, so nothing is left for the next one.                  *)
InStep ==
  holder = Nobody /\ abandoned = {} =>
    /\ replies = <<>>
    /\ \A i \in DOMAIN requests :
         requests[i].type \in {"SetPluginSettings", "PluginSettings", "Notification"}

(* A call takes the answer of another one only if that one gave up         *)
(* silently, or after this one had looked at m_error: a call that sets     *)
(* m_error keeps later calls off the stream until it is replaced.          *)
StaleAnswersExplained ==
  \A s \in stale : s.from \in silent \/ s.from \notin s.seen

(* The value that getParameterValue() returns is the one of the plugin it  *)
(* was asked of.  It is not, as HandleGetParameterValue exchanges index    *)
(* and channel: no run has this property.                                  *)
ValueOfOwnPlugin ==
  [][\A t \in Thread :
       thread[t].name = "GetParameterValue" /\ Take(t)
         => Head(replies).of = thread[t].idx]_vars

(* Every call returns, and with it the mutex, whatever the network does:   *)
(* each read of an answer has a timeout.                                   *)
CallReturns ==
  \A t \in Thread : thread[t].at = "read" ~> thread[t].at # "read"

(* The mutex is with the thread that reads answers, and between the calls  *)
(* of a session without a failure nothing is left over for the next one.   *)
OneAnswerPerCall == TypeOK /\ InStep
=============================================================================
