----------------------- MODULE CommandProtocol_proofs -------------------------
(***************************************************************************)
(* Proofs about CommandProtocol, for any number of threads, calls,         *)
(* sessions and lost connections: requests and replies stay in step as     *)
(* long as no call gave up, and what can go wrong after one did is what    *)
(* StaleAnswersExplained says.                                             *)
(*                                                                         *)
(* Two arguments.  The first counts: with no call given up, what the       *)
(* worker still has to answer and what it has answered is exactly what the *)
(* thread with the mutex is going to read.  The second follows the numbers *)
(* of the calls through the stream: an abandoned one in it was silent, or  *)
(* m_error keeps new calls away.                                           *)
(***************************************************************************)
EXTENDS CommandProtocol, SequenceTheorems, TLAPS

Names == DOMAIN Requirement
Answerless == {"SetPluginSettings", "PluginSettings", "Notification"}

(* What a thread is in.                                                    *)
CallState ==
  [at : {"idle", "checked", "read", "closed"}, name : Names, idx : Index,
   channel : Index, call : Nat, got : Nat, seen : SUBSET Nat]

Types ==
  /\ thread \in [Thread -> CallState]
  /\ holder \in Thread \cup {Nobody}
  /\ ready \in BOOLEAN /\ error \in BOOLEAN /\ connected \in BOOLEAN
  /\ requests \in Seq(Message) /\ replies \in Seq(Message)
  /\ processors \in Nat /\ calls \in Nat

Active(t) == thread[t].at \in {"checked", "read"}

(* The mutex, and the client thread outside of a session.                  *)
LockInv ==
  /\ \A t \in Thread :
       /\ thread[t].at = "read" <=> holder = t
       /\ thread[t].at = "checked" => thread[t].got = 0
       /\ thread[t].at = "read" => Requirement[thread[t].name].answers # <<>>
       /\ thread[t].at = "closed" => t = ClientThread /\ ~ready /\ ~connected
  /\ ~connected => requests = <<>> /\ replies = <<>>

(* The numbers of the calls that are in the stream.                        *)
CallsOf(s) == {s[i].call : i \in 1..Len(s)}
InStream == CallsOf(requests) \cup CallsOf(replies)

(* Each call has a number of its own, and is not given up while it lasts.  *)
NumberInv ==
  /\ silent \subseteq abandoned /\ abandoned \subseteq 1..calls
  /\ \A t \in Thread : Active(t) =>
       /\ thread[t].call \in (1..calls) \ abandoned
       /\ thread[t].seen \subseteq 1..calls
  /\ \A t, u \in Thread : Active(t) /\ Active(u) =>
       /\ thread[u].call \notin thread[t].seen
       /\ t # u => thread[t].call # thread[u].call

(* The first read of a session is the one of init(), and it has the stream *)
(* for itself.                                                             *)
ConnectInv ==
  \A t \in Thread : thread[t].name = "UpdatePluginList" =>
    /\ t = ClientThread /\ thread[t].at = "read" /\ ~ready
    /\ InStream \subseteq {thread[t].call}

(* A call that gave up with m_error keeps the others away, so what a call  *)
(* finds in the stream was given up silently, or after it had begun.       *)
TrustInv ==
  /\ ready /\ ~error => abandoned \cap InStream \subseteq silent
  /\ \A t \in Thread : Active(t) /\ thread[t].name # "SetPluginSettings" =>
       thread[t].seen \cap InStream \subseteq silent

(* setPluginSettings() sends its two messages at once.                     *)
PairInv ==
  \A i \in 1..Len(requests) : requests[i].type = "SetPluginSettings" =>
    i < Len(requests) /\ requests[i + 1].type = "PluginSettings"

Unanswered(n) == \A i \in 1..n : requests[i].type \in Answerless

(* The call's request is the last one and was not reached ...              *)
Asked(me) ==
  LET n == Len(requests) IN
    /\ n > 0 /\ Unanswered(n - 1)
    /\ requests[n].type = me.name /\ requests[n].ok
    /\ replies = <<>> /\ me.got = 0

(* ... or what is left of its answer is all there is ...                   *)
Answered(me) ==
  /\ requests = <<>>
  /\ \/ /\ Len(replies) = Len(Requirement[me.name].answers) - me.got
        /\ \A i \in 1..Len(replies) : replies[i].ok
     \/ Len(replies) = 1 /\ ~replies[1].ok

(* ... or nothing will come.                                               *)
Nothing == replies = <<>> /\ Unanswered(Len(requests))

Pending ==
  IF holder = Nobody THEN Nothing
  ELSE Asked(thread[holder]) \/ Answered(thread[holder]) \/ Nothing

StepInv == abandoned = {} => Pending

IInv ==
  /\ Types /\ LockInv /\ NumberInv /\ ConnectInv /\ TrustInv
  /\ PairInv /\ StepInv
  /\ StaleAnswersExplained
-----------------------------------------------------------------------------
(* The calls and the number of messages that each one reads.               *)
LEMMA CallTable ==
  /\ Names = {"AddPlugin", "DelPlugin", "GetPluginSettings",
              "SetPluginSettings", "GetRecents", "GetParameterValue",
              "GetAllParameterValues", "UpdatePluginList", "UpdateCPULoad",
              "Notification"}
  /\ \A name \in Names :
       Requirement[name].answers = <<>> <=>
         name \in {"SetPluginSettings", "Notification"}
  /\ Len(Requirement["AddPlugin"].answers) = 3
  /\ Len(Requirement["GetAllParameterValues"].answers) = 2
  /\ \A name \in {"DelPlugin", "GetPluginSettings", "GetRecents",
                  "GetParameterValue", "UpdatePluginList", "UpdateCPULoad"} :
       Len(Requirement[name].answers) = 1
<1> USE DEF Requirement, Call, AddPlugin, DelPlugin, GetPluginSettings,
            SetPluginSettings, GetRecents, GetParameterValue,
            GetAllParameterValues, UpdatePluginList, UpdateCPULoad, Notification
<1>1. Names = {"AddPlugin", "DelPlugin", "GetPluginSettings",
               "SetPluginSettings", "GetRecents", "GetParameterValue",
               "GetAllParameterValues", "UpdatePluginList", "UpdateCPULoad",
               "Notification"}
  BY DEF Names
<1>2. /\ Requirement["AddPlugin"] = AddPlugin
      /\ Requirement["DelPlugin"] = DelPlugin
      /\ Requirement["GetPluginSettings"] = GetPluginSettings
      /\ Requirement["SetPluginSettings"] = SetPluginSettings
      /\ Requirement["GetRecents"] = GetRecents
      /\ Requirement["GetParameterValue"] = GetParameterValue
      /\ Requirement["GetAllParameterValues"] = GetAllParameterValues
      /\ Requirement["UpdatePluginList"] = UpdatePluginList
      /\ Requirement["UpdateCPULoad"] = UpdateCPULoad
      /\ Requirement["Notification"] = Notification
  OBVIOUS
<1>3. \A name \in Names :
        Requirement[name].answers = <<>> <=>
          name \in {"SetPluginSettings", "Notification"}
  BY <1>1, <1>2
<1>4. /\ Len(Requirement["AddPlugin"].answers) = 3
      /\ Len(Requirement["GetAllParameterValues"].answers) = 2
  BY <1>2
<1>5. \A name \in {"DelPlugin", "GetPluginSettings", "GetRecents",
                   "GetParameterValue", "UpdatePluginList", "UpdateCPULoad"} :
        Len(Requirement[name].answers) = 1
  BY <1>2
<1> QED
  BY <1>1, <1>3, <1>4, <1>5

LEMMA InitInv == Init => IInv
<1> SUFFICES ASSUME Init
             PROVE  IInv
  OBVIOUS
<1>1. Idle \in CallState /\ [Idle EXCEPT !.at = "closed"] \in CallState
  BY CallTable DEF Idle, CallState, Index
<1>2. Types
  <2>1. requests \in Seq(Message) /\ replies \in Seq(Message)
    BY DEF Init
  <2>2. thread \in [Thread -> CallState]
    BY <1>1 DEF Init
  <2> QED
    BY <2>1, <2>2 DEF Init, Types
<1>3. LockInv /\ ConnectInv
  BY NobodyIsNoThread DEF Init, LockInv, ConnectInv, Idle
<1>4. NumberInv /\ TrustInv
  BY DEF Init, NumberInv, TrustInv, Active, Idle
<1>5. PairInv /\ StepInv
  BY DEF Init, PairInv, StepInv, Pending, Nothing, Unanswered
<1>6. StaleAnswersExplained
  BY DEF Init, StaleAnswersExplained
<1> QED
  BY <1>2, <1>3, <1>4, <1>5, <1>6 DEF IInv

-----------------------------------------------------------------------------
(* A request of a call, and what it adds to the stream.                    *)
LEMMA RequestType ==
  ASSUME NEW call \in Nat, NEW type \in MessageType, NEW idx \in Index,
         NEW channel \in Index
  PROVE  Request(call, type, idx, channel) \in Message
BY DEF Request, Message
(* What a step makes of a part of the stream.                              *)
LEMMA TailCalls ==
  ASSUME NEW s \in Seq(Message), s # <<>>
  PROVE  /\ Tail(s) \in Seq(Message) /\ CallsOf(Tail(s)) \subseteq CallsOf(s)
         /\ Len(s) \in Nat \ {0} /\ Len(Tail(s)) = Len(s) - 1
         /\ \A i \in 1..Len(Tail(s)) : Tail(s)[i] = s[i + 1]
         /\ Head(s) = s[1] /\ Head(s) \in Message /\ Head(s).call \in CallsOf(s)
<1>1. /\ Tail(s) \in Seq(Message) /\ Len(Tail(s)) = Len(s) - 1
      /\ Len(s) \in Nat \ {0}
      /\ \A i \in 1..Len(Tail(s)) : Tail(s)[i] = s[i + 1]
      /\ Head(s) = s[1] /\ Head(s) \in Message
  OBVIOUS
<1>2. \A i \in 1..Len(Tail(s)) : i + 1 \in 1..Len(s)
  BY <1>1
<1> QED
  BY <1>1, <1>2 DEF CallsOf

LEMMA ConcatCalls ==
  ASSUME NEW s \in Seq(Message), NEW u \in Seq(Message)
  PROVE  /\ s \o u \in Seq(Message)
         /\ Len(s) \in Nat /\ Len(u) \in Nat
         /\ Len(s \o u) = Len(s) + Len(u)
         /\ \A i \in 1..Len(s) : (s \o u)[i] = s[i]
         /\ \A i \in 1..Len(u) : (s \o u)[Len(s) + i] = u[i]
         /\ CallsOf(s \o u) \subseteq CallsOf(s) \cup CallsOf(u)
<1>1. /\ s \o u \in Seq(Message)
      /\ Len(s) \in Nat /\ Len(u) \in Nat
      /\ Len(s \o u) = Len(s) + Len(u)
      /\ \A i \in 1..Len(s) : (s \o u)[i] = s[i]
      /\ \A i \in 1..Len(s \o u) :
           i > Len(s) => i - Len(s) \in 1..Len(u) /\ (s \o u)[i] = u[i - Len(s)]
  OBVIOUS
<1>2. \A i \in 1..Len(u) : (s \o u)[Len(s) + i] = u[i]
  BY <1>1
<1>3. \A i \in 1..Len(s \o u) :
        (s \o u)[i].call \in CallsOf(s) \cup CallsOf(u)
  BY <1>1, SMTT(40) DEF CallsOf
<1> QED
  BY <1>1, <1>2, <1>3 DEF CallsOf

LEMMA SubSeqCalls ==
  ASSUME NEW s \in Seq(Message), NEW k \in Nat \ {0}, k <= Len(s) + 1
  PROVE  /\ SubSeq(s, k, Len(s)) \in Seq(Message)
         /\ Len(s) \in Nat /\ Len(SubSeq(s, k, Len(s))) = Len(s) + 1 - k
         /\ \A i \in 1..(Len(s) + 1 - k) :
              SubSeq(s, k, Len(s))[i] = s[i + k - 1]
         /\ CallsOf(SubSeq(s, k, Len(s))) \subseteq CallsOf(s)
<1>1. /\ Len(s) \in Nat /\ Len(SubSeq(s, k, Len(s))) = Len(s) + 1 - k
      /\ \A i \in 1..(Len(s) + 1 - k) :
           /\ SubSeq(s, k, Len(s))[i] = s[i + k - 1]
           /\ i + k - 1 \in 1..Len(s)
  OBVIOUS
<1>2. SubSeq(s, k, Len(s)) \in Seq(Message)
  BY <1>1
<1> QED
  BY <1>1, <1>2 DEF CallsOf

-----------------------------------------------------------------------------
(* The end of a call without its answer, whatever it leaves in the stream. *)
LEMMA FailedEndInv ==
  ASSUME IInv, NEW t \in Thread, thread[t].at = "read", FailedEnd(t),
         replies' \in Seq(Message),
         CallsOf(replies') \subseteq CallsOf(replies),
         ~connected => replies' = <<>>
  PROVE  IInv'
<1> DEFINE call == thread[t].call
<1>1. /\ Types /\ LockInv /\ NumberInv /\ ConnectInv /\ TrustInv /\ PairInv
      /\ StaleAnswersExplained
  BY DEF IInv
<1>2. /\ thread' = [thread EXCEPT ![t] = Idle] /\ holder' = Nobody
      /\ abandoned' = abandoned \cup {call}
      /\ silent' \in {silent, silent \cup {call}}
      /\ UNCHANGED <<stale, connected, requests, processors, calls>>
  BY DEF FailedEnd, InitDone, Return, Fails
<1>3. \/ ready' = TRUE /\ error' = FALSE /\ thread[t].name = "UpdatePluginList"
         /\ silent' = silent \cup {call}
      \/ ready' = ready /\ error' = TRUE
      \/ ready' = ready /\ error' = error /\ silent' = silent \cup {call}
  BY <1>1, CallTable
     DEF FailedEnd, InitDone, Connecting, Fails, Types, CallState, Names
<1>4. \A u \in Thread \ {t} : thread'[u] = thread[u]
  BY <1>2
<1>5. thread'[t] = Idle
  BY <1>1, <1>2 DEF Types
<1>6. InStream' \subseteq InStream
  BY <1>2 DEF InStream, CallsOf
<1>7. Types'
  <2>1. Idle \in CallState
    BY CallTable DEF Idle, CallState, Index
  <2> QED
    BY <1>1, <1>2, <1>3, <2>1 DEF Types
<1>8. LockInv'
  <2>1. holder = t /\ holder' # t
    BY <1>1, <1>2, NobodyIsNoThread DEF LockInv
  <2>2. ASSUME NEW u \in Thread
        PROVE  /\ thread'[u].at = "read" <=> holder' = u
               /\ thread'[u].at = "checked" => thread'[u].got = 0
               /\ thread'[u].at = "read" =>
                    Requirement[thread'[u].name].answers # <<>>
               /\ thread'[u].at = "closed" =>
                    u = ClientThread /\ ~ready' /\ ~connected'
    <3>1. CASE u = t
      BY <1>5, <2>1, <3>1 DEF Idle
    <3>2. CASE u # t
      <4>1. thread'[u] = thread[u] /\ holder # u /\ holder' # u
        BY <1>2, <1>4, <2>1, <3>2, NobodyIsNoThread
      <4>2. thread[u].at = "closed" => ready' = ready
        <5>1. thread[t].name = "UpdatePluginList" => t = ClientThread
          BY <1>1 DEF ConnectInv
        <5> QED
          BY <1>1, <1>3, <3>2, <5>1 DEF LockInv
      <4> QED
        BY <1>1, <1>2, <4>1, <4>2 DEF LockInv
    <3> QED
      BY <3>1, <3>2
  <2>3. ~connected' => requests' = <<>> /\ replies' = <<>>
    BY <1>1, <1>2 DEF LockInv
  <2> QED
    BY <2>2, <2>3 DEF LockInv
<1>9. NumberInv'
  <2>1. Active(t) /\ call \in (1..calls) \ abandoned
    BY <1>1 DEF Active, NumberInv
  <2>2. ~Active(t)'
    BY <1>5 DEF Active, Idle
  <2>3. \A u \in Thread : Active(u)' =>
          u # t /\ Active(u) /\ thread'[u] = thread[u]
    BY <1>4, <2>2 DEF Active
  <2>4. \A u \in Thread : Active(u) /\ u # t => thread[u].call # call
    BY <1>1, <2>1 DEF NumberInv
  <2>5. silent' \subseteq abandoned' /\ abandoned' \subseteq 1..calls'
    BY <1>1, <1>2, <2>1 DEF NumberInv
  <2>6. \A u \in Thread : Active(u)' =>
          /\ thread'[u].call \in (1..calls') \ abandoned'
          /\ thread'[u].seen \subseteq 1..calls'
    BY <1>1, <1>2, <2>3, <2>4 DEF NumberInv
  <2>7. \A u, w \in Thread : Active(u)' /\ Active(w)' =>
          /\ thread'[w].call \notin thread'[u].seen
          /\ u # w => thread'[u].call # thread'[w].call
    BY <1>1, <2>3 DEF NumberInv
  <2> QED
    BY <2>5, <2>6, <2>7 DEF NumberInv, Active
<1>10. ConnectInv'
  BY <1>1, <1>4, <1>5, <1>6 DEF ConnectInv, LockInv, Idle
<1>11. TrustInv'
  <2>1. ready' /\ ~error' => abandoned' \cap InStream' \subseteq silent'
    BY <1>1, <1>2, <1>3, <1>6 DEF TrustInv, ConnectInv
  <2> QED
    BY <1>1, <1>2, <1>4, <1>5, <1>6, <2>1 DEF TrustInv, Active, Idle
<1>12. PairInv' /\ StepInv'
  BY <1>1, <1>2 DEF PairInv, StepInv
<1>13. StaleAnswersExplained'
  BY <1>1, <1>2 DEF StaleAnswersExplained
<1> QED
  BY <1>7, <1>8, <1>9, <1>10, <1>11, <1>12, <1>13 DEF IInv

LEMMA OneCall ==
  ASSUME NEW m \in Message
  PROVE  <<m>> \in Seq(Message) /\ CallsOf(<<m>>) = {m.call}
<1>1. <<m>> \in Seq(Message) /\ Len(<<m>>) = 1 /\ <<m>>[1] = m
  OBVIOUS
<1> QED
  BY <1>1 DEF CallsOf

(* A message whose header was read.                                        *)
LEMMA HeaderRead ==
  ASSUME NEW m \in Message
  PROVE  /\ [m EXCEPT !.whole = FALSE] \in Message
         /\ [m EXCEPT !.whole = FALSE].call = m.call
BY DEF Message

LEMMA BeheadedCalls ==
  ASSUME NEW s \in Seq(Message), s # <<>>, NEW m \in Message,
         m.call \in CallsOf(s)
  PROVE  /\ <<m>> \o Tail(s) \in Seq(Message)
         /\ CallsOf(<<m>> \o Tail(s)) \subseteq CallsOf(s)
<1>1. <<m>> \in Seq(Message) /\ CallsOf(<<m>>) = {m.call}
  BY OneCall
<1>2. Tail(s) \in Seq(Message) /\ CallsOf(Tail(s)) \subseteq CallsOf(s)
  BY TailCalls
<1> DEFINE one == <<m>>
           rest == Tail(s)
<1> HIDE DEF one, rest
<1>3. /\ one \o rest \in Seq(Message)
      /\ CallsOf(one \o rest) \subseteq CallsOf(one) \cup CallsOf(rest)
  BY <1>1, <1>2, ConcatCalls DEF one, rest
<1> QED
  BY <1>1, <1>2, <1>3 DEF one, rest

LEMMA GivesUpInv ==
  ASSUME IInv, NEW t \in Thread,
         \/ TakeMismatch(t) \/ WrongType(t) \/ BodyTimeout(t) \/ Misread(t)
         \/ Timeout(t) \/ ReadFails(t)
  PROVE  IInv'
<1>1. thread[t].at = "read" /\ FailedEnd(t)
  BY DEF TakeMismatch, WrongType, BodyTimeout, Misread, Timeout, ReadFails,
         AtAnswer, Arrived
<1>2. replies \in Seq(Message) /\ (~connected => replies = <<>>)
  BY DEF IInv, Types, LockInv
<1>3. CASE TakeMismatch(t)
  BY <1>1, <1>2, <1>3, TailCalls, FailedEndInv
     DEF TakeMismatch, AtAnswer, Arrived
<1>4. CASE WrongType(t) \/ BodyTimeout(t)
  <2>1. replies # <<>> /\ connected /\ replies' = Beheaded
    BY <1>4 DEF WrongType, BodyTimeout, AtAnswer, Arrived
  <2>2. /\ [Head(replies) EXCEPT !.whole = FALSE] \in Message
        /\ [Head(replies) EXCEPT !.whole = FALSE].call \in CallsOf(replies)
    BY <1>2, <2>1, TailCalls, HeaderRead
  <2> QED
    BY <1>1, <1>2, <2>1, <2>2, BeheadedCalls, FailedEndInv DEF Beheaded
<1>5. CASE Misread(t)
  <2>1. replies # <<>> /\ connected
    BY <1>5 DEF Misread, Arrived
  <2>2. CASE replies' = replies
    BY <1>1, <1>2, <2>1, <2>2, FailedEndInv
  <2>3. CASE replies' = Tail(replies)
    BY <1>1, <1>2, <2>1, <2>3, TailCalls, FailedEndInv
  <2>4. CASE /\ Len(replies) > 1
             /\ replies' = <<[replies[2] EXCEPT !.whole = FALSE]>>
                           \o SubSeq(replies, 3, Len(replies))
    <3> DEFINE m == [replies[2] EXCEPT !.whole = FALSE]
    <3>1. 2 \in 1..Len(replies) /\ replies[2] \in Message
      BY <1>2, <2>4
    <3>2. m \in Message /\ m.call \in CallsOf(replies)
      BY <3>1, HeaderRead DEF CallsOf
    <3>3. <<m>> \in Seq(Message) /\ CallsOf(<<m>>) = {m.call}
      BY <3>2, OneCall
    <3>4. 3 <= Len(replies) + 1
      BY <1>2, <2>4
    <3>5. /\ SubSeq(replies, 3, Len(replies)) \in Seq(Message)
          /\ CallsOf(SubSeq(replies, 3, Len(replies)))
               \subseteq CallsOf(replies)
      BY <1>2, <3>4, SubSeqCalls
    <3>6. /\ replies' \in Seq(Message)
          /\ CallsOf(replies') \subseteq CallsOf(replies)
      <4> DEFINE one == <<m>>
                 rest == SubSeq(replies, 3, Len(replies))
      <4>1. replies' = one \o rest
        BY <2>4
      <4>2. /\ one \in Seq(Message) /\ CallsOf(one) \subseteq CallsOf(replies)
            /\ rest \in Seq(Message) /\ CallsOf(rest) \subseteq CallsOf(replies)
        BY <3>2, <3>3, <3>5
      <4> HIDE DEF one, rest
      <4> QED
        BY <4>1, <4>2, ConcatCalls
    <3> QED
      BY <1>1, <2>1, <3>6, FailedEndInv
  <2> QED
    BY <1>5, <2>2, <2>3, <2>4 DEF Misread
<1>6. CASE Timeout(t) \/ ReadFails(t)
  BY <1>1, <1>2, <1>6, FailedEndInv DEF Timeout, ReadFails
<1> QED
  BY <1>3, <1>4, <1>5, <1>6

-----------------------------------------------------------------------------
(* The start of a call.                                                    *)
LEMMA BeginInv ==
  ASSUME IInv, NEW t \in Thread, NEW name \in MadeBy(t),
         NEW idx \in IndexOf(name), NEW channel \in ChannelsOf(idx),
         Begin(t, name, idx, channel)
  PROVE  IInv'
<1> DEFINE me == [at |-> "checked", name |-> name, idx |-> idx,
                  channel |-> channel, call |-> calls + 1, got |-> 0,
                  seen |-> abandoned]
<1>1. /\ Types /\ LockInv /\ NumberInv /\ ConnectInv /\ TrustInv /\ PairInv
      /\ StepInv /\ StaleAnswersExplained
  BY DEF IInv
<1>2. /\ thread[t].at = "idle" /\ thread' = [thread EXCEPT ![t] = me]
      /\ calls' = calls + 1
      /\ UNCHANGED <<holder, ready, error, connected, requests, replies,
                     processors, abandoned, silent, stale>>
      /\ name = "SetPluginSettings" \/ (ready /\ ~error)
  BY DEF Begin, flags, stream, history
<1>3. thread'[t] = me /\ \A u \in Thread \ {t} : thread'[u] = thread[u]
  BY <1>1, <1>2 DEF Types
<1>4. /\ name \in Names /\ name # "UpdatePluginList"
      /\ idx \in Index /\ channel \in Index
  <2>1. name \in Names /\ name # "UpdatePluginList" /\ idx \in Index
    BY CallTable DEF MadeBy, IndexOf, Index, Names
  <2> QED
    BY <2>1 DEF ChannelsOf, Index
<1>5. holder # t
  BY <1>1, <1>2 DEF LockInv
<1>6. InStream' = InStream
  BY <1>2 DEF InStream, CallsOf
<1>7. Types'
  <2>1. abandoned \in SUBSET Nat
    BY <1>1 DEF NumberInv, Types
  <2>2. me \in CallState
    BY <1>1, <1>4, <2>1 DEF CallState, Types
  <2> QED
    BY <1>1, <1>2, <2>2 DEF Types
<1>8. LockInv'
  <2>1. ASSUME NEW u \in Thread
        PROVE  /\ thread'[u].at = "read" <=> holder' = u
               /\ thread'[u].at = "checked" => thread'[u].got = 0
               /\ thread'[u].at = "read" =>
                    Requirement[thread'[u].name].answers # <<>>
               /\ thread'[u].at = "closed" =>
                    u = ClientThread /\ ~ready' /\ ~connected'
    <3>1. CASE u = t
      BY <1>2, <1>3, <1>5, <3>1
    <3>2. CASE u # t
      BY <1>1, <1>2, <1>3, <3>2 DEF LockInv
    <3> QED
      BY <3>1, <3>2
  <2> QED
    BY <1>1, <1>2, <2>1 DEF LockInv
<1>9. NumberInv'
  <2>1. calls \in Nat /\ calls + 1 \notin 1..calls
        /\ 1..calls \subseteq 1..(calls + 1) /\ calls + 1 \in 1..(calls + 1)
    BY <1>1 DEF Types
  <2>2. abandoned \subseteq 1..calls /\ silent \subseteq abandoned
    BY <1>1 DEF NumberInv
  <2>3. \A u \in Thread : u # t /\ Active(u)' =>
          Active(u) /\ thread'[u] = thread[u]
    BY <1>3 DEF Active
  <2>4. ASSUME NEW u \in Thread, Active(u)'
        PROVE  /\ thread'[u].call \in (1..calls') \ abandoned'
               /\ thread'[u].seen \subseteq 1..calls'
    <3>1. CASE u = t
      <4>1. thread'[u].call = calls + 1 /\ thread'[u].seen = abandoned
        BY <1>3, <3>1
      <4>2. calls + 1 \notin abandoned /\ abandoned \subseteq 1..(calls + 1)
        BY <2>1, <2>2
      <4>3. calls' = calls + 1 /\ abandoned' = abandoned
        BY <1>2
      <4> QED
        BY <2>1, <4>1, <4>2, <4>3
    <3>2. CASE u # t
      BY <1>1, <1>2, <2>1, <2>3, <2>4, <3>2 DEF NumberInv
    <3> QED
      BY <3>1, <3>2
  <2>5. ASSUME NEW u \in Thread, NEW w \in Thread, Active(u)', Active(w)'
        PROVE  /\ thread'[w].call \notin thread'[u].seen
               /\ u # w => thread'[u].call # thread'[w].call
    <3>1. CASE u = t /\ w = t
      BY <1>3, <2>1, <2>2, <3>1
    <3>2. CASE u = t /\ w # t
      BY <1>1, <1>3, <2>1, <2>3, <2>5, <3>2 DEF NumberInv
    <3>3. CASE u # t /\ w = t
      BY <1>1, <1>3, <2>1, <2>3, <2>5, <3>3 DEF NumberInv
    <3>4. CASE u # t /\ w # t
      BY <1>1, <2>3, <2>5, <3>4 DEF NumberInv
    <3> QED
      BY <3>1, <3>2, <3>3, <3>4
  <2> QED
    BY <1>2, <2>1, <2>2, <2>4, <2>5 DEF NumberInv, Active
<1>10. ConnectInv'
  BY <1>1, <1>2, <1>3, <1>4, <1>6 DEF ConnectInv
<1>11. TrustInv'
  <2>1. ASSUME NEW u \in Thread, Active(u)',
               thread'[u].name # "SetPluginSettings"
        PROVE  thread'[u].seen \cap InStream' \subseteq silent'
    <3>1. CASE u = t
      BY <1>1, <1>2, <1>3, <1>6, <2>1, <3>1 DEF TrustInv
    <3>2. CASE u # t
      BY <1>1, <1>2, <1>3, <1>6, <2>1, <3>2 DEF TrustInv, Active
    <3> QED
      BY <3>1, <3>2
  <2> QED
    BY <1>1, <1>2, <1>6, <2>1 DEF TrustInv, Active
<1>12. PairInv'
  BY <1>1, <1>2 DEF PairInv
<1>13. StepInv'
  <2>1. holder # Nobody => thread'[holder] = thread[holder]
    BY <1>1, <1>3, <1>5 DEF Types
  <2> QED
    BY <1>1, <1>2, <2>1
       DEF StepInv, Pending, Nothing, Asked, Answered, Unanswered
<1>14. StaleAnswersExplained'
  BY <1>1, <1>2 DEF StaleAnswersExplained
<1> QED
  BY <1>7, <1>8, <1>9, <1>10, <1>11, <1>12, <1>13, <1>14 DEF IInv

(* What a call sends.                                                      *)
LEMMA MessagesSent ==
  ASSUME NEW call \in Nat, NEW name \in Names, NEW idx \in Index,
         NEW channel \in Index
  PROVE  /\ Messages(call, name, idx, channel) \in Seq(Message)
         /\ CallsOf(Messages(call, name, idx, channel)) = {call}
         /\ name = "SetPluginSettings" =>
              /\ Len(Messages(call, name, idx, channel)) = 2
              /\ Messages(call, name, idx, channel)[1].type = "SetPluginSettings"
              /\ Messages(call, name, idx, channel)[2].type = "PluginSettings"
         /\ name # "SetPluginSettings" =>
              /\ Len(Messages(call, name, idx, channel)) = 1
              /\ Messages(call, name, idx, channel)[1].type = name
              /\ Messages(call, name, idx, channel)[1].ok
<1>1. name \in MessageType /\ "PluginSettings" \in MessageType
  BY DEF MessageType, Names
<1>2. /\ Request(call, name, idx, channel) \in Message
      /\ Request(call, "PluginSettings", idx, channel) \in Message
  BY <1>1, RequestType
<1>3. /\ Request(call, name, idx, channel).call = call
      /\ Request(call, name, idx, channel).type = name
      /\ Request(call, name, idx, channel).ok
      /\ Request(call, "PluginSettings", idx, channel).call = call
      /\ Request(call, "PluginSettings", idx, channel).type = "PluginSettings"
  BY DEF Request
<1>4. CASE name = "SetPluginSettings"
  <2> DEFINE a == Request(call, name, idx, channel)
             b == Request(call, "PluginSettings", idx, channel)
  <2>1. Messages(call, name, idx, channel) = <<a, b>>
    BY <1>4 DEF Messages
  <2>2. /\ a \in Message /\ b \in Message /\ a.call = call /\ b.call = call
        /\ a.type = "SetPluginSettings" /\ b.type = "PluginSettings"
    BY <1>2, <1>3, <1>4
  <2> HIDE DEF a, b
  <2>3. <<a, b>> \in Seq(Message) /\ Len(<<a, b>>) = 2
        /\ <<a, b>>[1] = a /\ <<a, b>>[2] = b
    BY <2>2
  <2>4. CallsOf(<<a, b>>) = {call}
    <3>1. 1..Len(<<a, b>>) = {1, 2}
      BY <2>3
    <3> QED
      BY <2>2, <2>3, <3>1 DEF CallsOf
  <2> QED
    BY <1>4, <2>1, <2>2, <2>3, <2>4
<1>5. CASE name # "SetPluginSettings"
  <2> DEFINE a == Request(call, name, idx, channel)
  <2>1. Messages(call, name, idx, channel) = <<a>>
    BY <1>5 DEF Messages
  <2>2. /\ a \in Message /\ a.call = call /\ a.type = name /\ a.ok
    BY <1>2, <1>3
  <2> HIDE DEF a
  <2>3. Len(<<a>>) = 1 /\ <<a>>[1] = a
    OBVIOUS
  <2> QED
    BY <1>5, <2>1, <2>2, <2>3, OneCall
<1> QED
  BY <1>4, <1>5

LEMMA SendInv ==
  ASSUME IInv, NEW t \in Thread, Send(t)
  PROVE  IInv'
<1> DEFINE me == thread[t]
           sent == Messages(me.call, me.name, me.idx, me.channel)
           silentCall == Requirement[me.name].answers = <<>>
<1>1. /\ Types /\ LockInv /\ NumberInv /\ ConnectInv /\ TrustInv /\ PairInv
      /\ StepInv /\ StaleAnswersExplained
  BY DEF IInv
<1>2. /\ me.at = "checked" /\ holder = Nobody
      /\ UNCHANGED <<ready, connected, replies, processors, calls,
                     abandoned, silent, stale>>
      /\ error' \in BOOLEAN /\ (~error' => ~error)
      /\ requests' = IF connected THEN requests \o sent ELSE requests
  BY <1>1 DEF Send, history, Types
<1>3. \/ /\ silentCall
         /\ thread' = [thread EXCEPT ![t] = Idle] /\ holder' = Nobody
      \/ /\ ~silentCall
         /\ thread' = [thread EXCEPT ![t].at = "read"] /\ holder' = t
  BY <1>2 DEF Send
<1>4. /\ me \in CallState /\ me.call \in Nat /\ me.name \in Names
      /\ me.idx \in Index /\ me.channel \in Index /\ me.got = 0
  BY <1>1, <1>2 DEF Types, CallState, LockInv
<1>5. \A u \in Thread \ {t} : thread'[u] = thread[u]
  BY <1>1, <1>3 DEF Types
<1>6. \/ thread'[t] = Idle
      \/ /\ ~silentCall /\ thread'[t] = [me EXCEPT !.at = "read"]
         /\ thread'[t].at = "read" /\ thread'[t].name = me.name
         /\ thread'[t].call = me.call /\ thread'[t].got = 0
         /\ thread'[t].seen = me.seen
  BY <1>1, <1>3, <1>4, SMTT(40) DEF Types, CallState
<1>7. me.name # "UpdatePluginList" /\ Active(t)
  BY <1>1, <1>2 DEF ConnectInv, Active
<1>8. \A u \in Thread : thread[u].at # "read"
  BY <1>1, <1>2, NobodyIsNoThread DEF LockInv
<1>9. /\ sent \in Seq(Message) /\ CallsOf(sent) = {me.call}
      /\ me.name = "SetPluginSettings" =>
           Len(sent) = 2 /\ sent[1].type = "SetPluginSettings"
           /\ sent[2].type = "PluginSettings"
      /\ me.name # "SetPluginSettings" =>
           Len(sent) = 1 /\ sent[1].type = me.name
  <2> DEFINE call == me.call
             name == me.name
             idx == me.idx
             channel == me.channel
  <2>1. call \in Nat /\ name \in Names /\ idx \in Index /\ channel \in Index
    BY <1>4
  <2> HIDE DEF call, name, idx, channel
  <2>2. /\ Messages(call, name, idx, channel) \in Seq(Message)
        /\ CallsOf(Messages(call, name, idx, channel)) = {call}
        /\ name = "SetPluginSettings" =>
             /\ Len(Messages(call, name, idx, channel)) = 2
             /\ Messages(call, name, idx, channel)[1].type = "SetPluginSettings"
             /\ Messages(call, name, idx, channel)[2].type = "PluginSettings"
        /\ name # "SetPluginSettings" =>
             /\ Len(Messages(call, name, idx, channel)) = 1
             /\ Messages(call, name, idx, channel)[1].type = name
    BY ONLY <2>1, MessagesSent
  <2> QED
    BY <2>2 DEF call, name, idx, channel
<1> HIDE DEF sent
<1>10. requests' \in Seq(Message)
       /\ InStream' \subseteq InStream \cup {me.call}
  <2>1. CASE connected
    <3>1. requests' = requests \o sent
      BY <1>2, <2>1
    <3>2. /\ requests \o sent \in Seq(Message)
          /\ CallsOf(requests \o sent)
               \subseteq CallsOf(requests) \cup CallsOf(sent)
      BY <1>1, <1>9, ConcatCalls DEF Types
    <3>3. CallsOf(requests') \subseteq CallsOf(requests) \cup {me.call}
      BY <1>9, <3>1, <3>2
    <3>4. CallsOf(replies') = CallsOf(replies)
      BY <1>2
    <3>5. /\ InStream = CallsOf(requests) \cup CallsOf(replies)
          /\ InStream' = CallsOf(requests') \cup CallsOf(replies')
      BY DEF InStream, CallsOf
    <3> QED
      BY <3>1, <3>2, <3>3, <3>4, <3>5
  <2>2. CASE ~connected
    BY <1>1, <1>2, <2>2 DEF Types, InStream, CallsOf
  <2> QED
    BY <2>1, <2>2
<1>11. \A u \in Thread : Active(u)' =>
         /\ Active(u) /\ thread'[u].call = thread[u].call
         /\ thread'[u].seen = thread[u].seen
         /\ thread'[u].name = thread[u].name
  BY <1>5, <1>6, <1>7 DEF Active, Idle
<1>12. Types'
  <2>1. Idle \in CallState /\ [me EXCEPT !.at = "read"] \in CallState
    BY <1>4, CallTable DEF Idle, CallState, Index
  <2>2. thread' \in [Thread -> CallState]
    BY <1>1, <1>3, <2>1 DEF Types
  <2> QED
    BY <1>1, <1>2, <1>3, <1>10, <2>2 DEF Types
<1>13. LockInv'
  <2>1. ASSUME NEW u \in Thread
        PROVE  /\ thread'[u].at = "read" <=> holder' = u
               /\ thread'[u].at = "checked" => thread'[u].got = 0
               /\ thread'[u].at = "read" =>
                    Requirement[thread'[u].name].answers # <<>>
               /\ thread'[u].at = "closed" =>
                    u = ClientThread /\ ~ready' /\ ~connected'
    <3>1. CASE u = t /\ silentCall
      BY <1>1, <1>3, <3>1, NobodyIsNoThread DEF Idle, Types
    <3>2. CASE u = t /\ ~silentCall
      <4>1. thread'[t].at = "read" /\ thread'[t].name = me.name
        BY <1>1, <1>3, <1>4, <3>2 DEF Types, CallState
      <4> QED
        BY <1>3, <3>2, <4>1
    <3>3. CASE u # t
      <4>1. thread'[u] = thread[u] /\ holder' # u /\ thread[u].at # "read"
        BY <1>3, <1>5, <1>8, <3>3, NobodyIsNoThread
      <4> QED
        BY <1>1, <1>2, <4>1 DEF LockInv
    <3> QED
      BY <3>1, <3>2, <3>3
  <2>2. ~connected' => requests' = <<>> /\ replies' = <<>>
    BY <1>1, <1>2 DEF LockInv
  <2> QED
    BY <2>1, <2>2 DEF LockInv
<1>14. NumberInv'
  <2>1. \A u \in Thread : Active(u)' =>
          /\ thread'[u].call \in (1..calls') \ abandoned'
          /\ thread'[u].seen \subseteq 1..calls'
    BY <1>1, <1>2, <1>11 DEF NumberInv
  <2>2. \A u, w \in Thread : Active(u)' /\ Active(w)' =>
          /\ thread'[w].call \notin thread'[u].seen
          /\ u # w => thread'[u].call # thread'[w].call
    BY <1>1, <1>11 DEF NumberInv
  <2> QED
    BY <1>1, <1>2, <2>1, <2>2 DEF NumberInv, Active
<1>15. ConnectInv'
  <2>1. ASSUME NEW u \in Thread
        PROVE  thread'[u].name # "UpdatePluginList"
    <3>1. CASE u = t
      BY <1>6, <1>7, <3>1 DEF Idle
    <3>2. CASE u # t
      BY <1>1, <1>5, <1>8, <3>2 DEF ConnectInv
    <3> QED
      BY <3>1, <3>2
  <2> QED
    BY <2>1 DEF ConnectInv
<1>16. TrustInv'
  <2>1. me.call \notin abandoned
        /\ \A u \in Thread : Active(u) => me.call \notin thread[u].seen
    BY <1>1, <1>7 DEF NumberInv
  <2>2. ready' /\ ~error' => abandoned' \cap InStream' \subseteq silent'
    BY <1>1, <1>2, <1>10, <2>1 DEF TrustInv
  <2>3. \A u \in Thread : Active(u)' /\ thread'[u].name # "SetPluginSettings" =>
          thread'[u].seen \cap InStream' \subseteq silent'
    BY <1>1, <1>2, <1>10, <1>11, <2>1 DEF TrustInv
  <2> QED
    BY <2>2, <2>3 DEF TrustInv, Active
<1>17. PairInv'
  <2>1. CASE ~connected
    BY <1>1, <1>2, <2>1 DEF PairInv
  <2>2. CASE connected
    <3>1. /\ requests' = requests \o sent
          /\ Len(requests) \in Nat /\ Len(sent) \in Nat
          /\ Len(requests') = Len(requests) + Len(sent)
          /\ \A i \in 1..Len(requests) : requests'[i] = requests[i]
          /\ \A i \in 1..Len(sent) : requests'[Len(requests) + i] = sent[i]
      BY <1>1, <1>2, <1>9, <2>2, ConcatCalls DEF Types
    <3>2. ASSUME NEW i \in 1..Len(requests'),
                 requests'[i].type = "SetPluginSettings"
          PROVE  /\ i < Len(requests')
                 /\ requests'[i + 1].type = "PluginSettings"
      <4>1. CASE i <= Len(requests)
        <5>1. i \in 1..Len(requests) /\ requests[i].type = "SetPluginSettings"
          BY <3>1, <3>2, <4>1
        <5>2. i < Len(requests) /\ requests[i + 1].type = "PluginSettings"
              /\ i + 1 \in 1..Len(requests)
          BY <1>1, <3>1, <5>1 DEF PairInv
        <5> QED
          BY <3>1, <5>2
      <4>2. CASE i > Len(requests)
        <5>1. i - Len(requests) \in 1..Len(sent)
              /\ requests'[i] = sent[i - Len(requests)]
          BY <3>1, <3>2, <4>2
        <5>2. CASE me.name = "SetPluginSettings"
          <6>1. /\ Len(sent) = 2 /\ sent[1].type = "SetPluginSettings"
                /\ sent[2].type = "PluginSettings"
            BY <1>9, <5>2
          <6>2. i = Len(requests) + 1
            BY <3>1, <3>2, <5>1, <6>1
          <6> QED
            BY <3>1, <6>1, <6>2
        <5>3. CASE me.name # "SetPluginSettings"
          <6>1. Len(sent) = 1 /\ sent[1].type = me.name
            BY <1>9, <5>3
          <6> QED
            BY <3>1, <3>2, <5>1, <5>3, <6>1
        <5> QED
          BY <5>2, <5>3
      <4> QED
        BY <3>1, <4>1, <4>2
    <3> QED
      BY <3>2 DEF PairInv
  <2> QED
    BY <2>1, <2>2
<1>18. StepInv'
  <2> SUFFICES ASSUME abandoned = {}
               PROVE  Pending'
    BY <1>2 DEF StepInv
  <2>1. replies = <<>> /\ Unanswered(Len(requests))
    BY <1>1, <1>2 DEF StepInv, Pending, Nothing
  <2>2. CASE ~connected
    BY <1>2, <2>1, <2>2 DEF Pending, Nothing, Unanswered
  <2>3. CASE connected
    <3>1. /\ requests' = requests \o sent
          /\ Len(requests) \in Nat /\ Len(sent) \in Nat
          /\ Len(requests') = Len(requests) + Len(sent)
          /\ \A i \in 1..Len(requests) : requests'[i] = requests[i]
          /\ \A i \in 1..Len(sent) : requests'[Len(requests) + i] = sent[i]
      BY <1>1, <1>2, <1>9, <2>3, ConcatCalls DEF Types
    <3>2. CASE silentCall
      <4>1. me.name \in {"SetPluginSettings", "Notification"}
        BY <1>4, <3>2, CallTable
      <4>2. \A i \in 1..Len(sent) : sent[i].type \in Answerless
        <5> SUFFICES ASSUME NEW i \in 1..Len(sent)
                     PROVE  sent[i].type \in Answerless
          OBVIOUS
        <5>1. CASE me.name = "SetPluginSettings"
          <6>1. /\ Len(sent) = 2 /\ sent[1].type = "SetPluginSettings"
                /\ sent[2].type = "PluginSettings"
            BY <1>9, <5>1
          <6>2. i = 1 \/ i = 2
            BY ONLY <6>1, i \in 1..Len(sent)
          <6> QED
            BY <6>1, <6>2 DEF Answerless
        <5>2. CASE me.name = "Notification"
          <6>1. Len(sent) = 1 /\ sent[1].type = "Notification"
            BY <1>9, <5>2
          <6>2. i = 1
            BY ONLY <6>1, i \in 1..Len(sent)
          <6> QED
            BY <6>1, <6>2 DEF Answerless
        <5> QED
          BY <4>1, <5>1, <5>2
      <4>3. \A i \in 1..Len(requests') :
              \/ i \in 1..Len(requests)
              \/ i - Len(requests) \in 1..Len(sent)
                 /\ requests'[i] = sent[i - Len(requests)]
        BY <3>1
      <4>4. Unanswered(Len(requests))'
        BY <2>1, <3>1, <4>2, <4>3 DEF Unanswered
      <4> QED
        BY <1>2, <2>1, <4>4, <1>3, <3>2 DEF Pending, Nothing
    <3>3. CASE ~silentCall
      <4>1. me.name # "SetPluginSettings"
        BY <1>4, <3>3, CallTable
      <4>2. Len(sent) = 1 /\ sent[1].type = me.name /\ sent[1].ok
        BY <1>4, <4>1, MessagesSent DEF sent
      <4>3. /\ Len(requests') > 0 /\ Len(requests') - 1 = Len(requests)
            /\ requests'[Len(requests')] = sent[1]
        BY <3>1, <4>2
      <4>4. Unanswered(Len(requests) - 1)'
        BY <2>1, <3>1, <4>3 DEF Unanswered
      <4>5. /\ holder' = t /\ thread'[t].name = me.name
            /\ thread'[t].got = 0
        BY <1>1, <1>3, <1>4, <3>3 DEF Types, CallState
      <4>6. Asked(thread[holder])'
        BY <1>2, <2>1, <4>2, <4>3, <4>4, <4>5 DEF Asked
      <4> QED
        BY <4>5, <4>6, NobodyIsNoThread DEF Pending
    <3> QED
      BY <3>2, <3>3
  <2> QED
    BY <2>2, <2>3
<1>19. StaleAnswersExplained'
  BY <1>1, <1>2 DEF StaleAnswersExplained
<1> QED
  BY <1>12, <1>13, <1>14, <1>15, <1>16, <1>17, <1>18, <1>19 DEF IInv

(* A thread reads a message of its answer.                                 *)
LEMMA TakeInv ==
  ASSUME IInv, NEW t \in Thread, Take(t)
  PROVE  IInv'
<1> DEFINE me == thread[t]
           answer == Head(replies)
           needed == Len(Requirement[me.name].answers)
<1>1. /\ Types /\ LockInv /\ NumberInv /\ ConnectInv /\ TrustInv /\ PairInv
      /\ StepInv /\ StaleAnswersExplained
  BY DEF IInv
<1>2. /\ me.at = "read" /\ holder = t /\ connected /\ replies # <<>>
      /\ replies' = Tail(replies) /\ Matches(t, answer)
      /\ UNCHANGED <<connected, requests, processors, calls, abandoned, silent>>
      /\ stale' = IF answer.call = me.call THEN stale
                  ELSE stale \cup {[from |-> answer.call, seen |-> me.seen]}
  BY <1>1 DEF Take, AtAnswer, Arrived, LockInv
<1>3. \/ /\ IsLast(t, answer)
         /\ thread' = [thread EXCEPT ![t] = Idle] /\ holder' = Nobody
         /\ \/ ready' = ready /\ error' = error
            \/ /\ me.name = "UpdatePluginList"
               /\ ready' = TRUE /\ error' = FALSE
      \/ /\ ~IsLast(t, answer)
         /\ thread' = [thread EXCEPT ![t].got = @ + 1]
         /\ holder' = holder /\ ready' = ready /\ error' = error
  <2>1. CASE IsLast(t, answer)
    BY <2>1 DEF Take, End, InitDone, Return, Connecting, flags
  <2>2. CASE ~IsLast(t, answer)
    BY <2>2 DEF Take, flags
  <2> QED
    BY <2>1, <2>2
<1>4. /\ me \in CallState /\ me.call \in Nat /\ me.name \in Names
      /\ me.idx \in Index /\ me.got \in Nat /\ needed \in Nat
  <2>1. me \in CallState /\ me.name \in Names /\ me.got \in Nat
    BY <1>1 DEF Types, CallState
  <2>2. \A name \in Names : Len(Requirement[name].answers) \in Nat
    <3>1. Requirement["SetPluginSettings"].answers = <<>>
          /\ Requirement["Notification"].answers = <<>>
          /\ Len(<<>>) = 0
      BY CallTable DEF Names
    <3> QED
      BY <3>1, CallTable
  <2> QED
    BY <2>1, <2>2 DEF CallState
<1>5. \A u \in Thread \ {t} : thread'[u] = thread[u]
  BY <1>1, <1>3 DEF Types
<1>6. \/ thread'[t] = Idle /\ holder' = Nobody
      \/ /\ thread'[t] = [me EXCEPT !.got = @ + 1] /\ holder' = t
         /\ thread'[t].at = "read" /\ thread'[t].name = me.name
         /\ thread'[t].call = me.call /\ thread'[t].got = me.got + 1
         /\ thread'[t].seen = me.seen
  <2>1. CASE IsLast(t, answer)
    BY <1>1, <1>3, <2>1 DEF Types
  <2>2. CASE ~IsLast(t, answer)
    <3>1. thread'[t] = [me EXCEPT !.got = @ + 1] /\ holder' = t
      BY <1>1, <1>2, <1>3, <2>2 DEF Types
    <3> QED
      BY <1>2, <1>4, <3>1 DEF CallState
  <2> QED
    BY <2>1, <2>2
<1>7. /\ Active(t) /\ me.name # "SetPluginSettings"
      /\ Requirement[me.name].answers # <<>>
  BY <1>1, <1>2, <1>4, CallTable DEF Active, LockInv
<1>8. /\ Tail(replies) \in Seq(Message)
      /\ CallsOf(Tail(replies)) \subseteq CallsOf(replies)
      /\ Len(replies) \in Nat \ {0} /\ Len(Tail(replies)) = Len(replies) - 1
      /\ \A i \in 1..Len(Tail(replies)) : Tail(replies)[i] = replies[i + 1]
      /\ answer = replies[1] /\ answer.call \in CallsOf(replies)
  BY <1>1, <1>2, TailCalls DEF Types
<1>9. InStream' \subseteq InStream /\ answer.call \in InStream
  <2>1. /\ InStream = CallsOf(requests) \cup CallsOf(replies)
        /\ InStream' = CallsOf(requests') \cup CallsOf(replies')
    BY DEF InStream, CallsOf
  <2> QED
    BY <1>2, <1>8, <2>1
<1>10. \A u \in Thread : Active(u)' =>
         /\ Active(u) /\ thread'[u].call = thread[u].call
         /\ thread'[u].seen = thread[u].seen
         /\ thread'[u].name = thread[u].name
  BY <1>5, <1>6, <1>7 DEF Active, Idle
<1>11. Types'
  <2>1. Idle \in CallState /\ [me EXCEPT !.got = @ + 1] \in CallState
    BY <1>4, CallTable DEF Idle, CallState, Index
  <2>2. thread' \in [Thread -> CallState]
    BY <1>1, <1>3, <2>1 DEF Types
  <2>3. ready' \in BOOLEAN /\ error' \in BOOLEAN
    BY <1>1, <1>3 DEF Types
  <2> QED
    BY <1>1, <1>2, <1>3, <1>8, <2>2, <2>3 DEF Types
<1>12. LockInv'
  <2>1. ASSUME NEW u \in Thread
        PROVE  /\ thread'[u].at = "read" <=> holder' = u
               /\ thread'[u].at = "checked" => thread'[u].got = 0
               /\ thread'[u].at = "read" =>
                    Requirement[thread'[u].name].answers # <<>>
               /\ thread'[u].at = "closed" =>
                    u = ClientThread /\ ~ready' /\ ~connected'
    <3>1. CASE u = t
      BY <1>6, <1>7, <3>1, NobodyIsNoThread DEF Idle
    <3>2. CASE u # t
      <4>1. thread'[u] = thread[u] /\ holder # u /\ holder' # u
        BY <1>2, <1>3, <1>5, <3>2, NobodyIsNoThread
      <4>2. thread[u].at # "closed"
        BY <1>1, <1>2 DEF LockInv
      <4> QED
        BY <1>1, <4>1, <4>2 DEF LockInv
    <3> QED
      BY <3>1, <3>2
  <2>2. connected'
    BY <1>2
  <2> QED
    BY <2>1, <2>2 DEF LockInv
<1>13. NumberInv'
  <2>1. \A u \in Thread : Active(u)' =>
          /\ thread'[u].call \in (1..calls') \ abandoned'
          /\ thread'[u].seen \subseteq 1..calls'
    BY <1>1, <1>2, <1>10 DEF NumberInv
  <2>2. \A u, w \in Thread : Active(u)' /\ Active(w)' =>
          /\ thread'[w].call \notin thread'[u].seen
          /\ u # w => thread'[u].call # thread'[w].call
    BY <1>1, <1>10 DEF NumberInv
  <2> QED
    BY <1>1, <1>2, <2>1, <2>2 DEF NumberInv, Active
<1>14. ConnectInv'
  <2>1. ASSUME NEW u \in Thread, thread'[u].name = "UpdatePluginList"
        PROVE  /\ u = ClientThread /\ thread'[u].at = "read" /\ ~ready'
               /\ InStream' \subseteq {thread'[u].call}
    <3>1. CASE u = t
      <4>1. /\ me.name = "UpdatePluginList" /\ thread'[t].at = "read"
            /\ thread'[t].call = me.call
        BY <1>6, <2>1, <3>1 DEF Idle
      <4>2. ready' = ready
        BY <1>1, <1>3, <4>1 DEF Types, Idle
      <4> QED
        BY <1>1, <1>9, <3>1, <4>1, <4>2 DEF ConnectInv
    <3>2. CASE u # t
      <4>1. thread[u].at = "read"
        BY <1>1, <1>5, <2>1, <3>2 DEF ConnectInv
      <4> QED
        BY <1>1, <1>2, <3>2, <4>1 DEF LockInv
    <3> QED
      BY <3>1, <3>2
  <2> QED
    BY <2>1 DEF ConnectInv
<1>15. TrustInv'
  <2>1. ready' /\ ~error' => abandoned' \cap InStream' \subseteq silent'
    <3>1. CASE ready' = ready /\ error' = error
      BY <1>1, <1>2, <1>9, <3>1 DEF TrustInv
    <3>2. CASE me.name = "UpdatePluginList"
      <4>1. InStream \subseteq {me.call} /\ me.call \notin abandoned
        BY <1>1, <1>7, <3>2 DEF ConnectInv, NumberInv
      <4> QED
        BY <1>2, <1>9, <4>1
    <3> QED
      BY <1>3, <3>1, <3>2
  <2>2. \A u \in Thread : Active(u)' /\ thread'[u].name # "SetPluginSettings" =>
          thread'[u].seen \cap InStream' \subseteq silent'
    BY <1>1, <1>2, <1>9, <1>10 DEF TrustInv
  <2> QED
    BY <2>1, <2>2 DEF TrustInv, Active
<1>16. PairInv'
  BY <1>1, <1>2 DEF PairInv
<1>17. StepInv'
  <2> SUFFICES ASSUME abandoned = {}
               PROVE  Pending'
    BY <1>2 DEF StepInv
  <2>1. Answered(me)
    BY <1>1, <1>2, NobodyIsNoThread
       DEF StepInv, Pending, Asked, Nothing
  <2>2. /\ requests = <<>> /\ requests' = <<>>
        /\ \/ /\ Len(replies) = needed - me.got
              /\ \A i \in 1..Len(replies) : replies[i].ok
           \/ Len(replies) = 1 /\ ~replies[1].ok
    BY <1>2, <2>1 DEF Answered
  <2>3. CASE IsLast(t, answer)
    <3>1. Len(replies) = 1
      BY <1>4, <1>8, <2>2, <2>3 DEF IsLast
    <3>2. Tail(replies) = <<>>
      <4>1. Tail(replies) \in Seq(Message) /\ Len(Tail(replies)) = 0
        BY <1>8, <3>1
      <4> QED
        BY <4>1, EmptySeq
    <3>3. Unanswered(Len(requests))'
      BY <2>2 DEF Unanswered
    <3>4. holder' = Nobody
      BY <1>3, <2>3
    <3> QED
      BY <1>2, <3>2, <3>3, <3>4 DEF Pending, Nothing
  <2>4. CASE ~IsLast(t, answer)
    <3>1. answer.ok
      BY <2>4 DEF IsLast
    <3>2. /\ Len(replies) = needed - me.got
          /\ \A i \in 1..Len(replies) : replies[i].ok
      BY <1>8, <2>2, <3>1
    <3>3. \A i \in 1..Len(Tail(replies)) : i + 1 \in 1..Len(replies)
      BY <1>8
    <3>4. /\ holder' = t /\ thread'[t].name = me.name
          /\ thread'[t].got = me.got + 1
      BY <1>2, <1>3, <1>6, <2>4, NobodyIsNoThread
    <3>5. /\ Len(replies') = needed - (me.got + 1)
          /\ \A i \in 1..Len(replies') : replies'[i].ok
      <4>1. Len(replies') = needed - (me.got + 1)
        BY <1>2, <1>4, <1>8, <3>2, SMTT(40)
      <4>2. \A i \in 1..Len(replies') : replies'[i].ok
        BY <1>2, <1>8, <3>2, <3>3
      <4> QED
        BY <4>1, <4>2
    <3>6. Answered(thread[holder])'
      BY <2>2, <3>4, <3>5 DEF Answered
    <3> QED
      BY <3>4, <3>6, NobodyIsNoThread DEF Pending
  <2> QED
    BY <2>3, <2>4
<1>18. StaleAnswersExplained'
  <2>1. me.seen \cap InStream \subseteq silent
    BY <1>1, <1>7 DEF TrustInv
  <2>2. answer.call \in silent \/ answer.call \notin me.seen
    BY <1>9, <2>1
  <2> DEFINE s == [from |-> answer.call, seen |-> me.seen]
  <2>3. stale' \subseteq stale \cup {s}
    BY <1>2
  <2>4. s.from = answer.call /\ s.seen = me.seen
    OBVIOUS
  <2> HIDE DEF s
  <2> QED
    BY <1>1, <1>2, <2>2, <2>3, <2>4 DEF StaleAnswersExplained
<1> QED
  BY <1>11, <1>12, <1>13, <1>14, <1>15, <1>16, <1>17, <1>18 DEF IInv

-----------------------------------------------------------------------------
(* What the worker may send for the request req.                           *)
Sent(req, out) ==
  /\ out \in Seq(Message) /\ CallsOf(out) \subseteq {req.call}
  /\ req.type \in Answerless => out = <<>>
  /\ req.type \in Names \ Answerless =>
       \/ out = <<>>
       \/ Len(out) = 1 /\ ~out[1].ok
       \/ /\ Len(out) = Len(Requirement[req.type].answers)
          /\ req.ok => \A i \in 1..Len(out) : out[i].ok

LEMMA OneReply ==
  ASSUME NEW req \in Message, NEW type \in MessageType
  PROVE  /\ One(type, req) \in Seq(Message)
         /\ CallsOf(One(type, req)) = {req.call}
         /\ Len(One(type, req)) = 1 /\ One(type, req)[1].ok = req.ok
<1> DEFINE m == [req EXCEPT !.type = type]
<1>1. m \in Message /\ m.call = req.call /\ m.ok = req.ok
  BY DEF Message
<1>2. One(type, req) = <<m>>
  BY DEF One
<1> HIDE DEF m
<1>3. Len(<<m>>) = 1 /\ <<m>>[1] = m
  OBVIOUS
<1> QED
  BY <1>1, <1>2, <1>3, OneCall

LEMMA MessageTypes ==
  MessageType = Names \cup {"AddPluginResult", "Presets", "Parameters",
                            "Result", "PluginSettings", "RecentsList",
                            "ParameterValue", "PluginList", "CPULoad"}
BY DEF MessageType, Names

(* A call with one message in its answer, and its handler.                 *)
LEMMA SentOne ==
  ASSUME NEW req \in Message, NEW type \in MessageType,
         req.type \in {"DelPlugin", "GetPluginSettings", "GetRecents",
                       "GetParameterValue", "UpdatePluginList", "UpdateCPULoad"}
  PROVE  Sent(req, One(type, req))
<1>1. /\ One(type, req) \in Seq(Message)
      /\ CallsOf(One(type, req)) = {req.call}
      /\ Len(One(type, req)) = 1 /\ One(type, req)[1].ok = req.ok
  BY OneReply
<1>2. Len(Requirement[req.type].answers) = 1
  BY CallTable
<1>3. req.type \notin Answerless
  BY DEF Answerless
<1>4. req.ok => \A i \in 1..1 : One(type, req)[i].ok
  <2>1. \A i \in 1..1 : i = 1
    OBVIOUS
  <2> QED
    BY <1>1, <2>1, Zenon
<1> QED
  BY <1>1, <1>2, <1>3, <1>4 DEF Sent

LEMMA SentNothing ==
  ASSUME NEW req \in Message
  PROVE  Sent(req, <<>>)
<1>1. <<>> \in Seq(Message) /\ CallsOf(<<>>) = {}
  BY DEF CallsOf
<1> QED
  BY <1>1 DEF Sent

(* Two answers in a row.                                                   *)
LEMMA TwoReplies ==
  ASSUME NEW req \in Message, NEW s \in Seq(Message), CallsOf(s) = {req.call},
         \A i \in 1..Len(s) : s[i].ok = req.ok, NEW type \in MessageType
  PROVE  /\ s \o One(type, req) \in Seq(Message)
         /\ CallsOf(s \o One(type, req)) \subseteq {req.call}
         /\ Len(s \o One(type, req)) = Len(s) + 1
         /\ \A i \in 1..Len(s \o One(type, req)) :
              (s \o One(type, req))[i].ok = req.ok
<1> DEFINE u == One(type, req)
<1>1. /\ u \in Seq(Message) /\ CallsOf(u) = {req.call}
      /\ Len(u) = 1 /\ u[1].ok = req.ok
  BY OneReply
<1> HIDE DEF u
<1>2. /\ s \o u \in Seq(Message)
      /\ Len(s) \in Nat /\ Len(u) \in Nat
      /\ Len(s \o u) = Len(s) + Len(u)
      /\ \A i \in 1..Len(s) : (s \o u)[i] = s[i]
      /\ \A i \in 1..Len(u) : (s \o u)[Len(s) + i] = u[i]
      /\ CallsOf(s \o u) \subseteq CallsOf(s) \cup CallsOf(u)
  BY <1>1, ConcatCalls
<1>3. (s \o u)[Len(s) + 1] = u[1]
  BY <1>1, <1>2
<1>4. \A i \in 1..Len(s \o u) : (s \o u)[i].ok = req.ok
  BY <1>1, <1>2, <1>3
<1> QED
  BY <1>1, <1>2, <1>4 DEF u

LEMMA SentAddPlugin ==
  ASSUME NEW req \in Message, req.type = "AddPlugin", NEW ok \in BOOLEAN
  PROVE  Sent(req, AddPluginReplies(req, ok))
<1>1. req.type \notin Answerless /\ Len(Requirement[req.type].answers) = 3
  BY CallTable DEF Answerless
<1>2. CASE ok
  <2> DEFINE a == One("AddPluginResult", req)
             b == a \o One("Presets", req)
             c == b \o One("Parameters", req)
  <2>1. AddPluginReplies(req, ok) = c
    BY <1>2 DEF AddPluginReplies
  <2>2. {"AddPluginResult", "Presets", "Parameters"} \subseteq MessageType
    BY MessageTypes
  <2>3. /\ a \in Seq(Message) /\ CallsOf(a) = {req.call} /\ Len(a) = 1
        /\ \A i \in 1..Len(a) : a[i].ok = req.ok
    <3>1. /\ a \in Seq(Message) /\ CallsOf(a) = {req.call} /\ Len(a) = 1
          /\ a[1].ok = req.ok
      BY <2>2, OneReply
    <3> QED
      BY <3>1
  <2>4. /\ b \in Seq(Message) /\ CallsOf(b) \subseteq {req.call} /\ Len(b) = 2
        /\ \A i \in 1..Len(b) : b[i].ok = req.ok
    <3> HIDE DEF a
    <3> QED
      BY <2>2, <2>3, TwoReplies
  <2>5. CallsOf(b) = {req.call}
    <3>1. 1 \in 1..Len(b)
      BY <2>4
    <3> QED
      BY <2>4, <3>1 DEF CallsOf
  <2>6. /\ c \in Seq(Message) /\ CallsOf(c) \subseteq {req.call} /\ Len(c) = 3
        /\ \A i \in 1..Len(c) : c[i].ok = req.ok
    <3> HIDE DEF b
    <3>1. "Parameters" \in MessageType
      BY <2>2
    <3>2. /\ b \o One("Parameters", req) \in Seq(Message)
          /\ CallsOf(b \o One("Parameters", req)) \subseteq {req.call}
          /\ Len(b \o One("Parameters", req)) = Len(b) + 1
          /\ \A i \in 1..Len(b \o One("Parameters", req)) :
               (b \o One("Parameters", req))[i].ok = req.ok
      BY <2>4, <2>5, <3>1, TwoReplies
    <3> QED
      BY <2>4, <3>2
  <2> HIDE DEF a, b, c
  <2> QED
    BY <1>1, <2>1, <2>6 DEF Sent
<1>3. CASE ~ok
  <2> DEFINE m == [req EXCEPT !.type = "AddPluginResult", !.ok = FALSE]
  <2>1. "AddPluginResult" \in MessageType
    BY MessageTypes
  <2>2. m \in Message /\ m.call = req.call /\ ~m.ok
    BY <2>1 DEF Message
  <2>3. AddPluginReplies(req, ok) = <<m>>
    BY <1>3 DEF AddPluginReplies
  <2> HIDE DEF m
  <2>4. /\ <<m>> \in Seq(Message) /\ CallsOf(<<m>>) = {m.call}
        /\ Len(<<m>>) = 1 /\ <<m>>[1] = m
    BY <2>2, OneCall
  <2> QED
    BY <1>1, <2>2, <2>3, <2>4 DEF Sent
<1> QED
  BY <1>2, <1>3

LEMMA SentAllParameterValues ==
  ASSUME NEW req \in Message, req.type = "GetAllParameterValues"
  PROVE  Sent(req, One("ParameterValue", req) \o One("ParameterValue", req))
<1> DEFINE a == One("ParameterValue", req)
           b == a \o One("ParameterValue", req)
<1>1. req.type \notin Answerless /\ Len(Requirement[req.type].answers) = 2
  BY CallTable DEF Answerless
<1>2. "ParameterValue" \in MessageType
  BY MessageTypes
<1>3. /\ a \in Seq(Message) /\ CallsOf(a) = {req.call} /\ Len(a) = 1
      /\ \A i \in 1..Len(a) : a[i].ok = req.ok
  <2>1. /\ a \in Seq(Message) /\ CallsOf(a) = {req.call} /\ Len(a) = 1
        /\ a[1].ok = req.ok
    BY <1>2, OneReply
  <2> QED
    BY <2>1
<1>4. /\ b \in Seq(Message) /\ CallsOf(b) \subseteq {req.call} /\ Len(b) = 2
      /\ \A i \in 1..Len(b) : b[i].ok = req.ok
  <2> HIDE DEF a
  <2> QED
    BY <1>2, <1>3, TwoReplies
<1>5. Sent(req, b)
  <2> HIDE DEF b
  <2> QED
    BY <1>1, <1>4 DEF Sent
<1> QED
  BY <1>5

(* What the worker takes: a request, or the two of setPluginSettings().    *)
WorkerStep(out) ==
  /\ connected /\ requests # <<>>
  /\ \/ requests' = Tail(requests)
     \/ /\ Head(requests).type = "SetPluginSettings"
        /\ requests' = SubSeq(requests, 3, Len(requests))
  /\ replies' = replies \o out
  /\ Sent(Head(requests), out)
  /\ processors' \in Nat
  /\ UNCHANGED <<thread, holder, ready, error, connected, calls,
                 abandoned, silent, stale>>

LEMMA WorkerSteps ==
  ASSUME IInv, Worker
  PROVE  \E out : WorkerStep(out)
<1> DEFINE req == Head(requests)
<1>1. /\ requests \in Seq(Message) /\ replies \in Seq(Message)
      /\ processors \in Nat
  BY DEF IInv, Types
<1>2. {"Result", "PluginSettings", "RecentsList", "ParameterValue",
       "PluginList", "CPULoad"} \subseteq MessageType
  BY MessageTypes
<1>3. connected /\ requests # <<>>
      /\ UNCHANGED <<thread, holder, ready, error, connected, calls,
                     abandoned, silent, stale>>
  BY DEF Worker, HandleAddPlugin, HandleDelPlugin, HandleGetPluginSettings,
         HandleSetPluginSettings, HandleGetParameterValue,
         HandleGetAllParameterValues, HandleRecentsList, HandlePluginList,
         HandleCPULoad, HandleOther, Handle, flags, history
<1>4. req \in Message
  BY <1>1, <1>3
<1>5. ASSUME NEW ok \in BOOLEAN, HandleAddPlugin(ok)
      PROVE  WorkerStep(AddPluginReplies(req, ok))
  BY <1>1, <1>3, <1>4, <1>5, SentAddPlugin
     DEF WorkerStep, HandleAddPlugin, Handle
<1>6. CASE HandleDelPlugin
  <2>1. /\ requests' = Tail(requests) /\ req.type = "DelPlugin"
        /\ replies' = replies \o One("Result", req) /\ processors' \in Nat
    BY <1>1, <1>4, <1>6 DEF HandleDelPlugin, Handle, Message, Index
  <2> QED
    BY <1>2, <1>3, <1>4, <2>1, SentOne DEF WorkerStep
<1>7. CASE HandleGetPluginSettings
  <2>1. /\ requests' = Tail(requests) /\ req.type = "GetPluginSettings"
        /\ replies' = replies \o One("PluginSettings", req)
        /\ processors' \in Nat
    BY <1>1, <1>7 DEF HandleGetPluginSettings, Handle
  <2> QED
    BY <1>2, <1>3, <1>4, <2>1, SentOne DEF WorkerStep
<1>8. CASE HandleSetPluginSettings
  <2>1. /\ req.type = "SetPluginSettings" /\ replies' = replies
        /\ requests' \in {Tail(requests), SubSeq(requests, 3, Len(requests))}
        /\ processors' \in Nat
    BY <1>1, <1>8 DEF HandleSetPluginSettings
  <2>2. replies' = replies \o <<>>
    BY <1>1, <2>1
  <2> QED
    BY <1>3, <1>4, <2>1, <2>2, SentNothing DEF WorkerStep
<1>9. CASE HandleGetParameterValue
  <2> DEFINE value == [req EXCEPT !.of = req.channel]
  <2>1. /\ requests' = Tail(requests) /\ req.type = "GetParameterValue"
        /\ replies' = replies \o One("ParameterValue", value)
        /\ processors' \in Nat
    BY <1>1, <1>9 DEF HandleGetParameterValue, Handle
  <2>2. /\ value \in Message /\ value.call = req.call
        /\ value.type = req.type /\ value.ok = req.ok
    BY <1>4 DEF Message
  <2> HIDE DEF value
  <2>3. Sent(value, One("ParameterValue", value))
    BY <1>2, <2>1, <2>2, SentOne
  <2>4. Sent(req, One("ParameterValue", value))
    BY <2>2, <2>3 DEF Sent
  <2> QED
    BY <1>3, <2>1, <2>4 DEF WorkerStep
<1>10. CASE HandleGetAllParameterValues
  <2>1. /\ requests' = Tail(requests) /\ req.type = "GetAllParameterValues"
        /\ \/ replies' = replies \o <<>>
           \/ replies' = replies \o (One("ParameterValue", req)
                                     \o One("ParameterValue", req))
        /\ processors' \in Nat
    BY <1>1, <1>10 DEF HandleGetAllParameterValues, Handle
  <2>2. Sent(req, <<>>)
        /\ Sent(req, One("ParameterValue", req) \o One("ParameterValue", req))
    BY <1>4, <2>1, SentNothing, SentAllParameterValues
  <2> QED
    BY <1>3, <2>1, <2>2 DEF WorkerStep
<1>11. CASE HandleRecentsList
  <2>1. /\ requests' = Tail(requests) /\ req.type = "GetRecents"
        /\ replies' = replies \o One("RecentsList", req) /\ processors' \in Nat
    BY <1>1, <1>11 DEF HandleRecentsList, Handle
  <2> QED
    BY <1>2, <1>3, <1>4, <2>1, SentOne DEF WorkerStep
<1>12. CASE HandlePluginList
  <2>1. /\ requests' = Tail(requests) /\ req.type = "UpdatePluginList"
        /\ replies' = replies \o One("PluginList", req) /\ processors' \in Nat
    BY <1>1, <1>12 DEF HandlePluginList, Handle
  <2> QED
    BY <1>2, <1>3, <1>4, <2>1, SentOne DEF WorkerStep
<1>13. CASE HandleCPULoad
  <2>1. /\ requests' = Tail(requests) /\ req.type = "UpdateCPULoad"
        /\ replies' = replies \o One("CPULoad", req) /\ processors' \in Nat
    BY <1>1, <1>13 DEF HandleCPULoad, Handle
  <2> QED
    BY <1>2, <1>3, <1>4, <2>1, SentOne DEF WorkerStep
<1>14. ASSUME NEW type \in {"Notification", "PluginSettings"}, HandleOther(type)
       PROVE  WorkerStep(<<>>)
  <2>1. /\ requests' = Tail(requests) /\ replies' = replies \o <<>>
        /\ processors' \in Nat
    BY <1>1, <1>14 DEF HandleOther, Handle
  <2> QED
    BY <1>3, <1>4, <2>1, SentNothing DEF WorkerStep
<1> QED
  BY <1>5, <1>6, <1>7, <1>8, <1>9, <1>10, <1>11, <1>12, <1>13, <1>14 DEF Worker

LEMMA WorkerInv ==
  ASSUME IInv, NEW out, WorkerStep(out)
  PROVE  IInv'
<1> DEFINE req == Head(requests)
<1>1. /\ Types /\ LockInv /\ NumberInv /\ ConnectInv /\ TrustInv /\ PairInv
      /\ StepInv /\ StaleAnswersExplained
  BY DEF IInv
<1>2. /\ connected /\ requests # <<>> /\ replies' = replies \o out
      /\ Sent(req, out) /\ processors' \in Nat
      /\ UNCHANGED <<thread, holder, ready, error, connected, calls,
                     abandoned, silent, stale>>
  BY DEF WorkerStep
<1>3. /\ Tail(requests) \in Seq(Message)
      /\ CallsOf(Tail(requests)) \subseteq CallsOf(requests)
      /\ Len(requests) \in Nat \ {0} /\ Len(Tail(requests)) = Len(requests) - 1
      /\ \A i \in 1..Len(Tail(requests)) : Tail(requests)[i] = requests[i + 1]
      /\ req = requests[1] /\ req \in Message /\ req.call \in CallsOf(requests)
  BY <1>1, <1>2, TailCalls DEF Types
(* One request is taken or two, and the second is not one with an answer. *)
<1> DEFINE Took(k) ==
             /\ k <= Len(requests)
             /\ k = 2 => requests[2].type = "PluginSettings"
             /\ requests' \in Seq(Message)
             /\ CallsOf(requests') \subseteq CallsOf(requests)
             /\ Len(requests') = Len(requests) - k
             /\ \A i \in 1..Len(requests') : requests'[i] = requests[i + k]
<1>4. PICK k \in {1, 2} : Took(k)
  <2>1. CASE requests' = Tail(requests)
    <3>1. Took(1)
      BY <1>3, <2>1
    <3> HIDE DEF Took
    <3> QED
      BY <3>1
  <2>2. CASE /\ req.type = "SetPluginSettings"
             /\ requests' = SubSeq(requests, 3, Len(requests))
    <3>1. 1 < Len(requests) /\ requests[2].type = "PluginSettings"
      <4>1. 1 \in 1..Len(requests) /\ requests[1].type = "SetPluginSettings"
        BY <1>3, <2>2
      <4> QED
        BY <1>1, <4>1 DEF PairInv
    <3>2. 3 \in Nat \ {0} /\ 3 <= Len(requests) + 1
      BY <1>3, <3>1
    <3>3. /\ requests' \in Seq(Message) /\ Len(requests') = Len(requests) - 2
          /\ \A i \in 1..(Len(requests) - 2) : requests'[i] = requests[i + 2]
          /\ CallsOf(requests') \subseteq CallsOf(requests)
      <4>1. /\ requests' \in Seq(Message)
            /\ Len(requests') = Len(requests) + 1 - 3
            /\ \A i \in 1..(Len(requests) + 1 - 3) :
                 requests'[i] = requests[i + 3 - 1]
            /\ CallsOf(requests') \subseteq CallsOf(requests)
        BY <1>1, <2>2, <3>2, SubSeqCalls DEF Types
      <4>2. /\ Len(requests) + 1 - 3 = Len(requests) - 2
            /\ \A i \in 1..(Len(requests) - 2) : i + 3 - 1 = i + 2
        BY <1>3
      <4> QED
        BY <4>1, <4>2
    <3>4. Took(2)
      BY <1>3, <3>1, <3>3
    <3> HIDE DEF Took
    <3> QED
      BY <3>4
  <2> QED
    BY <2>1, <2>2 DEF WorkerStep
<1>5. \A i \in 1..Len(requests') : i + k \in 1..Len(requests)
  BY <1>3, <1>4
<1>6. /\ out \in Seq(Message) /\ replies' \in Seq(Message)
      /\ CallsOf(replies') \subseteq CallsOf(replies) \cup {req.call}
  BY <1>1, <1>2, ConcatCalls DEF Sent, Types
<1>7. InStream' \subseteq InStream
  <2>1. /\ InStream = CallsOf(requests) \cup CallsOf(replies)
        /\ InStream' = CallsOf(requests') \cup CallsOf(replies')
    BY DEF InStream, CallsOf
  <2> QED
    BY <1>3, <1>4, <1>6, <2>1
<1>8. Types'
  BY <1>1, <1>2, <1>4, <1>6 DEF Types
<1>9. LockInv'
  BY <1>1, <1>2 DEF LockInv
<1>10. NumberInv'
  BY <1>1, <1>2 DEF NumberInv, Active
<1>11. ConnectInv' /\ TrustInv'
  BY <1>1, <1>2, <1>7 DEF ConnectInv, TrustInv, Active
<1>12. PairInv'
  <2>1. ASSUME NEW i \in 1..Len(requests'),
               requests'[i].type = "SetPluginSettings"
        PROVE  i < Len(requests') /\ requests'[i + 1].type = "PluginSettings"
    <3>1. /\ i + k \in 1..Len(requests)
          /\ requests[i + k].type = "SetPluginSettings"
      BY <1>4, <1>5, <2>1
    <3>2. i + k < Len(requests) /\ requests[(i + k) + 1].type = "PluginSettings"
      BY <1>1, <3>1 DEF PairInv
    <3>3. i < Len(requests') /\ i + 1 \in 1..Len(requests')
          /\ (i + 1) + k = (i + k) + 1
      BY <1>3, <1>4, <2>1, <3>2
    <3> QED
      BY <1>4, <3>2, <3>3
  <2> QED
    BY <2>1 DEF PairInv
<1>13. StepInv'
  <2> SUFFICES ASSUME abandoned = {}
               PROVE  Pending'
    BY <1>2 DEF StepInv
  <2>1. CASE Nothing
    <3>1. req.type \in Answerless /\ replies = <<>>
      BY <1>3, <2>1 DEF Nothing, Unanswered
    <3>2. replies' = <<>>
      BY <1>2, <3>1 DEF Sent
    <3>3. Unanswered(Len(requests))'
      BY <1>4, <1>5, <2>1 DEF Nothing, Unanswered
    <3> QED
      BY <3>2, <3>3 DEF Pending, Nothing
  <2>2. CASE holder # Nobody /\ Asked(thread[holder])
    <3> DEFINE me == thread[holder]
               n == Len(requests)
    <3>1. /\ n > 0 /\ Unanswered(n - 1) /\ requests[n].type = me.name
          /\ requests[n].ok /\ replies = <<>> /\ me.got = 0
      BY <2>2 DEF Asked
    <3>2. me.name \in Names \ Answerless
      <4>1. me.name \in Names /\ Requirement[me.name].answers # <<>>
        BY <1>1, <2>2 DEF Types, CallState, LockInv
      <4>2. me.name \notin Answerless
        BY <4>1, CallTable DEF Answerless
      <4> QED
        BY <4>1, <4>2
    <3>3. me' = me
      BY <1>2
    <3>4. CASE n = 1
      <4>1. k = 1 /\ requests' = <<>>
        <5>1. k = 1 /\ Len(requests') = 0
          BY <1>3, <1>4, <3>4
        <5> QED
          BY <1>4, <5>1, EmptySeq
      <4>2. req.type = me.name /\ req.ok
        BY <1>3, <3>1, <3>4
      <4>3. replies' = out
        BY <1>2, <1>6, <3>1
      <4>4. \/ out = <<>>
            \/ Len(out) = 1 /\ ~out[1].ok
            \/ /\ Len(out) = Len(Requirement[me.name].answers)
               /\ \A i \in 1..Len(out) : out[i].ok
        BY <1>2, <3>2, <4>2 DEF Sent
      <4>5. CASE out = <<>>
        <5>1. Unanswered(Len(requests))'
          BY <4>1 DEF Unanswered
        <5> QED
          BY <4>3, <4>5, <5>1 DEF Pending, Nothing
      <4>6. CASE Len(out) = 1 /\ ~out[1].ok
        <5>1. Answered(me)'
          BY <4>1, <4>3, <4>6 DEF Answered
        <5> QED
          BY <1>2, <2>2, <5>1 DEF Pending
      <4>7. CASE /\ Len(out) = Len(Requirement[me.name].answers)
                 /\ \A i \in 1..Len(out) : out[i].ok
        <5>1. Len(out) = Len(Requirement[me.name].answers) - me.got
          <6>1. Len(out) \in Nat
            BY <1>6
          <6> QED
            BY <3>1, <4>7, <6>1
        <5>2. Answered(me)'
          BY <3>3, <4>1, <4>3, <4>7, <5>1 DEF Answered
        <5> QED
          BY <1>2, <2>2, <5>2 DEF Pending
      <4> QED
        BY <4>4, <4>5, <4>6, <4>7
    <3>5. CASE n > 1
      <4>1. req.type \in Answerless
        BY <1>3, <3>1, <3>5 DEF Unanswered
      <4>2. replies' = <<>>
        BY <1>2, <3>1, <4>1 DEF Sent
      <4>3. k < n
        <5>1. CASE k = 1
          BY <3>5, <5>1
        <5>2. CASE k = 2
          <6>1. ASSUME n = 2
                PROVE  FALSE
            <7>1. me.name = "PluginSettings"
              BY <1>4, <3>1, <5>2, <6>1
            <7> QED
              BY <3>2, <7>1 DEF Answerless
          <6> QED
            BY <1>3, <3>5, <5>2, <6>1
        <5> QED
          BY <5>1, <5>2
      <4>4. /\ Len(requests') > 0 /\ Len(requests') = n - k
            /\ requests'[Len(requests')] = requests[n]
        BY <1>3, <1>4, <4>3
      <4>5. Unanswered(Len(requests) - 1)'
        <5>1. ASSUME NEW i \in 1..(Len(requests') - 1)
              PROVE  requests'[i].type \in Answerless
          <6>1. i \in 1..Len(requests') /\ i + k \in 1..(n - 1)
            BY <1>3, <1>4, <4>4
          <6> QED
            BY <1>4, <3>1, <6>1 DEF Unanswered
        <5> QED
          BY <5>1 DEF Unanswered
      <4>6. Asked(me)'
        BY <3>1, <3>3, <4>2, <4>4, <4>5 DEF Asked
      <4> QED
        BY <1>2, <2>2, <4>6 DEF Pending
    <3> QED
      BY <1>3, <3>4, <3>5
  <2> QED
    BY <1>1, <1>2, <2>1, <2>2 DEF StepInv, Pending, Answered
<1>14. StaleAnswersExplained'
  BY <1>1, <1>2 DEF StaleAnswersExplained
<1> QED
  BY <1>8, <1>9, <1>10, <1>11, <1>12, <1>13, <1>14 DEF IInv

-----------------------------------------------------------------------------
(* The client thread between its calls, and the network.                   *)

(* Nothing is in the stream after it was closed or lost.                   *)
LEMMA EmptyStream ==
  ASSUME requests' = <<>>, replies' = <<>>
  PROVE  InStream' = {} /\ PairInv' /\ Nothing'
<1>1. InStream' = {}
  BY DEF InStream, CallsOf
<1> QED
  BY <1>1 DEF PairInv, Nothing, Unanswered

LEMMA LockTimeoutInv == IInv /\ LockTimeout => IInv'
<1> SUFFICES ASSUME IInv, LockTimeout
             PROVE  IInv'
  OBVIOUS
<1>1. /\ Types /\ LockInv /\ NumberInv /\ ConnectInv /\ TrustInv /\ PairInv
      /\ StepInv /\ StaleAnswersExplained
  BY DEF IInv
<1>2. /\ error' = TRUE
      /\ UNCHANGED <<thread, holder, ready, connected, requests, replies,
                     processors, calls, abandoned, silent, stale>>
  BY DEF LockTimeout, stream, history
<1>3. InStream' = InStream
  BY <1>2 DEF InStream, CallsOf
<1>4. Types' /\ NumberInv' /\ PairInv'
  BY <1>1, <1>2 DEF Types, NumberInv, PairInv, Active
<1>5. LockInv'
  BY <1>1, <1>2 DEF LockInv
<1>6. ConnectInv' /\ TrustInv'
  BY <1>1, <1>2, <1>3 DEF ConnectInv, TrustInv, Active
<1>7. StepInv'
  BY <1>1, <1>2 DEF StepInv, Pending, Asked, Answered, Nothing, Unanswered
<1>8. StaleAnswersExplained'
  BY <1>1, <1>2 DEF StaleAnswersExplained
<1> QED
  BY <1>4, <1>5, <1>6, <1>7, <1>8 DEF IInv

LEMMA DisconnectInv == IInv /\ Disconnect => IInv'
<1> SUFFICES ASSUME IInv, Disconnect
             PROVE  IInv'
  OBVIOUS
<1>1. /\ Types /\ LockInv /\ NumberInv /\ ConnectInv /\ TrustInv /\ PairInv
      /\ StepInv /\ StaleAnswersExplained
  BY DEF IInv
<1>2. /\ connected' = FALSE /\ requests' = <<>> /\ replies' = <<>>
      /\ UNCHANGED <<thread, holder, ready, error, processors, calls,
                     abandoned, silent, stale>>
  BY DEF Disconnect, flags, history
<1>3. InStream' = {} /\ PairInv' /\ Nothing'
  BY <1>2, EmptyStream
<1>4. Types'
  <2>1. <<>> \in Seq(Message)
    OBVIOUS
  <2> QED
    BY <1>1, <1>2, <2>1 DEF Types
<1>5. LockInv'
  BY <1>1, <1>2 DEF LockInv
<1>6. NumberInv'
  BY <1>1, <1>2 DEF NumberInv, Active
<1>7. ConnectInv' /\ TrustInv'
  BY <1>1, <1>2, <1>3 DEF ConnectInv, TrustInv, Active
<1>8. StepInv'
  BY <1>3 DEF StepInv, Pending
<1>9. StaleAnswersExplained'
  BY <1>1, <1>2 DEF StaleAnswersExplained
<1> QED
  BY <1>3, <1>4, <1>5, <1>6, <1>7, <1>8, <1>9 DEF IInv

LEMMA CloseInv == IInv /\ Close => IInv'
<1> SUFFICES ASSUME IInv, Close
             PROVE  IInv'
  OBVIOUS
<1> DEFINE c == ClientThread
<1>1. /\ Types /\ LockInv /\ NumberInv /\ ConnectInv
  BY DEF IInv
<1>2. /\ thread[c].at = "idle" /\ holder = Nobody
      /\ thread' = [thread EXCEPT ![c].at = "closed"]
      /\ ready' = FALSE /\ connected' = FALSE
      /\ requests' = <<>> /\ replies' = <<>>
      /\ abandoned' = {} /\ silent' = {} /\ stale' = {}
      /\ UNCHANGED <<holder, error, processors, calls>>
  BY DEF Close
<1>3. InStream' = {} /\ PairInv' /\ Nothing'
  BY <1>2, EmptyStream
<1>4. c \in Thread /\ thread[c] \in CallState
  BY <1>1, ClientThreadAssumption DEF Types
<1>5. /\ thread'[c] = [thread[c] EXCEPT !.at = "closed"]
      /\ thread'[c].at = "closed" /\ thread'[c].name = thread[c].name
      /\ \A u \in Thread \ {c} : thread'[u] = thread[u]
  BY <1>1, <1>2, <1>4 DEF Types, CallState
<1>6. Types'
  <2>1. thread'[c] \in CallState
    BY <1>4, <1>5 DEF CallState
  <2>2. thread' \in [Thread -> CallState]
    BY <1>1, <1>2, <1>5, <2>1 DEF Types
  <2>3. <<>> \in Seq(Message)
    OBVIOUS
  <2> QED
    BY <1>1, <1>2, <2>2, <2>3 DEF Types
<1>7. LockInv'
  <2>1. ASSUME NEW u \in Thread
        PROVE  /\ thread'[u].at = "read" <=> holder' = u
               /\ thread'[u].at = "checked" => thread'[u].got = 0
               /\ thread'[u].at = "read" =>
                    Requirement[thread'[u].name].answers # <<>>
               /\ thread'[u].at = "closed" =>
                    u = ClientThread /\ ~ready' /\ ~connected'
    <3>1. CASE u = c
      BY <1>2, <1>4, <1>5, <3>1, NobodyIsNoThread
    <3>2. CASE u # c
      BY <1>1, <1>2, <1>5, <3>2 DEF LockInv
    <3> QED
      BY <3>1, <3>2
  <2> QED
    BY <1>2, <2>1 DEF LockInv
<1>8. \A u \in Thread : Active(u)' =>
        /\ Active(u) /\ thread'[u] = thread[u]
  BY <1>5 DEF Active
<1>9. NumberInv'
  <2>1. \A u \in Thread : Active(u)' =>
          /\ thread'[u].call \in (1..calls') \ abandoned'
          /\ thread'[u].seen \subseteq 1..calls'
    BY <1>1, <1>2, <1>8 DEF NumberInv
  <2>2. \A u, w \in Thread : Active(u)' /\ Active(w)' =>
          /\ thread'[w].call \notin thread'[u].seen
          /\ u # w => thread'[u].call # thread'[w].call
    BY <1>1, <1>8 DEF NumberInv
  <2> QED
    BY <1>2, <2>1, <2>2 DEF NumberInv, Active
<1>10. ConnectInv'
  <2>1. \A u \in Thread : thread[u].name # "UpdatePluginList"
    BY <1>1, <1>2, NobodyIsNoThread DEF ConnectInv, LockInv
  <2>2. \A u \in Thread : thread'[u].name # "UpdatePluginList"
    BY <1>4, <1>5, <2>1
  <2> QED
    BY <2>2 DEF ConnectInv
<1>11. TrustInv'
  BY <1>2, <1>3 DEF TrustInv
<1>12. StepInv'
  BY <1>3 DEF StepInv, Pending
<1>13. StaleAnswersExplained'
  BY <1>2 DEF StaleAnswersExplained
<1> QED
  BY <1>3, <1>6, <1>7, <1>9, <1>10, <1>11, <1>12, <1>13 DEF IInv

LEMMA ConnectsInv == IInv /\ Connect => IInv'
<1> SUFFICES ASSUME IInv, Connect
             PROVE  IInv'
  OBVIOUS
<1> DEFINE c == ClientThread
           list == Request(calls + 1, "UpdatePluginList", 0, 0)
           me == [Idle EXCEPT !.at = "read", !.name = "UpdatePluginList",
                              !.call = calls + 1]
<1>1. /\ Types /\ LockInv /\ NumberInv /\ ConnectInv /\ TrustInv
      /\ StaleAnswersExplained
  BY DEF IInv
<1>2. /\ thread[c].at = "closed" /\ holder = Nobody
      /\ calls' = calls + 1 /\ holder' = c
      /\ thread' = [thread EXCEPT ![c] = me]
      /\ connected' = TRUE /\ requests' = <<list>> /\ processors' = 0
      /\ UNCHANGED <<ready, error, replies, abandoned, silent, stale>>
  BY DEF Connect, flags, history
<1>3. c \in Thread /\ ~ready /\ ~connected /\ requests = <<>> /\ replies = <<>>
  BY <1>1, <1>2, ClientThreadAssumption DEF LockInv
<1>4. /\ calls \in Nat /\ calls + 1 \in Nat /\ calls + 1 \notin 1..calls
      /\ 1..calls \subseteq 1..(calls + 1) /\ calls + 1 \in 1..(calls + 1)
  BY <1>1 DEF Types
<1>5. /\ me.at = "read" /\ me.name = "UpdatePluginList" /\ me.call = calls + 1
      /\ me.got = 0 /\ me.seen = {} /\ me.idx = 0
  BY DEF Idle
<1>6. me \in CallState
  BY <1>4, CallTable DEF Idle, CallState, Index
<1>7. /\ list \in Message /\ list.call = calls + 1
      /\ list.type = "UpdatePluginList" /\ list.ok
  <2>1. "UpdatePluginList" \in MessageType /\ 0 \in Index
    BY CallTable, MessageTypes DEF Index
  <2> QED
    BY <1>4, <2>1, RequestType DEF Request
<1> HIDE DEF me, list
<1>8. /\ requests' \in Seq(Message) /\ CallsOf(requests') = {calls + 1}
      /\ Len(requests') = 1 /\ requests'[1] = list
  BY <1>2, <1>7, OneCall
<1>9. thread'[c] = me /\ \A u \in Thread \ {c} : thread'[u] = thread[u]
  BY <1>1, <1>2, <1>3 DEF Types
<1>10. InStream' = {calls + 1}
  <2>1. InStream' = CallsOf(requests') \cup CallsOf(replies')
    BY DEF InStream, CallsOf
  <2>2. CallsOf(replies') = {}
    BY <1>2, <1>3 DEF CallsOf
  <2> QED
    BY <1>8, <2>1, <2>2
<1>11. Types'
  BY <1>1, <1>2, <1>3, <1>4, <1>6, <1>8 DEF Types
<1>12. LockInv'
  <2>1. ASSUME NEW u \in Thread
        PROVE  /\ thread'[u].at = "read" <=> holder' = u
               /\ thread'[u].at = "checked" => thread'[u].got = 0
               /\ thread'[u].at = "read" =>
                    Requirement[thread'[u].name].answers # <<>>
               /\ thread'[u].at = "closed" =>
                    u = ClientThread /\ ~ready' /\ ~connected'
    <3>1. CASE u = c
      <4>1. Requirement["UpdatePluginList"].answers # <<>>
        BY CallTable
      <4> QED
        BY <1>2, <1>5, <1>9, <3>1, <4>1
    <3>2. CASE u # c
      BY <1>1, <1>2, <1>9, <3>2, NobodyIsNoThread DEF LockInv
    <3> QED
      BY <3>1, <3>2
  <2> QED
    BY <1>2, <2>1 DEF LockInv
<1>13. \A u \in Thread \ {c} : Active(u)' =>
         /\ Active(u) /\ thread'[u] = thread[u]
  BY <1>9 DEF Active
<1>14. NumberInv'
  <2>1. abandoned \subseteq 1..calls /\ silent \subseteq abandoned
    BY <1>1 DEF NumberInv
  <2>2. ASSUME NEW u \in Thread, Active(u)'
        PROVE  /\ thread'[u].call \in (1..calls') \ abandoned'
               /\ thread'[u].seen \subseteq 1..calls'
    <3>1. CASE u = c
      <4>1. calls + 1 \notin abandoned /\ {} \subseteq 1..(calls + 1)
        BY <1>4, <2>1
      <4>2. calls' = calls + 1 /\ abandoned' = abandoned
        BY <1>2
      <4> QED
        BY <1>4, <1>5, <1>9, <3>1, <4>1, <4>2
    <3>2. CASE u # c
      BY <1>1, <1>2, <1>4, <1>13, <2>2, <3>2 DEF NumberInv
    <3> QED
      BY <3>1, <3>2
  <2>3. ASSUME NEW u \in Thread, NEW w \in Thread, Active(u)', Active(w)'
        PROVE  /\ thread'[w].call \notin thread'[u].seen
               /\ u # w => thread'[u].call # thread'[w].call
    <3>1. CASE u = c
      BY <1>1, <1>4, <1>5, <1>9, <1>13, <2>3, <3>1 DEF NumberInv
    <3>2. CASE u # c /\ w = c
      BY <1>1, <1>4, <1>5, <1>9, <1>13, <2>3, <3>2 DEF NumberInv
    <3>3. CASE u # c /\ w # c
      BY <1>1, <1>13, <2>3, <3>3 DEF NumberInv
    <3> QED
      BY <3>1, <3>2, <3>3
  <2>4. silent' \subseteq abandoned' /\ abandoned' \subseteq 1..calls'
    BY <1>2, <1>4, <2>1
  <2> QED
    BY <2>2, <2>3, <2>4 DEF NumberInv, Active
<1>15. ConnectInv'
  <2>1. ASSUME NEW u \in Thread, u # c
        PROVE  thread'[u].name # "UpdatePluginList"
    BY <1>1, <1>9, <2>1 DEF ConnectInv
  <2> QED
    BY <1>2, <1>3, <1>5, <1>9, <1>10, <2>1 DEF ConnectInv
<1>16. TrustInv'
  <2>1. ASSUME NEW u \in Thread, Active(u)'
        PROVE  thread'[u].seen \cap InStream' \subseteq silent'
    <3>1. CASE u = c
      BY <1>5, <1>9, <3>1
    <3>2. CASE u # c
      <4>1. thread'[u].seen \subseteq 1..calls
        BY <1>1, <1>13, <2>1, <3>2 DEF NumberInv
      <4> QED
        BY <1>4, <1>10, <4>1
    <3> QED
      BY <3>1, <3>2
  <2> QED
    BY <1>2, <1>3, <2>1 DEF TrustInv, Active
<1>17. PairInv'
  <2>1. \A i \in 1..Len(requests') : i = 1
    BY <1>8
  <2> QED
    BY <1>7, <1>8, <2>1 DEF PairInv
<1>18. StepInv'
  <2>1. Unanswered(Len(requests) - 1)'
    BY <1>8 DEF Unanswered
  <2>2. Asked(thread[holder])'
    BY <1>2, <1>3, <1>5, <1>7, <1>8, <1>9, <2>1 DEF Asked
  <2> QED
    BY <1>2, <1>3, <2>2, NobodyIsNoThread DEF StepInv, Pending
<1>19. StaleAnswersExplained'
  BY <1>1, <1>2 DEF StaleAnswersExplained
<1> QED
  BY <1>11, <1>12, <1>14, <1>15, <1>16, <1>17, <1>18, <1>19 DEF IInv

LEMMA UnchangedInv == IInv /\ UNCHANGED vars => IInv'
<1> SUFFICES ASSUME IInv, UNCHANGED vars
             PROVE  IInv'
  OBVIOUS
<1>1. /\ Types /\ LockInv /\ NumberInv /\ ConnectInv /\ TrustInv /\ PairInv
      /\ StepInv /\ StaleAnswersExplained
  BY DEF IInv
<1>2. UNCHANGED <<thread, holder, ready, error, connected, requests, replies,
                  processors, calls, abandoned, silent, stale>>
  BY DEF vars, flags, stream, history
<1>3. InStream' = InStream
  BY <1>2 DEF InStream, CallsOf
<1>4. Types' /\ NumberInv' /\ PairInv'
  BY <1>1, <1>2 DEF Types, NumberInv, PairInv, Active
<1>5. LockInv'
  BY <1>1, <1>2 DEF LockInv
<1>6. ConnectInv' /\ TrustInv'
  BY <1>1, <1>2, <1>3 DEF ConnectInv, TrustInv, Active
<1>7. StepInv'
  BY <1>1, <1>2 DEF StepInv, Pending, Asked, Answered, Nothing, Unanswered
<1>8. StaleAnswersExplained'
  BY <1>1, <1>2 DEF StaleAnswersExplained
<1> QED
  BY <1>4, <1>5, <1>6, <1>7, <1>8 DEF IInv

-----------------------------------------------------------------------------
LEMMA NextInv == IInv /\ [Next]_vars => IInv'
<1> SUFFICES ASSUME IInv, [Next]_vars
             PROVE  IInv'
  OBVIOUS
<1>1. ASSUME NEW t \in Thread, NEW name \in MadeBy(t),
             NEW idx \in IndexOf(name), NEW channel \in ChannelsOf(idx),
             Begin(t, name, idx, channel)
      PROVE  IInv'
  BY <1>1, BeginInv
<1>2. ASSUME NEW t \in Thread, Step(t)
      PROVE  IInv'
  BY <1>2, SendInv, TakeInv, GivesUpInv DEF Step
<1>3. CASE Worker
  <2>1. PICK out : WorkerStep(out)
    BY <1>3, WorkerSteps
  <2> QED
    BY <2>1, WorkerInv
<1> QED
  BY <1>1, <1>2, <1>3, LockTimeoutInv, CloseInv, ConnectsInv, DisconnectInv,
     UnchangedInv DEF Next

LEMMA Invariance == Spec => []IInv
BY InitInv, NextInv, PTL DEF Spec

(* The mutex is with the thread that reads answers.  As long as every call *)
(* of the session got its answers, no message is left in the stream when   *)
(* the mutex is free: the worker sent each call of Client.cpp what it      *)
(* read.                                                                   *)
THEOREM AnswersMatchCalls == Spec => []OneAnswerPerCall
<1>1. IInv => OneAnswerPerCall
  <2> SUFFICES ASSUME IInv
               PROVE  OneAnswerPerCall
    OBVIOUS
  <2>1. Types /\ LockInv /\ NumberInv /\ StepInv
    BY DEF IInv
  <2>2. TypeOK
    BY <2>1 DEF TypeOK, Types, CallState, Names, LockInv, NumberInv
  <2>3. ASSUME holder = Nobody, abandoned = {}
        PROVE  Nothing
    BY <2>1, <2>3 DEF StepInv, Pending
  <2>4. DOMAIN requests = 1..Len(requests)
    BY <2>1 DEF Types
  <2>5. InStep
    BY <2>3, <2>4 DEF InStep, Nothing, Unanswered, Answerless
  <2> QED
    BY <2>2, <2>5 DEF OneAnswerPerCall
<1> QED
  BY <1>1, Invariance, PTL

(* A call that takes the answer of another one takes that of a call that   *)
(* gave up in silence, or after it had itself looked at m_error: setting   *)
(* m_error keeps the calls that begin later off the stream.                *)
THEOREM LateAnswersExplained == Spec => []StaleAnswersExplained
<1>1. IInv => StaleAnswersExplained
  BY DEF IInv
<1> QED
  BY <1>1, Invariance, PTL

=============================================================================
