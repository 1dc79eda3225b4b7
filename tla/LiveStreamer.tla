---------------------------- MODULE LiveStreamer ----------------------------
(***************************************************************************)
(* The client side of the audio stream, Plugin/Source/AudioStreamer.hpp,   *)
(* with NUM_OF_BUFFERS = 0: no queues and no added latency.                *)
(*                                                                         *)
(* send() writes the block to the socket from the audio thread of the      *)
(* host.  Without LIVE_MODE, read() waits for the answer on the same       *)
(* socket.  With LIVE_MODE the io thread, run(), reads the answer into     *)
(* m_readBuffer: read() wakes it through m_readCv and waits for            *)
(* m_ioDataReady no longer than the duration of a block.                   *)
(*                                                                         *)
(* The k-th call of processBlock() that reaches the server carries block   *)
(* k; delivered on time means that the call that sent a block delivers it. *)
(*                                                                         *)
(* An answer is read in parts, each with its own timeout.  The io thread   *)
(* takes a timeout for no error, wherever it happens: one within an answer *)
(* leaves the rest of it in the stream, where the next read takes it for a *)
(* header.  m_readBuffer belongs to both threads and has no lock.          *)
(***************************************************************************)
EXTENDS Integers, Sequences

CONSTANTS
  LIVE_MODE,  (* Values the LIVE_MODE switch may have.                     *)
  MaxCalls    (* Bound on the blocks that are sent.                        *)

ASSUME LiveAssumption == LIVE_MODE \in SUBSET BOOLEAN
ASSUME CallsAssumption == MaxCalls \in Nat

VARIABLES
  daw,          (* Where the audio thread is.                              *)
  io,           (* Where the io thread is.                                 *)
  busy,         (* m_ioThreadBusy                                          *)
  dataReady,    (* m_ioDataReady, an event its waiter resets.              *)
  readBuffer,   (* The block whose samples are in m_readBuffer, 0 when     *)
                (* they are memory that was never written, or Mixed.       *)
  working,      (* m_readBuffer.workingSamples > 0                         *)
  clash,        (* The audio thread has used m_readBuffer since the io     *)
                (* thread began the read it is in.                         *)
  requests,     (* Blocks on their way to the server.                      *)
  responses,    (* Processed blocks on their way back.                     *)
  partial,      (* The rest of an answer is in front of them.              *)
  error,        (* m_error                                                 *)
  exit,         (* threadShouldExit()                                      *)
  live          (* LIVE_MODE, which is not switched while the stream runs. *)

(* History.                                                                *)
VARIABLES
  calls,        (* Blocks sent so far, so the number of the current one.   *)
  out,          (* The blocks delivered so far, oldest first.              *)
  dropped,      (* Blocks whose read() gave up: "dropping samples".        *)
  spoiled       (* A read of the io thread failed, or timed out within an  *)
                (* answer, or both threads used m_readBuffer at once.      *)

dawVars == <<daw, calls, out, dropped>>
ioVars == <<io, busy>>
samples == <<readBuffer, working, clash, spoiled>>
network == <<requests, responses, partial>>
flags == <<error, exit, live>>
vars == <<dawVars, ioVars, dataReady, samples, network, flags>>

Mixed == -1    (* Pieces of answers, or of an answer and what was there.    *)

(* The io thread is in readInternal().                                     *)
Reading == io \in {"reading", "midi"}

Init ==
  /\ daw = "host" /\ io = "loop"
  /\ busy = FALSE /\ dataReady = FALSE
  /\ readBuffer = 0 /\ working = FALSE /\ clash = FALSE /\ spoiled = FALSE
  /\ requests = <<>> /\ responses = <<>> /\ partial = FALSE
  /\ error = FALSE /\ exit = FALSE /\ live \in LIVE_MODE
  /\ calls = 0 /\ out = <<>> /\ dropped = {}

-----------------------------------------------------------------------------
(* Plausible mistakes, see AudioStreamer.                                  *)

(* The samples stay in m_readBuffer.                                       *)
Deliver_Keeps ==
  /\ daw = "wait"
  /\ dataReady
  /\ ~Reading
  /\ dataReady' = FALSE
  /\ out' = Append(out, readBuffer)
  /\ daw' = "host"
  /\ UNCHANGED <<calls, dropped, ioVars, samples, network, flags>>

(* A wait without a timeout.                                               *)
WaitTimeout_Never ==
  /\ daw = "wait"
  /\ dataReady
  /\ daw' = "host"
  /\ UNCHANGED <<calls, out, dropped, ioVars, dataReady, samples, network, flags>>

(* A timeout is not an error without LIVE_MODE either.                     *)
ReceiveFails_Ignored ==
  /\ daw = "receive"
  /\ daw' = "host"
  /\ UNCHANGED <<calls, out, dropped, ioVars, dataReady, samples, network, flags>>

-----------------------------------------------------------------------------
(* The audio thread.                                                       *)

(* A call that finds the io thread busy is refused: send() returns false   *)
(* and the host gets silence.                                              *)
Send ==
  /\ daw = "host"
  /\ ~error
  /\ ~exit
  /\ calls < MaxCalls
  /\ ~(live /\ busy)
  /\ calls' = calls + 1
  /\ requests' = Append(requests, calls + 1)
  /\ daw' = "prepare"
  /\ UNCHANGED <<out, dropped, ioVars, dataReady, samples, responses, partial,
                 flags>>

(* sendInternal() fails: setError().                                       *)
SendFails ==
  /\ daw = "host"
  /\ ~error
  /\ ~exit
  /\ ~(live /\ busy)
  /\ error' = TRUE
  /\ UNCHANGED <<dawVars, ioVars, dataReady, samples, network, exit, live>>

(* read() sizes m_readBuffer, before it looks whether the io thread is     *)
(* busy.  A buffer whose samples were consumed is allocated anew, under    *)
(* the hands of the io thread if that reads; one that still has them keeps *)
(* them.                                                                   *)
Prepare ==
  /\ daw = "prepare"
  /\ daw' = IF error THEN "host" ELSE IF live THEN "check" ELSE "receive"
  /\ IF ~error /\ Reading /\ readBuffer = 0
       THEN clash' = TRUE /\ spoiled' = TRUE
       ELSE UNCHANGED <<clash, spoiled>>
  /\ UNCHANGED <<calls, out, dropped, ioVars, dataReady, readBuffer, working,
                 network, flags>>

CheckBusy ==
  /\ daw = "check"
  /\ IF busy
       THEN /\ daw' = "host"
            /\ dropped' = dropped \cup {calls}
       ELSE /\ daw' = "reset"
            /\ UNCHANGED dropped
  /\ UNCHANGED <<calls, out, ioVars, dataReady, samples, network, flags>>

(* notifyRead(): the event is reset, then the io thread is notified.  The  *)
(* notification reaches it only if it sleeps, and nothing else remembers   *)
(* it.                                                                     *)
ResetEvent ==
  /\ daw = "reset"
  /\ dataReady' = FALSE
  /\ daw' = "notify"
  /\ UNCHANGED <<calls, out, dropped, ioVars, samples, network, flags>>

Notify ==
  /\ daw = "notify"
  /\ io' = IF io = "asleep" THEN "woken" ELSE io
  /\ daw' = "wait"
  /\ UNCHANGED <<calls, out, dropped, busy, dataReady, samples, network, flags>>

(* The samples of m_readBuffer go to the host, whatever they are, and are  *)
(* consumed if the last read was a success.                                *)
Deliver ==
  /\ daw = "wait"
  /\ dataReady
  /\ ~Reading
  /\ dataReady' = FALSE
  /\ out' = Append(out, readBuffer)
  /\ readBuffer' = IF working THEN 0 ELSE readBuffer
  /\ working' = FALSE
  /\ daw' = "host"
  /\ UNCHANGED <<calls, dropped, ioVars, clash, spoiled, network, flags>>

(* The event was signalled for the read before, and the io thread is at    *)
(* the next one: it writes, and allocates, what the audio thread copies    *)
(* and shrinks.                                                            *)
DeliverShared ==
  /\ daw = "wait"
  /\ dataReady
  /\ Reading
  /\ dataReady' = FALSE
  /\ \E block \in {readBuffer, Mixed} : out' = Append(out, block)
  /\ readBuffer' \in {0, Mixed, readBuffer}
  /\ working' = FALSE
  /\ clash' = TRUE
  /\ spoiled' = TRUE
  /\ daw' = "host"
  /\ UNCHANGED <<calls, dropped, ioVars, network, flags>>

(* "read timeout, dropping samples"                                        *)
WaitTimeout ==
  /\ daw = "wait"
  /\ ~dataReady
  /\ dropped' = dropped \cup {calls}
  /\ daw' = "host"
  /\ UNCHANGED <<calls, out, ioVars, dataReady, samples, network, flags>>

(* Without LIVE_MODE the audio thread reads the answer itself.             *)
Receive ==
  /\ daw = "receive"
  /\ responses # <<>>
  /\ out' = Append(out, Head(responses))
  /\ responses' = Tail(responses)
  /\ daw' = "host"
  /\ UNCHANGED <<calls, dropped, ioVars, dataReady, samples, requests, partial,
                 flags>>

(* Any failure of readInternal(), the timeout included, ends the stream.   *)
ReceiveFails ==
  /\ daw = "receive"
  /\ error' = TRUE
  /\ daw' = "host"
  /\ UNCHANGED <<calls, out, dropped, ioVars, dataReady, samples, network,
                 exit, live>>

-----------------------------------------------------------------------------
(* The io thread.                                                          *)

Loop ==
  /\ io = "loop"
  /\ io' = IF exit \/ error THEN "done" ELSE "asleep"
  /\ UNCHANGED <<dawVars, busy, dataReady, samples, network, flags>>

(* wait_for() without a condition: 100 ms passed.                          *)
SleepTimeout ==
  /\ io = "asleep"
  /\ io' = "loop"
  /\ UNCHANGED <<dawVars, busy, dataReady, samples, network, flags>>

SetBusy ==
  /\ io = "woken"
  /\ busy' = TRUE
  /\ clash' = FALSE
  /\ io' = "reading"
  /\ UNCHANGED <<dawVars, dataReady, readBuffer, working, spoiled, network,
                 flags>>

(* What the audio thread may have left of the samples that were read.      *)
Clashes == IF clash THEN {0, Mixed} ELSE {}

(* The header and the channels of an answer.                               *)
ReadAudio ==
  /\ io = "reading"
  /\ ~partial
  /\ responses # <<>>
  /\ readBuffer' \in {Head(responses)} \cup Clashes
  /\ responses' = Tail(responses)
  /\ io' = "midi"
  /\ UNCHANGED <<dawVars, busy, dataReady, working, clash, spoiled, requests,
                 partial, flags>>

(* Its MIDI events: the answer is complete.                                *)
ReadMidi ==
  /\ io = "midi"
  /\ working' = TRUE
  /\ io' = "idle"
  /\ UNCHANGED <<dawVars, busy, dataReady, readBuffer, clash, spoiled, network,
                 flags>>

(* Nothing came for as long as the socket waits: no error.                 *)
IoReadTimeout ==
  /\ io = "reading"
  /\ io' = "idle"
  /\ UNCHANGED <<dawVars, busy, dataReady, samples, network, flags>>

(* The timeout is one of a later part: no error either.  What was read is  *)
(* gone from the stream, the rest of the answer stays.                     *)
IoReadCut ==
  /\ \/ /\ io = "reading"
        /\ ~partial
        /\ responses # <<>>
        /\ responses' = Tail(responses)
        /\ readBuffer' \in {readBuffer, Mixed} \cup Clashes
     \/ /\ io = "midi"
        /\ UNCHANGED <<responses, readBuffer>>
  /\ partial' = TRUE
  /\ spoiled' = TRUE
  /\ io' = "idle"
  /\ UNCHANGED <<dawVars, busy, dataReady, working, clash, requests, flags>>

(* The rest of an answer is taken for a header.  That reads any number of  *)
(* answers or parts of them and ends in a success (silence is a header     *)
(* without channels) or a timeout.                                         *)
Misread ==
  /\ io = "reading"
  /\ partial
  /\ \E n \in 0..Len(responses) :
       responses' = SubSeq(responses, n + 1, Len(responses))
  /\ partial' \in BOOLEAN
  /\ readBuffer' \in {readBuffer, Mixed} \cup Clashes
  /\ working' \in {working, TRUE}
  /\ io' = "idle"
  /\ UNCHANGED <<dawVars, busy, dataReady, clash, spoiled, requests, flags>>

IoReadFails ==
  /\ Reading
  /\ error' = TRUE
  /\ readBuffer' \in {readBuffer, Mixed}
  /\ spoiled' = TRUE
  /\ io' = "idle"
  /\ UNCHANGED <<dawVars, busy, dataReady, working, clash, network, exit, live>>

ClearBusy ==
  /\ io = "idle"
  /\ busy' = FALSE
  /\ io' = "signal"
  /\ UNCHANGED <<dawVars, dataReady, samples, network, flags>>

Signal ==
  /\ io = "signal"
  /\ dataReady' = TRUE
  /\ io' = "loop"
  /\ UNCHANGED <<dawVars, busy, samples, network, flags>>

-----------------------------------------------------------------------------
(* The server answers in order.                                            *)
Serve ==
  /\ requests # <<>>
  /\ responses' = Append(responses, Head(requests))
  /\ requests' = Tail(requests)
  /\ UNCHANGED <<dawVars, ioVars, dataReady, samples, partial, flags>>

(* Client::close() or the destructor.                                      *)
Close ==
  /\ exit' = TRUE
  /\ UNCHANGED <<dawVars, ioVars, dataReady, samples, network, error, live>>

-----------------------------------------------------------------------------
DawStep ==
  \/ Prepare \/ CheckBusy \/ ResetEvent \/ Notify
  \/ Deliver \/ DeliverShared \/ WaitTimeout
  \/ Receive \/ ReceiveFails

IoStep ==
  \/ Loop \/ SleepTimeout \/ SetBusy
  \/ ReadAudio \/ ReadMidi \/ IoReadTimeout \/ IoReadCut \/ Misread
  \/ IoReadFails \/ ClearBusy \/ Signal

Next == Send \/ SendFails \/ DawStep \/ IoStep \/ Serve \/ Close

Spec == Init /\ [][Next]_vars

FairSpec == Spec /\ WF_vars(DawStep) /\ WF_vars(IoStep)

-----------------------------------------------------------------------------
(* Properties.                                                             *)

Number == Mixed..MaxCalls

(* m_ioThreadBusy tells the audio thread to keep away from the socket:     *)
(* it is set as long as the io thread reads.                               *)
TypeOK ==
  /\ daw \in {"host", "prepare", "check", "reset", "notify", "wait", "receive"}
  /\ io \in {"loop", "asleep", "woken", "reading", "midi", "idle", "signal",
             "done"}
  /\ busy \in BOOLEAN /\ dataReady \in BOOLEAN
  /\ busy <=> Reading \/ io = "idle"
  /\ readBuffer \in Number
  /\ working \in BOOLEAN /\ clash \in BOOLEAN /\ spoiled \in BOOLEAN
  /\ requests \in Seq(Number) /\ responses \in Seq(Number)
  /\ partial \in BOOLEAN
  /\ error \in BOOLEAN /\ exit \in BOOLEAN /\ live \in LIVE_MODE
  /\ calls \in 0..MaxCalls /\ out \in Seq(Number) /\ dropped \subseteq Number

(* Whatever happens, the blocks that reach the host as a whole do so in    *)
(* order.                                                                  *)
DeliveredInOrder ==
  \A i, j \in DOMAIN out : i < j /\ 0 < out[i] /\ 0 < out[j] => out[i] <= out[j]

(* However late the answers come, no block is delivered twice or in pieces *)
(* until the io thread gives up within an answer or both threads use       *)
(* m_readBuffer at once.                                                   *)
DeliveredOnce ==
  ~spoiled =>
    \A j \in DOMAIN out :
      /\ out[j] # Mixed
      /\ \A i \in DOMAIN out : i < j /\ 0 < out[j] => out[i] < out[j]

(* processBlock() of the host always comes back: the audio thread waits    *)
(* for the io thread no longer than a block lasts.                         *)
ProcessBlockReturns == daw # "host" ~> daw = "host"

(* Without LIVE_MODE the call that sends a block delivers it.              *)
DeliversCurrentBlock ==
  [][~live /\ out' # out => out'[Len(out')] = calls]_vars

(* The samples whose read() timed out are dropped, as the log says: they   *)
(* are not delivered later.                                                *)
TimedOutBlocksAreDropped ==
  [][out' # out => out'[Len(out')] \notin dropped]_vars

(* Reading without the io thread and reading with it never mix:            *)
(* m_ioThreadBusy is right whenever the audio thread tests it, and so the  *)
(* order is kept.                                                          *)
InOrder == TypeOK /\ DeliveredInOrder /\ DeliveredOnce
=============================================================================
