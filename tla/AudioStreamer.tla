--------------------------- MODULE AudioStreamer ----------------------------
(***************************************************************************)
(* The client side of the audio stream, Plugin/Source/AudioStreamer.hpp,   *)
(* with NUM_OF_BUFFERS > 0.                                                *)
(*                                                                         *)
(* Two threads share two single-producer single-consumer queues.  The      *)
(* audio thread of the host calls send() and then read() once per block.   *)
(* The io thread, run(), takes a block from m_writeQ, exchanges it with    *)
(* the server for a processed one and puts that into m_readQ.  The queue   *)
(* m_readQ starts with NUM_OF_BUFFERS blocks of silence: that is the       *)
(* latency the plugin reports to the host.  When read() times out, the     *)
(* host continues without the block, and the io thread has to throw away   *)
(* as many samples as the host missed (m_dropSamples) so that the stream   *)
(* gets back to the reported latency.                                      *)
(*                                                                         *)
(* Blocks are numbered: 1..NUM_OF_BUFFERS are the silent ones, the k-th    *)
(* call of send() has number NUM_OF_BUFFERS + k.  On time means that the   *)
(* k-th call of read() delivers block k.  Every block has the size the     *)
(* host announced (getSamplesPerBlock()), so m_writeBuffer and             *)
(* m_readBuffer are empty between two calls and m_dropSamples is counted   *)
(* in blocks.                                                              *)
(***************************************************************************)
EXTENDS Naturals, Sequences

CONSTANTS
  NUM_OF_BUFFERS,  (* Number of blocks m_readQ starts with.                *)
  LIVE_MODE,       (* Values the LIVE_MODE switch takes while streaming.   *)
  MaxSends         (* Bound on the calls of send().                        *)

ASSUME BuffersAssumption == NUM_OF_BUFFERS \in Nat \ {0}
ASSUME LiveAssumption == LIVE_MODE \in SUBSET BOOLEAN
ASSUME SendsAssumption == MaxSends \in Nat

VARIABLES
  daw,          (* Where the audio thread is.                              *)
  cur,          (* The block send() is about to push.                      *)
  io,           (* Where the io thread is.                                 *)
  buf,          (* The block the io thread holds.                          *)
  owed,         (* What the io thread took out of m_dropSamples.           *)
  writeQ,       (* m_writeQ                                                *)
  readQ,        (* m_readQ                                                 *)
  dropSamples,  (* m_dropSamples, in blocks.                               *)
  error,        (* m_error                                                 *)
  exit,         (* threadShouldExit()                                      *)
  clientRef     (* The Client still holds its pointer to the streamer.     *)

(* History: what the host has seen.                                        *)
VARIABLES
  sent,         (* Calls of send() that accepted a block.                  *)
  reads,        (* Calls of read() that delivered or missed a block.       *)
  lastOut,      (* Number of the block delivered last.                     *)
  lost          (* Blocks a full queue refused.                            *)

dawVars == <<daw, cur>>
ioVars == <<io, buf, owed>>
shared == <<writeQ, readQ, dropSamples, error, exit, clientRef>>
history == <<sent, reads, lastOut, lost>>
vars == <<dawVars, ioVars, shared, history>>

-----------------------------------------------------------------------------
(* Queues and blocks.                                                      *)

QueueSize == NUM_OF_BUFFERS * 8
HighWaterMark == NUM_OF_BUFFERS * 7

(* A block that is not skipped is processed by the server, a skipped one   *)
(* is replaced by silence.  Number 0 stands for "no block".                *)
Block == [id : Nat, skip : BOOLEAN]
NoBlock == [id |-> 0, skip |-> FALSE]

(* push() refuses the value when the queue is full, and no caller looks at *)
(* what it returns.                                                        *)
IsFull(q) == Len(q) = QueueSize
Push(q, b) == IF IsFull(q) THEN q ELSE Append(q, b)
LostBy(q) == IF IsFull(q) THEN 1 ELSE 0

(* A mistake (see below): no room is left for the block that is checked.   *)
MaxBacklog_TooLate(live) == QueueSize

(* The backlog above which send() skips a block.                           *)
MaxBacklog(live) == IF live THEN NUM_OF_BUFFERS ELSE HighWaterMark

Init ==
  /\ daw = "host" /\ cur = NoBlock
  /\ io = "loop" /\ buf = NoBlock /\ owed = 0
  /\ writeQ = <<>>
  /\ readQ = [i \in 1..NUM_OF_BUFFERS |-> [id |-> i, skip |-> FALSE]]
  /\ dropSamples = 0
  /\ error = FALSE /\ exit = FALSE /\ clientRef = TRUE
  /\ sent = 0 /\ reads = 0 /\ lastOut = 0 /\ lost = 0

-----------------------------------------------------------------------------
(* Plausible mistakes.  No action below uses them: the runs are repeated   *)
(* with one of them in place of the operator it imitates, and have to      *)
(* report the property that it breaks.                                     *)

(* The notification goes to the wrong condition variable.                  *)
NotifyWrite_NoWakeup ==
  /\ daw = "notify"
  /\ daw' = "read"
  /\ UNCHANGED <<cur, ioVars, shared, history>>

(* What waitRead() returns is not looked at.                               *)
ReadTimeout_Ignored ==
  /\ daw = "asleep"
  /\ daw' = "pop"
  /\ UNCHANGED <<cur, ioVars, shared, history>>

(* The flag is not part of the condition of the outer loop.                *)
Loop_NoExit ==
  /\ io = "loop"
  /\ io' = IF error THEN "done" ELSE "fetch"
  /\ UNCHANGED <<dawVars, buf, owed, shared, history>>

(* peek() in the place of pop().                                           *)
Fetch_Peek ==
  /\ io = "fetch"
  /\ IF writeQ # <<>>
       THEN /\ buf' = Head(writeQ)
            /\ io' = IF Head(writeQ).skip THEN "push" ELSE "send"
       ELSE /\ io' = "wait"
            /\ UNCHANGED buf
  /\ UNCHANGED <<dawVars, owed, writeQ, readQ, dropSamples, error, exit,
                 clientRef, history>>

(* m_dropSamples is loaded and not exchanged with 0.                       *)
TakeDrops_Load ==
  /\ io = "drop"
  /\ owed' = dropSamples
  /\ io' = IF dropSamples > 0 THEN "putback" ELSE "push"
  /\ UNCHANGED <<dawVars, buf, writeQ, readQ, dropSamples, error, exit,
                 clientRef, history>>

(* The rest that the dropped block does not cover is forgotten.            *)
PutBackDrops_Forget ==
  /\ io = "putback"
  /\ owed' = 0
  /\ buf' = NoBlock
  /\ io' = "fetch"
  /\ UNCHANGED <<dawVars, writeQ, readQ, dropSamples, error, exit, clientRef,
                 history>>

(* The dropped block is subtracted twice.                                  *)
PutBackDrops_Twice ==
  /\ io = "putback"
  /\ dropSamples' = dropSamples + (owed - 2)
  /\ owed' = 0
  /\ buf' = NoBlock
  /\ io' = "fetch"
  /\ UNCHANGED <<dawVars, writeQ, readQ, error, exit, clientRef, history>>

-----------------------------------------------------------------------------
(* The audio thread: send().                                               *)

(* The backlog is looked at here and the block is pushed later: in between *)
(* the io thread may shorten the queue.                                    *)
Send(live) ==
  /\ daw = "host"
  /\ clientRef
  /\ ~error
  /\ sent < MaxSends
  /\ sent' = sent + 1
  /\ cur' = [id |-> NUM_OF_BUFFERS + sent + 1,
             skip |-> Len(writeQ) > MaxBacklog(live)]
  /\ daw' = "push"
  /\ UNCHANGED <<ioVars, shared, reads, lastOut, lost>>

SendPush ==
  /\ daw = "push"
  /\ writeQ' = Push(writeQ, cur)
  /\ lost' = lost + LostBy(writeQ)
  /\ cur' = NoBlock
  /\ daw' = "notify"
  /\ UNCHANGED <<ioVars, readQ, dropSamples, error, exit, clientRef,
                 sent, reads, lastOut>>

(* notifyWrite() takes m_writeMtx, which the io thread holds from the      *)
(* moment it finds the queue empty until it sleeps.                        *)
NotifyWrite ==
  /\ daw = "notify"
  /\ io' = IF io = "asleep" THEN "wait" ELSE io
  /\ daw' = "read"
  /\ UNCHANGED <<cur, buf, owed, shared, history>>

-----------------------------------------------------------------------------
(* The audio thread: read().                                               *)

(* read() returns at once after an error; else waitRead() goes to sleep    *)
(* when there is nothing to read.                                          *)
Read ==
  /\ daw = "read"
  /\ daw' = IF error THEN "host"
            ELSE IF readQ # <<>> \/ exit THEN "pop" ELSE "asleep"
  /\ UNCHANGED <<cur, ioVars, shared, history>>

(* A thread that was notified looks at the condition again.  m_error is    *)
(* not part of the condition.                                              *)
ReadWoken ==
  /\ daw = "woken"
  /\ daw' = IF readQ # <<>> \/ exit THEN "pop" ELSE "asleep"
  /\ UNCHANGED <<cur, ioVars, shared, history>>

(* The wait ends by its timeout: the block is missed if there is still     *)
(* nothing to read.                                                        *)
ReadTimeout ==
  /\ daw = "asleep"
  /\ IF readQ # <<>> \/ exit
       THEN /\ daw' = "pop"
            /\ UNCHANGED <<dropSamples, reads>>
       ELSE /\ daw' = "host"
            /\ dropSamples' = dropSamples + 1
            /\ reads' = reads + 1
  /\ UNCHANGED <<cur, ioVars, writeQ, readQ, error, exit, clientRef,
                 sent, lastOut, lost>>

(* Nothing to pop: read() returns and leaves the buffer of the host alone. *)
ReadPop ==
  /\ daw = "pop"
  /\ daw' = "host"
  /\ IF readQ # <<>>
       THEN /\ lastOut' = Head(readQ).id
            /\ readQ' = Tail(readQ)
            /\ reads' = reads + 1
       ELSE UNCHANGED <<lastOut, readQ, reads>>
  /\ UNCHANGED <<cur, ioVars, writeQ, dropSamples, error, exit, clientRef,
                 sent, lost>>

-----------------------------------------------------------------------------
(* The io thread: run().                                                   *)

Loop ==
  /\ io = "loop"
  /\ io' = IF exit \/ error THEN "done" ELSE "fetch"
  /\ UNCHANGED <<dawVars, buf, owed, shared, history>>

(* The inner loop drains m_writeQ without looking at the exit flag.  A     *)
(* skipped block does not go through the server.                           *)
Fetch ==
  /\ io = "fetch"
  /\ IF writeQ # <<>>
       THEN /\ buf' = Head(writeQ)
            /\ writeQ' = Tail(writeQ)
            /\ io' = IF Head(writeQ).skip THEN "push" ELSE "send"
       ELSE /\ io' = "wait"
            /\ UNCHANGED <<buf, writeQ>>
  /\ UNCHANGED <<dawVars, owed, readQ, dropSamples, error, exit, clientRef,
                 history>>

SendInternal ==
  /\ io = "send"
  /\ io' = "receive"
  /\ UNCHANGED <<dawVars, buf, owed, shared, history>>

ReadInternal ==
  /\ io = "receive"
  /\ io' = "drop"
  /\ UNCHANGED <<dawVars, buf, owed, shared, history>>

(* sendInternal() or readInternal() failed, a timeout of the server        *)
(* included: setError() closes the socket, notifies both sleepers, and the *)
(* thread ends.                                                            *)
SetError ==
  /\ io \in {"send", "receive"}
  /\ error' = TRUE
  /\ io' = "done"
  /\ daw' = IF daw = "asleep" THEN "woken" ELSE daw
  /\ UNCHANGED <<cur, buf, owed, writeQ, readQ, dropSamples, exit, clientRef,
                 history>>

(* m_dropSamples.exchange(0), when there is something to drop.             *)
TakeDrops ==
  /\ io = "drop"
  /\ IF dropSamples > 0
       THEN /\ owed' = dropSamples
            /\ dropSamples' = 0
            /\ io' = "putback"
       ELSE /\ io' = "push"
            /\ UNCHANGED <<owed, dropSamples>>
  /\ UNCHANGED <<dawVars, buf, writeQ, readQ, error, exit, clientRef, history>>

(* The block is dropped and what it does not cover is put back.            *)
PutBackDrops ==
  /\ io = "putback"
  /\ dropSamples' = dropSamples + (owed - 1)
  /\ owed' = 0
  /\ buf' = NoBlock
  /\ io' = "fetch"
  /\ UNCHANGED <<dawVars, writeQ, readQ, error, exit, clientRef, history>>

PushRead ==
  /\ io = "push"
  /\ readQ' = Push(readQ, buf)
  /\ lost' = lost + LostBy(readQ)
  /\ buf' = NoBlock
  /\ io' = "notify"
  /\ UNCHANGED <<dawVars, owed, writeQ, dropSamples, error, exit, clientRef,
                 sent, reads, lastOut>>

NotifyRead ==
  /\ io = "notify"
  /\ daw' = IF daw = "asleep" THEN "woken" ELSE daw
  /\ io' = "fetch"
  /\ UNCHANGED <<cur, buf, owed, shared, history>>

(* waitWrite(): the condition is evaluated with m_writeMtx held.           *)
WaitWrite ==
  /\ io = "wait"
  /\ io' = IF error \/ exit \/ writeQ # <<>> THEN "loop" ELSE "asleep"
  /\ UNCHANGED <<dawVars, buf, owed, shared, history>>

WriteTimeout ==
  /\ io = "asleep"
  /\ io' = "loop"
  /\ UNCHANGED <<dawVars, buf, owed, shared, history>>

-----------------------------------------------------------------------------
(* The client closes the connection.                                       *)

(* Client::close() signals a running thread and drops its pointer, both    *)
(* with m_audioMtx held, which getStreamer() needs.                        *)
Close ==
  /\ clientRef
  /\ io # "done"
  /\ exit' = TRUE
  /\ clientRef' = FALSE
  /\ UNCHANGED <<dawVars, ioVars, writeQ, readQ, dropSamples, error, history>>

(* The last owner runs the destructor, which notifies the sleepers and     *)
(* then waits for the thread.  While the audio thread is in send() or      *)
(* read() it is an owner.                                                  *)
Destruct ==
  /\ ~clientRef
  /\ daw = "host"
  /\ io = "asleep"
  /\ io' = "wait"
  /\ UNCHANGED <<dawVars, buf, owed, shared, history>>

-----------------------------------------------------------------------------
DawStep ==
  SendPush \/ NotifyWrite \/ Read \/ ReadWoken \/ ReadTimeout \/ ReadPop

IoStep ==
  \/ Loop \/ Fetch \/ SendInternal \/ ReadInternal \/ SetError
  \/ TakeDrops \/ PutBackDrops \/ PushRead \/ NotifyRead
  \/ WaitWrite \/ WriteTimeout

Next ==
  \/ \E live \in LIVE_MODE : Send(live)
  \/ DawStep
  \/ IoStep
  \/ Close
  \/ Destruct

Spec == Init /\ [][Next]_vars

(* A call of send() or read() that was started runs to its end, waits are  *)
(* bounded by their timeouts, and so are the socket operations of the io   *)
(* thread.  Nothing obliges the host to call again or the client to close. *)
FairSpec == Spec /\ WF_vars(DawStep) /\ WF_vars(IoStep) /\ WF_vars(Destruct)

-----------------------------------------------------------------------------
(* Properties.                                                             *)

TypeOK ==
  /\ daw \in {"host", "push", "notify", "read", "asleep", "woken", "pop"}
  /\ io \in {"loop", "fetch", "send", "receive", "drop", "putback", "push",
             "notify", "wait", "asleep", "done"}
  /\ cur \in Block /\ buf \in Block
  /\ writeQ \in Seq(Block) /\ readQ \in Seq(Block)
  /\ owed \in Nat /\ dropSamples \in Nat
  /\ error \in BOOLEAN /\ exit \in BOOLEAN /\ clientRef \in BOOLEAN
  /\ sent \in Nat /\ reads \in Nat /\ lastOut \in Nat /\ lost \in Nat

(* The number of the next block that leaves the io thread.                 *)
NextOut ==
  IF buf # NoBlock THEN buf.id
  ELSE IF writeQ # <<>> THEN Head(writeQ).id
  ELSE IF daw = "push" THEN cur.id
  ELSE NUM_OF_BUFFERS + sent + 1

(* The latency is the reported one, up to what is still to be dropped: as  *)
(* long as no queue overflowed, the next block that leaves the io thread   *)
(* is as many blocks late as m_dropSamples and the io thread still account *)
(* for, hence exactly on time when nothing is owed.  This is what send(),  *)
(* read() and run() maintain together across timeouts, skipped blocks and  *)
(* drops.                                                                  *)
LatencyAccounted ==
  lost = 0 => reads + Len(readQ) + 1 = NextOut + (dropSamples + owed)

(* The stream gets back to the reported latency: the same without the      *)
(* exception.  It is what the comment of run() says of the drops, and what *)
(* Client::getLatencySamples() reports to the host.                        *)
LatencyRestored ==
  dropSamples + owed = 0 => reads + Len(readQ) + 1 = NextOut

(* A block is never delivered ahead of the read() it belongs to, unless a  *)
(* full queue refused one: drops never overtake the misses.                *)
NeverEarly == lost = 0 => lastOut <= reads

(* Only silence is refused by a full queue: the thresholds of send() and   *)
(* the drops keep room in both queues for every block with audio.          *)
AudioNeverLost ==
  /\ daw = "push" /\ ~cur.skip => ~IsFull(writeQ)
  /\ io = "push" /\ ~buf.skip => ~IsFull(readQ)

(* No wakeup is lost: a thread sleeps beside a filled queue only as long   *)
(* as the thread that filled it has its notification still to do.          *)
NoLostWakeup ==
  /\ io = "asleep" /\ writeQ # <<>> => daw = "notify"
  /\ daw = "asleep" /\ readQ # <<>> => io = "notify"

(* read() finds the queue empty after a successful wait only when the      *)
(* streamer goes away ("error: read queue empty" is never logged while it  *)
(* works).                                                                 *)
PopFindsBlock == daw = "pop" /\ readQ = <<>> => exit \/ error

(* processBlock() of the host always comes back, whatever the network, the *)
(* io thread and the client do.                                            *)
ProcessBlockReturns == daw # "host" ~> daw = "host"

(* Once the client dropped the streamer its destructor can join the io     *)
(* thread.                                                                 *)
DestructorJoins == ~clientRef ~> io = "done"

(* Neither thread is ever stuck: the audio thread in send() or read(), or  *)
(* the thread that drops the last reference in the destructor.             *)
CallsReturn == ProcessBlockReturns /\ DestructorJoins

-----------------------------------------------------------------------------
(* The streamer is a channel that may discard, but never repeats, reorders *)
(* or invents a block.  A block is in the channel from send() on.          *)

Ids(q) == [i \in DOMAIN q |-> q[i].id]
Opt(b) == IF b = NoBlock THEN <<>> ELSE <<b.id>>

Channel == INSTANCE BlockChannel WITH
  Prefill <- NUM_OF_BUFFERS,
  pipe <- Ids(readQ) \o Opt(buf) \o Ids(writeQ) \o Opt(cur),
  next <- NUM_OF_BUFFERS + sent + 1,
  out <- lastOut

ImplementsChannel == Channel!Spec
=============================================================================
