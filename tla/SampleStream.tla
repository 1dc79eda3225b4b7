---------------------------- MODULE SampleStream ----------------------------
(***************************************************************************)
(* Plugin/Source/AudioStreamer.hpp with NUM_OF_BUFFERS > 0, sample by      *)
(* sample.  AudioStreamer has blocks of one size; here the host chooses    *)
(* the size of each block, and with FIXED_OUTBOUND_BUFFER the samples are  *)
(* collected in m_writeBuffer until they fill a block of the announced     *)
(* size.  read() collects blocks in m_readBuffer until it has as many      *)
(* samples as the host wants.  The network does not fail here.             *)
(*                                                                         *)
(* The queues count blocks, not samples: a backlog, or many small blocks,  *)
(* may fill one, and push() refuses the next block without a word.         *)
(*                                                                         *)
(* Samples have the numbers 1, 2, ... in the order of the host, 0 is       *)
(* silence.  The sample that the host should get at position p is          *)
(* p - Latency.                                                            *)
(***************************************************************************)
EXTENDS Integers, Sequences, SequencesExt, Functions

CONSTANTS
  NUM_OF_BUFFERS,
  BlockSize,             (* getSamplesPerBlock()                           *)
  FIXED_OUTBOUND_BUFFER, (* Values the switch may have.                    *)
  LIVE_MODE,
  MaxSamples,            (* Bound on the samples of the host.              *)
  MaxSwitches            (* Bound on changes of FIXED_OUTBOUND_BUFFER.     *)

ASSUME StreamAssumption ==
  /\ NUM_OF_BUFFERS \in Nat \ {0} /\ BlockSize \in Nat \ {0}
  /\ FIXED_OUTBOUND_BUFFER \in SUBSET BOOLEAN /\ LIVE_MODE \in BOOLEAN
  /\ MaxSamples \in Nat /\ MaxSwitches \in Nat

VARIABLES
  fixed,       (* FIXED_OUTBOUND_BUFFER, which send() reads on every call. *)
  daw,         (* Where the audio thread is, and the size of its block.    *)
  writeBuffer, (* m_writeBuffer: samples, position, needsPositionUpdate,   *)
               (* and how many samples were left when the position was set.*)
  writeQ,      (* m_writeQ                                                 *)
  io,          (* The io thread: its step, the samples it holds, and the   *)
               (* drops it took out of m_dropSamples.                      *)
  readQ,       (* m_readQ, the samples of each block.                      *)
  readBuffer,  (* The samples of m_readBuffer.                             *)
  dropSamples  (* m_dropSamples                                            *)

(* History.                                                                *)
VARIABLES
  sent,        (* Samples the host passed to send().                       *)
  played,      (* Samples of the calls of read() that came back.           *)
  heard,       (* The block that the last successful read() delivered,     *)
               (* where it begins, and the last sample heard before.       *)
  held,        (* Samples that lay behind a skip record or were past the   *)
               (* drops when a read() gave up.                             *)
  lost,        (* Samples that push() refused.                             *)
  switches

stream == <<writeBuffer, writeQ, io, readQ, readBuffer, dropSamples>>
history == <<sent, played, heard, held, lost, switches>>
sampleVars == <<fixed, daw, stream, history>>

Silence(n) == [i \in 1..n |-> 0]
Latency == NUM_OF_BUFFERS * BlockSize

SamplesInit ==
  /\ fixed \in FIXED_OUTBOUND_BUFFER
  /\ daw = [step |-> "host", size |-> 0]
  /\ writeBuffer = [samples |-> <<>>, pos |-> 0, left |-> 0, fresh |-> TRUE]
  /\ writeQ = <<>> /\ io = [step |-> "idle", samples |-> <<>>, owed |-> 0]
  /\ readQ = [i \in 1..NUM_OF_BUFFERS |-> Silence(BlockSize)]
  /\ readBuffer = <<>> /\ dropSamples = 0
  /\ sent = 0 /\ played = 0 /\ held = {} /\ lost = 0 /\ switches = 0
  /\ heard = [at |-> 0, samples |-> <<>>, after |-> 0]

(* push() refuses a block when the queue is full.                          *)
Full(q) == Len(q) = NUM_OF_BUFFERS * 8
Push(q, b) == IF Full(q) THEN q ELSE Append(q, b)
Refused(q, samples) == IF Full(q) THEN Len(samples) ELSE 0

(* The backlog above which send() puts a skip record into the queue.       *)
MaxBacklog == IF LIVE_MODE THEN NUM_OF_BUFFERS ELSE NUM_OF_BUFFERS * 7

-----------------------------------------------------------------------------
(* Plausible mistakes, see AudioStreamer.                                  *)

(* The rest of the drops is not put back.                                  *)
PutBackDrops_Forget ==
  /\ io.step = "putback"
  /\ io' = [step |-> "idle", samples |-> <<>>, owed |-> 0]
  /\ UNCHANGED <<fixed, daw, writeBuffer, writeQ, readQ, readBuffer,
                 dropSamples, history>>

(* m_dropSamples is loaded and not exchanged with 0.                       *)
TakeDrops_Load ==
  /\ io.step = "drop"
  /\ io' = IF dropSamples < Len(io.samples)
             THEN [step |-> "push", owed |-> 0,
                   samples |-> SubSeq(io.samples, dropSamples + 1, Len(io.samples))]
             ELSE [io EXCEPT !.step = "putback", !.owed = dropSamples]
  /\ UNCHANGED <<fixed, daw, writeBuffer, writeQ, readQ, readBuffer, dropSamples,
                 history>>

(* A read() that gives up drops nothing.                                   *)
GiveUp_NoDrop ==
  /\ daw.step = "failed"
  /\ daw' = [step |-> "host", size |-> 0]
  /\ played' = played + daw.size
  /\ UNCHANGED <<fixed, stream, sent, heard, held, lost, switches>>

(* A block is taken when m_writeBuffer is about to exceed it.              *)
Filled_Over(samples) == ~fixed \/ Len(samples) > BlockSize

(* consume() leaves the position alone.                                    *)
Rest_OldPosition(b, samples) == [b EXCEPT !.samples = samples]

(* read() appends what it pops in front of what it has.         *)
Collected_Front(block) == block \o readBuffer

-----------------------------------------------------------------------------
(* The audio thread: send().                                               *)

HostBlock(n) == [i \in 1..n |-> sent + i]

Consume(s, n) == SubSeq(s, n + 1, Len(s))

(* copyFromAndConsume() with all samples, or with one block of them.       *)
Filled(samples) == ~fixed \/ Len(samples) >= BlockSize

(* consume() lets the next block set the position.                         *)
Rest(b, samples) == [b EXCEPT !.samples = samples, !.fresh = TRUE]

Backlogged == Len(writeQ) > MaxBacklog

Given(n) == /\ daw.step = "host"
            /\ sent + n <= MaxSamples
            /\ sent' = sent + n
            /\ daw' = [step |-> "read", size |-> n]

(* copyFrom() and updatePosition().                                        *)
Filling(b, n) ==
  [samples |-> b.samples \o HostBlock(n), fresh |-> FALSE,
   pos |-> IF b.fresh THEN sent + 1 ELSE b.pos,
   left |-> IF b.fresh THEN Len(b.samples) ELSE b.left]

Block(b, samples) ==
  [skip |-> FALSE, pos |-> b.pos, left |-> b.left, samples |-> samples]

Send(n) ==
  LET full == Filling(writeBuffer, n)
      size == IF fixed THEN BlockSize ELSE Len(full.samples)
      out == SubSeq(full.samples, 1, size) IN
    /\ Given(n)
    /\ ~Backlogged
    /\ IF Filled(full.samples)
         THEN /\ writeQ' = Push(writeQ, Block(full, out))
              /\ lost' = lost + Refused(writeQ, out)
              /\ writeBuffer' = Rest(full, Consume(full.samples, size))
         ELSE /\ writeBuffer' = full
              /\ UNCHANGED <<writeQ, lost>>
    /\ UNCHANGED <<fixed, io, readQ, readBuffer, dropSamples, played, heard, held,
                   switches>>

(* The configuration of another instance is loaded: no reconnect.          *)
SwitchFixed ==
  /\ switches < MaxSwitches
  /\ switches' = switches + 1
  /\ daw.step = "host"
  /\ (~fixed) \in FIXED_OUTBOUND_BUFFER
  /\ fixed' = ~fixed
  /\ UNCHANGED <<daw, stream, sent, played, heard, held, lost>>

(* "write queue full, dropping samples": what is left in m_writeBuffer     *)
(* stays there.                                                            *)
Skip(n) ==
  /\ Given(n)
  /\ Backlogged
  /\ writeQ' = Push(writeQ, [skip |-> TRUE, pos |-> 0, left |-> 0,
                           samples |-> Silence(n)])
  /\ lost' = lost + Refused(writeQ, Silence(n))
  /\ held' = held \cup Range(writeBuffer.samples)
  /\ UNCHANGED <<fixed, writeBuffer, io, readQ, readBuffer, dropSamples, played,
                 heard, switches>>

-----------------------------------------------------------------------------
(* The audio thread: read().                                               *)

Wants == daw.step = "read" /\ Len(readBuffer) < daw.size

Collected(block) == readBuffer \o block

Pop ==
  /\ Wants
  /\ readQ # <<>>
  /\ readBuffer' = Collected(Head(readQ))
  /\ readQ' = Tail(readQ)
  /\ UNCHANGED <<fixed, daw, writeBuffer, writeQ, io, dropSamples, history>>

(* waitRead() timed out, but nothing stops the io thread from pushing a    *)
(* block now.                                                              *)
WaitTimeout ==
  /\ Wants
  /\ readQ = <<>>
  /\ daw' = [daw EXCEPT !.step = "failed"]
  /\ UNCHANGED <<fixed, stream, history>>

Came(n) == /\ daw' = [step |-> "host", size |-> 0]
           /\ played' = played + n

(* What the io thread has brought past m_dropSamples.                      *)
Past == Range(readBuffer) \cup (UNION {Range(readQ[i]) : i \in DOMAIN readQ})
          \cup (IF io.step = "push" THEN Range(io.samples) ELSE {})

(* read() returns, and the host keeps the block it passed.                 *)
GiveUp ==
  /\ daw.step = "failed"
  /\ Came(daw.size)
  /\ dropSamples' = dropSamples + daw.size
  /\ held' = (held \cup Past) \ {0}
  /\ UNCHANGED <<fixed, writeBuffer, writeQ, io, readQ, readBuffer, sent, heard,
                 lost, switches>>

Latest(samples, before) == Max({before} \cup Range(samples))

Deliver ==
  /\ daw.step = "read"
  /\ Len(readBuffer) >= daw.size
  /\ Came(daw.size)
  /\ heard' = [at |-> played, samples |-> SubSeq(readBuffer, 1, daw.size),
               after |-> Latest(heard.samples, heard.after)]
  /\ readBuffer' = Consume(readBuffer, daw.size)
  /\ UNCHANGED <<fixed, writeBuffer, writeQ, io, readQ, dropSamples, sent, held,
                 lost, switches>>

-----------------------------------------------------------------------------
(* The io thread.                                                          *)

(* The server processes the block; a skip record becomes silence.          *)
Fetch ==
  /\ io.step = "idle"
  /\ writeQ # <<>>
  /\ io' = [step |-> IF Head(writeQ).skip THEN "push" ELSE "drop",
            samples |-> Head(writeQ).samples, owed |-> 0]
  /\ writeQ' = Tail(writeQ)
  /\ UNCHANGED <<fixed, daw, writeBuffer, readQ, readBuffer, dropSamples, history>>

(* m_dropSamples.exchange(0): a part of the block goes, or all of it.      *)
TakeDrops ==
  /\ io.step = "drop"
  /\ io' = IF dropSamples < Len(io.samples)
             THEN [step |-> "push", samples |-> Consume(io.samples, dropSamples),
                   owed |-> 0]
             ELSE [io EXCEPT !.step = "putback", !.owed = dropSamples]
  /\ dropSamples' = 0
  /\ UNCHANGED <<fixed, daw, writeBuffer, writeQ, readQ, readBuffer, history>>

PutBackDrops ==
  /\ io.step = "putback"
  /\ dropSamples' = dropSamples + (io.owed - Len(io.samples))
  /\ io' = [step |-> "idle", samples |-> <<>>, owed |-> 0]
  /\ UNCHANGED <<fixed, daw, writeBuffer, writeQ, readQ, readBuffer, history>>

PushRead ==
  /\ io.step = "push"
  /\ readQ' = Push(readQ, io.samples)
  /\ lost' = lost + Refused(readQ, io.samples)
  /\ io' = [step |-> "idle", samples |-> <<>>, owed |-> 0]
  /\ UNCHANGED <<fixed, daw, writeBuffer, writeQ, readBuffer, dropSamples, sent,
                 played, heard, held, switches>>

-----------------------------------------------------------------------------
SamplesNext ==
  \/ \E n \in 1..BlockSize : Send(n) \/ Skip(n)
  \/ SwitchFixed
  \/ Pop \/ WaitTimeout \/ GiveUp \/ Deliver
  \/ Fetch \/ TakeDrops \/ PutBackDrops \/ PushRead

SamplesSpec == SamplesInit /\ [][SamplesNext]_sampleVars

-----------------------------------------------------------------------------
(* Properties.                                                             *)

(* The number of samples in a sequence of blocks.                          *)
Total(blocks) ==
  LET sum[k \in 0..Len(blocks)] ==
        IF k = 0 THEN 0 ELSE sum[k - 1] + Len(blocks[k])
  IN sum[Len(blocks)]

SamplesOf(q) == [i \in 1..Len(q) |-> q[i].samples]

(* Samples that read() gets out of the streamer without another send().    *)
Coming ==
  Len(readBuffer) + Total(readQ) + Len(io.samples) - io.owed
    + Total(SamplesOf(writeQ)) - dropSamples

(* Every sample of the host comes back, as itself or as silence, is        *)
(* dropped for one that came too late, or met a full queue: queues,        *)
(* buffers, drops and the hands of the io thread always add up to the      *)
(* latency, without what was lost.                                         *)
Conservation ==
  Len(writeBuffer.samples) + Coming = Latency + sent - played - lost

(* A read() never needs more than what is on its way, unless a queue was   *)
(* full: with blocks of any size, collected or not, it does not wait for   *)
(* the next send().                                                        *)
ReadCanFinish == daw.step = "read" => Coming + lost >= daw.size

(* Samples are heard in their order, each at most once.                    *)
HeardInOrder ==
  \A i \in DOMAIN heard.samples :
    heard.samples[i] > 0 =>
      /\ heard.samples[i] > heard.after
      /\ \A j \in 1..i - 1 : heard.samples[j] < heard.samples[i]

(* A sample is heard exactly Latency after its place as long as no queue   *)
(* was full.  The only ones that are late, and none is early, lay in       *)
(* m_writeBuffer when a block was skipped, or were already past the drops  *)
(* when a read() gave up; after those the stream is aligned again by       *)
(* itself.                                                                 *)
Aligned ==
  lost = 0 =>
    \A i \in DOMAIN heard.samples :
      LET x == heard.samples[i]
          due == heard.at + i - Latency IN
        x > 0 => x = due \/ (x < due /\ x \in held)

(* The position that goes with a block is that of one of its samples: the  *)
(* first one that was not left over from the block before.  So it is       *)
(* exact unless samples are collected, and then ahead by less than a block.*)
PositionInside ==
  \A i \in DOMAIN writeQ :
    LET b == writeQ[i] IN
      ~b.skip => b.left < BlockSize /\ b.samples[b.left + 1] = b.pos

(* Types.                                                                  *)
SampleTypes ==
  /\ fixed \in BOOLEAN
  /\ daw \in [step : {"host", "read", "failed"}, size : 0..BlockSize]
  /\ Len(writeBuffer.samples) < BlockSize
  /\ io.step \in {"idle", "drop", "putback", "push"}
  /\ dropSamples \in Nat /\ sent \in 0..MaxSamples /\ played \in 0..sent
  /\ held \subseteq 1..MaxSamples /\ lost \in Nat

(* The samples in the buffers, the queues and the hands of the io thread,  *)
(* with the drops that are owed, are those between the host and its ear    *)
(* that met no full queue; a read() finds enough unless some did, and      *)
(* positions belong to their blocks.                                       *)
SamplesAccounted ==
  SampleTypes /\ Conservation /\ ReadCanFinish /\ PositionInside

(* Samples are heard in order, once, and after the announced latency, but  *)
(* for those that a skip or a read() that gave up held, until a queue is   *)
(* full.                                                                   *)
InPlace == HeardInOrder /\ Aligned
=============================================================================
