------------------------ MODULE AudioStreamer_proofs ------------------------
(***************************************************************************)
(* Proofs about AudioStreamer, for any number of buffers, any use of the   *)
(* LIVE_MODE switch and any number of blocks.                              *)
(*                                                                         *)
(* The argument counts blocks.  Every block that entered the streamer is   *)
(* in one of the queues, held by the io thread, lost, dropped or           *)
(* delivered, and every read() that missed its block added one to what is  *)
(* to be dropped: that is Accounting, which says how many blocks there are *)
(* at each stage.  WriteOrder and BufOrder turn the number of blocks ahead *)
(* of a block into its number.                                             *)
(*                                                                         *)
(* The second part shows that the streamer implements BlockChannel: the    *)
(* pipe of the channel is what is in m_readQ, held by the io thread, in    *)
(* m_writeQ and in send(), and no step reorders it.                        *)
(***************************************************************************)
EXTENDS AudioStreamer, SequenceTheorems, TLAPS

-----------------------------------------------------------------------------
(* The inductive invariant.                                                *)

(* The block of the current send() that is not in the queue yet.           *)
Pending == IF daw = "push" THEN 1 ELSE 0

InFlight == IF buf = NoBlock THEN 0 ELSE 1

CurInv ==
  /\ daw = "push" => cur.id = NUM_OF_BUFFERS + sent
  /\ daw = "push" /\ ~cur.skip => Len(writeQ) <= HighWaterMark
  /\ daw = "push" => sent > 0

BufInv ==
  /\ io \in {"send", "receive", "drop", "putback", "push"} => buf # NoBlock
  /\ io \in {"loop", "fetch", "notify", "wait", "asleep"} => buf = NoBlock
  /\ io = "putback" => owed > 0
  /\ io # "putback" => owed = 0

Accounting ==
  reads + Len(readQ) + Len(writeQ) + InFlight + lost + Pending
    = NUM_OF_BUFFERS + sent + dropSamples + owed

WriteOrder ==
  lost = 0 =>
    \A i \in 1..Len(writeQ) :
      writeQ[i].id + Len(writeQ) + Pending = NUM_OF_BUFFERS + sent + i

BufOrder ==
  lost = 0 /\ buf # NoBlock =>
    buf.id + Len(writeQ) + Pending = NUM_OF_BUFFERS + sent

ReadOrder ==
  lost = 0 => \A i \in 1..Len(readQ) : readQ[i].id <= reads + i

(* One send() per read(): the host is at most one block ahead.             *)
Pace ==
  /\ sent <= reads + 1
  /\ daw = "host" /\ clientRef /\ ~error => sent = reads
  /\ daw # "host" => sent = reads + 1

(* Every block on its way to the io thread has a number.                   *)
WriteIds == \A i \in 1..Len(writeQ) : writeQ[i] # NoBlock

ExitInv == exit => ~clientRef

AudioFits == io = "push" /\ ~buf.skip => Len(readQ) <= NUM_OF_BUFFERS

IInv ==
  /\ TypeOK
  /\ CurInv
  /\ BufInv
  /\ Accounting
  /\ WriteOrder
  /\ BufOrder
  /\ ReadOrder
  /\ Pace
  /\ WriteIds
  /\ ExitInv
  /\ AudioFits
  /\ NoLostWakeup
  /\ PopFindsBlock
  /\ NeverEarly

-----------------------------------------------------------------------------
(* Facts about the queues and the blocks.                                  *)

(* The marker for "no block" has the type of a block.                      *)
LEMMA NoBlockIsBlock == NoBlock \in Block
BY DEF NoBlock, Block

(* The fields of a queued block.                                            *)
LEMMA ElementType ==
  ASSUME NEW q \in Seq(Block), NEW i \in 1..Len(q)
  PROVE  q[i] \in Block /\ q[i].id \in Nat /\ q[i].skip \in BOOLEAN
<1>1. q[i] \in Block
  OBVIOUS
<1> QED
  BY <1>1 DEF Block

(* The types that the arithmetic of the accounting needs.                  *)
Numbers ==
  /\ Len(writeQ) \in Nat /\ Len(readQ) \in Nat
  /\ owed \in Nat /\ dropSamples \in Nat
  /\ sent \in Nat /\ reads \in Nat /\ lastOut \in Nat /\ lost \in Nat
  /\ InFlight \in Nat /\ Pending \in Nat

LEMMA NumberTypes == IInv => Numbers
BY DEF IInv, TypeOK, Numbers, InFlight, Pending

(* What push() returns and what it refuses.                                *)
LEMMA PushProperties ==
  ASSUME NEW q \in Seq(Block), NEW b \in Block
  PROVE  /\ Push(q, b) \in Seq(Block)
         /\ LostBy(q) \in Nat
         /\ Len(Push(q, b)) + LostBy(q) = Len(q) + 1
         /\ LostBy(q) = 0 => Push(q, b) = Append(q, b)
BY DEF Push, LostBy, IsFull

-----------------------------------------------------------------------------
(* The initial states.                                                     *)

(* The constructor of the streamer establishes the invariant.              *)
LEMMA InitInv == Init => IInv
<1> SUFFICES ASSUME Init PROVE IInv
  OBVIOUS
<1> USE BuffersAssumption
<1>1. TypeOK
  <2>1. readQ \in Seq(Block)
    BY DEF Init, Block
  <2>2. writeQ \in Seq(Block)
    BY DEF Init
  <2>3. cur \in Block /\ buf \in Block
    BY NoBlockIsBlock DEF Init
  <2> QED
    BY <2>1, <2>2, <2>3 DEF Init, TypeOK
<1>2. Len(readQ) = NUM_OF_BUFFERS
  BY DEF Init
<1>3. CurInv /\ BufInv /\ Pace /\ WriteIds /\ ExitInv /\ AudioFits
      /\ NoLostWakeup /\ PopFindsBlock /\ NeverEarly
  BY DEF Init, CurInv, BufInv, Pace, WriteIds, ExitInv, AudioFits,
         NoLostWakeup, PopFindsBlock, NeverEarly
<1>4. Accounting /\ WriteOrder /\ BufOrder
  BY <1>2 DEF Init, Accounting, WriteOrder, BufOrder, InFlight, Pending
<1>5. ReadOrder
  BY <1>2 DEF Init, ReadOrder
<1> QED
  BY <1>1, <1>3, <1>4, <1>5 DEF IInv

-----------------------------------------------------------------------------
(* The steps that move no block and count nothing.                         *)

(* Waits, notifications, socket operations and the loop condition.         *)
LEMMA ControlInv ==
  ASSUME IInv,
         \/ NotifyWrite \/ Read \/ ReadWoken
         \/ Loop \/ SendInternal \/ ReadInternal \/ SetError \/ NotifyRead
         \/ WaitWrite \/ WriteTimeout
         \/ Destruct
  PROVE  IInv'
<1> USE BuffersAssumption
    DEF IInv, TypeOK, CurInv, BufInv, Accounting, WriteOrder, BufOrder,
        ReadOrder, Pace, WriteIds, ExitInv, AudioFits, NoLostWakeup,
        PopFindsBlock, NeverEarly, Pending, InFlight, dawVars, ioVars, shared,
        history
<1>1. CASE NotifyWrite
  BY <1>1 DEF NotifyWrite
<1>2. CASE Read
  BY <1>2 DEF Read
<1>3. CASE ReadWoken
  BY <1>3 DEF ReadWoken
<1>4. CASE Loop
  BY <1>4 DEF Loop
<1>5. CASE SendInternal
  BY <1>5 DEF SendInternal
<1>6. CASE ReadInternal
  BY <1>6 DEF ReadInternal
<1>7. CASE SetError
  BY <1>7 DEF SetError
<1>8. CASE NotifyRead
  BY <1>8 DEF NotifyRead
<1>9. CASE WaitWrite
  BY <1>9 DEF WaitWrite
<1>10. CASE WriteTimeout
  BY <1>10 DEF WriteTimeout
<1>11. CASE Destruct
  BY <1>11 DEF Destruct
<1> QED
  BY <1>1, <1>2, <1>3, <1>4, <1>5, <1>6, <1>7, <1>8, <1>9, <1>10, <1>11

-----------------------------------------------------------------------------
(* The audio thread.                                                       *)

(* send() decides about a block: the number of the block is the count of    *)
(* the calls.                                                              *)
LEMMA SendInv == ASSUME IInv, NEW live \in BOOLEAN, Send(live) PROVE IInv'
<1> USE BuffersAssumption DEF ioVars, shared
<1>1. cur'.id = NUM_OF_BUFFERS + sent' /\ sent' = sent + 1
      /\ daw' = "push" /\ daw = "host"
      /\ writeQ' = writeQ /\ lost' = lost /\ buf' = buf
  BY DEF Send, IInv, TypeOK
<1>2. MaxBacklog(live) \in Nat /\ MaxBacklog(live) <= HighWaterMark
  BY DEF MaxBacklog, HighWaterMark
<1>3. TypeOK'
  <2>1. cur' \in Block
    BY DEF Send, IInv, TypeOK, Block
  <2> QED
    BY <2>1 DEF Send, IInv, TypeOK
<1>4. CurInv'
  <2>1. ASSUME ~cur'.skip PROVE ~(Len(writeQ) > MaxBacklog(live))
    BY <2>1 DEF Send
  <2>2. Len(writeQ) \in Nat /\ HighWaterMark \in Nat
    BY NumberTypes DEF Numbers, HighWaterMark
  <2>3. ~cur'.skip => Len(writeQ) <= HighWaterMark
    BY <1>2, <2>1, <2>2
  <2> QED
    BY <1>1, <2>3 DEF CurInv, IInv, TypeOK
<1>5. BufInv' /\ WriteIds' /\ ExitInv'
  BY DEF Send, IInv, BufInv, WriteIds, ExitInv
<1>6. Pending = 0 /\ Pending' = 1
  BY <1>1 DEF Pending
<1>7. Accounting'
  BY <1>6 DEF Send, IInv, TypeOK, Accounting, InFlight
<1>8. WriteOrder'
  <2> SUFFICES ASSUME lost = 0, NEW i \in 1..Len(writeQ)
               PROVE  writeQ[i].id + Len(writeQ) + Pending'
                        = NUM_OF_BUFFERS + sent' + i
    BY <1>1 DEF WriteOrder
  <2>1. writeQ[i].id + Len(writeQ) + Pending = NUM_OF_BUFFERS + sent + i
    BY DEF IInv, WriteOrder
  <2>2. writeQ[i].id \in Nat
    BY ElementType DEF IInv, TypeOK
  <2>3. Numbers /\ i \in Nat
    BY NumberTypes
  <2> QED
    BY <2>1, <2>2, <2>3, <1>1, <1>6 DEF Numbers
<1>9. BufOrder'
  BY <1>1, <1>6 DEF IInv, TypeOK, Block, BufOrder
<1>10. Pace' /\ NeverEarly' /\ ReadOrder'
  BY DEF Send, IInv, TypeOK, Pace, NeverEarly, ReadOrder
<1>11. AudioFits' /\ NoLostWakeup' /\ PopFindsBlock'
  BY DEF Send, IInv, AudioFits, NoLostWakeup, PopFindsBlock
<1> QED
  BY <1>3, <1>4, <1>5, <1>7, <1>8, <1>9, <1>10, <1>11 DEF IInv

(* send() queues the block, or loses it to a full queue.                   *)
LEMMA SendPushInv == ASSUME IInv, SendPush PROVE IInv'
<1> USE BuffersAssumption DEF ioVars
<1>1. /\ writeQ' \in Seq(Block)
      /\ lost' \in Nat
      /\ Len(writeQ') + lost' = Len(writeQ) + 1 + lost
      /\ lost' = 0 => lost = 0 /\ writeQ' = Append(writeQ, cur)
  <2>1. writeQ \in Seq(Block) /\ cur \in Block /\ lost \in Nat
    BY DEF IInv, TypeOK
  <2>2. writeQ' = Push(writeQ, cur) /\ lost' = lost + LostBy(writeQ)
    BY DEF SendPush
  <2>3. /\ Push(writeQ, cur) \in Seq(Block)
        /\ LostBy(writeQ) \in Nat
        /\ Len(Push(writeQ, cur)) + LostBy(writeQ) = Len(writeQ) + 1
        /\ LostBy(writeQ) = 0 => Push(writeQ, cur) = Append(writeQ, cur)
    BY <2>1, PushProperties
  <2>4. Len(writeQ) \in Nat /\ Len(Push(writeQ, cur)) \in Nat
    BY <2>1, <2>3
  <2> QED
    BY <2>1, <2>2, <2>3, <2>4
<1>2. Pending = 1 /\ Pending' = 0 /\ sent' = sent /\ cur # NoBlock
      /\ cur.id = NUM_OF_BUFFERS + sent
  BY DEF SendPush, Pending, IInv, TypeOK, CurInv, NoBlock
<1>3. TypeOK'
  BY <1>1, NoBlockIsBlock DEF SendPush, IInv, TypeOK
<1>4. CurInv' /\ BufInv' /\ ExitInv'
  BY DEF SendPush, IInv, CurInv, BufInv, ExitInv
<1>5. Accounting'
  <2>1. InFlight' = InFlight /\ InFlight \in Nat
    BY DEF SendPush, InFlight
  <2> QED
    <3>1. Numbers /\ Len(writeQ') \in Nat
      BY <1>1, NumberTypes
    <3>2. readQ' = readQ /\ reads' = reads /\ owed' = owed
          /\ dropSamples' = dropSamples /\ Accounting
      BY DEF SendPush, IInv
    <3> QED
      BY <1>1, <1>2, <2>1, <3>1, <3>2 DEF Numbers, Accounting
<1>6. WriteIds'
  BY <1>2 DEF SendPush, Push, IInv, TypeOK, WriteIds
<1>7. WriteOrder'
  <2> SUFFICES ASSUME lost' = 0, NEW i \in 1..Len(writeQ')
               PROVE  writeQ'[i].id + Len(writeQ') + Pending'
                        = NUM_OF_BUFFERS + sent' + i
    BY DEF WriteOrder
  <2>1. lost = 0 /\ writeQ' = Append(writeQ, cur) /\ writeQ \in Seq(Block)
        /\ Len(writeQ') = Len(writeQ) + 1
    BY <1>1 DEF IInv, TypeOK
  <2>2. CASE i = Len(writeQ) + 1
    <3>1. writeQ'[i] = cur
      BY <2>1, <2>2
    <3> QED
      BY <3>1, <2>1, <2>2, <1>2 DEF IInv, TypeOK
  <2>3. CASE i \in 1..Len(writeQ)
    <3>1. writeQ'[i] = writeQ[i] /\ writeQ[i].id \in Nat
      BY <2>1, <2>3, ElementType
    <3>2. writeQ[i].id + Len(writeQ) + Pending = NUM_OF_BUFFERS + sent + i
      BY <2>1, <2>3 DEF IInv, WriteOrder
    <3> QED
      BY <3>1, <3>2, <2>1, <2>3, <1>2, NumberTypes DEF Numbers
  <2> QED
    BY <2>1, <2>2, <2>3
<1>8. BufOrder'
  BY <1>1, <1>2 DEF SendPush, IInv, TypeOK, Block, BufOrder
<1>9. Pace' /\ NeverEarly' /\ ReadOrder'
  BY <1>1 DEF SendPush, IInv, TypeOK, Pace, NeverEarly, ReadOrder
<1>10. AudioFits' /\ NoLostWakeup' /\ PopFindsBlock'
  BY DEF SendPush, IInv, AudioFits, NoLostWakeup, PopFindsBlock
<1> QED
  BY <1>3, <1>4, <1>5, <1>6, <1>7, <1>8, <1>9, <1>10 DEF IInv

(* A missed block is owed to the io thread.                                *)
LEMMA ReadTimeoutInv == ASSUME IInv, ReadTimeout PROVE IInv'
<1> USE BuffersAssumption DEF ioVars
<1>1. TypeOK'
  BY DEF ReadTimeout, IInv, TypeOK
<1>2. CurInv' /\ BufInv' /\ WriteIds' /\ ExitInv'
  BY DEF ReadTimeout, IInv, CurInv, BufInv, WriteIds, ExitInv
<1>3. Pending = 0 /\ Pending' = 0 /\ InFlight' = InFlight /\ InFlight \in Nat
  BY DEF ReadTimeout, Pending, InFlight
<1>4. Accounting'
  <2>1. writeQ' = writeQ /\ readQ' = readQ /\ sent' = sent /\ lost' = lost
        /\ owed' = owed /\ Accounting
    BY DEF ReadTimeout, IInv
  <2>2. Numbers
    BY NumberTypes
  <2>3. CASE reads' = reads /\ dropSamples' = dropSamples
    BY <2>1, <2>2, <2>3, <1>3 DEF Accounting, Numbers
  <2>4. CASE reads' = reads + 1 /\ dropSamples' = dropSamples + 1
    BY <2>1, <2>2, <2>4, <1>3 DEF Accounting, Numbers
  <2> QED
    BY <2>3, <2>4 DEF ReadTimeout
<1>5. BufOrder' /\ WriteOrder'
  BY <1>3 DEF ReadTimeout, IInv, BufOrder, WriteOrder
<1>6. ReadOrder'
  BY DEF ReadTimeout, IInv, TypeOK, ReadOrder
<1>7. NeverEarly'
  BY DEF ReadTimeout, IInv, TypeOK, NeverEarly
<1>8. Pace'
  BY DEF ReadTimeout, IInv, TypeOK, Pace
<1>9. AudioFits' /\ NoLostWakeup' /\ PopFindsBlock'
  BY DEF ReadTimeout, IInv, AudioFits, NoLostWakeup, PopFindsBlock
<1> QED
  BY <1>1, <1>2, <1>4, <1>5, <1>6, <1>7, <1>8, <1>9 DEF IInv

(* read() delivers the head of m_readQ.                                    *)
LEMMA ReadPopInv == ASSUME IInv, ReadPop PROVE IInv'
<1> USE BuffersAssumption DEF ioVars
<1>1. CASE readQ = <<>>
  <2>1. exit \/ error
    BY <1>1 DEF ReadPop, IInv, PopFindsBlock
  <2>2. Pace' /\ ExitInv'
    BY <1>1, <2>1 DEF ReadPop, IInv, TypeOK, Pace, ExitInv
  <2> QED
    BY <1>1, <2>2
    DEF ReadPop, IInv, TypeOK, CurInv, BufInv, Accounting, WriteOrder,
        BufOrder, ReadOrder, WriteIds, AudioFits, NoLostWakeup, PopFindsBlock,
        NeverEarly, Pending, InFlight
<1>2. CASE readQ # <<>>
  <2>1. /\ readQ' \in Seq(Block) /\ Len(readQ') = Len(readQ) - 1
        /\ \A i \in 1..Len(readQ') : readQ'[i] = readQ[i + 1]
        /\ Len(readQ) > 0 /\ lastOut' = readQ[1].id /\ readQ[1] \in Block
        /\ reads' = reads + 1 /\ lost' = lost
    <3>1. readQ \in Seq(Block) /\ readQ' = Tail(readQ)
          /\ lastOut' = Head(readQ).id
      BY <1>2 DEF ReadPop, IInv, TypeOK
    <3> QED
      BY <3>1, <1>2 DEF ReadPop
  <2>2. TypeOK'
    BY <1>2, <2>1 DEF ReadPop, IInv, TypeOK, Block
  <2>3. CurInv' /\ BufInv' /\ WriteIds' /\ ExitInv'
    BY DEF ReadPop, IInv, CurInv, BufInv, WriteIds, ExitInv
  <2>4. Pending = 0 /\ Pending' = 0 /\ InFlight' = InFlight /\ InFlight \in Nat
    BY DEF ReadPop, Pending, InFlight
  <2>5. Accounting'
    BY <2>1, <2>4 DEF ReadPop, IInv, TypeOK, Accounting
  <2>6. WriteOrder' /\ BufOrder'
    BY <2>4 DEF ReadPop, IInv, WriteOrder, BufOrder
  <2>7. ReadOrder'
    <3> SUFFICES ASSUME lost = 0, NEW i \in 1..Len(readQ')
                 PROVE  readQ'[i].id <= reads' + i
      BY <2>1 DEF ReadOrder
    <3>1. i \in Nat /\ i + 1 \in 1..Len(readQ) /\ readQ'[i] = readQ[i + 1]
      BY <2>1 DEF IInv, TypeOK
    <3>2. readQ[i + 1].id <= reads + (i + 1) /\ readQ[i + 1].id \in Nat
      BY <3>1, ElementType DEF IInv, ReadOrder, TypeOK
    <3> QED
      BY <3>1, <3>2, <2>1 DEF IInv, TypeOK
  <2>8. NeverEarly'
    <3>1. lost = 0 => readQ[1].id <= reads + 1
      BY <2>1 DEF IInv, TypeOK, ReadOrder
    <3> QED
      BY <3>1, <2>1 DEF NeverEarly
  <2>9. Pace'
    BY <2>1 DEF ReadPop, IInv, TypeOK, Pace
  <2>10. AudioFits' /\ NoLostWakeup' /\ PopFindsBlock'
    BY <2>1 DEF ReadPop, IInv, TypeOK, AudioFits, NoLostWakeup, PopFindsBlock
  <2> QED
    BY <2>2, <2>3, <2>5, <2>6, <2>7, <2>8, <2>9, <2>10 DEF IInv
<1> QED
  BY <1>1, <1>2

-----------------------------------------------------------------------------
(* The client.                                                             *)

(* Client::close() abandons the streamer.                                  *)
LEMMA CloseInv == ASSUME IInv, Close PROVE IInv'
<1> USE DEF dawVars, ioVars, history
<1>1. TypeOK'
  BY DEF Close, IInv, TypeOK
<1>2. CurInv' /\ BufInv' /\ WriteIds' /\ ReadOrder' /\ AudioFits'
      /\ NoLostWakeup' /\ NeverEarly'
  BY DEF Close, IInv, CurInv, BufInv, WriteIds, ReadOrder, AudioFits,
         NoLostWakeup, NeverEarly
<1>3. Accounting' /\ WriteOrder' /\ BufOrder'
  BY DEF Close, IInv, Accounting, WriteOrder, BufOrder, InFlight, Pending
<1>4. Pace' /\ ExitInv' /\ PopFindsBlock'
  BY DEF Close, IInv, Pace, ExitInv, PopFindsBlock
<1> QED
  BY <1>1, <1>2, <1>3, <1>4 DEF IInv

-----------------------------------------------------------------------------
(* The io thread.                                                          *)

(* The io thread takes the head of m_writeQ.                               *)
LEMMA FetchInv == ASSUME IInv, Fetch PROVE IInv'
<1> USE BuffersAssumption DEF dawVars, history
<1>1. buf = NoBlock /\ io = "fetch" /\ owed = 0
  BY DEF Fetch, IInv, BufInv
<1>2. CASE writeQ = <<>>
  BY <1>1, <1>2
  DEF Fetch, IInv, TypeOK, CurInv, BufInv, Accounting, WriteOrder, BufOrder,
      ReadOrder, Pace, WriteIds, ExitInv, AudioFits, NoLostWakeup,
      PopFindsBlock, NeverEarly, Pending, InFlight
<1>3. CASE writeQ # <<>>
  <2>1. /\ writeQ' \in Seq(Block) /\ Len(writeQ') = Len(writeQ) - 1
        /\ \A i \in 1..Len(writeQ') : writeQ'[i] = writeQ[i + 1]
        /\ Len(writeQ) > 0 /\ Len(writeQ) \in Nat
        /\ buf' = writeQ[1] /\ writeQ[1] \in Block
    <3>1. writeQ \in Seq(Block) /\ writeQ' = Tail(writeQ)
          /\ buf' = Head(writeQ)
      BY <1>3 DEF Fetch, IInv, TypeOK
    <3> QED
      BY <3>1, <1>3
  <2>2. buf' # NoBlock /\ Pending' = Pending /\ lost' = lost /\ sent' = sent
    BY <2>1 DEF Fetch, IInv, WriteIds, Pending
  <2>3. TypeOK'
    BY <1>3, <2>1 DEF Fetch, IInv, TypeOK
  <2>4. CurInv' /\ WriteIds' /\ ExitInv'
    <3>1. WriteIds'
      <4> SUFFICES ASSUME NEW i \in 1..Len(writeQ')
                   PROVE  writeQ'[i] # NoBlock
        BY DEF WriteIds
      <4>1. i + 1 \in 1..Len(writeQ)
        BY <2>1
      <4> QED
        BY <4>1, <2>1 DEF IInv, WriteIds
    <3>2. HighWaterMark \in Nat
      BY DEF HighWaterMark
    <3> QED
      BY <2>1, <3>1, <3>2 DEF Fetch, IInv, CurInv, ExitInv
  <2>5. BufInv'
    BY <1>1, <1>3, <2>2 DEF Fetch, BufInv
  <2>6. Accounting'
    <3>1. InFlight = 0 /\ InFlight' = 1
      BY <1>1, <2>2 DEF InFlight
    <3>2. Numbers /\ Accounting /\ readQ' = readQ /\ reads' = reads
          /\ owed' = owed /\ dropSamples' = dropSamples
      BY NumberTypes DEF Fetch, IInv
    <3> QED
      BY <2>1, <2>2, <3>1, <3>2 DEF Accounting, Numbers
  <2>7. WriteOrder'
    <3> SUFFICES ASSUME lost = 0, NEW i \in 1..Len(writeQ')
                 PROVE  writeQ'[i].id + Len(writeQ') + Pending
                          = NUM_OF_BUFFERS + sent + i
      BY <2>2 DEF WriteOrder
    <3>1. i \in Nat /\ i + 1 \in 1..Len(writeQ) /\ writeQ'[i] = writeQ[i + 1]
      BY <2>1
    <3>2. writeQ[i + 1].id + Len(writeQ) + Pending
            = NUM_OF_BUFFERS + sent + (i + 1)
      BY <3>1 DEF IInv, WriteOrder
    <3>3. writeQ[i + 1].id \in Nat
      BY <3>1, ElementType DEF IInv, TypeOK
    <3>4. Numbers /\ Len(writeQ') = Len(writeQ) - 1
      BY <2>1, NumberTypes
    <3> QED
      BY <3>1, <3>2, <3>3, <3>4, SMTT(40) DEF Numbers
  <2>8. BufOrder'
    <3> SUFFICES ASSUME lost = 0
                 PROVE  buf'.id + Len(writeQ') + Pending
                          = NUM_OF_BUFFERS + sent
      BY <2>2 DEF BufOrder
    <3>1. writeQ[1].id + Len(writeQ) + Pending = NUM_OF_BUFFERS + sent + 1
      BY <2>1 DEF IInv, WriteOrder
    <3>2. Numbers /\ writeQ[1].id \in Nat
      BY <2>1, NumberTypes DEF Block
    <3> QED
      BY <2>1, <3>1, <3>2 DEF Numbers
  <2>9. ReadOrder' /\ Pace' /\ NeverEarly'
    BY <2>2 DEF Fetch, IInv, ReadOrder, Pace, NeverEarly
  <2>10. NoLostWakeup' /\ PopFindsBlock'
    BY <1>1, <1>3 DEF Fetch, IInv, NoLostWakeup, PopFindsBlock
  <2>11. AudioFits'
    BY <1>3, <2>1 DEF Fetch, AudioFits
  <2> QED
    BY <2>3, <2>4, <2>5, <2>6, <2>7, <2>8, <2>9, <2>10, <2>11 DEF IInv
<1> QED
  BY <1>2, <1>3

(* The io thread takes over what is owed, or keeps the block.              *)
LEMMA TakeDropsInv == ASSUME IInv, TakeDrops PROVE IInv'
<1> USE BuffersAssumption DEF dawVars, history
<1>1. buf # NoBlock /\ owed = 0 /\ Pending' = Pending /\ InFlight' = InFlight
      /\ writeQ' = writeQ /\ readQ' = readQ /\ sent' = sent /\ reads' = reads
      /\ lost' = lost /\ buf' = buf
  BY DEF TakeDrops, IInv, BufInv, Pending, InFlight
<1>2. TypeOK'
  BY DEF TakeDrops, IInv, TypeOK
<1>3. CurInv' /\ BufInv' /\ WriteIds' /\ ExitInv'
  BY <1>1 DEF TakeDrops, IInv, TypeOK, CurInv, BufInv, WriteIds, ExitInv
<1>4. \/ dropSamples' = dropSamples /\ owed' = owed
      \/ dropSamples' = 0 /\ owed' = dropSamples
  BY DEF TakeDrops
<1>5. Accounting'
  <2>1. Numbers /\ Accounting
    BY NumberTypes DEF IInv
  <2>2. CASE dropSamples' = dropSamples /\ owed' = owed
    BY <1>1, <2>1, <2>2 DEF Accounting, Numbers
  <2>3. CASE dropSamples' = 0 /\ owed' = dropSamples
    BY <1>1, <2>1, <2>3 DEF Accounting, Numbers
  <2> QED
    BY <1>4, <2>2, <2>3
<1>6. WriteOrder' /\ BufOrder' /\ ReadOrder' /\ Pace' /\ NeverEarly'
  BY <1>1 DEF TakeDrops, IInv, WriteOrder, BufOrder, ReadOrder, Pace, NeverEarly
(* Nothing is owed when the block is kept: the blocks before it are those  *)
(* the host is still to read.                                              *)
<1>7. AudioFits'
  <2> SUFFICES ASSUME io' = "push"
               PROVE  Len(readQ) <= NUM_OF_BUFFERS
    BY <1>1 DEF AudioFits
  <2>1. dropSamples = 0 /\ InFlight = 1
    BY <1>1 DEF TakeDrops, InFlight, IInv, TypeOK
  <2>2. Numbers /\ Accounting /\ sent <= reads + 1
    BY NumberTypes DEF IInv, Pace
  <2> QED
    BY <1>1, <2>1, <2>2 DEF Accounting, Numbers
<1>8. NoLostWakeup' /\ PopFindsBlock'
  BY DEF TakeDrops, IInv, NoLostWakeup, PopFindsBlock
<1> QED
  BY <1>2, <1>3, <1>5, <1>6, <1>7, <1>8 DEF IInv

(* The io thread drops one block and puts the rest back.                   *)
LEMMA PutBackDropsInv == ASSUME IInv, PutBackDrops PROVE IInv'
<1> USE BuffersAssumption DEF dawVars, history
<1>1. buf # NoBlock /\ buf' = NoBlock /\ owed > 0 /\ owed' = 0
      /\ Pending' = Pending /\ InFlight = 1 /\ InFlight' = 0
      /\ writeQ' = writeQ /\ readQ' = readQ /\ sent' = sent /\ reads' = reads
      /\ lost' = lost /\ dropSamples' = dropSamples + (owed - 1)
  BY DEF PutBackDrops, IInv, BufInv, Pending, InFlight
<1>2. TypeOK'
  BY <1>1, NoBlockIsBlock DEF PutBackDrops, IInv, TypeOK
<1>3. CurInv' /\ BufInv' /\ WriteIds' /\ ExitInv'
  BY <1>1 DEF PutBackDrops, IInv, CurInv, BufInv, WriteIds, ExitInv
<1>4. Accounting'
  <2>1. Numbers /\ Accounting
    BY NumberTypes DEF IInv
  <2> QED
    BY <1>1, <2>1 DEF Accounting, Numbers
<1>5. WriteOrder' /\ BufOrder' /\ ReadOrder' /\ Pace' /\ NeverEarly'
  BY <1>1
  DEF PutBackDrops, IInv, WriteOrder, BufOrder, ReadOrder, Pace, NeverEarly
<1>6. AudioFits' /\ NoLostWakeup' /\ PopFindsBlock'
  BY DEF PutBackDrops, IInv, AudioFits, NoLostWakeup, PopFindsBlock
<1> QED
  BY <1>2, <1>3, <1>4, <1>5, <1>6 DEF IInv

(* The io thread queues the processed block.                               *)
LEMMA PushReadInv == ASSUME IInv, PushRead PROVE IInv'
<1> USE BuffersAssumption DEF dawVars
<1>1. /\ readQ' \in Seq(Block)
      /\ lost' \in Nat
      /\ Len(readQ') + lost' = Len(readQ) + 1 + lost
      /\ lost' = 0 => lost = 0 /\ readQ' = Append(readQ, buf)
  <2>1. readQ \in Seq(Block) /\ buf \in Block /\ lost \in Nat
    BY DEF IInv, TypeOK
  <2>2. readQ' = Push(readQ, buf) /\ lost' = lost + LostBy(readQ)
    BY DEF PushRead
  <2>3. /\ Push(readQ, buf) \in Seq(Block)
        /\ LostBy(readQ) \in Nat
        /\ Len(Push(readQ, buf)) + LostBy(readQ) = Len(readQ) + 1
        /\ LostBy(readQ) = 0 => Push(readQ, buf) = Append(readQ, buf)
    BY <2>1, PushProperties
  <2>4. Len(readQ) \in Nat /\ Len(Push(readQ, buf)) \in Nat
    BY <2>1, <2>3
  <2> QED
    BY <2>1, <2>2, <2>3, <2>4
<1>2. buf # NoBlock /\ buf' = NoBlock /\ owed = 0 /\ owed' = 0
      /\ Pending' = Pending /\ InFlight = 1 /\ InFlight' = 0
      /\ writeQ' = writeQ /\ sent' = sent /\ reads' = reads
      /\ dropSamples' = dropSamples
  BY DEF PushRead, IInv, BufInv, Pending, InFlight
<1>3. TypeOK'
  BY <1>1, NoBlockIsBlock DEF PushRead, IInv, TypeOK
<1>4. CurInv' /\ BufInv' /\ WriteIds' /\ ExitInv'
  BY <1>2 DEF PushRead, IInv, CurInv, BufInv, WriteIds, ExitInv
<1>5. Accounting'
  <2>1. Numbers /\ Accounting /\ Len(readQ') \in Nat
    BY <1>1, NumberTypes DEF IInv
  <2> QED
    BY <1>1, <1>2, <2>1, SMTT(40) DEF Accounting, Numbers
<1>6. WriteOrder' /\ BufOrder'
  BY <1>1, <1>2 DEF IInv, WriteOrder, BufOrder
(* The block goes behind all the others of readQ: its number says how many *)
(* they are.                                                               *)
<1>7. ReadOrder'
  <2> SUFFICES ASSUME lost' = 0, NEW i \in 1..Len(readQ')
               PROVE  readQ'[i].id <= reads + i
    BY <1>2 DEF ReadOrder
  <2>1. lost = 0 /\ readQ' = Append(readQ, buf) /\ readQ \in Seq(Block)
        /\ Len(readQ') = Len(readQ) + 1
    BY <1>1 DEF IInv, TypeOK
  <2>2. CASE i = Len(readQ) + 1
    <3>1. readQ'[i] = buf /\ buf.id \in Nat
      BY <2>1, <2>2 DEF IInv, TypeOK, Block
    <3>2. buf.id + Len(writeQ) + Pending = NUM_OF_BUFFERS + sent
      BY <2>1, <1>2 DEF IInv, BufOrder
    <3>3. Numbers /\ Accounting
      BY NumberTypes DEF IInv
    <3> QED
      BY <3>1, <3>2, <3>3, <2>1, <2>2, <1>2 DEF Numbers, Accounting
  <2>3. CASE i \in 1..Len(readQ)
    <3>1. readQ'[i] = readQ[i]
      BY <2>1, <2>3
    <3> QED
      BY <3>1, <2>1, <2>3 DEF IInv, ReadOrder
  <2> QED
    BY <2>1, <2>2, <2>3
<1>8. Pace' /\ NeverEarly'
  BY <1>1, <1>2 DEF PushRead, IInv, TypeOK, Pace, NeverEarly
<1>9. AudioFits' /\ NoLostWakeup' /\ PopFindsBlock'
  <2>1. readQ' # <<>>
    BY <1>1 DEF PushRead, Push, IsFull, QueueSize, IInv, TypeOK
  <2> QED
    BY <2>1 DEF PushRead, IInv, AudioFits, NoLostWakeup, PopFindsBlock
<1> QED
  BY <1>3, <1>4, <1>5, <1>6, <1>7, <1>8, <1>9 DEF IInv

-----------------------------------------------------------------------------
(* The invariant and what follows from it.                                 *)

(* Every step of the streamer preserves the invariant.                     *)
LEMMA StepInv == IInv /\ [Next]_vars => IInv'
<1> SUFFICES ASSUME IInv, [Next]_vars PROVE IInv'
  OBVIOUS
<1>1. ASSUME NEW live \in LIVE_MODE, Send(live) PROVE IInv'
  BY <1>1, SendInv, LiveAssumption
<1>2. CASE DawStep
  BY <1>2, SendPushInv, ControlInv, ReadTimeoutInv, ReadPopInv DEF DawStep
<1>3. CASE IoStep
  BY <1>3, ControlInv, FetchInv, TakeDropsInv, PutBackDropsInv, PushReadInv
  DEF IoStep
<1>4. CASE Close
  BY <1>4, CloseInv
<1>5. CASE Destruct
  BY <1>5, ControlInv
<1>6. CASE UNCHANGED vars
  BY <1>6
  DEF vars, dawVars, ioVars, shared, history, IInv, TypeOK, CurInv, BufInv,
      Accounting, WriteOrder, BufOrder, ReadOrder, Pace, WriteIds, ExitInv,
      AudioFits, NoLostWakeup, PopFindsBlock, NeverEarly, Pending, InFlight
<1> QED
  BY <1>1, <1>2, <1>3, <1>4, <1>5, <1>6 DEF Next

(* The streamer keeps the books at every moment of every run.              *)
THEOREM Invariance == Spec => []IInv
BY InitInv, StepInv, PTL DEF Spec

(* The types of the streamer's state.                                      *)
THEOREM TypeCorrect == Spec => []TypeOK
<1>1. IInv => TypeOK
  BY DEF IInv
<1> QED
  BY Invariance, <1>1, PTL

(* Across any sequence of timeouts, skipped blocks and drops the next      *)
(* block is exactly as late as the drops still to be done account for.     *)
THEOREM LatencyIsAccounted == Spec => []LatencyAccounted
<1>1. IInv => LatencyAccounted
  <2> SUFFICES ASSUME IInv, lost = 0
               PROVE  reads + Len(readQ) + 1 = NextOut + (dropSamples + owed)
    BY DEF LatencyAccounted
  <2> USE BuffersAssumption
  <2>1. Numbers /\ Accounting
    BY NumberTypes DEF IInv
  <2>2. CASE buf # NoBlock
    <3>1. NextOut + Len(writeQ) + Pending = NUM_OF_BUFFERS + sent
          /\ NextOut \in Nat /\ InFlight = 1
      BY <2>2 DEF NextOut, IInv, TypeOK, BufOrder, InFlight, Block
    <3> QED
      BY <2>1, <3>1 DEF Numbers, Accounting
  <2>3. CASE buf = NoBlock /\ writeQ # <<>>
    <3>1. writeQ[1].id + Len(writeQ) + Pending = NUM_OF_BUFFERS + sent + 1
      BY <2>3 DEF IInv, TypeOK, WriteOrder
    <3>2. NextOut = writeQ[1].id /\ writeQ[1].id \in Nat
      BY <2>3, ElementType DEF NextOut, IInv, TypeOK
    <3>3. InFlight = 0
      BY <2>3 DEF InFlight
    <3> QED
      BY <2>1, <3>1, <3>2, <3>3 DEF Numbers, Accounting
  <2>4. CASE buf = NoBlock /\ writeQ = <<>>
    <3>1. NextOut + Pending = NUM_OF_BUFFERS + sent + 1 /\ NextOut \in Nat
      BY <2>4 DEF NextOut, Pending, IInv, TypeOK, CurInv
    <3>2. InFlight = 0 /\ Len(writeQ) = 0
      BY <2>4 DEF InFlight
    <3> QED
      BY <2>1, <3>1, <3>2 DEF Numbers, Accounting
  <2> QED
    BY <2>2, <2>3, <2>4
<1> QED
  BY Invariance, <1>1, PTL

(* A block never overtakes the read() it belongs to.                       *)
THEOREM BlocksNeverEarly == Spec => []NeverEarly
<1>1. IInv => NeverEarly
  BY DEF IInv
<1> QED
  BY Invariance, <1>1, PTL

(* A full queue refuses no block with audio.                               *)
THEOREM NoAudioLost == Spec => []AudioNeverLost
<1>1. IInv => AudioNeverLost
  BY BuffersAssumption
  DEF IInv, TypeOK, CurInv, AudioFits, AudioNeverLost, IsFull, QueueSize,
      HighWaterMark
<1> QED
  BY Invariance, <1>1, PTL

(* Both condition variables are used without losing a wakeup.              *)
THEOREM WakeupsKept == Spec => []NoLostWakeup
<1>1. IInv => NoLostWakeup
  BY DEF IInv
<1> QED
  BY Invariance, <1>1, PTL

(* read() and the io thread find a block in the queue they waited for,     *)
(* unless the streamer goes.                                               *)
THEOREM ReadsFindBlocks == Spec => []PopFindsBlock
<1>1. IInv => PopFindsBlock
  BY DEF IInv
<1> QED
  BY Invariance, <1>1, PTL

-----------------------------------------------------------------------------
(* The streamer implements BlockChannel.  The pipe is a concatenation of   *)
(* four parts, and a step moves a block from one part to the next, takes   *)
(* the first one or leaves one out.                                        *)

(* The numbers of the blocks in a queue.                                   *)
LEMMA IdsOf ==
  ASSUME NEW q \in Seq(Block)
  PROVE  /\ Ids(q) \in Seq(Nat) /\ Len(Ids(q)) = Len(q)
         /\ \A i \in 1..Len(q) : Ids(q)[i] = q[i].id
<1>1. DOMAIN q = 1..Len(q) /\ Len(q) \in Nat
  BY LenProperties
<1>2. \A i \in 1..Len(q) : q[i].id \in Nat
  BY ElementType
<1>3. Ids(q) = [i \in 1..Len(q) |-> q[i].id]
  BY <1>1 DEF Ids
<1> QED
  BY <1>1, <1>2, <1>3

LEMMA IdsEmpty == Ids(<<>>) = <<>>
<1>1. <<>> \in Seq(Block)
  OBVIOUS
<1>2. Ids(<<>>) \in Seq(Nat) /\ Len(Ids(<<>>)) = 0
  BY <1>1, IdsOf
<1> QED
  BY <1>2, EmptySeq

(* A sequence with one more element at its end or at its front.            *)
LEMMA OneAtTheEnd ==
  ASSUME NEW r \in Seq(Nat), NEW s \in Seq(Nat), NEW x \in Nat,
         Len(r) = Len(s) + 1, \A i \in 1..Len(s) : r[i] = s[i],
         r[Len(s) + 1] = x
  PROVE  r = s \o <<x>>
<1> DEFINE one == <<x>>
<1>1. one \in Seq(Nat) /\ Len(one) = 1 /\ one[1] = x /\ Len(s) \in Nat
  OBVIOUS
<1> HIDE DEF one
<1>2. /\ s \o one \in Seq(Nat) /\ Len(s \o one) = Len(s) + 1
      /\ \A i \in 1..(Len(s) + 1) : (s \o one)[i] =
           IF i <= Len(s) THEN s[i] ELSE one[i - Len(s)]
  <2>1. /\ s \o one \in Seq(Nat) /\ Len(s \o one) = Len(s) + Len(one)
        /\ \A i \in 1..(Len(s) + Len(one)) : (s \o one)[i] =
             IF i <= Len(s) THEN s[i] ELSE one[i - Len(s)]
    BY <1>1, ConcatProperties
  <2> QED
    BY <1>1, <2>1
<1>3. \A i \in 1..(Len(s) + 1) : i <= Len(s) \/ i = Len(s) + 1
  BY <1>1
<1>4. \A i \in 1..Len(r) : r[i] = (s \o one)[i]
  BY <1>1, <1>2, <1>3
<1>5. r = s \o one
  BY <1>2, <1>4, SeqEqual
<1> QED
  BY <1>5 DEF one

LEMMA OneAtTheFront ==
  ASSUME NEW r \in Seq(Nat), NEW s \in Seq(Nat), NEW x \in Nat,
         Len(r) = Len(s) + 1, r[1] = x,
         \A i \in 1..Len(s) : r[i + 1] = s[i]
  PROVE  r = <<x>> \o s
<1> DEFINE one == <<x>>
<1>1. one \in Seq(Nat) /\ Len(one) = 1 /\ one[1] = x /\ Len(s) \in Nat
  OBVIOUS
<1> HIDE DEF one
<1>2. /\ one \o s \in Seq(Nat) /\ Len(one \o s) = 1 + Len(s)
      /\ \A i \in 1..(1 + Len(s)) : (one \o s)[i] =
           IF i <= 1 THEN one[i] ELSE s[i - 1]
  <2>1. /\ one \o s \in Seq(Nat) /\ Len(one \o s) = Len(one) + Len(s)
        /\ \A i \in 1..(Len(one) + Len(s)) : (one \o s)[i] =
             IF i <= Len(one) THEN one[i] ELSE s[i - Len(one)]
    BY <1>1, ConcatProperties
  <2> QED
    BY <1>1, <2>1
<1>3. \A i \in 1..Len(r) : r[i] = (one \o s)[i]
  <2>1. ASSUME NEW i \in 1..Len(r), i # 1
        PROVE  r[i] = s[i - 1]
    <3>1. i - 1 \in 1..Len(s) /\ (i - 1) + 1 = i
      BY <1>1, <2>1
    <3> QED
      BY <3>1
  <2> QED
    BY <1>1, <1>2, <2>1
<1>4. r = one \o s
  BY <1>1, <1>2, <1>3, SeqEqual
<1> QED
  BY <1>4 DEF one

LEMMA IdsAppend ==
  ASSUME NEW q \in Seq(Block), NEW b \in Block
  PROVE  /\ Append(q, b) \in Seq(Block)
         /\ Ids(Append(q, b)) = Ids(q) \o <<b.id>>
<1> DEFINE r == Append(q, b)
<1>1. /\ r \in Seq(Block) /\ Len(r) = Len(q) + 1 /\ Len(q) \in Nat
      /\ \A i \in 1..Len(q) : r[i] = q[i]
      /\ r[Len(q) + 1] = b
  BY AppendProperties
<1> HIDE DEF r
<1>2. b.id \in Nat
  BY DEF Block
<1>3. /\ Ids(r) \in Seq(Nat) /\ Len(Ids(r)) = Len(r)
      /\ \A i \in 1..Len(r) : Ids(r)[i] = r[i].id
  BY <1>1, IdsOf
<1>4. /\ Ids(q) \in Seq(Nat) /\ Len(Ids(q)) = Len(q)
      /\ \A i \in 1..Len(q) : Ids(q)[i] = q[i].id
  BY IdsOf
<1>5. \A i \in 1..Len(q) : Ids(r)[i] = Ids(q)[i]
  <2> TAKE i \in 1..Len(q)
  <2>1. i \in 1..Len(r) /\ r[i] = q[i]
    BY <1>1
  <2> QED
    BY <1>3, <1>4, <2>1
<1>6. Ids(r)[Len(q) + 1] = b.id
  BY <1>1, <1>3
<1>7. Ids(r) = Ids(q) \o <<b.id>>
  BY <1>1, <1>2, <1>3, <1>4, <1>5, <1>6, OneAtTheEnd
<1> QED
  BY <1>1, <1>7 DEF r

LEMMA IdsHead ==
  ASSUME NEW q \in Seq(Block), q # <<>>
  PROVE  /\ Head(q) \in Block /\ Tail(q) \in Seq(Block)
         /\ Ids(q) = <<Head(q).id>> \o Ids(Tail(q))
<1> DEFINE h == Head(q)
           r == Tail(q)
<1>1. /\ h \in Block /\ r \in Seq(Block) /\ Len(r) = Len(q) - 1
      /\ Len(q) \in Nat \ {0} /\ q[1] = h
      /\ \A i \in 1..Len(r) : r[i] = q[i + 1]
  BY HeadTailProperties, EmptySeq
<1> HIDE DEF h, r
<1>2. h.id \in Nat
  BY <1>1 DEF Block
<1>3. /\ Ids(r) \in Seq(Nat) /\ Len(Ids(r)) = Len(r)
      /\ \A i \in 1..Len(r) : Ids(r)[i] = r[i].id
  BY <1>1, IdsOf
<1>4. /\ Ids(q) \in Seq(Nat) /\ Len(Ids(q)) = Len(q)
      /\ \A i \in 1..Len(q) : Ids(q)[i] = q[i].id
  BY IdsOf
<1>5. \A i \in 1..Len(r) : i + 1 \in 1..Len(q)
  BY <1>1
<1>6. \A i \in 1..Len(r) : Ids(q)[i + 1] = Ids(r)[i]
  BY <1>1, <1>3, <1>4, <1>5
<1>7. Ids(q)[1] = h.id
  BY <1>1, <1>4
<1>8. Ids(q) = <<h.id>> \o Ids(r)
  BY <1>1, <1>2, <1>3, <1>4, <1>6, <1>7, OneAtTheFront
<1> QED
  BY <1>1, <1>8 DEF h, r

(* Concatenation of sequences of numbers.                                  *)
LEMMA Regroup ==
  \A s, t, u \in Seq(Nat) :
    /\ s \o t \in Seq(Nat) /\ (s \o t) \o u = s \o (t \o u)
    /\ s \o <<>> = s
BY ConcatProperties, ConcatAssociative, ConcatEmptySeq

(* Parts of a sequence of numbers.                                         *)
LEMMA FirstTaken ==
  ASSUME NEW x \in Nat, NEW s \in Seq(Nat)
  PROVE  /\ <<x>> \o s # <<>> /\ Head(<<x>> \o s) = x
         /\ Tail(<<x>> \o s) = s
<1>1. <<x>> \in Seq(Nat) /\ Len(<<x>>) = 1 /\ <<x>>[1] = x /\ Len(s) \in Nat
  OBVIOUS
<1> DEFINE u == <<x>> \o s
<1>2. /\ u \in Seq(Nat) /\ Len(u) = 1 + Len(s) /\ u[1] = x
      /\ \A i \in 1..(1 + Len(s)) : i > 1 => u[i] = s[i - 1]
  BY <1>1, ConcatProperties
<1> HIDE DEF u
<1>3. u # <<>>
  BY <1>1, <1>2, EmptySeq
<1>4. Head(u) = x
  BY <1>2, <1>3
<1>5. /\ Tail(u) \in Seq(Nat) /\ Len(Tail(u)) = Len(s)
      /\ \A i \in 1..Len(Tail(u)) : Tail(u)[i] = u[i + 1]
  BY <1>1, <1>2, <1>3, HeadTailProperties
<1>6. \A i \in 1..Len(s) : Tail(u)[i] = s[i]
  <2> TAKE i \in 1..Len(s)
  <2>1. i + 1 \in 1..(1 + Len(s)) /\ i + 1 > 1 /\ (i + 1) - 1 = i
    BY <1>1
  <2> QED
    BY <1>2, <1>5, <2>1
<1>7. Tail(u) = s
  BY <1>5, <1>6, SeqEqual
<1> QED
  BY <1>3, <1>4, <1>7 DEF u

LEMMA OneLeftOut ==
  ASSUME NEW r \in Seq(Nat), NEW x \in Nat, NEW s \in Seq(Nat)
  PROVE  LET u == (r \o <<x>>) \o s
             i == Len(r) + 1
         IN /\ i \in 1..Len(u)
            /\ SubSeq(u, 1, i - 1) \o SubSeq(u, i + 1, Len(u)) = r \o s
<1> DEFINE u == (r \o <<x>>) \o s
           n == Len(r)
<1>1. /\ <<x>> \in Seq(Nat) /\ Len(<<x>>) = 1
      /\ n \in Nat /\ Len(s) \in Nat
  OBVIOUS
<1>2. /\ r \o <<x>> \in Seq(Nat) /\ Len(r \o <<x>>) = n + 1
      /\ \A i \in 1..(n + 1) : i <= n => (r \o <<x>>)[i] = r[i]
  BY <1>1, ConcatProperties
<1>3. /\ u \in Seq(Nat) /\ Len(u) = n + 1 + Len(s)
      /\ \A i \in 1..Len(u) :
           /\ i <= n => u[i] = r[i]
           /\ i > n + 1 => u[i] = s[i - (n + 1)]
  <2>1. /\ u \in Seq(Nat) /\ Len(u) = (n + 1) + Len(s)
        /\ \A i \in 1..((n + 1) + Len(s)) : u[i] =
             IF i <= n + 1 THEN (r \o <<x>>)[i] ELSE s[i - (n + 1)]
    BY <1>2, ConcatProperties
  <2> HIDE DEF u
  <2>2. \A i \in 1..Len(u) :
          /\ i <= n => u[i] = r[i]
          /\ i > n + 1 => u[i] = s[i - (n + 1)]
    BY <1>1, <1>2, <2>1
  <2> QED
    BY <2>1, <2>2
<1> HIDE DEF u
<1>4. SubSeq(u, 1, n) = r
  <2>1. \A i \in 1..n : u[i] \in Nat
    BY <1>1, <1>3
  <2>2. /\ SubSeq(u, 1, n) \in Seq(Nat) /\ Len(SubSeq(u, 1, n)) = n
        /\ \A i \in 1..n : SubSeq(u, 1, n)[i] = u[i]
    BY <1>1, <2>1, SubSeqProperties
  <2>3. \A i \in 1..n : SubSeq(u, 1, n)[i] = r[i]
    BY <1>1, <1>3, <2>2
  <2> QED
    BY <2>2, <2>3, SeqEqual
<1>5. SubSeq(u, n + 2, Len(u)) = s
  <2> DEFINE v == SubSeq(u, n + 2, Len(u))
  <2>1. \A i \in (n + 2)..Len(u) : u[i] \in Nat
    BY <1>1, <1>3
  <2>2. /\ v \in Seq(Nat)
        /\ Len(v) = IF n + 2 <= Len(u) THEN Len(u) - (n + 2) + 1 ELSE 0
        /\ \A i \in 1..(Len(u) - (n + 2) + 1) : v[i] = u[n + 2 + i - 1]
    <3>1. n + 2 \in Int /\ Len(u) \in Int
      BY <1>1, <1>3
    <3> QED
      BY <2>1, <3>1, SubSeqProperties
  <2> HIDE DEF v
  <2>3. Len(v) = Len(s)
    BY <1>1, <1>3, <2>2
  <2>4. \A i \in 1..Len(s) : v[i] = s[i]
    <3> TAKE i \in 1..Len(s)
    <3>1. /\ i \in 1..(Len(u) - (n + 2) + 1) /\ n + 2 + i - 1 = n + 1 + i
          /\ n + 1 + i \in 1..Len(u) /\ n + 1 + i > n + 1
          /\ (n + 1 + i) - (n + 1) = i
      BY <1>1, <1>3
    <3>2. v[i] = u[n + 1 + i]
      BY <2>2, <3>1
    <3>3. u[n + 1 + i] = s[i]
      BY <1>3, <3>1
    <3> QED
      BY <3>2, <3>3
  <2>5. v = s
    BY <2>2, <2>3, <2>4, SeqEqual
  <2> QED
    BY <2>5 DEF v
<1>6. n + 1 \in 1..Len(u) /\ (n + 1) - 1 = n /\ (n + 1) + 1 = n + 2
  BY <1>1, <1>3
<1> QED
  BY <1>4, <1>5, <1>6 DEF u

(* The block of send() is gone once it is in the queue.                    *)
CurIdle == daw # "push" => cur = NoBlock

LEMMA CurIdleStep == CurIdle /\ [Next]_vars => CurIdle'
<1> SUFFICES ASSUME CurIdle, [Next]_vars
             PROVE  CurIdle'
  OBVIOUS
<1>1. CASE \E live \in LIVE_MODE : Send(live)
  BY <1>1 DEF Send, CurIdle
<1>2. CASE SendPush
  BY <1>2 DEF SendPush, CurIdle
<1>3. CASE NotifyWrite \/ Read \/ ReadWoken \/ ReadTimeout \/ ReadPop
  BY <1>3 DEF NotifyWrite, Read, ReadWoken, ReadTimeout, ReadPop, CurIdle
<1>4. CASE Loop \/ Fetch \/ SendInternal \/ ReadInternal \/ TakeDrops
           \/ PutBackDrops \/ PushRead \/ WaitWrite \/ WriteTimeout
  BY <1>4 DEF Loop, Fetch, SendInternal, ReadInternal, TakeDrops,
              PutBackDrops, PushRead, WaitWrite, WriteTimeout, dawVars, CurIdle
<1>5. CASE SetError \/ NotifyRead
  BY <1>5 DEF SetError, NotifyRead, CurIdle
<1>6. CASE Close \/ Destruct \/ UNCHANGED vars
  BY <1>6 DEF Close, Destruct, vars, dawVars, CurIdle
<1> QED
  BY <1>1, <1>2, <1>3, <1>4, <1>5, <1>6 DEF Next, DawStep, IoStep

(* What is in the pipe, and in which part.                                 *)
Pipe == Ids(readQ) \o Opt(buf) \o Ids(writeQ) \o Opt(cur)

LEMMA Parts ==
  ASSUME IInv, CurIdle
  PROVE  /\ readQ \in Seq(Block) /\ writeQ \in Seq(Block)
         /\ Ids(readQ) \in Seq(Nat) /\ Ids(writeQ) \in Seq(Nat)
         /\ Opt(buf) \in Seq(Nat) /\ Opt(cur) \in Seq(Nat)
         /\ buf \in Block /\ buf.id \in Nat /\ cur \in Block /\ cur.id \in Nat
         /\ buf # NoBlock => Opt(buf) = <<buf.id>>
         /\ buf = NoBlock => Opt(buf) = <<>>
         /\ daw = "push" => Opt(cur) = <<cur.id>>
         /\ daw # "push" => Opt(cur) = <<>>
<1>1. /\ readQ \in Seq(Block) /\ writeQ \in Seq(Block)
      /\ buf \in Block /\ cur \in Block
  BY DEF IInv, TypeOK
<1>2. buf.id \in Nat /\ cur.id \in Nat
  BY <1>1 DEF Block
<1>3. Opt(buf) \in Seq(Nat) /\ Opt(cur) \in Seq(Nat)
  BY <1>2 DEF Opt
<1>4. daw = "push" => cur # NoBlock
  BY BuffersAssumption DEF IInv, TypeOK, CurInv, NoBlock
<1> QED
  BY <1>1, <1>2, <1>3, <1>4, IdsOf DEF Opt, CurIdle

(* send() accepts a block.                                                 *)
LEMMA SendAccepts ==
  ASSUME IInv, CurIdle, CurIdle', IInv', NEW live \in BOOLEAN, Send(live)
  PROVE  /\ Pipe' = Append(Pipe, NUM_OF_BUFFERS + sent + 1)
         /\ sent' = sent + 1 /\ lastOut' = lastOut
<1> DEFINE x == NUM_OF_BUFFERS + sent + 1
           front == Ids(readQ) \o Opt(buf) \o Ids(writeQ)
<1>1. /\ daw # "push" /\ daw' = "push" /\ cur'.id = x
      /\ UNCHANGED <<buf, readQ, writeQ, lastOut>> /\ sent' = sent + 1
  BY DEF Send, ioVars, shared
<1>2. x \in Nat
  BY BuffersAssumption DEF IInv, TypeOK
<1>3. Opt(cur) = <<>> /\ Opt(cur)' = <<x>>
  <2>1. cur' # NoBlock
    BY <1>1, <1>2, BuffersAssumption DEF NoBlock, IInv, TypeOK
  <2> QED
    BY <1>1, <2>1, Parts DEF Opt
<1>4. front \in Seq(Nat) /\ front' = front
  BY <1>1, Parts, ConcatProperties DEF Opt, Ids
<1>5. Pipe = front \o <<>> /\ Pipe' = front \o <<x>>
  BY <1>3, <1>4 DEF Pipe
<1> HIDE DEF front, x
<1>6. Pipe = front
  BY <1>4, <1>5, ConcatEmptySeq
<1>7. Append(front, x) = front \o <<x>>
  BY <1>2, <1>4, AppendIsConcat
<1> QED
  BY <1>1, <1>5, <1>6, <1>7 DEF x

(* What the other steps may do to the pipe.                                *)
Same == UNCHANGED <<Pipe, sent, lastOut>>

Discards ==
  /\ \E i \in 1..Len(Pipe) :
       Pipe' = SubSeq(Pipe, 1, i - 1) \o SubSeq(Pipe, i + 1, Len(Pipe))
  /\ UNCHANGED <<sent, lastOut>>

Delivers ==
  /\ Pipe # <<>> /\ lastOut' = Head(Pipe) /\ Pipe' = Tail(Pipe)
  /\ sent' = sent

(* A block that is left out between two parts.                             *)
LEMMA LeftOut ==
  ASSUME NEW r \in Seq(Nat), NEW x \in Nat, NEW s \in Seq(Nat),
         Pipe = (r \o <<x>>) \o s, Pipe' = r \o s, UNCHANGED <<sent, lastOut>>
  PROVE  Discards
<1> DEFINE i == Len(r) + 1
<1>1. /\ i \in 1..Len(Pipe)
      /\ SubSeq(Pipe, 1, i - 1) \o SubSeq(Pipe, i + 1, Len(Pipe)) = r \o s
  BY OneLeftOut
<1> HIDE DEF i
<1> QED
  BY <1>1 DEF Discards

(* The queue of send() refuses the block or takes it.                      *)
LEMMA SendPushMoves ==
  ASSUME IInv, CurIdle, SendPush
  PROVE  Same \/ Discards
<1> DEFINE w == Ids(writeQ)
           front == Ids(readQ) \o Opt(buf)
           one == <<cur.id>>
<1>1. /\ daw = "push" /\ cur' = NoBlock /\ writeQ' = Push(writeQ, cur)
      /\ UNCHANGED <<buf, readQ, sent, lastOut>>
  BY DEF SendPush, ioVars
<1>2. /\ w \in Seq(Nat) /\ front \in Seq(Nat) /\ front' = front
      /\ Opt(cur) = one /\ Opt(cur)' = <<>> /\ cur.id \in Nat
      /\ one \in Seq(Nat)
  BY <1>1, Parts, ConcatProperties DEF Opt, Ids
<1>3. Pipe = (front \o w) \o one /\ Pipe' = (front \o Ids(writeQ')) \o <<>>
  BY <1>1, <1>2 DEF Pipe, Ids
<1>4. CASE IsFull(writeQ)
  <2>1. Ids(writeQ') = w
    BY <1>1, <1>4 DEF Push
  <2> HIDE DEF front, w
  <2>2. front \o w \in Seq(Nat) /\ <<>> \in Seq(Nat)
    BY <1>2, ConcatProperties
  <2>3. Pipe = ((front \o w) \o one) \o <<>>
    BY <1>2, <1>3, <2>2, Regroup
  <2>4. Pipe' = (front \o w) \o <<>>
    BY <1>3, <2>1
  <2> QED
    BY <1>1, <1>2, <2>2, <2>3, <2>4, LeftOut
<1>5. CASE ~IsFull(writeQ)
  <2>1. Ids(writeQ') = w \o one
    BY <1>1, <1>5, Parts, IdsAppend DEF Push
  <2> HIDE DEF front, w, one
  <2>2. /\ w \o one \in Seq(Nat) /\ front \o (w \o one) \in Seq(Nat)
        /\ front \o (w \o one) = (front \o w) \o one
    <3>1. w \o one \in Seq(Nat)
      BY <1>2, Regroup
    <3>2. front \o (w \o one) \in Seq(Nat)
      BY <1>2, <3>1, Regroup
    <3>3. (front \o w) \o one = front \o (w \o one)
      BY <1>2, Regroup
    <3> QED
      BY <3>1, <3>2, <3>3
  <2>3. Pipe' = (front \o w) \o one
    BY <1>3, <2>1, <2>2, Regroup
  <2> QED
    BY <1>1, <1>3, <2>3 DEF Same
<1> QED
  BY <1>4, <1>5

(* read() delivers the first block.                                        *)
LEMMA ReadPopMoves ==
  ASSUME IInv, CurIdle, ReadPop
  PROVE  Same \/ Delivers
<1>1. CASE readQ = <<>>
  BY <1>1 DEF ReadPop, Same, Pipe, ioVars, Opt, Ids
<1>2. CASE readQ # <<>>
  <2> DEFINE r == Ids(Tail(readQ))
             b == Opt(buf)
             w == Ids(writeQ)
             c == Opt(cur)
             x == Head(readQ).id
             one == <<x>>
  <2>1. /\ readQ' = Tail(readQ) /\ lastOut' = x
        /\ UNCHANGED <<buf, writeQ, cur, sent>>
    BY <1>2 DEF ReadPop, ioVars
  <2>2. Head(readQ) \in Block /\ Tail(readQ) \in Seq(Block)
        /\ Ids(readQ) = one \o r
    BY <1>2, Parts, IdsHead
  <2>3. /\ r \in Seq(Nat) /\ x \in Nat /\ one \in Seq(Nat)
        /\ b \in Seq(Nat) /\ w \in Seq(Nat) /\ c \in Seq(Nat)
    BY <2>2, Parts, IdsOf DEF Block
  <2>4. /\ Pipe = (((one \o r) \o b) \o w) \o c
        /\ Pipe' = ((r \o b) \o w) \o c
    BY <2>1, <2>2 DEF Pipe, Opt, Ids
  <2> HIDE DEF r, b, w, c, one, x
  <2>5. r \o b \in Seq(Nat) /\ (one \o r) \o b = one \o (r \o b)
    BY <2>3, Regroup, SMTT(40)
  <2>6. /\ (r \o b) \o w \in Seq(Nat)
        /\ (one \o (r \o b)) \o w = one \o ((r \o b) \o w)
    <3> DEFINE rb == r \o b
    <3>1. rb \in Seq(Nat)
      BY <2>5
    <3> HIDE DEF rb
    <3>2. rb \o w \in Seq(Nat)
      BY <2>3, <3>1, Regroup
    <3>3. (one \o rb) \o w = one \o (rb \o w)
      <4>1. one \in Seq(Nat) /\ w \in Seq(Nat)
        BY <2>3
      <4> QED
        BY <3>1, <4>1, Regroup, SMTT(40)
    <3> QED
      BY <3>2, <3>3 DEF rb
  <2>7. /\ Pipe' \in Seq(Nat)
        /\ (one \o ((r \o b) \o w)) \o c = one \o Pipe'
    <3> DEFINE rbw == (r \o b) \o w
    <3>1. rbw \in Seq(Nat) /\ Pipe' = rbw \o c
      BY <2>4, <2>6
    <3> HIDE DEF rbw
    <3>2. rbw \o c \in Seq(Nat)
      BY <2>3, <3>1, Regroup
    <3>3. (one \o rbw) \o c = one \o (rbw \o c)
      <4>1. one \in Seq(Nat) /\ c \in Seq(Nat)
        BY <2>3
      <4> QED
        BY <3>1, <4>1, Regroup
    <3> QED
      BY <3>1, <3>2, <3>3 DEF rbw
  <2>8. Pipe = one \o Pipe'
    BY <2>4, <2>5, <2>6, <2>7
  <2>9. Pipe # <<>> /\ Head(Pipe) = x /\ Tail(Pipe) = Pipe'
    BY <2>3, <2>7, <2>8, FirstTaken DEF one
  <2> QED
    BY <2>1, <2>9 DEF Delivers, x
<1> QED
  BY <1>1, <1>2

(* The io thread takes a block out of the queue of send() ...              *)
LEMMA FetchMoves ==
  ASSUME IInv, CurIdle, Fetch
  PROVE  Same
<1>1. CASE writeQ = <<>>
  BY <1>1 DEF Fetch, dawVars, history, Same, Pipe, Opt, Ids
<1>2. CASE writeQ # <<>>
  <2> DEFINE r == Ids(readQ)
             w == Ids(Tail(writeQ))
             c == Opt(cur)
             one == <<Head(writeQ).id>>
  <2>1. /\ writeQ' = Tail(writeQ) /\ buf' = Head(writeQ) /\ buf = NoBlock
        /\ UNCHANGED <<readQ, cur, sent, lastOut>>
    BY <1>2 DEF Fetch, dawVars, history, IInv, BufInv
  <2>2. /\ Head(writeQ) \in Block /\ Tail(writeQ) \in Seq(Block)
        /\ Ids(writeQ) = one \o w
    BY <1>2, Parts, IdsHead
  <2>3. Head(writeQ) # NoBlock
    <3>1. 1 \in 1..Len(writeQ) /\ Head(writeQ) = writeQ[1]
      BY <1>2, Parts, EmptySeq
    <3> QED
      BY <3>1 DEF IInv, WriteIds
  <2>4. Opt(buf) = <<>> /\ Opt(buf)' = one
    BY <2>1, <2>3 DEF Opt
  <2>5. /\ r \in Seq(Nat) /\ w \in Seq(Nat) /\ one \in Seq(Nat)
    BY <2>2, Parts, IdsOf DEF Block
  <2>6. /\ Pipe = ((r \o <<>>) \o (one \o w)) \o c
        /\ Pipe' = ((r \o one) \o w) \o c
    BY <2>1, <2>2, <2>4 DEF Pipe, Opt, Ids
  <2> HIDE DEF r, w, c, one
  <2>7. r \o <<>> = r /\ r \o (one \o w) = (r \o one) \o w
    BY <2>5, Regroup, SMTT(40)
  <2> QED
    BY <2>1, <2>6, <2>7 DEF Same
<1> QED
  BY <1>1, <1>2

(* ... and drops it, or pushes it into the queue of read(), which may be   *)
(* full.                                                                   *)
LEMMA BufMoves ==
  ASSUME IInv, CurIdle, PutBackDrops \/ PushRead
  PROVE  Same \/ Discards
<1> DEFINE r == Ids(readQ)
           w == Ids(writeQ)
           c == Opt(cur)
           one == <<buf.id>>
<1>1. /\ buf # NoBlock /\ buf' = NoBlock
      /\ UNCHANGED <<writeQ, cur, sent, lastOut>>
  BY DEF PutBackDrops, PushRead, dawVars, history, IInv, BufInv
<1>2. /\ r \in Seq(Nat) /\ w \in Seq(Nat) /\ c \in Seq(Nat)
      /\ Opt(buf) = one /\ Opt(buf)' = <<>> /\ buf.id \in Nat
  BY <1>1, Parts DEF Opt
<1>3. w \o c \in Seq(Nat) /\ one \in Seq(Nat) /\ r \o one \in Seq(Nat)
  BY <1>2, ConcatProperties
<1>4. /\ Pipe = ((r \o one) \o w) \o c
      /\ Pipe' = ((Ids(readQ') \o <<>>) \o w) \o c
  BY <1>1, <1>2 DEF Pipe, Opt, Ids
<1>5. CASE readQ' = readQ
  <2>1. Ids(readQ') = r
    BY <1>5
  <2> HIDE DEF r, w, c, one
  <2>2. Pipe = (r \o one) \o (w \o c)
    <3> DEFINE ro == r \o one
    <3>1. ro \in Seq(Nat) /\ Pipe = (ro \o w) \o c
      BY <1>3, <1>4
    <3> HIDE DEF ro
    <3>2. (ro \o w) \o c = ro \o (w \o c)
      BY <1>2, <3>1, Regroup, SMTT(40)
    <3> QED
      BY <3>1, <3>2 DEF ro
  <2>3. Pipe' = r \o (w \o c)
    BY <1>2, <1>4, <2>1, Regroup, SMTT(40)
  <2> QED
    BY <1>1, <1>2, <1>3, <2>2, <2>3, LeftOut DEF one
<1>6. CASE readQ' = Append(readQ, buf)
  <2>1. Ids(readQ') = r \o one
    BY <1>6, Parts, IdsAppend
  <2> HIDE DEF r, w, c, one
  <2>2. Pipe' = ((r \o one) \o w) \o c
    BY <1>3, <1>4, <2>1, Regroup
  <2> QED
    BY <1>1, <1>4, <2>2 DEF Same
<1> QED
  BY <1>5, <1>6 DEF PutBackDrops, PushRead, Push

(* The remaining steps move no block.                                      *)
LEMMA OthersMoveNothing ==
  ASSUME \/ NotifyWrite \/ Read \/ ReadWoken \/ ReadTimeout
         \/ Loop \/ SendInternal \/ ReadInternal \/ SetError \/ TakeDrops
         \/ NotifyRead \/ WaitWrite \/ WriteTimeout
         \/ Close \/ Destruct \/ UNCHANGED vars
  PROVE  Same
<1>1. UNCHANGED <<readQ, buf, writeQ, cur, sent, lastOut>>
  BY DEF NotifyWrite, Read, ReadWoken, ReadTimeout, Loop, SendInternal,
         ReadInternal, SetError, TakeDrops, NotifyRead, WaitWrite,
         WriteTimeout, Close, Destruct, vars, dawVars, ioVars, shared, history
<1> QED
  BY <1>1 DEF Same, Pipe, Opt, Ids

(* Blocks are not invented, repeated or reordered, however the two threads *)
(* of the streamer interleave, whatever times out, is skipped, dropped or  *)
(* refused by a full queue.                                                *)
THEOREM StreamerIsChannel == Spec => ImplementsChannel
<1> USE DEF Channel!vars
<1>1. Init => CurIdle
  BY DEF Init, CurIdle
<1>2. Init => Channel!Init
  <2> SUFFICES ASSUME Init
               PROVE  Channel!Init
    OBVIOUS
  <2> DEFINE n == NUM_OF_BUFFERS
             s == [i \in 1..n |-> i]
  <2>1. /\ buf = NoBlock /\ cur = NoBlock /\ writeQ = <<>>
        /\ sent = 0 /\ lastOut = 0
        /\ readQ = [i \in 1..n |-> [id |-> i, skip |-> FALSE]]
    BY DEF Init
  <2>2. Ids(readQ) = s
    BY <2>1 DEF Ids
  <2>3. s \in Seq(Nat)
    BY BuffersAssumption
  <2>4. Pipe = ((s \o <<>>) \o <<>>) \o <<>>
    BY <2>1, <2>2, IdsEmpty DEF Pipe, Opt
  <2> HIDE DEF s
  <2>5. Pipe = s
    BY <2>3, <2>4, Regroup
  <2>6. n + 0 + 1 = n + 1
    BY BuffersAssumption
  <2> QED
    BY <2>1, <2>5, <2>6 DEF Channel!Init, Pipe, s
<1>3. IInv /\ CurIdle /\ IInv' /\ CurIdle' /\ [Next]_vars
        => [Channel!Next]_(Channel!vars)
  <2> SUFFICES ASSUME IInv, CurIdle, IInv', CurIdle', [Next]_vars
               PROVE  [Channel!Next]_(Channel!vars)
    OBVIOUS
  <2>1. CASE Same
    BY <2>1 DEF Same, Pipe
  <2>2. CASE Discards
    BY <2>2 DEF Discards, Pipe, Channel!Next, Channel!Discard
  <2>3. CASE Delivers
    BY <2>3 DEF Delivers, Pipe, Channel!Next, Channel!Deliver
  <2>4. ASSUME NEW live \in LIVE_MODE, Send(live)
        PROVE  Channel!Next
    <3>1. /\ Pipe' = Append(Pipe, NUM_OF_BUFFERS + sent + 1)
          /\ sent' = sent + 1 /\ lastOut' = lastOut
      BY <2>4, LiveAssumption, SendAccepts
    <3>2. NUM_OF_BUFFERS + (sent + 1) + 1 = (NUM_OF_BUFFERS + sent + 1) + 1
      BY BuffersAssumption DEF IInv, TypeOK
    <3> QED
      BY <3>1, <3>2 DEF Pipe, Channel!Next, Channel!Accept
  <2>5. CASE DawStep
    BY <2>1, <2>2, <2>3, <2>5, SendPushMoves, ReadPopMoves, OthersMoveNothing
       DEF DawStep
  <2>6. CASE IoStep
    BY <2>1, <2>2, <2>6, FetchMoves, BufMoves, OthersMoveNothing DEF IoStep
  <2>7. CASE Close \/ Destruct \/ UNCHANGED vars
    BY <2>1, <2>7, OthersMoveNothing
  <2> QED
    BY <2>4, <2>5, <2>6, <2>7 DEF Next
<1> QED
  BY <1>1, <1>2, <1>3, InitInv, StepInv, CurIdleStep, PTL
     DEF Spec, ImplementsChannel, Channel!Spec
=============================================================================
