------------------------- MODULE LiveStreamer_proofs --------------------------
(***************************************************************************)
(* Proofs about the unbuffered stream.  LiveStreamer, for any number of    *)
(* blocks and both modes: the blocks reach the host in order, each of them *)
(* once until a read is given up within an answer or meets the audio       *)
(* thread, and without LIVE_MODE each one by the call that sent it.        *)
(* ChannelRouting, for any numbers of channels: each active channel gets   *)
(* to its place and back.                                                  *)
(*                                                                         *)
(* The first argument is a pipeline: what was delivered, what is in        *)
(* m_readBuffer, the answers and the requests form one rising line of      *)
(* numbers, and every step takes a block from one place and puts it at the *)
(* near end of the next, keeps a copy of it, or loses it; as long as no    *)
(* copy is kept, the line rises strictly.  The second one is about ranks:  *)
(* the place of a channel in the reduced buffer is the number of active    *)
(* ones in front of it, which tells channels apart, so that the way back   *)
(* inverts the way in.                                                     *)
(***************************************************************************)
EXTENDS LiveStreamer, ChannelRouting, FiniteSetTheorems, TLAPS

Rising(s) == \A i, j \in 1..Len(s) : i < j => s[i] < s[j]
Precedes(s, t) == \A i \in 1..Len(s), j \in 1..Len(t) : s[i] < t[j]
WereSent(s) == \A i \in 1..Len(s) : 0 < s[i] /\ s[i] <= calls

(* What is on the network.                                                 *)
NetworkOrder ==
  /\ WereSent(requests) /\ WereSent(responses)
  /\ Rising(requests) /\ Rising(responses)
  /\ Precedes(responses, requests)

(* m_readBuffer is older than the network, or no block.                    *)
BufferOrder ==
  /\ readBuffer <= calls
  /\ \A i \in 1..Len(requests) : readBuffer < requests[i]
  /\ \A i \in 1..Len(responses) : readBuffer < responses[i]

(* What was delivered is older than the network, and not younger than      *)
(* m_readBuffer.                                                           *)
OutOrder ==
  /\ \A i \in 1..Len(out) : out[i] <= calls
  /\ Precedes(out, requests) /\ Precedes(out, responses)
  /\ 0 < readBuffer => \A i \in 1..Len(out) : out[i] <= readBuffer
  /\ DeliveredInOrder

(* What spoils the samples leaves its mark.  Until then m_readBuffer holds *)
(* a block that was not delivered, and will be consumed when it is.        *)
OnceInv ==
  /\ partial \/ clash => spoiled
  /\ ~spoiled =>
       /\ readBuffer # Mixed
       /\ 0 < readBuffer => /\ io # "midi" => working
                            /\ \A i \in 1..Len(out) : out[i] < readBuffer
  /\ DeliveredOnce

(* Only one of the two threads reads from the socket.                      *)
ModeInv ==
  /\ live => daw # "receive"
  /\ ~live => /\ daw \in {"host", "prepare", "receive"}
              /\ io \in {"loop", "asleep", "done"}
              /\ readBuffer = 0

(* Without LIVE_MODE the block of the call, and no other, is on the        *)
(* network until the call returns or fails.                                *)
CurrentInv ==
  ~live =>
    IF daw = "host"
      THEN ~error => requests = <<>> /\ responses = <<>>
      ELSE /\ ~error
           /\ \/ requests = <<calls>> /\ responses = <<>>
              \/ requests = <<>> /\ responses = <<calls>>

IInv ==
  /\ TypeOK /\ NetworkOrder /\ BufferOrder /\ OutOrder /\ OnceInv
  /\ ModeInv /\ CurrentInv

-----------------------------------------------------------------------------
(* What the two ends of a sequence are.                                    *)
LEMMA AppendElements ==
  ASSUME NEW S, NEW s \in Seq(S), NEW x \in S
  PROVE  /\ Append(s, x) \in Seq(S)
         /\ Len(Append(s, x)) = Len(s) + 1
         /\ \A i \in 1..Len(s) : Append(s, x)[i] = s[i]
         /\ Append(s, x)[Len(s) + 1] = x
OBVIOUS

LEMMA TailElements ==
  ASSUME NEW S, NEW s \in Seq(S), s # <<>>
  PROVE  /\ Tail(s) \in Seq(S)
         /\ Len(s) \in Nat \ {0} /\ Len(Tail(s)) = Len(s) - 1
         /\ \A i \in 1..Len(Tail(s)) : Tail(s)[i] = s[i + 1]
         /\ Head(s) = s[1] /\ Head(s) \in S
OBVIOUS

(* The elements of the sequences are numbers.                              *)
LEMMA Numbers ==
  ASSUME TypeOK
  PROVE  /\ \A i \in 1..Len(requests) : requests[i] \in Int
         /\ \A i \in 1..Len(responses) : responses[i] \in Int
         /\ \A i \in 1..Len(out) : out[i] \in Int
<1>1. Number \subseteq Int
  BY CallsAssumption DEF Number, Mixed
<1>2. \A s \in Seq(Number) : \A i \in 1..Len(s) : s[i] \in Number
  OBVIOUS
<1> QED
  BY <1>1, <1>2 DEF TypeOK

(* The invariant holds initially.                                          *)
LEMMA InitInv == Init => IInv
<1> SUFFICES ASSUME Init
             PROVE  IInv
  OBVIOUS
<1>1. TypeOK
  <2>1. 0 \in Number /\ 0 \in 0..MaxCalls
    BY CallsAssumption DEF Number, Mixed
  <2>2. <<>> \in Seq(Number)
    OBVIOUS
  <2> QED
    BY <2>1, <2>2 DEF Init, TypeOK, Reading
<1> QED
  BY <1>1 DEF Init, IInv, NetworkOrder, WereSent, Rising, Precedes, BufferOrder,
              OutOrder, DeliveredInOrder, OnceInv, DeliveredOnce, Mixed,
              ModeInv, CurrentInv

-----------------------------------------------------------------------------
(* The steps that move a block.                                            *)

(* A new block is later than everything.                                   *)
LEMMA SendInv ==
  ASSUME IInv, Send
  PROVE  IInv'
<1> USE DEF IInv, dawVars, ioVars, samples, network, flags
<1>1. calls + 1 \in Number /\ calls + 1 \in 0..MaxCalls /\ Number \subseteq Int
  BY CallsAssumption DEF Send, TypeOK, Number, Mixed
<1>2. requests \in Seq(Number) /\ responses \in Seq(Number)
      /\ out \in Seq(Number) /\ calls \in Nat /\ readBuffer \in Int
  BY <1>1, CallsAssumption DEF TypeOK
<1>3. /\ requests' \in Seq(Number)
      /\ Len(requests') = Len(requests) + 1
      /\ \A i \in 1..Len(requests) : requests'[i] = requests[i]
      /\ requests'[Len(requests) + 1] = calls + 1
  BY <1>1, <1>2, AppendElements DEF Send
<1>4. TypeOK'
  BY <1>1, <1>3 DEF Send, TypeOK, Reading
<1>5. /\ calls' = calls + 1 /\ responses' = responses
      /\ out' = out /\ readBuffer' = readBuffer
  BY DEF Send
<1>0. /\ Len(requests) \in Nat
      /\ \A i \in 1..Len(requests') :
           \/ i \in 1..Len(requests) /\ requests'[i] = requests[i]
           \/ i = Len(requests) + 1 /\ requests'[i] = calls + 1
  BY <1>2, <1>3
<1>6. NetworkOrder'
  <2>0. /\ \A i \in 1..Len(requests) :
             requests[i] \in Int /\ 0 < requests[i] /\ requests[i] <= calls
        /\ \A i \in 1..Len(responses) :
             responses[i] \in Int /\ 0 < responses[i] /\ responses[i] <= calls
    BY Numbers DEF NetworkOrder, WereSent
  <2>1. WereSent(requests)' /\ WereSent(responses)'
    <3>1. WereSent(responses)'
      BY <2>0, <1>2, <1>5 DEF WereSent
    <3>2. \A i \in 1..Len(requests') : 0 < requests'[i] /\ requests'[i] <= calls'
      BY <2>0, <1>0, <1>2, <1>5
    <3> QED
      BY <3>1, <3>2 DEF WereSent
  <2>2. Rising(requests)' /\ Rising(responses)'
    <3>1. ASSUME NEW i \in 1..Len(requests'), NEW j \in 1..Len(requests'),
                 i < j
          PROVE  requests'[i] < requests'[j]
      <4>1. i \in 1..Len(requests) /\ requests'[i] = requests[i]
        BY <3>1, <1>0
      <4>2. CASE j \in 1..Len(requests) /\ requests'[j] = requests[j]
        BY <3>1, <4>1, <4>2 DEF NetworkOrder, Rising
      <4>3. CASE requests'[j] = calls + 1
        BY <4>1, <4>3, <2>0, <1>2
      <4> QED
        BY <4>2, <4>3, <1>0
    <3>2. Rising(requests)'
      BY <3>1 DEF Rising
    <3> QED
      BY <3>2, <1>5 DEF NetworkOrder, Rising
  <2>3. Precedes(responses, requests)'
    BY Numbers, <1>0, <1>2, <1>5, SMTT(40) DEF NetworkOrder, WereSent, Precedes
  <2> QED
    BY <2>1, <2>2, <2>3 DEF NetworkOrder
<1>7. BufferOrder'
  BY Numbers, <1>0, <1>2, <1>5 DEF BufferOrder
<1>8. OutOrder'
  <2>1. \A i \in 1..Len(out) : out[i] \in Int /\ out[i] <= calls
    BY Numbers DEF OutOrder
  <2>2. Precedes(out, requests)'
    BY Numbers, <1>0, <1>2, <1>5, <2>1 DEF OutOrder, Precedes
  <2> QED
    BY <1>2, <1>5, <2>1, <2>2 DEF OutOrder, Precedes, DeliveredInOrder
<1>10. OnceInv'
  BY <1>5 DEF Send, OnceInv, DeliveredOnce
<1>9. ModeInv' /\ CurrentInv'
  <2>1. live' = live /\ error' = error /\ io' = io /\ daw' = "prepare"
        /\ daw = "host" /\ ~error
    BY DEF Send
  <2>2. ~live => requests' = <<calls'>> /\ responses' = <<>>
    BY <1>5, <2>1 DEF Send, CurrentInv
  <2> QED
    BY <1>5, <2>1, <2>2 DEF ModeInv, CurrentInv
<1> QED
  BY <1>4, <1>6, <1>7, <1>8, <1>9, <1>10

(* The oldest request becomes the youngest answer.                         *)
LEMMA ServeInv ==
  ASSUME IInv, Serve
  PROVE  IInv'
<1> USE DEF IInv, dawVars, ioVars, samples, network, flags
<1>1. requests \in Seq(Number) /\ responses \in Seq(Number)
      /\ out \in Seq(Number) /\ calls \in Nat /\ readBuffer \in Int
      /\ Number \subseteq Int
  BY CallsAssumption DEF TypeOK, Number, Mixed
<1>2. /\ requests' \in Seq(Number)
      /\ Len(requests) \in Nat \ {0} /\ Len(requests') = Len(requests) - 1
      /\ \A i \in 1..Len(requests') : requests'[i] = requests[i + 1]
      /\ Head(requests) = requests[1] /\ Head(requests) \in Number
  BY <1>1, TailElements DEF Serve
<1>3. /\ responses' \in Seq(Number)
      /\ Len(responses') = Len(responses) + 1
      /\ \A i \in 1..Len(responses) : responses'[i] = responses[i]
      /\ responses'[Len(responses) + 1] = requests[1]
  BY <1>1, <1>2, AppendElements DEF Serve
<1>4. TypeOK'
  BY <1>2, <1>3 DEF Serve, TypeOK, Reading
<1>5. NetworkOrder'
  BY <1>1, <1>2, <1>3 DEF Serve, NetworkOrder, WereSent, Rising, Precedes
<1>6. BufferOrder' /\ OutOrder'
  BY <1>1, <1>2, <1>3
     DEF Serve, BufferOrder, OutOrder, Precedes, DeliveredInOrder
<1>7. ModeInv' /\ CurrentInv'
  <2>1. live' = live /\ error' = error /\ io' = io /\ daw' = daw
        /\ calls' = calls /\ readBuffer' = readBuffer
    BY DEF Serve
  <2>2. requests = <<calls>> /\ responses = <<>>
          => requests' = <<>> /\ responses' = <<calls>>
    BY DEF Serve
  <2> QED
    BY <2>1, <2>2 DEF Serve, ModeInv, CurrentInv
<1>8. OnceInv'
  BY DEF Serve, OnceInv, DeliveredOnce
<1> QED
  BY <1>4, <1>5, <1>6, <1>7, <1>8

(* The io thread takes n answers from the stream, and m_readBuffer keeps   *)
(* what it has, loses it, or gets the only answer taken.                   *)
LEMMA TakeInv ==
  ASSUME IInv, NEW n \in 0..Len(responses),
         responses' = SubSeq(responses, n + 1, Len(responses)),
         \/ readBuffer' \in {readBuffer, 0, Mixed}
         \/ n = 1 /\ readBuffer' = responses[1],
         requests' = requests, calls' = calls, out' = out
  PROVE  /\ responses' \in Seq(Number) /\ readBuffer' \in Number
         /\ NetworkOrder' /\ BufferOrder' /\ OutOrder'
<1> USE DEF IInv
<1>1. requests \in Seq(Number) /\ responses \in Seq(Number)
      /\ out \in Seq(Number) /\ calls \in Nat /\ readBuffer \in Number
      /\ Number \subseteq Int /\ 0 \in Number /\ Mixed \in Number /\ Mixed = -1
  BY CallsAssumption DEF TypeOK, Number, Mixed
<1>2. /\ responses' \in Seq(Number)
      /\ Len(responses) \in Nat /\ Len(responses') = Len(responses) - n
      /\ \A i \in 1..Len(responses') :
           i + n \in 1..Len(responses) /\ responses'[i] = responses[i + n]
  BY <1>1
<1>3. \A i \in 1..Len(responses) :
        responses[i] \in Int /\ 0 < responses[i] /\ responses[i] <= calls
  BY Numbers DEF NetworkOrder, WereSent
<1>4. readBuffer' \in Number
  BY <1>1
<1>5. NetworkOrder'
  <2>1. WereSent(requests)' /\ WereSent(responses)'
    BY <1>2, <1>3 DEF NetworkOrder, WereSent
  <2>2. Rising(requests)' /\ Rising(responses)'
    BY <1>1, <1>2 DEF NetworkOrder, Rising
  <2>3. Precedes(responses, requests)'
    BY <1>2 DEF NetworkOrder, Precedes
  <2> QED
    BY <2>1, <2>2, <2>3 DEF NetworkOrder
<1>6. \/ readBuffer' = readBuffer
      \/ readBuffer' \in {0, -1}
      \/ n = 1 /\ 1 \in 1..Len(responses) /\ readBuffer' = responses[1]
  BY <1>1
<1>7. \A i \in 1..Len(requests) : requests[i] \in Int /\ 0 < requests[i]
  BY Numbers DEF NetworkOrder, WereSent
<1>8. BufferOrder'
  <2>1. CASE readBuffer' = readBuffer
    BY <2>1, <1>2 DEF BufferOrder
  <2>2. CASE readBuffer' \in {0, -1}
    <3>0. readBuffer' = 0 \/ readBuffer' = -1
      BY <2>2
    <3>1. readBuffer' <= calls /\ calls' = calls /\ requests' = requests
      BY <3>0, <1>1
    <3>2. \A i \in 1..Len(requests) : readBuffer' < requests[i]
      BY <3>0, <1>7
    <3>3. \A i \in 1..Len(responses') :
            responses'[i] \in Int /\ 0 < responses'[i]
      BY <1>2, <1>3
    <3>4. \A i \in 1..Len(responses') : readBuffer' < responses'[i]
      BY <3>0, <3>3
    <3> QED
      BY <3>1, <3>2, <3>4 DEF BufferOrder
  <2>3. CASE n = 1 /\ 1 \in 1..Len(responses) /\ readBuffer' = responses[1]
    <3>1. \A i \in 1..Len(requests') : readBuffer' < requests'[i]
      BY <2>3 DEF NetworkOrder, Precedes
    <3>2. \A i \in 1..Len(responses') : readBuffer' < responses'[i]
      BY <2>3, <1>2 DEF NetworkOrder, Rising
    <3> QED
      BY <3>1, <3>2, <2>3, <1>3 DEF BufferOrder
  <2> QED
    BY <1>6, <2>1, <2>2, <2>3
<1>9. OutOrder'
  <2>1. Precedes(out, requests)' /\ Precedes(out, responses)'
    BY <1>2 DEF OutOrder, Precedes
  <2>2. 0 < readBuffer' => \A i \in 1..Len(out) : out[i] <= readBuffer'
    <3>1. CASE n = 1 /\ 1 \in 1..Len(responses) /\ readBuffer' = responses[1]
      <4>1. \A i \in 1..Len(out) : out[i] \in Int /\ out[i] < responses[1]
        BY <3>1, Numbers DEF OutOrder, Precedes
      <4> QED
        BY <4>1, <3>1, <1>3
    <3> QED
      BY <1>6, <3>1 DEF OutOrder
  <2> QED
    BY <2>1, <2>2 DEF OutOrder, DeliveredInOrder
<1> QED
  BY <1>2, <1>4, <1>5, <1>8, <1>9

LEMMA ReadAudioInv ==
  ASSUME IInv, ReadAudio
  PROVE  IInv'
<1> USE DEF IInv, dawVars, ioVars, samples, network, flags
<1>1. responses \in Seq(Number) /\ responses # <<>>
  BY DEF ReadAudio, TypeOK
<1>2. /\ 1 \in 0..Len(responses) /\ 1 \in 1..Len(responses)
      /\ responses' = SubSeq(responses, 1 + 1, Len(responses))
      /\ Head(responses) = responses[1]
  BY <1>1 DEF ReadAudio
<1>0. requests' = requests /\ calls' = calls /\ out' = out
  BY DEF ReadAudio
<1>3. \/ readBuffer' \in {readBuffer, 0, Mixed}
      \/ 1 = 1 /\ readBuffer' = responses[1]
  BY <1>2 DEF ReadAudio, Clashes
<1>4. /\ responses' \in Seq(Number) /\ readBuffer' \in Number
      /\ NetworkOrder' /\ BufferOrder' /\ OutOrder'
  BY ONLY IInv, <1>0, <1>2, <1>3, TakeInv
<1>5. TypeOK'
  BY <1>4 DEF ReadAudio, TypeOK, Reading
<1>6. OnceInv'
  <2>1. ~spoiled => readBuffer' = responses[1]
    BY <1>2 DEF ReadAudio, Clashes, OnceInv
  <2>2. 0 < responses[1]
    BY <1>2 DEF NetworkOrder, WereSent
  <2>3. \A i \in 1..Len(out) : out[i] < responses[1]
    BY <1>2 DEF OutOrder, Precedes
  <2>4. ~spoiled => readBuffer' # Mixed
    BY <2>1, <2>2, <1>4, CallsAssumption DEF Mixed, Number
  <2> QED
    BY <2>1, <2>3, <2>4 DEF ReadAudio, OnceInv, DeliveredOnce
<1>7. ModeInv' /\ CurrentInv'
  BY DEF ReadAudio, ModeInv, CurrentInv
<1> QED
  BY <1>4, <1>5, <1>6, <1>7

(* A read that is cut short, or begins within an answer, leaves the blocks *)
(* in their order: it has been marked that they may come in pieces.        *)
LEMMA SpoiledReadInv ==
  ASSUME IInv, IoReadCut \/ Misread \/ IoReadFails
  PROVE  IInv'
<1> USE DEF IInv, dawVars, ioVars, samples, network, flags
<1>1. responses \in Seq(Number)
  BY DEF TypeOK
<1>2. PICK n \in 0..Len(responses) :
             responses' = SubSeq(responses, n + 1, Len(responses))
  <2>1. CASE responses' = responses
    <3>1. /\ 0 \in 0..Len(responses)
          /\ responses = SubSeq(responses, 0 + 1, Len(responses))
      BY <1>1
    <3> QED
      BY <2>1, <3>1
  <2>2. CASE responses # <<>> /\ responses' = Tail(responses)
    <3>1. /\ 1 \in 0..Len(responses)
          /\ Tail(responses) = SubSeq(responses, 1 + 1, Len(responses))
      BY <1>1, <2>2
    <3> QED
      BY <2>2, <3>1
  <2>3. CASE Misread
    BY <2>3 DEF Misread
  <2> QED
    BY <2>1, <2>2, <2>3 DEF IoReadCut, IoReadFails
<1>3. /\ readBuffer' \in {readBuffer, 0, Mixed}
      /\ requests' = requests /\ calls' = calls /\ out' = out
  BY DEF IoReadCut, Misread, IoReadFails, Clashes
<1>4. /\ responses' \in Seq(Number) /\ readBuffer' \in Number
      /\ NetworkOrder' /\ BufferOrder' /\ OutOrder'
  BY ONLY IInv, <1>2, <1>3, TakeInv
<1>5. TypeOK'
  <2>1. CASE IoReadCut
    BY <2>1, <1>4 DEF IoReadCut, TypeOK, Reading
  <2>2. CASE Misread
    BY <2>2, <1>4 DEF Misread, TypeOK, Reading
  <2>3. CASE IoReadFails
    BY <2>3, <1>4 DEF IoReadFails, TypeOK, Reading
  <2> QED
    BY <2>1, <2>2, <2>3
<1>6. OnceInv'
  <2>1. spoiled'
    BY DEF IoReadCut, Misread, IoReadFails, OnceInv
  <2> QED
    BY <2>1 DEF OnceInv, DeliveredOnce
<1>7. ModeInv' /\ CurrentInv'
  BY DEF IoReadCut, Misread, IoReadFails, Reading, ModeInv, CurrentInv
<1> QED
  BY <1>4, <1>5, <1>6, <1>7

(* A block x that is older than the network, and not older than what the   *)
(* host has, reaches it.                                                   *)
LEMMA OutAppended ==
  ASSUME TypeOK, OutOrder, NEW x \in Number, x <= calls,
         0 < x => \A i \in 1..Len(out) : out[i] <= x,
         out' = Append(out, x)
  PROVE  /\ out' \in Seq(Number)
         /\ Len(out) \in Nat /\ Len(out') = Len(out) + 1
         /\ \A i \in 1..Len(out) : out'[i] = out[i]
         /\ out'[Len(out) + 1] = x
         /\ DeliveredInOrder'
<1>1. out \in Seq(Number) /\ Number \subseteq Int
  BY CallsAssumption DEF TypeOK, Number, Mixed
<1>2. /\ out' \in Seq(Number)
      /\ Len(out) \in Nat /\ Len(out') = Len(out) + 1
      /\ \A i \in 1..Len(out) : out'[i] = out[i]
      /\ out'[Len(out) + 1] = x
  BY <1>1, AppendElements
<1>3. DeliveredInOrder'
  BY <1>1, <1>2 DEF OutOrder, DeliveredInOrder
<1> QED
  BY <1>2, <1>3

(* A whole block that is younger than what the host has is not delivered   *)
(* twice.                                                                  *)
LEMMA OnceAppended ==
  ASSUME TypeOK, DeliveredOnce, NEW x \in Number, x # Mixed,
         0 < x => \A i \in 1..Len(out) : out[i] < x,
         ~spoiled, out' = Append(out, x)
  PROVE  DeliveredOnce'
<1>1. /\ out' \in Seq(Number)
      /\ Len(out) \in Nat /\ Len(out') = Len(out) + 1
      /\ \A i \in 1..Len(out) : out'[i] = out[i]
      /\ out'[Len(out) + 1] = x
  BY AppendElements DEF TypeOK
<1>2. \A j \in 1..Len(out') : j \in 1..Len(out) \/ j = Len(out) + 1
  BY <1>1
<1>3. ASSUME NEW j \in 1..Len(out')
      PROVE  /\ out'[j] # Mixed
             /\ \A i \in 1..Len(out') :
                  i < j /\ 0 < out'[j] => out'[i] < out'[j]
  <2>1. CASE j \in 1..Len(out)
    <3>1. \A i \in 1..Len(out') : i < j => i \in 1..Len(out)
      BY <2>1, <1>1
    <3>2. /\ out[j] # Mixed
          /\ \A i \in 1..Len(out) : i < j /\ 0 < out[j] => out[i] < out[j]
      BY <2>1 DEF DeliveredOnce, TypeOK
    <3> QED
      BY <2>1, <3>1, <3>2, <1>1
  <2>2. CASE j = Len(out) + 1
    <3>1. \A i \in 1..Len(out') : i < j => i \in 1..Len(out)
      BY <2>2, <1>1
    <3> QED
      BY <2>2, <3>1, <1>1
  <2> QED
    BY <2>1, <2>2, <1>2
<1> QED
  BY <1>1, <1>3 DEF DeliveredOnce

LEMMA DeliverInv ==
  ASSUME IInv, Deliver \/ DeliverShared
  PROVE  IInv'
<1> USE DEF IInv, dawVars, ioVars, samples, network, flags
<1>1. requests \in Seq(Number) /\ responses \in Seq(Number)
      /\ out \in Seq(Number) /\ calls \in Nat /\ readBuffer \in Number
      /\ Number \subseteq Int /\ 0 \in Number /\ Mixed \in Number /\ Mixed = -1
  BY CallsAssumption DEF TypeOK, Number, Mixed
<1>2. PICK x \in {readBuffer, Mixed} :
        out' = Append(out, x) /\ (Deliver => x = readBuffer)
  BY DEF Deliver, DeliverShared
<1>3. /\ x \in Number /\ x <= calls
      /\ 0 < x => x = readBuffer
      /\ \A i \in 1..Len(requests) : x < requests[i]
      /\ \A i \in 1..Len(responses) : x < responses[i]
  <2>1. CASE x = readBuffer
    BY <2>1, <1>1 DEF BufferOrder
  <2>2. CASE x = Mixed
    BY <2>2, <1>1, Numbers DEF NetworkOrder, WereSent
  <2> QED
    BY <2>1, <2>2
<1>4. /\ out' \in Seq(Number)
      /\ Len(out) \in Nat /\ Len(out') = Len(out) + 1
      /\ \A i \in 1..Len(out) : out'[i] = out[i]
      /\ out'[Len(out) + 1] = x
      /\ DeliveredInOrder'
  BY <1>2, <1>3, OutAppended DEF OutOrder
<1>5. /\ UNCHANGED <<requests, responses, calls>>
      /\ readBuffer' \in {readBuffer, 0, Mixed} /\ readBuffer' \in Number
  BY <1>1 DEF Deliver, DeliverShared
<1>6. TypeOK'
  <2>1. CASE Deliver
    BY <2>1, <1>4, <1>5 DEF Deliver, TypeOK, Reading
  <2>2. CASE DeliverShared
    BY <2>2, <1>4, <1>5 DEF DeliverShared, TypeOK, Reading
  <2> QED
    BY <2>1, <2>2
<1>7. NetworkOrder' /\ BufferOrder'
  <2>1. \A i \in 1..Len(requests) : requests[i] \in Int /\ 0 < requests[i]
    BY Numbers DEF NetworkOrder, WereSent
  <2>2. \A i \in 1..Len(responses) : responses[i] \in Int /\ 0 < responses[i]
    BY Numbers DEF NetworkOrder, WereSent
  <2>3. NetworkOrder'
    BY <1>5 DEF NetworkOrder, WereSent, Rising, Precedes
  <2>4. BufferOrder'
    BY <1>1, <1>5, <2>1, <2>2 DEF BufferOrder
  <2> QED
    BY <2>3, <2>4
<1>0. \A i \in 1..Len(out') : i \in 1..Len(out) \/ i = Len(out) + 1
  BY <1>4
<1>8. OutOrder'
  <2>1. \A i \in 1..Len(out') : out'[i] <= calls
    BY <1>0, <1>3, <1>4 DEF OutOrder
  <2>2. Precedes(out, requests)' /\ Precedes(out, responses)'
    BY <1>0, <1>3, <1>4, <1>5 DEF OutOrder, Precedes
  <2>3. 0 < readBuffer' => \A i \in 1..Len(out') : out'[i] <= readBuffer'
    <3>1. SUFFICES ASSUME 0 < readBuffer'
                   PROVE  \A i \in 1..Len(out') : out'[i] <= readBuffer'
      OBVIOUS
    <3>2. readBuffer' = readBuffer /\ readBuffer \in Int /\ x \in Int
      BY <3>1, <1>1, <1>3, <1>5
    <3>3. x <= readBuffer
      BY <3>1, <3>2, <1>2, <1>1
    <3>4. \A i \in 1..Len(out) : out[i] <= readBuffer
      BY <3>1, <3>2 DEF OutOrder
    <3> QED
      BY <3>2, <3>3, <3>4, <1>0, <1>4
  <2> QED
    BY <2>1, <2>2, <2>3, <1>4, <1>5 DEF OutOrder
<1>9. OnceInv'
  <2>1. CASE DeliverShared
    BY <2>1 DEF DeliverShared, OnceInv, DeliveredOnce
  <2>2. CASE Deliver /\ spoiled
    BY <2>2 DEF Deliver, OnceInv, DeliveredOnce
  <2>3. CASE Deliver /\ ~spoiled
    <3>1. /\ x = readBuffer /\ readBuffer # Mixed
          /\ 0 < x => working /\ \A i \in 1..Len(out) : out[i] < x
      BY <2>3, <1>2 DEF Deliver, OnceInv, Reading
    <3>2. DeliveredOnce'
      BY <2>3, <3>1, <1>2, <1>3, OnceAppended DEF OnceInv
    <3>3. ~(0 < readBuffer') /\ readBuffer' # Mixed
      BY <2>3, <3>1, <1>1 DEF Deliver
    <3>4. (partial \/ clash => spoiled)'
      BY <2>3 DEF Deliver, OnceInv
    <3> QED
      BY <3>2, <3>3, <3>4 DEF OnceInv
  <2> QED
    BY <2>1, <2>2, <2>3
<1>10. ModeInv' /\ CurrentInv'
  BY DEF Deliver, DeliverShared, ModeInv, CurrentInv
<1> QED
  BY <1>6, <1>7, <1>8, <1>9, <1>10

(* Without LIVE_MODE the audio thread takes the answer itself.             *)
LEMMA ReceiveInv ==
  ASSUME IInv, Receive
  PROVE  IInv'
<1> USE DEF IInv, dawVars, ioVars, samples, network, flags
<1>1. requests \in Seq(Number) /\ responses \in Seq(Number)
      /\ out \in Seq(Number) /\ calls \in Nat /\ readBuffer \in Number
      /\ Number \subseteq Int /\ Mixed = -1
  BY CallsAssumption DEF TypeOK, Number, Mixed
<1>2. /\ responses' \in Seq(Number)
      /\ Len(responses) \in Nat \ {0} /\ Len(responses') = Len(responses) - 1
      /\ \A i \in 1..Len(responses') : responses'[i] = responses[i + 1]
      /\ Head(responses) = responses[1] /\ Head(responses) \in Number
  BY <1>1, TailElements DEF Receive
<1>3. /\ 1 \in 1..Len(responses)
      /\ \A i \in 1..Len(out) : out[i] \in Int /\ out[i] < responses[1]
      /\ responses[1] \in Int /\ 0 < responses[1] /\ responses[1] <= calls
  BY <1>2, Numbers DEF OutOrder, Precedes, NetworkOrder, WereSent
<1>4. /\ out' \in Seq(Number)
      /\ Len(out) \in Nat /\ Len(out') = Len(out) + 1
      /\ \A i \in 1..Len(out) : out'[i] = out[i]
      /\ out'[Len(out) + 1] = responses[1]
      /\ DeliveredInOrder'
  <2>1. \A i \in 1..Len(out) : out[i] <= responses[1]
    BY <1>3
  <2> QED
    BY <1>2, <1>3, <2>1, OutAppended DEF Receive
<1>5. TypeOK'
  BY <1>2, <1>4 DEF Receive, TypeOK, Reading
<1>6. NetworkOrder' /\ BufferOrder'
  BY <1>1, <1>2 DEF Receive, NetworkOrder, BufferOrder, WereSent, Rising,
       Precedes
<1>7. readBuffer = 0 /\ readBuffer' = 0 /\ spoiled' = spoiled
  BY DEF Receive, ModeInv, TypeOK
<1>0. \A i \in 1..Len(out') : i \in 1..Len(out) \/ i = Len(out) + 1
  BY <1>4
<1>8. OutOrder'
  <2>1. \A i \in 1..Len(out') : out'[i] <= calls
    BY <1>0, <1>3, <1>4 DEF OutOrder
  <2>2. Precedes(out, requests)'
    BY <1>0, <1>3, <1>4 DEF Receive, OutOrder, NetworkOrder, Precedes
  <2>3. Precedes(out, responses)'
    <3>1. ASSUME NEW i \in 1..Len(responses')
          PROVE  responses'[i] = responses[i + 1]
                 /\ i + 1 \in 1..Len(responses)
                 /\ responses[1] < responses[i + 1]
      BY <1>2, <1>3 DEF NetworkOrder, Rising
    <3> QED
      BY <3>1, <1>0, <1>4 DEF OutOrder, Precedes
  <2> QED
    BY <2>1, <2>2, <2>3, <1>4, <1>7 DEF Receive, OutOrder
<1>9. ModeInv' /\ CurrentInv'
  <2>1. requests = <<>> /\ responses = <<calls>> => responses' = <<>>
    BY DEF Receive
  <2> QED
    BY <2>1 DEF Receive, ModeInv, CurrentInv
<1>10. OnceInv'
  <2>1. CASE spoiled
    BY <2>1, <1>7 DEF Receive, OnceInv, DeliveredOnce
  <2>2. CASE ~spoiled
    <3>1. responses[1] # Mixed
      BY <1>1, <1>3
    <3>2. DeliveredOnce'
      BY <2>2, <3>1, <1>2, <1>3, OnceAppended DEF Receive, OnceInv
    <3>3. ~(0 < readBuffer') /\ readBuffer' # Mixed
      BY <1>7, <1>1
    <3>4. (partial \/ clash => spoiled)'
      BY DEF Receive, OnceInv
    <3> QED
      BY <3>2, <3>3, <3>4 DEF OnceInv
  <2> QED
    BY <2>1, <2>2
<1> QED
  BY <1>5, <1>6, <1>8, <1>9, <1>10

-----------------------------------------------------------------------------
(* The other steps leave the blocks where they are.                        *)
LEMMA QuietInv ==
  ASSUME IInv,
         UNCHANGED <<readBuffer, requests, responses, live, calls, out>>,
         TypeOK', OnceInv', ModeInv', CurrentInv'
  PROVE  IInv'
BY DEF IInv, NetworkOrder, WereSent, Rising, Precedes, BufferOrder, OutOrder,
       DeliveredInOrder

(* Every step keeps the invariant.                                         *)
LEMMA NextInv ==
  ASSUME IInv, [Next]_vars
  PROVE  IInv'
<1> USE DEF dawVars, ioVars, samples, network, flags
<1>1. CASE SendFails \/ Prepare \/ CheckBusy \/ ResetEvent \/ Notify
             \/ WaitTimeout \/ ReceiveFails
  <2>1. UNCHANGED <<readBuffer, requests, responses, live, calls, out>>
    BY <1>1 DEF SendFails, Prepare, CheckBusy, ResetEvent, Notify, WaitTimeout,
                ReceiveFails
  <2>2. TypeOK'
    <3>1. CASE SendFails
      BY <3>1 DEF IInv, TypeOK, SendFails, Reading
    <3>2. CASE Prepare
      BY <3>2 DEF IInv, TypeOK, Prepare, Reading
    <3>0. TypeOK => calls \in Number
      BY CallsAssumption DEF TypeOK, Number, Mixed
    <3>3. CASE CheckBusy
      BY <3>0, <3>3 DEF IInv, TypeOK, CheckBusy, Reading
    <3>4. CASE ResetEvent
      BY <3>4 DEF IInv, TypeOK, ResetEvent, Reading
    <3>5. CASE Notify
      BY <3>5 DEF IInv, TypeOK, Notify, Reading
    <3>6. CASE WaitTimeout
      BY <3>0, <3>6 DEF IInv, TypeOK, WaitTimeout, Reading
    <3>7. CASE ReceiveFails
      BY <3>7 DEF IInv, TypeOK, ReceiveFails, Reading
    <3> QED
      BY <1>1, <3>1, <3>2, <3>3, <3>4, <3>5, <3>6, <3>7
  <2>3. ModeInv' /\ CurrentInv'
    BY <1>1 DEF IInv, TypeOK, ModeInv, CurrentInv, SendFails, Prepare,
                CheckBusy, ResetEvent, Notify, WaitTimeout, ReceiveFails
  <2>4. OnceInv'
    <3>1. CASE Prepare
      BY <3>1 DEF IInv, OnceInv, DeliveredOnce, Prepare
    <3>2. CASE SendFails \/ CheckBusy \/ ResetEvent \/ Notify \/ WaitTimeout
                 \/ ReceiveFails
      <4>1. UNCHANGED <<partial, clash, spoiled, readBuffer, working, out>>
        BY <3>2 DEF SendFails, CheckBusy, ResetEvent, Notify, WaitTimeout,
                    ReceiveFails
      <4>2. io = "midi" => io' = "midi"
        BY <3>2 DEF SendFails, CheckBusy, ResetEvent, Notify, WaitTimeout,
                    ReceiveFails
      <4>3. io' # "midi" => io # "midi"
        BY <4>2
      <4> QED
        BY <4>1, <4>3 DEF IInv, OnceInv, DeliveredOnce
    <3> QED
      BY <1>1, <3>1, <3>2
  <2> QED
    BY <2>1, <2>2, <2>3, <2>4, QuietInv
<1>2. CASE Loop \/ SleepTimeout \/ SetBusy \/ ReadMidi \/ IoReadTimeout
             \/ ClearBusy \/ Signal \/ Close \/ UNCHANGED vars
  <2>1. UNCHANGED <<readBuffer, requests, responses, live, calls, out>>
    BY <1>2 DEF Loop, SleepTimeout, SetBusy, ReadMidi, IoReadTimeout,
                ClearBusy, Signal, Close, vars
  <2>2. TypeOK'
    <3>1. CASE Loop
      BY <3>1 DEF IInv, TypeOK, Loop, Reading
    <3>2. CASE SleepTimeout
      BY <3>2 DEF IInv, TypeOK, SleepTimeout, Reading
    <3>3. CASE SetBusy
      BY <3>3 DEF IInv, TypeOK, SetBusy, Reading
    <3>4. CASE ReadMidi
      BY <3>4 DEF IInv, TypeOK, ReadMidi, Reading
    <3>5. CASE IoReadTimeout
      BY <3>5 DEF IInv, TypeOK, IoReadTimeout, Reading
    <3>6. CASE ClearBusy
      BY <3>6 DEF IInv, TypeOK, ClearBusy, Reading
    <3>7. CASE Signal
      BY <3>7 DEF IInv, TypeOK, Signal, Reading
    <3>8. CASE Close
      BY <3>8 DEF IInv, TypeOK, Close, Reading
    <3>9. CASE UNCHANGED vars
      BY <3>9 DEF IInv, TypeOK, vars, Reading
    <3> QED
      BY <1>2, <3>1, <3>2, <3>3, <3>4, <3>5, <3>6, <3>7,
         <3>8, <3>9
  <2>3. ModeInv' /\ CurrentInv'
    BY <1>2 DEF IInv, ModeInv, CurrentInv, Loop, SleepTimeout, SetBusy,
                ReadMidi, IoReadTimeout, ClearBusy, Signal, Close, vars
  <2>4. OnceInv'
    <3>1. UNCHANGED <<partial, spoiled, readBuffer, out>>
      BY <1>2 DEF Loop, SleepTimeout, SetBusy, ReadMidi, IoReadTimeout,
                  ClearBusy, Signal, Close, vars
    <3>2. clash' => clash
      BY <1>2 DEF Loop, SleepTimeout, SetBusy, ReadMidi, IoReadTimeout,
                  ClearBusy, Signal, Close, vars
    <3>3. io' # "midi" => working' \/ (io # "midi" /\ working' = working)
      BY <1>2 DEF Loop, SleepTimeout, SetBusy, ReadMidi, IoReadTimeout,
                  ClearBusy, Signal, Close, vars
    <3> QED
      BY <3>1, <3>2, <3>3 DEF IInv, OnceInv, DeliveredOnce
  <2> QED
    BY <2>1, <2>2, <2>3, <2>4, QuietInv
<1> QED
  BY <1>1, <1>2, SendInv, ServeInv, ReadAudioInv, SpoiledReadInv, DeliverInv,
     ReceiveInv
     DEF Next, DawStep, IoStep

(* The invariant of every run of the stream.                               *)
LEMMA Invariance == Spec => []IInv
<1>1. IInv /\ [Next]_vars => IInv'
  BY NextInv
<1> QED
  BY InitInv, <1>1, PTL DEF Spec

(* However late the answers come, whichever thread reads them and wherever *)
(* a read is given up, the whole blocks among those that reach the host do *)
(* so in order; none comes twice or in pieces before a read is given up    *)
(* within an answer or meets the audio thread in m_readBuffer; and         *)
(* m_ioThreadBusy is right.                                                *)
THEOREM BlocksInOrder == Spec => []InOrder
<1>1. IInv => InOrder
  BY DEF IInv, OutOrder, OnceInv, InOrder
<1> QED
  BY Invariance, <1>1, PTL

(* Only Deliver and Receive give the host something, and without LIVE_MODE *)
(* it is the answer to the block of the call.                              *)
LEMMA ReceivesCurrent ==
  ASSUME IInv, [Next]_vars
  PROVE  ~live /\ out' # out => out'[Len(out')] = calls
<1> USE DEF dawVars, ioVars, samples, network, flags
<1>1. CASE Receive
  <2>1. ~live => Head(responses) = calls
    BY <1>1 DEF Receive, IInv, CurrentInv
  <2>2. out'[Len(out')] = Head(responses)
    BY <1>1 DEF Receive, IInv, TypeOK
  <2> QED
    BY <2>1, <2>2
<1>2. CASE Deliver \/ DeliverShared
  BY <1>2 DEF Deliver, DeliverShared, IInv, ModeInv
<1>3. CASE ~Receive /\ ~Deliver /\ ~DeliverShared
  BY <1>3 DEF Next, vars, DawStep, IoStep, Send, SendFails, Prepare, CheckBusy,
              ResetEvent, Notify, WaitTimeout, ReceiveFails, Loop,
              SleepTimeout, SetBusy, ReadAudio, ReadMidi, IoReadTimeout,
              IoReadCut, Misread, IoReadFails, ClearBusy, Signal, Serve, Close
<1> QED
  BY <1>1, <1>2, <1>3

(* Without LIVE_MODE the call that sends a block delivers it, whatever     *)
(* failed in the calls before.                                             *)
THEOREM CurrentBlockDelivered == Spec => DeliversCurrentBlock
<1>1. IInv /\ [Next]_vars
        => [~live /\ out' # out => out'[Len(out')] = calls]_vars
  BY ReceivesCurrent
<1> QED
  BY Invariance, <1>1, PTL DEF Spec, DeliversCurrentBlock

-----------------------------------------------------------------------------
(* Sets of channels and their ranks.                                       *)

LEMMA BelowFinite ==
  ASSUME NEW n \in Nat
  PROVE  IsFiniteSet(Below(n)) /\ Cardinality(Below(n)) = n
<1>1. /\ IsFiniteSet(0..n - 1)
      /\ Cardinality(0..n - 1) = IF 0 > n - 1 THEN 0 ELSE n - 1 - 0 + 1
  BY FS_Interval
<1> QED
  BY <1>1 DEF Below

(* A channel has fewer active ones in front of it than the next one has,   *)
(* and than there are.                                                     *)
LEMMA RanksGrow ==
  ASSUME NEW S \in SUBSET Nat, IsFiniteSet(S), NEW c \in S
  PROVE  /\ Cardinality({e \in S : e < c}) \in Nat
         /\ Cardinality(S) \in Nat
         /\ Cardinality({e \in S : e < c}) < Cardinality(S)
         /\ \A d \in S : c < d =>
              Cardinality({e \in S : e < c}) < Cardinality({e \in S : e < d})
<1> DEFINE F(x) == {e \in S : e < x}
<1>1. \A x \in S : /\ F(x) \in SUBSET S /\ F(x) # S
                   /\ IsFiniteSet(F(x)) /\ Cardinality(F(x)) \in Nat
  <2> TAKE x \in S
  <2>1. F(x) \in SUBSET S /\ x \notin F(x)
    OBVIOUS
  <2>2. IsFiniteSet(F(x))
    BY <2>1, FS_Subset
  <2> QED
    BY <2>1, <2>2, FS_CardinalityType
<1>2. Cardinality(S) \in Nat
  BY FS_CardinalityType
<1>3. Cardinality(F(c)) < Cardinality(S)
  <2>1. /\ Cardinality(F(c)) <= Cardinality(S)
        /\ Cardinality(S) = Cardinality(F(c)) => S = F(c)
    BY <1>1, FS_Subset
  <2> HIDE DEF F
  <2> QED
    BY <1>1, <1>2, <2>1
<1>4. ASSUME NEW d \in S, c < d
      PROVE  Cardinality(F(c)) < Cardinality(F(d))
  <2>0. c \in Nat /\ d \in Nat /\ \A e \in S : e \in Nat
    OBVIOUS
  <2>1. F(c) \in SUBSET F(d) /\ c \in F(d) /\ c \notin F(c)
    <3>1. \A e \in S : e < c => e < d
      BY <1>4, <2>0
    <3>2. F(c) \in SUBSET F(d)
      BY <3>1
    <3>3. c \in F(d)
      BY <1>4
    <3>4. ~(c < c)
      BY <2>0
    <3> QED
      BY <3>2, <3>3, <3>4
  <2>2. /\ Cardinality(F(c)) <= Cardinality(F(d))
        /\ Cardinality(F(d)) = Cardinality(F(c)) => F(d) = F(c)
    BY <1>1, <2>1, FS_Subset
  <2>3. /\ Cardinality(F(c)) \in Nat /\ Cardinality(F(d)) \in Nat
        /\ F(d) # F(c)
    BY <1>1, <2>1
  <2> HIDE DEF F
  <2> QED
    BY <2>2, <2>3
<1> QED
  BY <1>1, <1>2, <1>3, <1>4

Views == [ins : Nat, outs : Nat, in : SUBSET Nat, out : SUBSET Nat]

(* The channels that the reduced buffer is made for.                       *)
Chosen(v) == Below(Combined(v)) \cap (IF v.ins > 0 THEN v.in ELSE v.out)

LEMMA ViewNumbers ==
  ASSUME NEW v \in Views
  PROVE  /\ v.ins \in Nat /\ v.outs \in Nat
         /\ v.in \in SUBSET Nat /\ v.out \in SUBSET Nat
         /\ Combined(v) \in Nat /\ v.ins <= Combined(v) /\ v.outs <= Combined(v)
         /\ IsFiniteSet(Below(Combined(v)))
         /\ Cardinality(Below(Combined(v))) = Combined(v)
         /\ Chosen(v) \in SUBSET Nat /\ IsFiniteSet(Chosen(v))
         /\ Cardinality(Chosen(v)) \in Nat
         /\ Cardinality(Chosen(v)) <= Combined(v)
         /\ Cardinality(Chosen(v)) = Combined(v)
              => Chosen(v) = Below(Combined(v))
         /\ Travelling(v) \in Nat /\ Travelling(v) <= Combined(v)
         /\ Cardinality(ActiveInputs(v)) <= Travelling(v)
<1>1. /\ v.ins \in Nat /\ v.outs \in Nat
      /\ v.in \in SUBSET Nat /\ v.out \in SUBSET Nat
  BY DEF Views
<1>2. Combined(v) \in Nat /\ v.ins <= Combined(v) /\ v.outs <= Combined(v)
  BY <1>1 DEF Combined, Larger
<1>3. /\ IsFiniteSet(Below(Combined(v)))
      /\ Cardinality(Below(Combined(v))) = Combined(v)
  BY <1>2, BelowFinite
<1>4. Chosen(v) \in SUBSET Below(Combined(v))
  BY DEF Chosen
<1>5. Chosen(v) \in SUBSET Nat
  BY <1>2, <1>4 DEF Below
<1>6. IsFiniteSet(Chosen(v)) /\ Cardinality(Chosen(v)) <= Combined(v)
      /\ (Cardinality(Chosen(v)) = Combined(v)
            => Chosen(v) = Below(Combined(v)))
  BY <1>3, <1>4, FS_Subset
<1>7. Cardinality(Chosen(v)) \in Nat
  BY <1>6, FS_CardinalityType
<1>8. \A A \in SUBSET Below(Combined(v)) :
         Cardinality(A) \in Nat /\ Cardinality(A) <= Combined(v)
  BY <1>3, FS_Subset, FS_CardinalityType
<1>9. /\ ActiveInputs(v) \in SUBSET Below(Combined(v))
      /\ ActiveOutputs(v) \in SUBSET Below(Combined(v))
  BY <1>1, <1>2 DEF ActiveInputs, ActiveOutputs, Below
<1>10. /\ Travelling(v) \in Nat /\ Travelling(v) <= Combined(v)
       /\ Cardinality(ActiveInputs(v)) <= Travelling(v)
  BY <1>2, <1>8, <1>9 DEF Travelling, Larger
<1> QED
  BY <1>1, <1>2, <1>3, <1>5, <1>6, <1>7, <1>10

LEMMA RanksInjective ==
  ASSUME NEW v \in Views
  PROVE  /\ DOMAIN Ranks(v) = Chosen(v)
         /\ \A c \in Chosen(v) : Ranks(v)[c] \in Below(Cardinality(Chosen(v)))
         /\ \A c, d \in Chosen(v) : Ranks(v)[c] = Ranks(v)[d] => c = d
<1> DEFINE S == Chosen(v)
           F(x) == {e \in S : e < x}
<1>1. /\ S \in SUBSET Nat /\ IsFiniteSet(S) /\ Cardinality(S) \in Nat
  BY ViewNumbers
<1>2. Ranks(v) = [c \in S |-> Cardinality(F(c))]
  BY DEF Ranks, Chosen
<1>3. \A c \in S : /\ Cardinality(F(c)) \in Nat
                   /\ Cardinality(F(c)) < Cardinality(S)
                   /\ \A d \in S :
                        c < d => Cardinality(F(c)) < Cardinality(F(d))
  BY <1>1, RanksGrow
<1> HIDE DEF S, F
<1>4. \A c \in S : Cardinality(F(c)) \in Below(Cardinality(S))
  BY <1>1, <1>3 DEF Below
<1>5. \A c, d \in S : Cardinality(F(c)) = Cardinality(F(d)) => c = d
  <2> SUFFICES ASSUME NEW c \in S, NEW d \in S,
                      Cardinality(F(c)) = Cardinality(F(d)), c # d
               PROVE  FALSE
    OBVIOUS
  <2>1. c < d \/ d < c
    BY <1>1
  <2> QED
    BY <1>3, <2>1
<1> QED
  BY <1>2, <1>4, <1>5 DEF S

(* With all channels active each one keeps its place.                      *)
LEMMA RanksOfAll ==
  ASSUME NEW v \in Views, Chosen(v) = Below(Combined(v))
  PROVE  \A c \in Below(Combined(v)) : Ranks(v)[c] = c
<1> DEFINE n == Combined(v)
<1>1. n \in Nat
  BY ViewNumbers
<1>2. ASSUME NEW c \in Below(n)
      PROVE  Cardinality({e \in Below(n) : e < c}) = c
  <2>1. c \in Nat /\ {e \in Below(n) : e < c} = Below(c)
    BY <1>1, <1>2 DEF Below
  <2> QED
    BY <2>1, BelowFinite
<1>3. Ranks(v) = [c \in Below(n) |-> Cardinality({e \in Below(n) : e < c})]
  BY DEF Ranks, Chosen
<1> QED
  BY <1>2, <1>3

(* The channels that have a way back.                                      *)
Returning(v) == IF v.ins > 0 THEN Chosen(v) \cap v.out ELSE Chosen(v)

(* The way back inverts the ranks.                                         *)
LEMMA BackInverts ==
  ASSUME NEW v \in Views
  PROVE  /\ \A c \in Returning(v) : /\ Ranks(v)[c] \in DOMAIN Back(v)
                                    /\ Back(v)[Ranks(v)[c]] = c
         /\ \A r \in DOMAIN Back(v) : /\ Back(v)[r] \in Returning(v)
                                      /\ Ranks(v)[Back(v)[r]] = r
<1> DEFINE R == Returning(v)
           f == IF v.ins > 0 THEN Restrict(Ranks(v), DOMAIN Ranks(v) \cap v.out)
                             ELSE Ranks(v)
<1>1. /\ DOMAIN Ranks(v) = Chosen(v)
      /\ \A c, d \in Chosen(v) : Ranks(v)[c] = Ranks(v)[d] => c = d
  BY RanksInjective
<1>2. R \in SUBSET Chosen(v)
  BY DEF Returning
<1>3. DOMAIN f = R /\ \A c \in R : f[c] = Ranks(v)[c]
  BY <1>1 DEF Restrict, Returning
<1>4. Back(v) = [r \in Range(f) |-> CHOOSE c \in R : r \in Range(f) => f[c] = r]
  <2>1. Back(v) = AntiFunction(f)
    BY DEF Back
  <2> HIDE DEF f, R
  <2> QED
    BY <1>3, <2>1 DEF AntiFunction, Inverse
<1>5. Range(f) = {f[c] : c \in R}
  BY <1>3 DEF Range
<1> HIDE DEF f, R
<1>6. ASSUME NEW c \in R
      PROVE  f[c] \in Range(f) /\ Back(v)[f[c]] = c
  <2>1. f[c] \in Range(f)
    BY <1>5
  <2>2. \A d \in R : f[d] = f[c] => d = c
    BY <1>1, <1>2, <1>3
  <2>3. Back(v)[f[c]] = CHOOSE d \in R : f[c] \in Range(f) => f[d] = f[c]
    BY <1>4, <2>1
  <2> QED
    BY <2>1, <2>2, <2>3
<1>7. ASSUME NEW r \in DOMAIN Back(v)
      PROVE  Back(v)[r] \in R /\ f[Back(v)[r]] = r
  <2>1. PICK c \in R : r = f[c]
    BY <1>4, <1>5
  <2> QED
    BY <1>6, <2>1
<1>8. DOMAIN Back(v) = Range(f)
  BY <1>4
<1> QED
  BY <1>3, <1>6, <1>7, <1>8 DEF R

LEMMA MappedDomain ==
  ASSUME NEW map, NEW src, NEW dst
  PROVE  DOMAIN Mapped(map, src, dst) = DOMAIN dst
BY DEF Mapped

(* A channel of the copy is silent or comes from one that is mapped to it. *)
LEMMA MappedFrom ==
  ASSUME NEW map, NEW src, NEW dst, NEW d \in DOMAIN dst
  PROVE  \/ /\ Mapped(map, src, dst)[d] = Silent
            /\ \A s \in DOMAIN src \cap DOMAIN map : map[s] # d
         \/ \E s \in DOMAIN src \cap DOMAIN map :
              map[s] = d /\ Mapped(map, src, dst)[d] = src[s]
<1> DEFINE D == DOMAIN src \cap DOMAIN map
<1>1. Mapped(map, src, dst)[d] =
        IF \E s \in D : map[s] = d THEN src[CHOOSE s \in D : map[s] = d]
        ELSE Silent
  BY DEF Mapped
<1>2. CASE \E s \in D : map[s] = d
  <2>1. PICK s \in D : map[s] = d /\ s = CHOOSE x \in D : map[x] = d
    BY <1>2
  <2> QED
    BY <1>1, <1>2, <2>1 DEF Mapped
<1> QED
  BY <1>1, <1>2 DEF Mapped

-----------------------------------------------------------------------------
(* What an undisturbed block holds at each of its steps, from the build,   *)
(* the view of the plugin, and the channels that the chain adds.           *)

Unmapped(v) == Travelling(v) = Combined(v)

Passed(k, v) ==
  [c \in Below(Combined(v)) |->
     IF k = "inst" \/ c >= v.ins \/ (Unmapped(v) /\ c \notin v.out)
       THEN Silent ELSE Dry(c)]

Sent(k, v) ==
  IF Unmapped(v) THEN Passed(k, v)
  ELSE Mapped(PluginMapping(v).fwd, Passed(k, v), SilentBuffer(Travelling(v)))

Direct(k, v, x) == Combined(ServerView(v)) + x <= Cardinality(DOMAIN Sent(k, v))

Chain(k, v, x) ==
  IF Direct(k, v, x) THEN Sent(k, v)
  ELSE IF ActiveInputs(ServerView(v)) = {}
    THEN SilentBuffer(Combined(ServerView(v)) + x)
  ELSE Mapped(ServerMapping(ServerView(v)).fwd, Sent(k, v),
              SilentBuffer(Combined(ServerView(v)) + x))

Output(k, v, x) == [c \in DOMAIN Chain(k, v, x) |-> Wet(c)]

Answered(k, v, x) ==
  IF Direct(k, v, x) THEN Output(k, v, x)
  ELSE Mapped(ServerMapping(ServerView(v)).rev, Output(k, v, x), Sent(k, v))

Returned(k, v, x) ==
  IF Unmapped(v) THEN Answered(k, v, x)
  ELSE Mapped(PluginMapping(v).rev, Answered(k, v, x), Passed(k, v))

LEMMA PassedValues ==
  ASSUME NEW k, NEW v \in Views
  PROVE  /\ DOMAIN Passed(k, v) = Below(Combined(v))
         /\ \A c \in Below(Combined(v)) : Passed(k, v)[c] \in {Dry(c), Silent}
BY DEF Passed

LEMMA SentDomain ==
  ASSUME NEW k, NEW v \in Views
  PROVE  /\ DOMAIN Sent(k, v) = Below(Travelling(v))
         /\ Cardinality(DOMAIN Sent(k, v)) = Travelling(v)
<1>1. Travelling(v) \in Nat
  BY ViewNumbers
<1>2. DOMAIN Sent(k, v) = Below(Travelling(v))
  <2>1. CASE Unmapped(v)
    BY <2>1, PassedValues DEF Sent, Unmapped
  <2>2. CASE ~Unmapped(v)
    <3>1. DOMAIN SilentBuffer(Travelling(v)) = Below(Travelling(v))
      BY DEF SilentBuffer
    <3> QED
      BY <2>2, <3>1, MappedDomain DEF Sent
  <2> QED
    BY <2>1, <2>2
<1> QED
  BY <1>1, <1>2, BelowFinite

(* The views for which the worker has the plugin's numbers and bits.       *)
Shared(v) == v.ins > 0 \/ v.in = v.out

LEMMA SharedView ==
  ASSUME NEW v \in Views, Shared(v)
  PROVE  ServerView(v) = v
<1>1. CASE v.ins > 0
  BY <1>1 DEF ServerView
<1>2. CASE ~(v.ins > 0)
  <2>1. v.in = v.out
    BY <1>2 DEF Shared
  <2>2. [v EXCEPT !.out = v.out] = v
    BY DEF Views
  <2> QED
    BY <1>2, <2>1, <2>2 DEF ServerView
<1> QED
  BY <1>1, <1>2

(* With a mapping, what is sent is silent or the channel of that rank.     *)
LEMMA SentMapped ==
  ASSUME NEW k, NEW v \in Views, ~Unmapped(v), NEW r \in Below(Travelling(v))
  PROVE  \/ /\ Sent(k, v)[r] = Silent
            /\ v.ins > 0 => \A c \in Chosen(v) : Ranks(v)[c] # r
         \/ \E c \in Chosen(v) :
              Ranks(v)[c] = r /\ Sent(k, v)[r] = Passed(k, v)[c]
<1> DEFINE S == SilentBuffer(Travelling(v))
           P == Passed(k, v)
           map == PluginMapping(v).fwd
<1>1. r \in DOMAIN S
  BY DEF SilentBuffer
<1>2. Sent(k, v) = Mapped(map, P, S)
  BY DEF Sent
<1>3. /\ DOMAIN Ranks(v) = Chosen(v)
      /\ v.ins > 0 => map = Ranks(v)
      /\ ~(v.ins > 0) => map = NoMap
  BY RanksInjective DEF PluginMapping
<1>4. DOMAIN NoMap = {}
  BY DEF NoMap
<1>5. Chosen(v) \in SUBSET DOMAIN P
  BY PassedValues DEF Chosen
<1> HIDE DEF S, P, map
<1>6. \/ /\ Mapped(map, P, S)[r] = Silent
         /\ \A c \in DOMAIN P \cap DOMAIN map : map[c] # r
      \/ \E c \in DOMAIN P \cap DOMAIN map :
           map[c] = r /\ Mapped(map, P, S)[r] = P[c]
  BY <1>1, MappedFrom, SMTT(30)
<1>7. CASE v.ins > 0
  BY <1>2, <1>3, <1>5, <1>6, <1>7 DEF P
<1>8. CASE ~(v.ins > 0)
  BY <1>2, <1>3, <1>4, <1>6, <1>8
<1> QED
  BY <1>7, <1>8

(* The worker's chain has its buffer, silence, or what it spreads.         *)
LEMMA ChainSpread ==
  ASSUME NEW k, NEW v \in Views, Shared(v), NEW x \in Nat,
         ~Direct(k, v, x), NEW d \in Below(Combined(v) + x)
  PROVE  /\ DOMAIN Chain(k, v, x) = Below(Combined(v) + x)
         /\ ActiveInputs(v) = {} => Chain(k, v, x)[d] = Silent
         /\ \/ /\ Chain(k, v, x)[d] = Silent
               /\ ActiveInputs(v) # {} =>
                    \A r \in Below(Travelling(v)) \cap DOMAIN Back(v) :
                      Back(v)[r] # d
            \/ \E r \in Below(Travelling(v)) \cap DOMAIN Back(v) :
                 Back(v)[r] = d /\ Chain(k, v, x)[d] = Sent(k, v)[r]
<1> DEFINE S == SilentBuffer(Combined(v) + x)
           T == Sent(k, v)
<1>1. DOMAIN S = Below(Combined(v) + x) /\ S[d] = Silent
  BY DEF SilentBuffer
<1>2. ServerView(v) = v /\ DOMAIN T = Below(Travelling(v))
  BY SharedView, SentDomain
<1>3. CASE ActiveInputs(v) = {}
  <2>1. Chain(k, v, x) = S
    BY <1>2, <1>3 DEF Chain
  <2> QED
    BY <1>1, <1>3, <2>1
<1>4. CASE ActiveInputs(v) # {}
  <2>1. v.ins > 0
    <3>1. v.ins \in Nat
      BY ViewNumbers
    <3>2. v.ins = 0 => Below(v.ins) = {}
      BY DEF Below
    <3> QED
      BY <1>4, <3>1, <3>2 DEF ActiveInputs
  <2>2. Chain(k, v, x) = Mapped(Back(v), T, S)
    BY <1>2, <1>4, <2>1 DEF Chain, ServerMapping
  <2> HIDE DEF S, T
  <2>3. /\ DOMAIN Mapped(Back(v), T, S) = DOMAIN S
        /\ \/ /\ Mapped(Back(v), T, S)[d] = Silent
              /\ \A r \in DOMAIN T \cap DOMAIN Back(v) : Back(v)[r] # d
           \/ \E r \in DOMAIN T \cap DOMAIN Back(v) :
                Back(v)[r] = d /\ Mapped(Back(v), T, S)[d] = T[r]
    BY <1>1, MappedDomain, MappedFrom, SMTT(30)
  <2> QED
    BY <1>1, <1>2, <1>4, <2>2, <2>3 DEF T
<1> QED
  BY <1>3, <1>4

(* What the worker answers is silent or the chain's channel of that rank.  *)
LEMMA AnswerMapped ==
  ASSUME NEW k, NEW v \in Views, Shared(v), NEW x \in Nat,
         ~Direct(k, v, x), NEW r \in Below(Travelling(v))
  PROVE  /\ DOMAIN Answered(k, v, x) = Below(Travelling(v))
         /\ \/ /\ Answered(k, v, x)[r] = Silent
               /\ \A c \in Chosen(v) : Ranks(v)[c] # r
            \/ \E c \in Chosen(v) :
                 Ranks(v)[c] = r /\ Answered(k, v, x)[r] = Wet(c)
<1> DEFINE O == Output(k, v, x)
           T == Sent(k, v)
<1>1. ServerView(v) = v /\ DOMAIN T = Below(Travelling(v))
  BY SharedView, SentDomain
<1>2. Answered(k, v, x) = Mapped(Ranks(v), O, T)
  BY <1>1 DEF Answered, ServerMapping
<1>3. DOMAIN Ranks(v) = Chosen(v)
  BY RanksInjective
<1>4. DOMAIN O = Below(Combined(v) + x) /\ \A c \in DOMAIN O : O[c] = Wet(c)
  <2>1. Combined(v) \in Nat
    BY ViewNumbers
  <2>2. CASE Combined(v) + x = 0
    <3>1. Travelling(v) \in Nat /\ Travelling(v) <= Combined(v)
      BY ViewNumbers
    <3> QED
      BY <2>1, <2>2, <3>1 DEF Below
  <2>3. CASE Combined(v) + x # 0
    <3>1. 0 \in Below(Combined(v) + x)
      BY <2>1, <2>3 DEF Below
    <3> QED
      BY <3>1, ChainSpread DEF Output
  <2> QED
    BY <2>2, <2>3
<1>5. Chosen(v) \in SUBSET DOMAIN O
  <2>1. Combined(v) \in Nat
    BY ViewNumbers
  <2>2. Below(Combined(v)) \in SUBSET Below(Combined(v) + x)
    BY <2>1 DEF Below
  <2> QED
    BY <1>4, <2>2 DEF Chosen
<1> HIDE DEF O, T
<1>6. /\ DOMAIN Mapped(Ranks(v), O, T) = DOMAIN T
      /\ \/ /\ Mapped(Ranks(v), O, T)[r] = Silent
            /\ \A c \in DOMAIN O \cap DOMAIN Ranks(v) : Ranks(v)[c] # r
         \/ \E c \in DOMAIN O \cap DOMAIN Ranks(v) :
              Ranks(v)[c] = r /\ Mapped(Ranks(v), O, T)[r] = O[c]
  <2>1. r \in DOMAIN T
    BY <1>1
  <2> QED
    BY <2>1, MappedDomain, MappedFrom, SMTT(30)
<1> QED
  BY <1>1, <1>2, <1>3, <1>4, <1>5, <1>6

(* A channel of the host comes back if an answer leads to it.              *)
LEMMA ReturnMapped ==
  ASSUME NEW k, NEW v \in Views, Shared(v), NEW x \in Nat,
         ~Direct(k, v, x), ~Unmapped(v), NEW d \in Below(Combined(v))
  PROVE  /\ DOMAIN Returned(k, v, x) = Below(Combined(v))
         /\ \/ /\ Returned(k, v, x)[d] = Silent
               /\ \A r \in Below(Travelling(v)) \cap DOMAIN Back(v) :
                    Back(v)[r] = d => \A c \in Chosen(v) : Ranks(v)[c] # r
            \/ /\ Returned(k, v, x)[d] = Wet(d)
               /\ d \in Returning(v)
<1> DEFINE A == Answered(k, v, x)
           P == Passed(k, v)
<1>1. DOMAIN P = Below(Combined(v))
  BY PassedValues
<1>2. Returned(k, v, x) = Mapped(Back(v), A, P)
  BY DEF Returned, PluginMapping
<1>3. ASSUME NEW r \in Below(Travelling(v))
      PROVE  \/ /\ A[r] = Silent
                /\ \A c \in Chosen(v) : Ranks(v)[c] # r
             \/ \E c \in Chosen(v) : Ranks(v)[c] = r /\ A[r] = Wet(c)
  BY <1>3, AnswerMapped
<1>4. \A r \in DOMAIN Back(v) :
        Back(v)[r] \in Returning(v) /\ Ranks(v)[Back(v)[r]] = r
  BY BackInverts
<1>5. \A c, e \in Chosen(v) : Ranks(v)[c] = Ranks(v)[e] => c = e
  BY RanksInjective
<1>6. DOMAIN A = Below(Travelling(v))
  <2>1. DOMAIN Sent(k, v) = Below(Travelling(v)) /\ ServerView(v) = v
    BY SentDomain, SharedView
  <2> QED
    BY <2>1, MappedDomain DEF Answered
<1>7. Returning(v) \in SUBSET Chosen(v)
  BY DEF Returning
<1> HIDE DEF A, P
<1>8. /\ DOMAIN Mapped(Back(v), A, P) = DOMAIN P
      /\ \/ /\ Mapped(Back(v), A, P)[d] = Silent
            /\ \A r \in DOMAIN A \cap DOMAIN Back(v) : Back(v)[r] # d
         \/ \E r \in DOMAIN A \cap DOMAIN Back(v) :
              Back(v)[r] = d /\ Mapped(Back(v), A, P)[d] = A[r]
  <2>1. d \in DOMAIN P
    BY <1>1
  <2> QED
    BY <2>1, MappedDomain, MappedFrom, SMTT(30)
<1>9. CASE \E r \in DOMAIN A \cap DOMAIN Back(v) :
             Back(v)[r] = d /\ Mapped(Back(v), A, P)[d] = A[r]
  <2>1. PICK r \in DOMAIN A \cap DOMAIN Back(v) :
               Back(v)[r] = d /\ Mapped(Back(v), A, P)[d] = A[r]
    BY <1>9
  <2>2. d \in Returning(v) /\ d \in Chosen(v) /\ Ranks(v)[d] = r
    BY <1>4, <1>7, <2>1
  <2>3. PICK c \in Chosen(v) : Ranks(v)[c] = r /\ A[r] = Wet(c)
    BY <1>3, <1>6, <2>1, <2>2
  <2>4. c = d
    BY <1>5, <2>2, <2>3
  <2> QED
    BY <1>1, <1>2, <1>8, <2>1, <2>2, <2>3, <2>4
<1>10. CASE /\ Mapped(Back(v), A, P)[d] = Silent
            /\ \A r \in DOMAIN A \cap DOMAIN Back(v) : Back(v)[r] # d
  BY <1>1, <1>2, <1>6, <1>8, <1>10
<1> QED
  BY <1>8, <1>9, <1>10

(* The worker does without a mapping if the plugin does and the chain adds *)
(* nothing.                                                                *)
LEMMA DirectIff ==
  ASSUME NEW k, NEW v \in Views, Shared(v), NEW x \in Nat
  PROVE  Direct(k, v, x) <=> Unmapped(v) /\ x = 0
<1>1. /\ Combined(v) \in Nat /\ Travelling(v) \in Nat
      /\ Travelling(v) <= Combined(v)
  BY ViewNumbers
<1>2. ServerView(v) = v /\ Cardinality(DOMAIN Sent(k, v)) = Travelling(v)
  BY SharedView, SentDomain
<1>3. Direct(k, v, x) <=> Combined(v) + x <= Travelling(v)
  BY <1>2 DEF Direct
<1> QED
  BY <1>1, <1>3 DEF Unmapped

LEMMA DirectBlock ==
  ASSUME NEW k, NEW v \in Views, Shared(v), NEW x \in Nat, Direct(k, v, x)
  PROVE  /\ Chain(k, v, x) = Passed(k, v)
         /\ DOMAIN Returned(k, v, x) = Below(Combined(v))
         /\ \A c \in Below(Combined(v)) : Returned(k, v, x)[c] = Wet(c)
<1>1. Unmapped(v)
  BY DirectIff
<1>2. Chain(k, v, x) = Passed(k, v)
  BY <1>1 DEF Chain, Sent
<1>3. Returned(k, v, x) = Output(k, v, x)
  BY <1>1 DEF Returned, Answered
<1> QED
  BY <1>2, <1>3, PassedValues DEF Output

LEMMA ContentsDiffer ==
  ASSUME NEW c
  PROVE  Dry(c) # Silent /\ Wet(c) # Silent
<1>1. "dry" # "silent" /\ "wet" # "silent"
  OBVIOUS
<1> QED
  BY <1>1 DEF Dry, Wet, Silent

(* The domain of the chain, in all cases.                                  *)
LEMMA ChainDomain ==
  ASSUME NEW k, NEW v \in Views, Shared(v), NEW x \in Nat
  PROVE  DOMAIN Chain(k, v, x) = Below(Combined(v) + x)
<1>0. Combined(v) \in Nat /\ ServerView(v) = v
  BY ViewNumbers, SharedView
<1>1. CASE Direct(k, v, x)
  <2>1. x = 0 /\ Combined(v) + x = Combined(v)
    BY <1>0, <1>1, DirectIff
  <2>2. Chain(k, v, x) = Passed(k, v)
    BY <1>1, DirectBlock
  <2>3. DOMAIN Passed(k, v) = Below(Combined(v))
    BY PassedValues
  <2> QED
    BY <2>1, <2>2, <2>3
<1>2. CASE ~Direct(k, v, x)
  <2>1. DOMAIN SilentBuffer(Combined(v) + x) = Below(Combined(v) + x)
    BY DEF SilentBuffer
  <2> QED
    BY <1>0, <1>2, <2>1, MappedDomain DEF Chain
<1> QED
  BY <1>1, <1>2

(* Without extra channels none is exchanged.                               *)
LEMMA ChannelsStay ==
  ASSUME NEW k, NEW v \in Views, Shared(v), NEW x \in Nat, x = 0
  PROVE  /\ \A c \in DOMAIN Chain(k, v, x) \cap Below(v.ins) :
              Chain(k, v, x)[c] \in {Dry(c), Silent}
         /\ \A c \in DOMAIN Returned(k, v, x) :
              Returned(k, v, x)[c] \in {Wet(c), Silent}
<1>0. Combined(v) \in Nat /\ Combined(v) + x = Combined(v)
  BY ViewNumbers
<1>1. CASE Direct(k, v, x)
  <2>1. /\ Chain(k, v, x) = Passed(k, v)
        /\ DOMAIN Returned(k, v, x) = Below(Combined(v))
        /\ \A c \in Below(Combined(v)) : Returned(k, v, x)[c] = Wet(c)
    BY <1>1, DirectBlock
  <2> QED
    BY <2>1, PassedValues
<1>2. CASE ~Direct(k, v, x)
  <2>1. ~Unmapped(v)
    BY <1>2, DirectIff
  <2>2. ASSUME NEW c \in Below(Combined(v))
        PROVE  Chain(k, v, x)[c] \in {Dry(c), Silent}
    <3>1. CASE Chain(k, v, x)[c] = Silent
      BY <3>1
    <3>2. CASE Chain(k, v, x)[c] # Silent
      <4>1. PICK r \in Below(Travelling(v)) \cap DOMAIN Back(v) :
                   Back(v)[r] = c /\ Chain(k, v, x)[c] = Sent(k, v)[r]
        <5>1. c \in Below(Combined(v) + x)
          BY <1>0
        <5>2. \/ Chain(k, v, x)[c] = Silent
              \/ \E r \in Below(Travelling(v)) \cap DOMAIN Back(v) :
                   Back(v)[r] = c /\ Chain(k, v, x)[c] = Sent(k, v)[r]
          BY <1>2, <5>1, ChainSpread, SMTT(30)
        <5> QED
          BY <3>2, <5>2
      <4>2. c \in Returning(v) /\ Ranks(v)[c] = r
        BY <4>1, BackInverts
      <4>3. PICK d \in Chosen(v) :
                   Ranks(v)[d] = r /\ Sent(k, v)[r] = Passed(k, v)[d]
        BY <2>1, <3>2, <4>1, SentMapped
      <4>4. c \in Chosen(v) /\ c = d
        BY <4>2, <4>3, RanksInjective DEF Returning
      <4> QED
        BY <4>1, <4>3, <4>4, PassedValues
    <3> QED
      BY <3>1, <3>2
  <2>3. DOMAIN Chain(k, v, x) = Below(Combined(v))
    BY <1>0, ChainDomain
  <2>4. DOMAIN Returned(k, v, x) = Below(Combined(v))
    BY <2>1, MappedDomain, PassedValues DEF Returned
  <2>5. \A c \in Below(Combined(v)) : Returned(k, v, x)[c] \in {Wet(c), Silent}
    BY <1>2, <2>1, ReturnMapped
  <2> QED
    BY <2>2, <2>3, <2>4, <2>5
<1> QED
  BY <1>1, <1>2

(* The same inputs and outputs are active, or there are only outputs.      *)
Alike(v) ==
  \/ v.ins > 0 /\ v.in \cap Below(Combined(v)) = v.out \cap Below(Combined(v))
  \/ v.ins = 0 /\ v.in = v.out

LEMMA AlikeNumbers ==
  ASSUME NEW v \in Views, Alike(v)
  PROVE  /\ Shared(v)
         /\ Chosen(v) = Below(Combined(v)) \cap v.out
         /\ Returning(v) = Chosen(v)
         /\ Travelling(v) = Cardinality(Chosen(v))
         /\ \A c \in Below(v.ins) : c \in v.in <=> c \in v.out
<1>1. /\ v.ins \in Nat /\ v.outs \in Nat /\ Combined(v) \in Nat
      /\ v.ins <= Combined(v) /\ v.outs <= Combined(v)
      /\ IsFiniteSet(Chosen(v)) /\ Cardinality(Chosen(v)) \in Nat
  BY ViewNumbers
<1>2. Shared(v)
  BY DEF Alike, Shared
<1>3. Chosen(v) = Below(Combined(v)) \cap v.out
  BY <1>1 DEF Alike, Chosen
<1>4. Returning(v) = Chosen(v)
  BY <1>3 DEF Returning
<1>5. Below(v.ins) \in SUBSET Below(Combined(v))
      /\ Below(v.outs) \in SUBSET Below(Combined(v))
  BY <1>1 DEF Below
<1>6. ActiveInputs(v) \in SUBSET Chosen(v)
  <2>1. CASE v.ins > 0
    BY <1>5, <2>1 DEF ActiveInputs, Chosen
  <2>2. CASE v.ins = 0
    BY <2>2 DEF ActiveInputs, Below
  <2> QED
    BY <1>1, <2>1, <2>2
<1>7. ActiveOutputs(v) \in SUBSET Chosen(v)
  BY <1>3, <1>5 DEF ActiveOutputs
<1>8. /\ Cardinality(ActiveInputs(v)) \in Nat
      /\ Cardinality(ActiveInputs(v)) <= Cardinality(Chosen(v))
      /\ Cardinality(ActiveOutputs(v)) \in Nat
      /\ Cardinality(ActiveOutputs(v)) <= Cardinality(Chosen(v))
  BY <1>1, <1>6, <1>7, FS_Subset, FS_CardinalityType
<1>9. ActiveInputs(v) = Chosen(v) \/ ActiveOutputs(v) = Chosen(v)
  <2>1. CASE v.outs >= v.ins
    <3>1. Combined(v) = v.outs
      BY <1>1, <2>1 DEF Combined, Larger
    <3> QED
      BY <1>3, <3>1 DEF ActiveOutputs
  <2>2. CASE v.ins > v.outs
    <3>1. Combined(v) = v.ins /\ v.ins > 0
      BY <1>1, <2>2 DEF Combined, Larger
    <3> QED
      BY <3>1 DEF ActiveInputs, Chosen
  <2> QED
    BY <1>1, <2>1, <2>2
<1>10. Travelling(v) = Cardinality(Chosen(v))
  BY <1>1, <1>8, <1>9 DEF Travelling, Larger
<1>11. \A c \in Below(v.ins) : c \in v.in <=> c \in v.out
  BY <1>5 DEF Alike
<1> QED
  BY <1>2, <1>3, <1>4, <1>10, <1>11

LEMMA AllChosen ==
  ASSUME NEW v \in Views, Alike(v), Unmapped(v)
  PROVE  /\ Chosen(v) = Below(Combined(v))
         /\ \A c \in Below(Combined(v)) : c \in v.out /\ Ranks(v)[c] = c
<1>1. Chosen(v) = Below(Combined(v))
  BY ViewNumbers, AlikeNumbers DEF Unmapped
<1> QED
  BY <1>1, AlikeNumbers, RanksOfAll

(* Each active input is passed and sent.                                   *)
LEMMA InputsSent ==
  ASSUME NEW k, k # "inst", NEW v \in Views, Alike(v), v.ins > 0,
         NEW c \in Below(v.ins)
  PROVE  /\ c \in Below(Combined(v)) /\ Passed(k, v)[c] = Dry(c)
         /\ c \in v.in <=> c \in Chosen(v)
         /\ c \in Chosen(v) => /\ Ranks(v)[c] \in Below(Travelling(v))
                               /\ Sent(k, v)[Ranks(v)[c]] = Dry(c)
<1>1. /\ v.ins \in Nat /\ Combined(v) \in Nat /\ v.ins <= Combined(v)
  BY ViewNumbers
<1>2. c \in Below(Combined(v)) /\ ~(c >= v.ins)
  BY <1>1 DEF Below
<1>3. Unmapped(v) => c \in v.out
  BY <1>2, AllChosen
<1>4. Passed(k, v)[c] = Dry(c)
  BY <1>2, <1>3 DEF Passed
<1>5. c \in v.in <=> c \in Chosen(v)
  BY <1>2 DEF Chosen
<1>6. ASSUME c \in Chosen(v)
      PROVE  /\ Ranks(v)[c] \in Below(Travelling(v))
             /\ Sent(k, v)[Ranks(v)[c]] = Dry(c)
  <2>1. Ranks(v)[c] \in Below(Travelling(v))
    BY <1>6, RanksInjective, AlikeNumbers
  <2>2. CASE Unmapped(v)
    BY <1>2, <1>4, <2>1, <2>2, AllChosen DEF Sent
  <2>3. CASE ~Unmapped(v)
    <3>1. PICK d \in Chosen(v) :
                 /\ Ranks(v)[d] = Ranks(v)[c]
                 /\ Sent(k, v)[Ranks(v)[c]] = Passed(k, v)[d]
      BY <1>6, <2>1, <2>3, SentMapped
    <3>2. d = c
      BY <1>6, <3>1, RanksInjective
    <3> QED
      BY <1>4, <2>1, <3>1, <3>2
  <2> QED
    BY <2>2, <2>3
<1> QED
  BY <1>2, <1>4, <1>5, <1>6

(* Each active input reaches its channel of the chain, and no other does.  *)
LEMMA InputsArrive ==
  ASSUME NEW k, k # "inst", NEW v \in Views, Alike(v), v.ins > 0, NEW x \in Nat,
         NEW c \in Below(v.ins)
  PROVE  c \in DOMAIN Chain(k, v, x) /\ Chain(k, v, x)[c] = Dry(c)
           <=> c \in v.in
<1>1. /\ c \in Below(Combined(v)) /\ Passed(k, v)[c] = Dry(c)
      /\ c \in v.in <=> c \in Chosen(v)
      /\ c \in Chosen(v) => /\ Ranks(v)[c] \in Below(Travelling(v))
                            /\ Sent(k, v)[Ranks(v)[c]] = Dry(c)
  BY InputsSent
<1>2. Shared(v) /\ Returning(v) = Chosen(v)
  BY AlikeNumbers
<1>3. /\ c \in Below(Combined(v) + x)
      /\ DOMAIN Chain(k, v, x) = Below(Combined(v) + x)
  <2>1. Combined(v) \in Nat
    BY ViewNumbers
  <2>2. c \in Below(Combined(v) + x)
    BY <1>1, <2>1 DEF Below
  <2> QED
    BY <1>2, <2>2, ChainDomain
<1>4. CASE Direct(k, v, x)
  <2>1. Chain(k, v, x) = Passed(k, v)
    BY <1>2, <1>4, DirectBlock
  <2>2. Chosen(v) = Below(Combined(v))
    BY <1>2, <1>4, DirectIff, AllChosen
  <2> QED
    BY <1>1, <1>3, <2>1, <2>2
<1>5. CASE ~Direct(k, v, x)
  <2>1. \A r \in DOMAIN Back(v) :
          Back(v)[r] = c => c \in Chosen(v) /\ Ranks(v)[c] = r
    BY <1>2, BackInverts
  <2>2. CASE c \in v.in
    <3>1. ActiveInputs(v) # {}
      BY <2>2 DEF ActiveInputs
    <3>2. Ranks(v)[c] \in DOMAIN Back(v) /\ Back(v)[Ranks(v)[c]] = c
      BY <1>1, <1>2, <2>2, BackInverts
    <3>3. PICK r \in Below(Travelling(v)) \cap DOMAIN Back(v) :
                 Back(v)[r] = c /\ Chain(k, v, x)[c] = Sent(k, v)[r]
      <4>1. \/ \A r \in Below(Travelling(v)) \cap DOMAIN Back(v) :
                 Back(v)[r] # c
            \/ \E r \in Below(Travelling(v)) \cap DOMAIN Back(v) :
                 Back(v)[r] = c /\ Chain(k, v, x)[c] = Sent(k, v)[r]
        BY <1>2, <1>3, <1>5, <3>1, ChainSpread, SMTT(30)
      <4> QED
        BY <1>1, <2>2, <3>2, <4>1
    <3> QED
      BY <1>1, <1>3, <2>1, <2>2, <3>3
  <2>3. CASE c \notin v.in
    <3>1. \A r \in DOMAIN Back(v) : Back(v)[r] # c
      BY <1>1, <2>1, <2>3
    <3>2. \/ Chain(k, v, x)[c] = Silent
          \/ \E r \in Below(Travelling(v)) \cap DOMAIN Back(v) :
               Back(v)[r] = c /\ Chain(k, v, x)[c] = Sent(k, v)[r]
      BY <1>2, <1>3, <1>5, ChainSpread, SMTT(30)
    <3>3. Chain(k, v, x)[c] # Dry(c)
      BY <3>1, <3>2, ContentsDiffer
    <3> QED
      BY <2>3, <3>3
  <2> QED
    BY <2>2, <2>3
<1> QED
  BY <1>4, <1>5

(* Each active output comes back to its channel, the others are silent.    *)
LEMMA OutputsArrive ==
  ASSUME NEW k, NEW v \in Views, Alike(v), NEW x \in Nat,
         NEW c \in Below(v.outs)
  PROVE  Returned(k, v, x)[c] = IF c \in v.out THEN Wet(c) ELSE Silent
<1>1. c \in Below(Combined(v))
  <2>1. v.outs \in Nat /\ Combined(v) \in Nat /\ v.outs <= Combined(v)
    BY ViewNumbers
  <2> QED
    BY <2>1 DEF Below
<1>2. /\ Shared(v) /\ Returning(v) = Chosen(v)
      /\ c \in v.out <=> c \in Chosen(v)
  BY <1>1, AlikeNumbers
<1>3. CASE Direct(k, v, x)
  <2>1. Returned(k, v, x)[c] = Wet(c)
    BY <1>1, <1>2, <1>3, DirectBlock
  <2>2. c \in v.out
    BY <1>1, <1>2, <1>3, DirectIff, AllChosen
  <2> QED
    BY <2>1, <2>2
<1>4. CASE ~Direct(k, v, x) /\ Unmapped(v)
  <2>1. /\ c \in Chosen(v) /\ c \in v.out /\ Ranks(v)[c] = c
        /\ c \in Below(Travelling(v))
    BY <1>1, <1>4, AllChosen DEF Unmapped
  <2>2. \/ \A d \in Chosen(v) : Ranks(v)[d] # c
        \/ \E d \in Chosen(v) : Ranks(v)[d] = c /\ Answered(k, v, x)[c] = Wet(d)
    BY <1>2, <1>4, <2>1, AnswerMapped, SMTT(30)
  <2>3. PICK d \in Chosen(v) : Ranks(v)[d] = c /\ Answered(k, v, x)[c] = Wet(d)
    BY <2>1, <2>2
  <2>4. d = c
    BY <2>1, <2>3, RanksInjective
  <2> QED
    BY <1>4, <2>1, <2>3, <2>4 DEF Returned
<1>5. CASE ~Direct(k, v, x) /\ ~Unmapped(v)
  <2>1. \/ /\ Returned(k, v, x)[c] = Silent
           /\ \A r \in Below(Travelling(v)) \cap DOMAIN Back(v) :
                Back(v)[r] = c => \A d \in Chosen(v) : Ranks(v)[d] # r
        \/ /\ Returned(k, v, x)[c] = Wet(c)
           /\ c \in Returning(v)
    BY <1>1, <1>2, <1>5, ReturnMapped, SMTT(30)
  <2>2. c \in Chosen(v) => /\ Ranks(v)[c] \in Below(Travelling(v))
                           /\ Ranks(v)[c] \in DOMAIN Back(v)
                           /\ Back(v)[Ranks(v)[c]] = c
    BY <1>2, BackInverts, RanksInjective, AlikeNumbers
  <2> QED
    BY <1>2, <2>1, <2>2
<1> QED
  BY <1>3, <1>4, <1>5

-----------------------------------------------------------------------------
(* The inductive invariant.                                                *)

Layouts == [ins : Nat, outs : Nat]

RoutingTypes ==
  /\ kind \in {"fx", "inst"} /\ extra \in Nat
  /\ host \in Layouts /\ counts \in Layouts
  /\ bits \in [in : SUBSET Nat, out : SUBSET Nat]
  /\ kind = "inst" => host.ins = 0 /\ counts.ins = 0 /\ bits.in = bits.out
  /\ ui \in {"idle", "reset", "create", "reconnect"}
  /\ {prepared, needsReconnect, overtaken, probed} \subseteq BOOLEAN
  /\ DOMAIN block = {"step", "same", "buffer", "send", "chain", "settled"}

(* The mapping is old only between the edit and CreateMapping.  During an  *)
(* init() it is known already whether its end forgets an edit.             *)
MenuInv ==
  /\ ui # "idle" => prepared
  /\ prepared => host = counts
  /\ prepared /\ ui \in {"idle", "reconnect"} =>
       mapper = PluginMapping(ClientView)

SessionInv ==
  client \in {"init", "up"} /\ ui = "idle" /\ prepared
    /\ session # ServerView(ClientView)
    => overtaken \/ probed \/ (client = "up" /\ needsReconnect)

(* An undisturbed block holds what its step says.                          *)
BlockInv ==
  block.settled =>
    LET v == ClientView IN
      /\ Settled /\ prepared
      /\ block.same <=> Unmapped(v)
      /\ block.step = "prepared" =>
           /\ block.buffer = Passed(kind, v)
           /\ block.send = SilentBuffer(Travelling(v))
      /\ block.step = "sent" =>
           block.buffer = Passed(kind, v) /\ block.send = Sent(kind, v)
      /\ block.step = "served" =>
           /\ block.buffer = Passed(kind, v)
           /\ block.chain = Chain(kind, v, extra)
           /\ block.send = Answered(kind, v, extra)
      /\ block.step = "done" =>
           /\ block.chain = Chain(kind, v, extra)
           /\ block.buffer = Returned(kind, v, extra)

RoutingInv == RoutingTypes /\ MenuInv /\ SessionInv /\ BlockInv

LEMMA RoutingInitInv == RoutingInit => RoutingInv
<1> SUFFICES ASSUME RoutingInit
             PROVE  RoutingInv
  OBVIOUS
<1>1. RoutingTypes
  <2>1. kind \in {"fx", "inst"} /\ extra \in Nat
    BY ChannelAssumption DEF RoutingInit
  <2>2. host \in Layouts /\ counts = host
    BY ChannelAssumption DEF RoutingInit, Layouts
  <2>3. bits \in [in : SUBSET Nat, out : SUBSET Nat]
    BY ChannelAssumption DEF RoutingInit, Channels
  <2>4. kind = "inst" => host.ins = 0 /\ bits.in = bits.out
    BY DEF RoutingInit
  <2> QED
    BY <2>1, <2>2, <2>3, <2>4 DEF RoutingInit, RoutingTypes, NoBlock
<1> QED
  BY <1>1 DEF RoutingInit, RoutingInv, MenuInv, SessionInv, BlockInv, NoBlock

(* A step of the menu, the host or the client thread ends what is promised *)
(* about the block.                                                        *)
LEMMA Disturbed ==
  ASSUME RoutingTypes, Disturb
  PROVE  BlockInv' /\ DOMAIN block' = DOMAIN block
BY DEF RoutingTypes, Disturb, BlockInv

LEMMA MenuKeeps ==
  ASSUME RoutingInv,
         \/ \E side \in {"in", "out"}, c \in Channels : SetActive(side, c)
         \/ ResetMapping \/ CreateMapping \/ Reconnect
  PROVE  RoutingInv'
<1> USE DEF channels, connection, history
<1>1. BlockInv' /\ DOMAIN block' = DOMAIN block
  BY Disturbed DEF RoutingInv, SetActive, ResetMapping, CreateMapping, Reconnect
<1>2. ASSUME NEW side \in {"in", "out"}, NEW c \in Channels, SetActive(side, c)
      PROVE  RoutingInv'
  <2>1. bits' \in [in : SUBSET Nat, out : SUBSET Nat]
        /\ (kind = "inst" => bits'.in = bits'.out)
    <3>1. c \in Nat /\ bits \in [in : SUBSET Nat, out : SUBSET Nat]
      BY ChannelAssumption DEF Channels, RoutingInv, RoutingTypes
    <3>2. CASE kind = "inst"
      BY <1>2, <3>1, <3>2 DEF SetActive, RoutingInv, RoutingTypes
    <3>3. CASE kind # "inst"
      BY <1>2, <3>1, <3>3 DEF SetActive
    <3> QED
      BY <3>2, <3>3
  <2>2. RoutingTypes'
    BY <1>1, <1>2, <2>1 DEF SetActive, RoutingInv, RoutingTypes
  <2> QED
    BY <1>1, <1>2, <2>2 DEF SetActive, RoutingInv, MenuInv, SessionInv
<1>3. CASE ResetMapping
  <2>1. RoutingTypes'
    BY <1>1, <1>3 DEF ResetMapping, RoutingInv, RoutingTypes
  <2> QED
    BY <1>1, <1>3, <2>1 DEF ResetMapping, RoutingInv, MenuInv, SessionInv
<1>4. CASE CreateMapping
  <2>1. RoutingTypes'
    BY <1>1, <1>4 DEF CreateMapping, RoutingInv, RoutingTypes
  <2> QED
    BY <1>1, <1>4, <2>1
       DEF CreateMapping, RoutingInv, MenuInv, SessionInv, ClientView
<1>5. CASE Reconnect
  <2>1. RoutingTypes'
    BY <1>1, <1>5 DEF Reconnect, RoutingInv, RoutingTypes
  <2> QED
    BY <1>1, <1>5, <2>1
       DEF Reconnect, RoutingInv, MenuInv, SessionInv, ClientView
<1> QED
  BY <1>2, <1>3, <1>4, <1>5

LEMMA HostKeeps ==
  ASSUME RoutingInv,
         \/ PrepareToPlay
         \/ \E ins \in IF kind = "fx" THEN 0..MaxChannels ELSE {0},
               outs \in 1..MaxChannels :
              NumChannelsChanged([ins |-> ins, outs |-> outs])
  PROVE  RoutingInv'
<1> USE DEF channels, connection, history
<1>1. BlockInv' /\ DOMAIN block' = DOMAIN block
  BY Disturbed DEF RoutingInv, PrepareToPlay, NumChannelsChanged
<1>2. CASE PrepareToPlay
  <2>1. RoutingTypes'
    BY <1>1, <1>2 DEF PrepareToPlay, RoutingInv, RoutingTypes
  <2>2. MenuInv'
    BY <1>2 DEF PrepareToPlay, RoutingInv, MenuInv, ClientView, View
  <2>3. SessionInv'
    BY <1>2 DEF PrepareToPlay, RoutingInv, SessionInv
  <2> QED
    BY <1>1, <2>1, <2>2, <2>3 DEF RoutingInv
<1>3. ASSUME NEW ins \in IF kind = "fx" THEN 0..MaxChannels ELSE {0},
             NEW outs \in 1..MaxChannels,
             NumChannelsChanged([ins |-> ins, outs |-> outs])
      PROVE  RoutingInv'
  <2>1. host' \in Layouts /\ (kind = "inst" => host'.ins = 0)
    BY <1>3, ChannelAssumption DEF NumChannelsChanged, Layouts
  <2>2. bits' \in [in : SUBSET Nat, out : SUBSET Nat]
        /\ (kind = "inst" => bits'.in = bits'.out)
    <3>1. CASE kind = "fx"
      <4>1. Channels \in SUBSET Nat
        BY ChannelAssumption DEF Channels
      <4> QED
        BY <1>3, <3>1, <4>1 DEF NumChannelsChanged
    <3>2. CASE kind # "fx"
      <4> DEFINE set == (bits.out \ Below(counts.outs))
                          \cup (Below(MainChannels) \cap Below(outs))
      <4>1. bits' = [in |-> set, out |-> set]
        BY <1>3, <3>2 DEF NumChannelsChanged
      <4>2. bits.out \in SUBSET Nat /\ Below(MainChannels) \in SUBSET Nat
        BY ChannelAssumption DEF Below, RoutingInv, RoutingTypes
      <4>3. set \in SUBSET Nat
        BY <4>2
      <4> HIDE DEF set
      <4> QED
        BY <4>1, <4>3
    <3> QED
      BY <3>1, <3>2
  <2>3. RoutingTypes'
    BY <1>1, <1>3, <2>1, <2>2 DEF NumChannelsChanged, RoutingInv, RoutingTypes
  <2> QED
    BY <1>1, <1>3, <2>3
       DEF NumChannelsChanged, RoutingInv, MenuInv, SessionInv
<1> QED
  BY <1>2, <1>3

LEMMA ClientKeeps ==
  ASSUME RoutingInv, CloseSession \/ Handshake \/ Connected
  PROVE  RoutingInv'
<1> USE DEF channels, connection, history
<1>1. BlockInv' /\ DOMAIN block' = DOMAIN block
  BY Disturbed DEF RoutingInv, CloseSession, Handshake, Connected
<1>2. RoutingTypes'
  BY <1>1 DEF CloseSession, Handshake, Connected, RoutingInv, RoutingTypes
<1>3. MenuInv'
  BY DEF CloseSession, Handshake, Connected, RoutingInv, MenuInv, ClientView
<1>4. SessionInv'
  BY DEF CloseSession, Handshake, Connected, RoutingInv, SessionInv, ClientView
<1> QED
  BY <1>1, <1>2, <1>3, <1>4 DEF RoutingInv

(* The audio thread changes only the block, and Refuse the flag.           *)
LEMMA AudioFrame ==
  ASSUME RoutingInv,
         UNCHANGED <<channels, client, ready, session, extra, history>>,
         needsReconnect' \in {needsReconnect, TRUE},
         DOMAIN block' = {"step", "same", "buffer", "send", "chain", "settled"},
         BlockInv'
  PROVE  RoutingInv'
<1> USE DEF channels, history
<1>1. RoutingTypes'
  BY DEF RoutingInv, RoutingTypes
<1>2. MenuInv'
  BY DEF RoutingInv, MenuInv, ClientView
<1>3. SessionInv'
  BY DEF RoutingInv, SessionInv, ClientView
<1> QED
  BY <1>1, <1>2, <1>3 DEF RoutingInv

LEMMA ClientViewType ==
  ASSUME RoutingInv
  PROVE  ClientView \in Views
BY DEF RoutingInv, RoutingTypes, ClientView, View, Views, Layouts

(* The block with its new values, when nothing else changed.               *)
LEMMA BlockStep ==
  ASSUME UNCHANGED <<channels, connection, extra, history>>
  PROVE  /\ ClientView' = ClientView /\ kind' = kind /\ extra' = extra
         /\ Settled' <=> Settled
         /\ prepared' = prepared
BY DEF channels, connection, history, ClientView, Settled

LEMMA PrepareKeeps ==
  ASSUME RoutingInv, PrepareBlock
  PROVE  RoutingInv'
<1> DEFINE v == ClientView
<1>1. UNCHANGED <<channels, connection, extra, history>> /\ prepared
  BY DEF PrepareBlock
<1>2. DOMAIN block' = {"step", "same", "buffer", "send", "chain", "settled"}
  BY DEF PrepareBlock
<1>3. Larger(host.ins, host.outs) = Combined(v) /\ host.ins = v.ins
      /\ bits.out = v.out
  BY <1>1 DEF RoutingInv, MenuInv, ClientView, View, Combined
<1>4. /\ block'.step = "prepared" /\ block'.settled = Settled
      /\ block'.same <=> Unmapped(v)
      /\ block'.send = SilentBuffer(Travelling(v))
      /\ block'.buffer = Passed(kind, v)
  BY <1>3 DEF PrepareBlock, Unmapped, Passed
<1> HIDE DEF v
<1>5. BlockInv'
  BY <1>1, <1>4, BlockStep DEF BlockInv, v
<1> QED
  BY <1>1, <1>2, <1>5, AudioFrame DEF connection

LEMMA MapKeeps ==
  ASSUME RoutingInv, Map
  PROVE  RoutingInv'
<1>1. UNCHANGED <<channels, connection, extra, history>>
  BY DEF Map
<1>2. DOMAIN block = {"step", "same", "buffer", "send", "chain", "settled"}
  BY DEF RoutingInv, RoutingTypes
<1>3. /\ DOMAIN block' = DOMAIN block
      /\ block'.step = "sent" /\ block'.settled = block.settled
      /\ block'.same = block.same /\ block'.buffer = block.buffer
      /\ block'.send = IF block.same THEN block.buffer
                       ELSE Mapped(mapper.fwd, block.buffer, block.send)
  BY <1>2 DEF Map
<1>4. ASSUME block.settled
      PROVE  /\ block.buffer = Passed(kind, ClientView)
             /\ block'.send = Sent(kind, ClientView)
             /\ Settled /\ prepared /\ (block.same <=> Unmapped(ClientView))
  <2>1. /\ block.buffer = Passed(kind, ClientView)
        /\ block.send = SilentBuffer(Travelling(ClientView))
        /\ Settled /\ prepared /\ (block.same <=> Unmapped(ClientView))
    BY <1>4 DEF Map, RoutingInv, BlockInv
  <2>2. mapper = PluginMapping(ClientView)
    BY <2>1 DEF RoutingInv, MenuInv, Settled
  <2> QED
    BY <1>3, <2>1, <2>2 DEF Sent
<1>5. BlockInv'
  BY <1>1, <1>3, <1>4, BlockStep DEF BlockInv
<1> QED
  BY <1>1, <1>2, <1>3, <1>5, AudioFrame DEF connection

LEMMA ServeKeeps ==
  ASSUME RoutingInv, ServeBlock
  PROVE  RoutingInv'
<1> DEFINE n == Combined(session) + extra
           direct == n <= Cardinality(DOMAIN block.send)
           chain == IF direct THEN block.send
                    ELSE IF ActiveInputs(session) = {} THEN SilentBuffer(n)
                    ELSE Mapped(ServerMapping(session).fwd, block.send,
                                SilentBuffer(n))
           output == [c \in DOMAIN chain |-> Wet(c)]
           send == IF direct THEN output
                   ELSE Mapped(ServerMapping(session).rev, output, block.send)
<1>1. UNCHANGED <<channels, connection, extra, history>>
  BY DEF ServeBlock
<1>2. DOMAIN block = {"step", "same", "buffer", "send", "chain", "settled"}
  BY DEF RoutingInv, RoutingTypes
<1>3. block' = [block EXCEPT !.step = "served", !.chain = chain, !.send = send]
  BY DEF ServeBlock
<1>4. ASSUME block.settled
      PROVE  /\ block.buffer = Passed(kind, ClientView)
             /\ chain = Chain(kind, ClientView, extra)
             /\ send = Answered(kind, ClientView, extra)
             /\ Settled /\ prepared /\ (block.same <=> Unmapped(ClientView))
  <2>1. /\ block.buffer = Passed(kind, ClientView)
        /\ block.send = Sent(kind, ClientView)
        /\ Settled /\ prepared /\ (block.same <=> Unmapped(ClientView))
    BY <1>4 DEF ServeBlock, RoutingInv, BlockInv
  <2>2. session = ServerView(ClientView)
    BY <2>1 DEF Settled
  <2>3. direct <=> Direct(kind, ClientView, extra)
    BY <2>1, <2>2 DEF Direct
  <2>4. chain = Chain(kind, ClientView, extra)
    BY <2>1, <2>2, <2>3 DEF Chain
  <2>5. output = Output(kind, ClientView, extra)
    BY <2>4 DEF Output
  <2>6. send = Answered(kind, ClientView, extra)
    BY <2>1, <2>2, <2>3, <2>5 DEF Answered
  <2> QED
    BY <2>1, <2>4, <2>6
<1> HIDE DEF chain, send
<1>5. /\ DOMAIN block' = DOMAIN block
      /\ block'.step = "served" /\ block'.settled = block.settled
      /\ block'.same = block.same /\ block'.buffer = block.buffer
      /\ block'.chain = chain /\ block'.send = send
  BY <1>2, <1>3
<1>6. BlockInv'
  BY <1>1, <1>4, <1>5, BlockStep DEF BlockInv
<1> QED
  BY <1>1, <1>2, <1>5, <1>6, AudioFrame DEF connection

LEMMA ReverseKeeps ==
  ASSUME RoutingInv, MapReverse
  PROVE  RoutingInv'
<1>1. UNCHANGED <<channels, connection, extra, history>>
  BY DEF MapReverse
<1>2. DOMAIN block = {"step", "same", "buffer", "send", "chain", "settled"}
  BY DEF RoutingInv, RoutingTypes
<1>3. /\ DOMAIN block' = DOMAIN block
      /\ block'.step = "done" /\ block'.settled = block.settled
      /\ block'.same = block.same /\ block'.chain = block.chain
      /\ block'.buffer = IF block.same THEN block.send
                         ELSE Mapped(mapper.rev, block.send, block.buffer)
  BY <1>2 DEF MapReverse
<1>4. ASSUME block.settled
      PROVE  /\ block.chain = Chain(kind, ClientView, extra)
             /\ block'.buffer = Returned(kind, ClientView, extra)
             /\ Settled /\ prepared /\ (block.same <=> Unmapped(ClientView))
  <2>1. /\ block.buffer = Passed(kind, ClientView)
        /\ block.chain = Chain(kind, ClientView, extra)
        /\ block.send = Answered(kind, ClientView, extra)
        /\ Settled /\ prepared /\ (block.same <=> Unmapped(ClientView))
    BY <1>4 DEF MapReverse, RoutingInv, BlockInv
  <2>2. mapper = PluginMapping(ClientView)
    BY <2>1 DEF RoutingInv, MenuInv, Settled
  <2> QED
    BY <1>3, <2>1, <2>2 DEF Returned
<1>5. BlockInv'
  BY <1>1, <1>3, <1>4, BlockStep DEF BlockInv
<1> QED
  BY <1>1, <1>2, <1>3, <1>5, AudioFrame DEF connection

(* Blocks that are not answered promise nothing.                           *)
LEMMA LostKeeps ==
  ASSUME RoutingInv, NotReady \/ Refuse \/ Unserved
  PROVE  RoutingInv'
<1>1. DOMAIN block = {"step", "same", "buffer", "send", "chain", "settled"}
  BY DEF RoutingInv, RoutingTypes
<1>2. /\ DOMAIN block' = {"step", "same", "buffer", "send", "chain", "settled"}
      /\ ~block'.settled
  BY <1>1 DEF NotReady, Refuse, Unserved, NoBlock
<1>3. /\ UNCHANGED <<channels, client, ready, session, extra, history>>
      /\ needsReconnect' \in {needsReconnect, TRUE}
  BY DEF NotReady, Refuse, Unserved, connection
<1>4. BlockInv'
  BY <1>2 DEF BlockInv
<1> QED
  BY <1>2, <1>3, <1>4, AudioFrame

LEMMA RoutingNextInv == RoutingInv /\ [RoutingNext]_routingVars => RoutingInv'
<1> SUFFICES ASSUME RoutingInv, [RoutingNext]_routingVars
             PROVE  RoutingInv'
  OBVIOUS
<1>1. CASE UNCHANGED routingVars
  <2>1. UNCHANGED <<channels, connection, extra, block, history>>
    BY <1>1 DEF routingVars
  <2>2. BlockInv'
    BY <2>1, BlockStep DEF RoutingInv, BlockInv
  <2>3. DOMAIN block' = {"step", "same", "buffer", "send", "chain", "settled"}
    BY <2>1 DEF RoutingInv, RoutingTypes
  <2> QED
    BY <2>1, <2>2, <2>3, AudioFrame DEF connection
<1>2. CASE RoutingNext
  BY <1>2, MenuKeeps, HostKeeps, ClientKeeps, PrepareKeeps, MapKeeps,
     ServeKeeps, ReverseKeeps, LostKeeps DEF RoutingNext
<1> QED
  BY <1>1, <1>2

LEMMA RoutingInvariance == RoutingSpec => []RoutingInv
BY RoutingInitInv, RoutingNextInv, PTL DEF RoutingSpec

-----------------------------------------------------------------------------
(* After an edit of the active channels or a new layout, the mapping and,  *)
(* in the end, the session are about the channels that are active.         *)
THEOREM ChannelsAreCurrent == RoutingSpec => []ChannelsCurrent
<1>1. RoutingInv => ChannelsCurrent
  BY DEF RoutingInv, MenuInv, SessionInv, ChannelsCurrent, StaleSessionReplaced,
         MapperCurrent
<1> QED
  BY <1>1, RoutingInvariance, PTL

LEMMA RoutedChannels ==
  ASSUME RoutingInv
  PROVE  Routing
<1> DEFINE v == ClientView
<1>1. v \in Views /\ kind \in {"fx", "inst"} /\ extra \in Nat
      /\ (kind = "inst" => v.ins = 0 /\ v.in = v.out)
  BY ClientViewType DEF RoutingInv, RoutingTypes, ClientView, View
<1>2. v.ins \in Nat
  BY <1>1, ViewNumbers
<1>3. ASSUME Arrived
      PROVE  /\ session = ServerView(v)
             /\ block.chain = Chain(kind, v, extra)
             /\ block.buffer = Returned(kind, v, extra)
  BY <1>3 DEF Arrived, RoutingInv, BlockInv, Settled
<1> HIDE DEF v
<1>4. Routed
  <2> SUFFICES ASSUME Arrived
               PROVE  LET all == Below(Combined(session))
                          alike == session.in \cap all = session.out \cap all IN
                        /\ session.ins > 0 /\ alike =>
                             \A c \in Below(session.ins) :
                               ReachesChain(c) <=> c \in session.in
                        /\ (session.ins > 0 /\ alike) \/ kind = "inst" =>
                             \A c \in Below(session.outs) :
                               block.buffer[c] = IF c \in session.out
                                                   THEN Wet(c) ELSE Silent
    BY DEF Routed
  <2>1. session.ins = v.ins
    <3>1. [v EXCEPT !.out = v.in].ins = v.ins
      BY <1>1 DEF Views
    <3> QED
      BY <1>3, <3>1 DEF ServerView
  <2>2. ASSUME session.ins > 0,
               session.in \cap Below(Combined(session))
                 = session.out \cap Below(Combined(session))
        PROVE  session = v /\ Alike(v) /\ kind # "inst"
    <3>1. session = v
      BY <1>3, <2>1, <2>2 DEF ServerView
    <3> QED
      BY <1>1, <1>2, <2>2, <3>1 DEF Alike
  <2>3. ASSUME kind = "inst"
        PROVE  session = v /\ Alike(v)
    <3>1. v.ins = 0 /\ v.in = v.out
      BY <1>1, <2>3
    <3> QED
      BY <1>1, <1>3, <3>1, SharedView DEF Alike, Shared
  <2>4. ASSUME session.ins > 0,
               session.in \cap Below(Combined(session))
                 = session.out \cap Below(Combined(session)),
               NEW c \in Below(session.ins)
        PROVE  ReachesChain(c) <=> c \in session.in
    BY <1>1, <1>3, <2>2, <2>4, InputsArrive DEF ReachesChain
  <2>5. ASSUME session = v, Alike(v), NEW c \in Below(session.outs)
        PROVE  block.buffer[c] = IF c \in session.out THEN Wet(c) ELSE Silent
    BY <1>1, <1>3, <2>5, OutputsArrive
  <2> QED
    BY <2>2, <2>3, <2>4, <2>5
<1>5. NoCrossTalk
  <2> SUFFICES ASSUME Arrived, extra = 0, session.ins > 0 \/ kind = "inst"
               PROVE  /\ \A c \in DOMAIN block.chain \cap Below(session.ins) :
                           block.chain[c] \in {Dry(c), Silent}
                      /\ \A c \in DOMAIN block.buffer :
                           block.buffer[c] \in {Wet(c), Silent}
    BY DEF NoCrossTalk
  <2>1. session.ins = v.ins
    <3>1. [v EXCEPT !.out = v.in].ins = v.ins
      BY <1>1 DEF Views
    <3> QED
      BY <1>3, <3>1 DEF ServerView
  <2>2. Shared(v)
    BY <1>1, <2>1 DEF Shared
  <2> QED
    BY <1>1, <1>3, <2>1, <2>2, ChannelsStay
<1>6. EnoughChannels
  <2> SUFFICES ASSUME block.step = "sent", block.settled
               PROVE  ~Missing
    BY DEF EnoughChannels
  <2>1. session = ServerView(v) /\ block.send = Sent(kind, v)
    BY DEF RoutingInv, BlockInv, Settled, v
  <2>2. ActiveInputs(session) = ActiveInputs(v)
    <3>1. /\ [v EXCEPT !.out = v.in].ins = v.ins
          /\ [v EXCEPT !.out = v.in].in = v.in
      BY <1>1 DEF Views
    <3> QED
      BY <2>1, <3>1 DEF ServerView, ActiveInputs
  <2>3. /\ Cardinality(ActiveInputs(v)) <= Travelling(v)
        /\ Travelling(v) \in Nat
        /\ Cardinality(DOMAIN block.send) = Travelling(v)
    BY <1>1, <2>1, ViewNumbers, SentDomain
  <2>4. Cardinality(ActiveInputs(v)) \in Nat
    <3>1. IsFiniteSet(Below(v.ins))
      BY <1>2, BelowFinite
    <3>2. ActiveInputs(v) \in SUBSET Below(v.ins)
      BY DEF ActiveInputs
    <3> QED
      BY <3>1, <3>2, FS_Subset, FS_CardinalityType
  <2> QED
    BY <2>2, <2>3, <2>4 DEF Missing
<1> QED
  BY <1>4, <1>5, <1>6 DEF Routing

(* A block that nothing disturbed takes every active channel to its place  *)
(* in the chain and back, never exchanges channels, and is never refused.  *)
THEOREM ChannelsAreRouted == RoutingSpec => []Routing
BY RoutedChannels, RoutingInvariance, PTL
=============================================================================
