------------------------- MODULE SampleStream_proofs -------------------------
(***************************************************************************)
(* Theorems about the samples of the buffered streamer, for any number of  *)
(* buffers, any block size, any sizes that the host chooses, and both      *)
(* values of FIXED_OUTBOUND_BUFFER and LIVE_MODE.                          *)
(*                                                                         *)
(* What waits in m_readBuffer, m_readQ, the hands of the io thread,        *)
(* m_writeQ and m_writeBuffer is one line of samples.  The invariant says  *)
(* two things of it.  Risen: there are bounds that only rise between one   *)
(* part of the line and the next, so that no sample is ahead of an earlier *)
(* one, whatever was skipped, dropped or refused.  Placed: every block has *)
(* a place, behind that of the one before it, and the line ends at the     *)
(* latency unless a queue was full; as long as none was, each sample fits  *)
(* its place or is late and was held.                                      *)
(*                                                                         *)
(* Total, the number of samples in a queue, is computed along the queue;   *)
(* TotalIs finds it from the places, since a least position at which they  *)
(* disagree cannot be (Smallest).                                          *)
(***************************************************************************)
EXTENDS SampleStream, WellFoundedInduction, TLAPS

-----------------------------------------------------------------------------
(* Sequences.                                                              *)

(* Two pieces of sound, one behind the other.                              *)
LEMMA JoinedSamples ==
  ASSUME NEW s \in Seq(Nat), NEW t \in Seq(Nat)
  PROVE  /\ s \o t \in Seq(Nat) /\ Len(s \o t) = Len(s) + Len(t)
         /\ Len(s) \in Nat /\ Len(t) \in Nat
         /\ DOMAIN (s \o t) = 1..Len(s) + Len(t)
         /\ \A i \in 1..Len(s) : (s \o t)[i] = s[i]
         /\ \A i \in 1..Len(t) : (s \o t)[Len(s) + i] = t[i]
OBVIOUS

(* consume(): the first n samples and the others.                          *)
LEMMA SplitSamples ==
  ASSUME NEW s \in Seq(Nat), NEW n \in 0..Len(s)
  PROVE  /\ SubSeq(s, 1, n) \in Seq(Nat) /\ Len(SubSeq(s, 1, n)) = n
         /\ DOMAIN SubSeq(s, 1, n) = 1..n
         /\ \A i \in 1..n : SubSeq(s, 1, n)[i] = s[i]
         /\ Consume(s, n) \in Seq(Nat) /\ Len(Consume(s, n)) = Len(s) - n
         /\ DOMAIN Consume(s, n) = 1..Len(s) - n
         /\ \A i \in 1..Len(s) - n : Consume(s, n)[i] = s[n + i]
         /\ Len(s) \in Nat /\ n \in Nat
BY DEF Consume

(* A skip record is silence of its length.                                 *)
LEMMA Silent ==
  ASSUME NEW n \in Nat
  PROVE  /\ Silence(n) \in Seq(Nat) /\ Len(Silence(n)) = n
         /\ \A i \in DOMAIN Silence(n) : Silence(n)[i] = 0
<1>1. Silence(n) = [i \in 1..n |-> 0]
  BY DEF Silence
<1>2. [i \in 1..n |-> 0] \in Seq(Nat)
  OBVIOUS
<1>3. Len([i \in 1..n |-> 0]) = n
  OBVIOUS
<1> QED
  BY <1>1, <1>2, <1>3

(* What an element more, or one less, does to a queue.                     *)
LEMMA LongerQueue ==
  ASSUME NEW S, NEW q \in Seq(S), NEW b \in S
  PROVE  /\ Append(q, b) \in Seq(S) /\ Len(Append(q, b)) = Len(q) + 1
         /\ Len(q) \in Nat
         /\ \A k \in 1..Len(q) : Append(q, b)[k] = q[k]
         /\ Append(q, b)[Len(q) + 1] = b
OBVIOUS

LEMMA ShorterQueue ==
  ASSUME NEW S, NEW q \in Seq(S), q # <<>>
  PROVE  /\ Tail(q) \in Seq(S) /\ Len(Tail(q)) = Len(q) - 1
         /\ Len(q) \in Nat \ {0}
         /\ \A k \in 1..Len(q) - 1 : Tail(q)[k] = q[k + 1]
         /\ Head(q) = q[1] /\ q[1] \in S
OBVIOUS

(* A queue is what stands at its places.                                   *)
LEMMA SameQueue ==
  ASSUME NEW S, NEW p \in Seq(S), NEW q \in Seq(S), Len(p) = Len(q),
         \A k \in 1..Len(p) : p[k] = q[k]
  PROVE  p = q
OBVIOUS

Blocks == Seq(Seq(Nat))

(* The records of m_writeQ: a skip record is silence, and the position of  *)
(* another one is that of the first sample that was not left over.         *)
Records ==
  {b \in [skip : BOOLEAN, pos : Nat, left : Nat, samples : Seq(Nat)] :
     IF b.skip THEN \A i \in DOMAIN b.samples : b.samples[i] = 0
               ELSE b.left < BlockSize /\ b.samples[b.left + 1] = b.pos}

(* The samples of m_writeQ are a queue of blocks of the same length.       *)
LEMMA SamplesOfRecords ==
  ASSUME NEW q \in Seq(Records)
  PROVE  /\ SamplesOf(q) \in Blocks /\ Len(SamplesOf(q)) = Len(q)
         /\ \A k \in 1..Len(q) : SamplesOf(q)[k] = q[k].samples
<1>1. \A k \in 1..Len(q) : q[k].samples \in Seq(Nat)
  <2>1. \A k \in 1..Len(q) : q[k] \in Records
    OBVIOUS
  <2> QED
    BY <2>1 DEF Records
<1>2. SamplesOf(q) = [k \in 1..Len(q) |-> q[k].samples]
  BY DEF SamplesOf
<1>3. [k \in 1..Len(q) |-> q[k].samples] \in Seq(Seq(Nat))
  BY <1>1
<1>4. Len([k \in 1..Len(q) |-> q[k].samples]) = Len(q)
  OBVIOUS
<1> QED
  BY <1>2, <1>3, <1>4 DEF Blocks

(* push() on m_writeQ adds the samples of the record.                      *)
LEMMA SamplesOfLonger ==
  ASSUME NEW q \in Seq(Records), NEW b \in Records
  PROVE  SamplesOf(Append(q, b)) = Append(SamplesOf(q), b.samples)
<1> DEFINE p == Append(q, b)
<1>1. /\ p \in Seq(Records) /\ Len(p) = Len(q) + 1 /\ Len(q) \in Nat
      /\ \A k \in 1..Len(q) : p[k] = q[k]
      /\ p[Len(q) + 1] = b
  BY LongerQueue
<1> HIDE DEF p
<1>2. /\ SamplesOf(p) \in Blocks /\ Len(SamplesOf(p)) = Len(p)
      /\ \A k \in 1..Len(p) : SamplesOf(p)[k] = p[k].samples
  BY <1>1, SamplesOfRecords
<1>3. /\ SamplesOf(q) \in Blocks /\ Len(SamplesOf(q)) = Len(q)
      /\ \A k \in 1..Len(q) : SamplesOf(q)[k] = q[k].samples
  BY SamplesOfRecords
<1> DEFINE s == SamplesOf(q)
           t == Append(s, b.samples)
<1>4. b.samples \in Seq(Nat)
  BY DEF Records
<1>5. /\ t \in Blocks /\ Len(t) = Len(s) + 1 /\ Len(s) \in Nat
      /\ \A k \in 1..Len(s) : t[k] = s[k]
      /\ t[Len(s) + 1] = b.samples
  BY <1>3, <1>4, LongerQueue DEF Blocks
<1> HIDE DEF t
<1>6. \A k \in 1..Len(p) : SamplesOf(p)[k] = t[k]
  <2> TAKE k \in 1..Len(p)
  <2>1. CASE k = Len(q) + 1
    BY <1>1, <1>2, <1>3, <1>5, <2>1
  <2>2. CASE k # Len(q) + 1
    BY <1>1, <1>2, <1>3, <1>5, <2>2
  <2> QED
    BY <2>1, <2>2
<1>7. SamplesOf(p) = t
  BY <1>1, <1>2, <1>3, <1>5, <1>6, SameQueue DEF Blocks
<1> QED
  BY <1>7 DEF p, t

(* pop() on m_writeQ takes the samples of its first record.                *)
LEMMA SamplesOfShorter ==
  ASSUME NEW q \in Seq(Records), q # <<>>
  PROVE  /\ SamplesOf(Tail(q)) = Tail(SamplesOf(q)) /\ SamplesOf(q) # <<>>
         /\ Head(SamplesOf(q)) = Head(q).samples
<1> DEFINE p == Tail(q)
           s == SamplesOf(q)
<1>1. /\ p \in Seq(Records) /\ Len(p) = Len(q) - 1 /\ Len(q) \in Nat \ {0}
      /\ \A k \in 1..Len(q) - 1 : p[k] = q[k + 1]
      /\ Head(q) = q[1]
  BY ShorterQueue
<1> HIDE DEF p
<1>2. /\ SamplesOf(p) \in Blocks /\ Len(SamplesOf(p)) = Len(p)
      /\ \A k \in 1..Len(p) : SamplesOf(p)[k] = p[k].samples
  BY <1>1, SamplesOfRecords
<1>3. /\ s \in Blocks /\ Len(s) = Len(q)
      /\ \A k \in 1..Len(q) : s[k] = q[k].samples
  BY SamplesOfRecords
<1> HIDE DEF s
<1>4. s # <<>>
  BY <1>1, <1>3 DEF Blocks
<1>5. /\ Tail(s) \in Blocks /\ Len(Tail(s)) = Len(s) - 1
      /\ \A k \in 1..Len(s) - 1 : Tail(s)[k] = s[k + 1]
      /\ Head(s) = s[1]
  BY <1>3, <1>4, ShorterQueue DEF Blocks
<1>6. \A k \in 1..Len(p) : SamplesOf(p)[k] = Tail(s)[k]
  BY <1>1, <1>2, <1>3, <1>5
<1>7. SamplesOf(p) = Tail(s)
  BY <1>1, <1>2, <1>3, <1>5, <1>6, SameQueue DEF Blocks
<1> QED
  BY <1>1, <1>3, <1>4, <1>5, <1>7 DEF p, s

-----------------------------------------------------------------------------
(* Where the blocks of a queue begin.                                      *)

(* Block k of q has the places behind r[k], the first one those behind at. *)
Offsets(q, at, r) ==
  /\ r \in Seq(Int) /\ Len(r) = Len(q) + 1 /\ r[1] = at
  /\ \A k \in 1..Len(q) : r[k + 1] = r[k] + Len(q[k])

(* A set of numbers that has a member has a least one.                     *)
LEMMA Smallest ==
  ASSUME NEW T, T \subseteq Nat, T # {}
  PROVE  \E x \in T : \A y \in T : x <= y
<1>1. \E x \in T : \A y \in T : ~ (<<y, x>> \in OpToRel(<, Nat))
  BY NatLessThanWellFounded, WFMin, Zenon
<1>2. PICK x \in T : \A y \in T : ~ (<<y, x>> \in OpToRel(<, Nat))
  BY <1>1
<1>3. \A y \in T : <<y, x>> \in OpToRel(<, Nat) <=> y < x
  BY Zenon DEF OpToRel
<1>4. \A y \in T : ~(y < x)
  BY <1>2, <1>3
<1> QED
  BY <1>4

(* The samples in a queue lie between the place of its first block and the *)
(* place behind its last one.                                              *)
LEMMA TotalIs ==
  ASSUME NEW q \in Blocks, NEW at \in Int, NEW r, Offsets(q, at, r)
  PROVE  /\ Total(q) = r[Len(q) + 1] - at /\ Total(q) \in Int
         /\ r[Len(q) + 1] \in Int
<1> DEFINE n == Len(q)
           f == [k \in 0..n |-> r[k + 1] - at]
           P(g) == g = [k \in 0..n |->
                          IF k = 0 THEN 0 ELSE g[k - 1] + Len(q[k])]
           sum == CHOOSE g : P(g)
<1>1. /\ n \in Nat /\ \A k \in 1..n : Len(q[k]) \in Nat
      /\ \A k \in 1..n + 1 : r[k] \in Int
      /\ \A k \in 1..n : r[k + 1] = r[k] + Len(q[k])
      /\ r[1] = at
  BY DEF Offsets, Blocks
<1> HIDE DEF n
<1>2. P(f)
  <2>1. \A k \in 0..n : f[k] = IF k = 0 THEN 0 ELSE f[k - 1] + Len(q[k])
    BY <1>1
  <2> QED
    BY <2>1
<1>3. P(sum)
  BY <1>2, Zenon
<1> HIDE DEF sum
<1>4. Total(q) = sum[n]
  BY DEF Total, sum, n
<1>5. \A k \in 0..n : sum[k] = IF k = 0 THEN 0 ELSE sum[k - 1] + Len(q[k])
  BY <1>3
<1>6. \A k \in 0..n : f[k] = r[k + 1] - at /\ f[k] \in Int
  BY <1>1
<1>7. \A k \in 1..n : f[k] = f[k - 1] + Len(q[k])
  BY <1>1
<1>8. f[0] = 0
  BY <1>1
<1> HIDE DEF P, f
<1>9. \A k \in 0..n : sum[k] = f[k]
  <2> DEFINE T == {k \in 0..n : sum[k] # f[k]}
  <2> SUFFICES ASSUME T # {}
               PROVE  FALSE
    OBVIOUS
  <2>1. T \subseteq Nat
    OBVIOUS
  <2>2. PICK x \in T : \A y \in T : x <= y
    BY <2>1, Smallest
  <2>3. x \in 0..n /\ sum[x] # f[x]
    OBVIOUS
  <2>4. x # 0
    BY <1>1, <1>5, <1>8, <2>3
  <2>5. x - 1 \in 0..n /\ x \in 1..n /\ x - 1 < x
    BY <1>1, <2>3, <2>4
  <2>6. sum[x - 1] = f[x - 1]
    BY <2>2, <2>5
  <2> QED
    BY <1>5, <1>7, <2>3, <2>4, <2>5, <2>6
<1>10. n \in 0..n /\ n + 1 \in 1..n + 1
  BY <1>1
<1> QED
  BY <1>1, <1>4, <1>6, <1>9, <1>10 DEF n

(* A block at the end of a queue gets the places behind the others.        *)
LEMMA OffsetsLonger ==
  ASSUME NEW q \in Blocks, NEW b \in Seq(Nat), NEW at, NEW r, Offsets(q, at, r)
  PROVE  \E v : /\ Offsets(Append(q, b), at, v)
                /\ v[Len(v)] = r[Len(r)] + Len(b)
                /\ \A k \in 1..Len(q) : v[k] = r[k]
                /\ v[Len(q) + 1] = r[Len(r)]
<1> DEFINE e == r[Len(r)] + Len(b)
           p == Append(q, b)
           v == Append(r, e)
<1>1. /\ r \in Seq(Int) /\ Len(r) = Len(q) + 1 /\ r[1] = at
      /\ \A k \in 1..Len(q) : r[k + 1] = r[k] + Len(q[k])
  BY DEF Offsets
<1>2. /\ p \in Blocks /\ Len(p) = Len(q) + 1 /\ Len(q) \in Nat
      /\ \A k \in 1..Len(q) : p[k] = q[k]
      /\ p[Len(q) + 1] = b
  BY LongerQueue DEF Blocks
<1>3. r[Len(r)] \in Int /\ Len(b) \in Nat
  BY <1>1, <1>2
<1>4. e \in Int
  BY <1>3
<1> HIDE DEF e
<1>5. /\ v \in Seq(Int) /\ Len(v) = Len(r) + 1
      /\ \A k \in 1..Len(r) : v[k] = r[k]
      /\ v[Len(r) + 1] = e
  BY <1>1, <1>4, LongerQueue
<1> HIDE DEF v, p
<1>6. \A k \in 1..Len(p) : v[k + 1] = v[k] + Len(p[k])
  <2> TAKE k \in 1..Len(p)
  <2>1. CASE k = Len(q) + 1
    <3>1. v[k + 1] = r[Len(r)] + Len(b) /\ v[k] = r[Len(r)] /\ p[k] = b
      BY <1>1, <1>2, <1>5, <2>1 DEF e
    <3> QED
      BY <3>1
  <2>2. CASE k # Len(q) + 1
    <3>1. k \in 1..Len(q) /\ k \in 1..Len(r) /\ k + 1 \in 1..Len(r)
      BY <1>1, <1>2, <2>2
    <3> QED
      BY <1>1, <1>2, <1>5, <3>1
  <2> QED
    BY <2>1, <2>2
<1>7. Offsets(p, at, v)
  BY <1>1, <1>2, <1>5, <1>6 DEF Offsets
<1>8. /\ v[Len(v)] = e /\ v[Len(q) + 1] = r[Len(r)]
      /\ \A k \in 1..Len(q) : v[k] = r[k]
  <2>1. /\ Len(v) = Len(r) + 1 /\ Len(r) = Len(q) + 1 /\ Len(q) \in Nat
        /\ Len(r) \in 1..Len(r)
        /\ \A k \in 1..Len(q) : k \in 1..Len(r)
    BY <1>1, <1>2, <1>5
  <2>2. v[Len(r)] = r[Len(r)] /\ v[Len(v)] = e
    BY <1>5, <2>1
  <2> QED
    BY <1>5, <2>1, <2>2
<1> QED
  BY <1>7, <1>8 DEF e, p

(* The blocks behind the first one keep their places.                      *)
LEMMA OffsetsShorter ==
  ASSUME NEW q \in Blocks, q # <<>>, NEW at, NEW r, Offsets(q, at, r)
  PROVE  /\ Offsets(Tail(q), at + Len(Head(q)), Tail(r))
         /\ Tail(r)[Len(Tail(r))] = r[Len(r)]
         /\ \A k \in 1..Len(Tail(q)) : Tail(r)[k] = r[k + 1]
<1> DEFINE v == Tail(r)
           p == Tail(q)
<1>1. /\ r \in Seq(Int) /\ Len(r) = Len(q) + 1 /\ r[1] = at
      /\ \A k \in 1..Len(q) : r[k + 1] = r[k] + Len(q[k])
  BY DEF Offsets
<1>2. /\ p \in Blocks /\ Len(p) = Len(q) - 1 /\ Len(q) \in Nat \ {0}
      /\ \A k \in 1..Len(q) - 1 : p[k] = q[k + 1]
      /\ Head(q) = q[1]
  BY ShorterQueue DEF Blocks
<1>3. r # <<>>
  BY <1>1, <1>2
<1>4. /\ v \in Seq(Int) /\ Len(v) = Len(r) - 1
      /\ \A k \in 1..Len(r) - 1 : v[k] = r[k + 1]
  BY <1>1, <1>3, ShorterQueue
<1> HIDE DEF v, p
<1>5. v[1] = at + Len(Head(q))
  <2>1. 1 \in 1..Len(r) - 1 /\ 1 \in 1..Len(q)
    BY <1>1, <1>2
  <2> QED
    BY <1>1, <1>2, <1>4, <2>1
<1>6. \A k \in 1..Len(p) : v[k + 1] = v[k] + Len(p[k])
  <2> TAKE k \in 1..Len(p)
  <2>1. /\ k + 1 \in 1..Len(q) /\ k \in 1..Len(q) - 1
        /\ k \in 1..Len(r) - 1 /\ k + 1 \in 1..Len(r) - 1
    BY <1>1, <1>2
  <2> QED
    BY <1>1, <1>2, <1>4, <2>1
<1>7. Offsets(p, at + Len(Head(q)), v)
  BY <1>1, <1>2, <1>4, <1>5, <1>6 DEF Offsets
<1>8. v[Len(v)] = r[Len(r)] /\ \A k \in 1..Len(p) : v[k] = r[k + 1]
  <2>1. /\ Len(v) \in 1..Len(r) - 1 /\ Len(v) + 1 = Len(r)
        /\ \A k \in 1..Len(p) : k \in 1..Len(r) - 1
    BY <1>1, <1>2, <1>4
  <2>2. v[Len(v)] = r[Len(v) + 1]
    BY <1>4, <2>1
  <2> QED
    BY <1>4, <2>1, <2>2
<1> QED
  BY <1>7, <1>8 DEF v, p

(* The places of all blocks move by the same distance.                     *)
LEMMA OffsetsMoved ==
  ASSUME NEW q \in Blocks, NEW at \in Int, NEW r, Offsets(q, at, r),
         NEW d \in Int, NEW v, v = [k \in 1..Len(r) |-> r[k] + d]
  PROVE  Offsets(q, at + d, v) /\ Len(v) = Len(r)
<1>1. /\ r \in Seq(Int) /\ Len(r) = Len(q) + 1 /\ r[1] = at
      /\ \A k \in 1..Len(q) : r[k + 1] = r[k] + Len(q[k])
      /\ Len(q) \in Nat /\ \A k \in 1..Len(q) : Len(q[k]) \in Nat
  BY DEF Offsets, Blocks
<1>2. \A k \in 1..Len(r) : r[k] \in Int
  BY <1>1
<1>3. v \in Seq(Int)
  BY <1>1, <1>2
<1>4. Len(v) = Len(r) /\ \A k \in 1..Len(r) : v[k] = r[k] + d
  BY <1>1
<1>5. \A k \in 1..Len(q) : k \in 1..Len(r) /\ k + 1 \in 1..Len(r)
  BY <1>1
<1>6. \A k \in 1..Len(q) : v[k + 1] = v[k] + Len(q[k])
  <2> TAKE k \in 1..Len(q)
  <2>1. v[k] = r[k] + d /\ v[k + 1] = r[k + 1] + d
    BY <1>4, <1>5
  <2>2. r[k] \in Int /\ Len(q[k]) \in Nat /\ r[k + 1] = r[k] + Len(q[k])
    BY <1>1, <1>2, <1>5
  <2> QED
    BY <2>1, <2>2
<1>7. v[1] = at + d
  BY <1>1, <1>4
<1> QED
  BY <1>1, <1>3, <1>4, <1>6, <1>7 DEF Offsets

-----------------------------------------------------------------------------
(* Samples that are in their order, and where they belong.                 *)

(* The samples of s are in order, and those between lo and hi.             *)
Rises(s, lo, hi) ==
  /\ lo <= hi
  /\ \A i \in DOMAIN s :
       s[i] > 0 => /\ lo < s[i] /\ s[i] <= hi
                   /\ \A j \in 1..i - 1 : s[j] < s[i]

(* A sample behind position at is where it belongs, or late and in h.      *)
Fits(s, at, h) ==
  \A i \in DOMAIN s :
    s[i] > 0 => \/ s[i] = at + i - Latency
                \/ s[i] < at + i - Latency /\ s[i] \in h

(* The announced latency is a number of samples.                           *)
LEMMA LatencyNat == Latency \in Nat
BY StreamAssumption DEF Latency

(* Bounds may be moved apart.                                              *)
LEMMA RisesWider ==
  ASSUME NEW s \in Seq(Nat), NEW a \in Nat, NEW b \in Nat, Rises(s, a, b),
         NEW lo \in Nat, NEW hi \in Nat, lo <= a, b <= hi
  PROVE  Rises(s, lo, hi)
<1>1. \A i \in DOMAIN s : s[i] \in Nat
  OBVIOUS
<1> QED
  BY <1>1 DEF Rises

(* Silence is between any bounds.                                          *)
LEMMA RisesNone ==
  ASSUME NEW s, NEW a \in Nat, NEW b \in Nat, a <= b,
         \A i \in DOMAIN s : s[i] = 0
  PROVE  Rises(s, a, b)
BY DEF Rises

(* What is below a bound goes before what is above it.                     *)
LEMMA RisesJoined ==
  ASSUME NEW s \in Seq(Nat), NEW t \in Seq(Nat), NEW a \in Nat, NEW b \in Nat,
         NEW c \in Nat, Rises(s, a, b), Rises(t, b, c)
  PROVE  Rises(s \o t, a, c)
<1> DEFINE u == s \o t
<1>1. /\ u \in Seq(Nat) /\ Len(s) \in Nat /\ Len(t) \in Nat
      /\ DOMAIN u = 1..Len(s) + Len(t)
      /\ \A i \in 1..Len(s) : u[i] = s[i]
      /\ \A i \in 1..Len(t) : u[Len(s) + i] = t[i]
  BY JoinedSamples
<1>2. /\ \A i \in 1..Len(s) : s[i] \in Nat
      /\ \A i \in 1..Len(t) : t[i] \in Nat
      /\ DOMAIN s = 1..Len(s) /\ DOMAIN t = 1..Len(t)
  OBVIOUS
<1> HIDE DEF u
<1>3. ASSUME NEW i \in DOMAIN u, u[i] > 0
      PROVE  a < u[i] /\ u[i] <= c /\ \A j \in 1..i - 1 : u[j] < u[i]
  <2>1. CASE i \in 1..Len(s)
    <3>1. \A j \in 1..i - 1 : j \in 1..Len(s)
      BY <1>1, <2>1
    <3> QED
      BY <1>1, <1>2, <1>3, <2>1, <3>1 DEF Rises
  <2>2. CASE i \notin 1..Len(s)
    <3> DEFINE m == i - Len(s)
    <3>1. m \in 1..Len(t) /\ i = Len(s) + m
      BY <1>1, <2>2
    <3> HIDE DEF m
    <3>2. u[i] = t[m] /\ t[m] > 0 /\ b < t[m] /\ t[m] <= c /\ t[m] \in Nat
      BY <1>1, <1>2, <1>3, <3>1 DEF Rises
    <3>3. ASSUME NEW j \in 1..i - 1
          PROVE  u[j] < t[m]
      <4>1. CASE j \in 1..Len(s)
        <5>1. u[j] = s[j] /\ s[j] \in Nat
          BY <1>1, <1>2, <4>1
        <5>2. s[j] > 0 => s[j] <= b
          BY <1>2, <4>1 DEF Rises
        <5> QED
          BY <3>2, <5>1, <5>2
      <4>2. CASE j \notin 1..Len(s)
        <5>1. j - Len(s) \in 1..m - 1 /\ j = Len(s) + (j - Len(s))
          BY <1>1, <3>1, <4>2
        <5>2. j - Len(s) \in 1..Len(t)
          BY <1>1, <3>1, <5>1
        <5>3. u[j] = t[j - Len(s)]
          BY <1>1, <5>1, <5>2
        <5> QED
          BY <1>2, <3>1, <3>2, <5>1, <5>3 DEF Rises
      <4> QED
        BY <4>1, <4>2
    <3> QED
      BY <3>2, <3>3 DEF Rises
  <2> QED
    BY <2>1, <2>2
<1>4. a <= c
  BY DEF Rises
<1> QED
  BY <1>3, <1>4 DEF Rises, u

(* Two pieces that fit their places fit as one.                            *)
LEMMA FitsJoined ==
  ASSUME NEW s \in Seq(Nat), NEW t \in Seq(Nat), NEW at \in Int, NEW h,
         Fits(s, at, h), Fits(t, at + Len(s), h)
  PROVE  Fits(s \o t, at, h)
<1> DEFINE u == s \o t
<1>1. /\ u \in Seq(Nat) /\ Len(s) \in Nat /\ Len(t) \in Nat
      /\ DOMAIN u = 1..Len(s) + Len(t)
      /\ \A i \in 1..Len(s) : u[i] = s[i]
      /\ \A i \in 1..Len(t) : u[Len(s) + i] = t[i]
  BY JoinedSamples
<1>2. DOMAIN s = 1..Len(s) /\ DOMAIN t = 1..Len(t)
  OBVIOUS
<1> HIDE DEF u
<1>3. ASSUME NEW i \in DOMAIN u, u[i] > 0
      PROVE  u[i] = at + i - Latency \/ (u[i] < at + i - Latency /\ u[i] \in h)
  <2>1. CASE i \in 1..Len(s)
    BY <1>1, <1>2, <1>3, <2>1 DEF Fits
  <2>2. CASE i \notin 1..Len(s)
    <3> DEFINE m == i - Len(s)
    <3>1. m \in 1..Len(t) /\ i = Len(s) + m
      BY <1>1, <2>2
    <3>2. (at + Len(s)) + m - Latency = at + i - Latency
      BY <1>1, <3>1, LatencyNat
    <3> HIDE DEF m
    <3>3. u[i] = t[m] /\ m \in DOMAIN t
      BY <1>1, <1>2, <3>1
    <3> QED
      BY <1>3, <3>2, <3>3 DEF Fits
  <2> QED
    BY <2>1, <2>2
<1> QED
  BY <1>3 DEF Fits, u

(* A part of a block.                                                      *)
LEMMA RisesPart ==
  ASSUME NEW s \in Seq(Nat), NEW n \in 0..Len(s), NEW a \in Nat, NEW b \in Nat,
         Rises(s, a, b)
  PROVE  Rises(SubSeq(s, 1, n), a, b) /\ Rises(Consume(s, n), a, b)
<1> DEFINE t == SubSeq(s, 1, n)
           u == Consume(s, n)
<1>1. /\ t \in Seq(Nat) /\ DOMAIN t = 1..n /\ \A i \in 1..n : t[i] = s[i]
      /\ u \in Seq(Nat) /\ DOMAIN u = 1..Len(s) - n
      /\ \A i \in 1..Len(s) - n : u[i] = s[n + i]
      /\ Len(s) \in Nat /\ n \in Nat
  BY SplitSamples
<1>2. DOMAIN s = 1..Len(s)
  OBVIOUS
<1> HIDE DEF t, u
<1>3. Rises(t, a, b)
  BY <1>1, <1>2 DEF Rises
<1>4. Rises(u, a, b)
  <2>1. ASSUME NEW i \in DOMAIN u, u[i] > 0
        PROVE  a < u[i] /\ u[i] <= b /\ \A j \in 1..i - 1 : u[j] < u[i]
    <3>0. i \in 1..Len(s) - n
      BY <1>1
    <3>1. n + i \in 1..Len(s) /\ u[i] = s[n + i]
      BY <1>1, <3>0
    <3>2. /\ a < s[n + i] /\ s[n + i] <= b
          /\ \A j \in 1..(n + i) - 1 : s[j] < s[n + i]
      BY <1>2, <2>1, <3>1 DEF Rises
    <3>3. ASSUME NEW j \in 1..i - 1
          PROVE  u[j] < u[i]
      <4>0. n \in Nat /\ Len(s) \in Nat
        BY <1>1
      <4>1. n + j \in 1..(n + i) - 1
        BY <3>0, <4>0
      <4>2. j \in 1..Len(s) - n
        BY <3>0, <4>0
      <4>3. u[j] = s[n + j]
        BY <1>1, <4>2
      <4> QED
        BY <3>1, <3>2, <4>1, <4>3
    <3> QED
      BY <3>1, <3>2, <3>3
  <2> QED
    BY <2>1 DEF Rises
<1> QED
  BY <1>3, <1>4 DEF t, u

LEMMA FitsPart ==
  ASSUME NEW s \in Seq(Nat), NEW n \in 0..Len(s), NEW at \in Int, NEW h,
         Fits(s, at, h)
  PROVE  Fits(SubSeq(s, 1, n), at, h) /\ Fits(Consume(s, n), at + n, h)
<1> DEFINE t == SubSeq(s, 1, n)
           u == Consume(s, n)
<1>1. /\ t \in Seq(Nat) /\ DOMAIN t = 1..n /\ \A i \in 1..n : t[i] = s[i]
      /\ u \in Seq(Nat) /\ DOMAIN u = 1..Len(s) - n
      /\ \A i \in 1..Len(s) - n : u[i] = s[n + i]
      /\ Len(s) \in Nat /\ n \in Nat
  BY SplitSamples
<1>2. DOMAIN s = 1..Len(s)
  OBVIOUS
<1> HIDE DEF t, u
<1>3. Fits(t, at, h)
  BY <1>1, <1>2 DEF Fits
<1>4. Fits(u, at + n, h)
  <2>1. ASSUME NEW i \in DOMAIN u
        PROVE  /\ n + i \in DOMAIN s /\ u[i] = s[n + i]
               /\ (at + n) + i - Latency = at + (n + i) - Latency
    <3>1. i \in 1..Len(s) - n /\ Len(s) \in Nat /\ n \in Nat
      BY <1>1
    <3>2. n + i \in 1..Len(s)
      BY <3>1
    <3>3. u[i] = s[n + i]
      BY <1>1, <3>1
    <3>4. (at + n) + i - Latency = at + (n + i) - Latency
      BY <3>1, LatencyNat
    <3> QED
      BY <1>2, <3>2, <3>3, <3>4
  <2> QED
    BY <2>1 DEF Fits
<1> QED
  BY <1>3, <1>4 DEF t, u

(* Between the first n samples of a block and the others there is a bound. *)
LEMMA RisesSplit ==
  ASSUME NEW s \in Seq(Nat), NEW n \in 0..Len(s), NEW a \in Nat, NEW b \in Nat,
         Rises(s, a, b)
  PROVE  \E m \in Nat : Rises(SubSeq(s, 1, n), a, m) /\ Rises(Consume(s, n), m, b)
<1> DEFINE t == SubSeq(s, 1, n)
           u == Consume(s, n)
           M == {m \in a..b : \A i \in 1..n : s[i] <= m}
<1>1. /\ t \in Seq(Nat) /\ DOMAIN t = 1..n /\ \A i \in 1..n : t[i] = s[i]
      /\ u \in Seq(Nat) /\ DOMAIN u = 1..Len(s) - n
      /\ \A i \in 1..Len(s) - n : u[i] = s[n + i]
      /\ Len(s) \in Nat /\ n \in Nat
  BY SplitSamples
<1>2. DOMAIN s = 1..Len(s) /\ \A i \in 1..Len(s) : s[i] \in Nat
  OBVIOUS
<1> HIDE DEF t, u
<1>3. Rises(t, a, b) /\ Rises(u, a, b) /\ a <= b
  <2>1. Rises(t, a, b) /\ Rises(u, a, b)
    BY RisesPart DEF t, u
  <2> QED
    BY <2>1 DEF Rises
<1>4. \A i \in 1..n : s[i] <= b
  <2> TAKE i \in 1..n
  <2>1. i \in 1..Len(s)
    BY <1>1
  <2>2. s[i] \in Nat /\ i \in DOMAIN s
    BY <1>2, <2>1
  <2>3. s[i] > 0 => s[i] <= b
    BY <2>2 DEF Rises
  <2> QED
    BY <2>2, <2>3
<1>5. b \in M /\ M \subseteq Nat
  BY <1>3, <1>4
<1>6. PICK m \in M : \A x \in M : m <= x
  BY <1>5, Smallest
<1>7. m \in a..b /\ m \in Nat /\ \A i \in 1..n : s[i] <= m
  OBVIOUS
<1>8. m = a \/ m - 1 \notin M
  <2>1. ~(m <= m - 1)
    BY <1>7
  <2> QED
    BY <1>6, <2>1
<1>9. m = a \/ \E i \in 1..n : ~(s[i] <= m - 1)
  BY <1>7, <1>8
<1> HIDE DEF M
<1>10. Rises(t, a, m)
  BY <1>1, <1>2, <1>3, <1>7 DEF Rises
<1>11. Rises(u, m, b)
  <2>1. ASSUME NEW k \in DOMAIN u, u[k] > 0
        PROVE  m < u[k]
    <3>0. k \in 1..Len(s) - n
      BY <1>1
    <3>a. n \in Nat /\ Len(s) \in Nat
      BY <1>1
    <3>b. n + k \in 1..Len(s)
      BY <3>0, <3>a
    <3>1. n + k \in 1..Len(s) /\ u[k] = s[n + k] /\ u[k] \in Nat
      BY <1>1, <1>2, <3>0, <3>b
    <3>2. CASE m = a
      BY <1>3, <2>1, <3>2 DEF Rises
    <3>3. ASSUME NEW i \in 1..n, ~(s[i] <= m - 1)
          PROVE  m < u[k]
      <4>1. i \in 1..(n + k) - 1 /\ i \in 1..Len(s)
        BY <3>0, <3>a, <3>b
      <4>2. s[i] < s[n + k]
        BY <1>2, <2>1, <3>1, <4>1 DEF Rises
      <4>3. s[i] >= m /\ s[i] \in Nat
        BY <1>2, <1>7, <3>3, <4>1
      <4> QED
        BY <1>2, <1>7, <3>1, <4>2, <4>3
    <3> QED
      BY <1>9, <3>2, <3>3
  <2> QED
    BY <1>3, <1>7, <2>1 DEF Rises
<1> QED
  BY <1>7, <1>10, <1>11 DEF t, u

(* The latest sample of a block is not past its bound.                     *)
LEMMA LatestBound ==
  ASSUME NEW s \in Seq(Nat), NEW a \in Nat, NEW b \in Nat, Rises(s, a, b)
  PROVE  Latest(s, a) \in Nat /\ Latest(s, a) <= b /\ a <= Latest(s, a)
<1> DEFINE S == {a} \cup Range(s)
           U == {m \in a..b : \A x \in S : x <= m}
<1>1. \A i \in DOMAIN s : s[i] \in Nat
  OBVIOUS
<1>2. Range(s) = {s[i] : i \in DOMAIN s}
  BY DEF Range
<1>3. S \subseteq Nat /\ a \in S /\ a <= b
  BY <1>1, <1>2 DEF Rises
<1>4. \A x \in S : x <= b
  BY <1>1, <1>2 DEF Rises
<1> HIDE DEF S
<1>5. b \in U /\ U \subseteq Nat
  BY <1>3, <1>4
<1>6. PICK m \in U : \A x \in U : m <= x
  BY <1>5, Smallest
<1>7. m \in Nat /\ a <= m /\ \A x \in S : x <= m
  BY <1>5, <1>6
<1>8. m \in S
  <2> SUFFICES ASSUME m \notin S
               PROVE  FALSE
    OBVIOUS
  <2>1. \A x \in S : x <= m - 1
    <3> TAKE x \in S
    <3>1. x # m /\ x <= m /\ x \in Nat
      BY <1>3, <1>7
    <3> QED
      BY <1>7, <3>1
  <2>2. m - 1 \in a..b
    <3>1. a <= m - 1
      BY <1>3, <2>1
    <3> QED
      BY <1>5, <1>6, <1>7, <3>1
  <2>3. m - 1 \in U
    BY <2>1, <2>2
  <2> QED
    BY <1>6, <1>7, <2>3
<1>9. \E x \in S : \A y \in S : x >= y
  BY <1>3, <1>7, <1>8
<1>10. Max(S) \in S /\ \A y \in S : Max(S) >= y
  BY <1>9 DEF Max
<1>11. Latest(s, a) = Max(S)
  BY DEF Latest, S
<1> QED
  BY <1>3, <1>4, <1>10, <1>11


-----------------------------------------------------------------------------
(* Bounds between the blocks of a queue: block k lies between r[k] and     *)
(* r[k + 1].                                                               *)
Ladder(q, r, top) ==
  /\ r \in Seq(0..top) /\ Len(r) = Len(q) + 1
  /\ \A k \in 1..Len(q) : Rises(q[k], r[k], r[k + 1])

(* The lowest and the highest bound of a queue.                            *)
LEMMA LadderEnds ==
  ASSUME NEW q \in Blocks, NEW top \in Nat, NEW r, Ladder(q, r, top)
  PROVE  /\ r[1] \in 0..top /\ r[Len(r)] \in 0..top
         /\ r[1] \in Nat /\ r[Len(r)] \in Nat
         /\ \A k \in 1..Len(q) :
              r[k] \in Nat /\ r[k + 1] \in Nat /\ r[k + 1] <= top
<1>1. r \in Seq(0..top) /\ Len(r) = Len(q) + 1 /\ Len(q) \in Nat
  BY DEF Ladder, Blocks
<1>2. \A k \in 1..Len(r) : r[k] \in 0..top
  BY <1>1
<1>3. /\ 1 \in 1..Len(r) /\ Len(r) \in 1..Len(r)
      /\ \A k \in 1..Len(q) : k \in 1..Len(r) /\ k + 1 \in 1..Len(r)
  BY <1>1
<1>4. \A x \in 0..top : x \in Nat /\ x <= top
  OBVIOUS
<1> QED
  BY <1>2, <1>3, <1>4

(* A queue stays below a higher top.                                       *)
LEMMA LadderHigher ==
  ASSUME NEW q, NEW top \in Nat, NEW hi \in Nat, top <= hi, NEW r,
         Ladder(q, r, top)
  PROVE  Ladder(q, r, hi)
<1>1. r \in Seq(0..top)
  BY DEF Ladder
<1>2. r \in Seq(0..hi)
  BY <1>1
<1> QED
  BY <1>2 DEF Ladder

(* A block above all bounds may go to the end of the queue.                *)
LEMMA LadderLonger ==
  ASSUME NEW q \in Blocks, NEW b \in Seq(Nat), NEW top \in Nat, NEW r,
         Ladder(q, r, top), NEW m \in 0..top, Rises(b, r[Len(r)], m)
  PROVE  /\ Ladder(Append(q, b), Append(r, m), top)
         /\ Append(r, m)[1] = r[1]
         /\ Append(r, m)[Len(Append(r, m))] = m
<1> DEFINE p == Append(q, b)
           v == Append(r, m)
<1>1. /\ r \in Seq(0..top) /\ Len(r) = Len(q) + 1
      /\ \A k \in 1..Len(q) : Rises(q[k], r[k], r[k + 1])
  BY DEF Ladder
<1>2. /\ p \in Blocks /\ Len(p) = Len(q) + 1 /\ Len(q) \in Nat
      /\ \A k \in 1..Len(q) : p[k] = q[k]
      /\ p[Len(q) + 1] = b
  BY LongerQueue DEF Blocks
<1>3. /\ v \in Seq(0..top) /\ Len(v) = Len(r) + 1 /\ Len(r) \in Nat
      /\ \A k \in 1..Len(r) : v[k] = r[k]
      /\ v[Len(r) + 1] = m
  BY <1>1, LongerQueue
<1> HIDE DEF p, v
<1>4. \A k \in 1..Len(p) : Rises(p[k], v[k], v[k + 1])
  <2> TAKE k \in 1..Len(p)
  <2>1. CASE k = Len(q) + 1
    <3>1. k = Len(r) /\ k \in 1..Len(r) /\ k + 1 = Len(r) + 1
      BY <1>1, <1>2, <2>1
    <3>2. p[k] = b /\ v[k] = r[Len(r)] /\ v[k + 1] = m
      BY <1>2, <1>3, <2>1, <3>1
    <3> QED
      BY <3>2
  <2>2. CASE k # Len(q) + 1
    <3>1. k \in 1..Len(q) /\ k \in 1..Len(r) /\ k + 1 \in 1..Len(r)
      BY <1>1, <1>2, <2>2
    <3>2. p[k] = q[k] /\ v[k] = r[k] /\ v[k + 1] = r[k + 1]
      BY <1>2, <1>3, <3>1
    <3> QED
      BY <1>1, <3>1, <3>2
  <2> QED
    BY <2>1, <2>2
<1>5. Ladder(p, v, top)
  BY <1>1, <1>2, <1>3, <1>4 DEF Ladder
<1>6. 1 \in 1..Len(r)
  BY <1>1, <1>2
<1>7. v[1] = r[1] /\ v[Len(v)] = m
  BY <1>3, <1>6
<1> QED
  BY <1>5, <1>7 DEF p, v

(* The bounds of a queue without its first block.                          *)
LEMMA LadderShorter ==
  ASSUME NEW q \in Blocks, q # <<>>, NEW top \in Nat, NEW r, Ladder(q, r, top)
  PROVE  /\ Ladder(Tail(q), Tail(r), top)
         /\ Tail(r)[1] = r[2] /\ Tail(r)[Len(Tail(r))] = r[Len(r)]
         /\ Rises(Head(q), r[1], r[2]) /\ Head(q) \in Seq(Nat)
         /\ r[1] \in Nat /\ r[2] \in Nat
<1> DEFINE v == Tail(r)
           p == Tail(q)
<1>1. /\ r \in Seq(0..top) /\ Len(r) = Len(q) + 1
      /\ \A k \in 1..Len(q) : Rises(q[k], r[k], r[k + 1])
  BY DEF Ladder
<1>2. /\ p \in Blocks /\ Len(p) = Len(q) - 1 /\ Len(q) \in Nat \ {0}
      /\ \A k \in 1..Len(q) - 1 : p[k] = q[k + 1]
      /\ Head(q) = q[1] /\ Head(q) \in Seq(Nat)
  BY ShorterQueue DEF Blocks
<1>3. r # <<>>
  BY <1>1, <1>2
<1>4. /\ v \in Seq(0..top) /\ Len(v) = Len(r) - 1
      /\ \A k \in 1..Len(r) - 1 : v[k] = r[k + 1]
  BY <1>1, <1>3, ShorterQueue
<1> HIDE DEF v, p
<1>5. \A k \in 1..Len(p) : Rises(p[k], v[k], v[k + 1])
  <2> TAKE k \in 1..Len(p)
  <2>1. /\ k + 1 \in 1..Len(q) /\ k \in 1..Len(q) - 1
        /\ k \in 1..Len(r) - 1 /\ k + 1 \in 1..Len(r) - 1
    BY <1>1, <1>2
  <2>2. p[k] = q[k + 1] /\ v[k] = r[k + 1] /\ v[k + 1] = r[k + 1 + 1]
    BY <1>2, <1>4, <2>1
  <2> QED
    BY <1>1, <2>1, <2>2
<1>6. Ladder(p, v, top)
  BY <1>1, <1>2, <1>4, <1>5 DEF Ladder
<1>7. /\ 1 \in 1..Len(q) /\ 1 \in 1..Len(r) - 1 /\ Len(v) \in 1..Len(r) - 1
      /\ Len(v) + 1 = Len(r)
  BY <1>1, <1>2, <1>4
<1>8. v[1] = r[2] /\ v[Len(v)] = r[Len(r)]
  <2>1. v[1] = r[1 + 1] /\ v[Len(v)] = r[Len(v) + 1]
    BY <1>4, <1>7
  <2> QED
    BY <1>7, <2>1
<1>9. Rises(Head(q), r[1], r[2])
  <2>1. Rises(q[1], r[1], r[1 + 1])
    BY <1>1, <1>7
  <2> QED
    BY <1>2, <2>1
<1>10. r[1] \in Nat /\ r[2] \in Nat
  <2>1. \A k \in 1..Len(r) : r[k] \in 0..top
    BY <1>1
  <2>2. 1 \in 1..Len(r) /\ 2 \in 1..Len(r)
    BY <1>1, <1>2
  <2>3. r[1] \in 0..top /\ r[2] \in 0..top
    BY <2>1, <2>2
  <2> QED
    BY <2>3
<1> QED
  BY <1>2, <1>6, <1>8, <1>9, <1>10 DEF v, p

(* The place behind the last block is a number.                            *)
LEMMA OffsetEnds ==
  ASSUME NEW q \in Blocks, NEW at, NEW r, Offsets(q, at, r)
  PROVE  /\ r[1] = at /\ at \in Int /\ r[Len(r)] \in Int /\ Len(r) = Len(q) + 1
         /\ \A k \in 1..Len(q) : r[k] \in Int
<1>1. r \in Seq(Int) /\ Len(r) = Len(q) + 1 /\ Len(q) \in Nat /\ r[1] = at
  BY DEF Offsets, Blocks
<1>2. \A k \in 1..Len(r) : r[k] \in Int
  BY <1>1
<1>3. 1 \in 1..Len(r) /\ Len(r) \in 1..Len(r) /\ 1..Len(q) \subseteq 1..Len(r)
  BY <1>1
<1> QED
  BY <1>1, <1>2, <1>3

(* More samples may be late.                                               *)
LEMMA FitsMore ==
  ASSUME NEW s, NEW at, NEW h, NEW g, h \subseteq g, Fits(s, at, h)
  PROVE  Fits(s, at, g)
BY Zenon DEF Fits

(* Samples of which it is known are late when their place moves on.        *)
LEMMA FitsLater ==
  ASSUME NEW s \in Seq(Nat), NEW at \in Int, NEW d \in Nat, NEW h, NEW g,
         \A i \in DOMAIN s : s[i] > 0 => s[i] \in g, Fits(s, at, h)
  PROVE  Fits(s, at + d, g)
<1>1. ASSUME NEW i \in DOMAIN s, s[i] > 0
      PROVE  \/ s[i] = at + d + i - Latency
             \/ s[i] < at + d + i - Latency /\ s[i] \in g
  <2>1. s[i] \in Nat /\ i \in Nat /\ Latency \in Nat /\ s[i] \in g
    BY <1>1, LatencyNat
  <2>2. s[i] = at + i - Latency \/ s[i] < at + i - Latency
    BY <1>1 DEF Fits
  <2> QED
    BY <2>1, <2>2
<1> QED
  BY <1>1 DEF Fits

(* Silence fits everywhere.                                                *)
LEMMA FitsNone ==
  ASSUME NEW s, NEW at, NEW h, \A i \in DOMAIN s : s[i] = 0
  PROVE  Fits(s, at, h)
BY DEF Fits

(* An empty buffer.                                                        *)
LEMMA NoSamples ==
  /\ <<>> \in Seq(Nat) /\ Len(<<>>) = 0
  /\ \A i \in DOMAIN <<>> : <<>>[i] = 0
OBVIOUS

(* The numbers of the samples of a block of the host.                      *)
LEMMA HostNumbers ==
  ASSUME NEW n \in Nat, sent \in Nat
  PROVE  /\ HostBlock(n) \in Seq(Nat) /\ Len(HostBlock(n)) = n
         /\ DOMAIN HostBlock(n) = 1..n
         /\ \A i \in 1..n : HostBlock(n)[i] = sent + i
         /\ Rises(HostBlock(n), sent, sent + n)
<1> DEFINE s == HostBlock(n)
<1>1. s = [i \in 1..n |-> sent + i]
  BY DEF HostBlock
<1>2. [i \in 1..n |-> sent + i] \in Seq(Nat)
  OBVIOUS
<1>3. Len([i \in 1..n |-> sent + i]) = n
  OBVIOUS
<1>4. DOMAIN s = 1..n /\ \A i \in 1..n : s[i] = sent + i
  BY <1>1
<1>5. s \in Seq(Nat) /\ Len(s) = n
  BY <1>1, <1>2, <1>3
<1> HIDE DEF s
<1>6. Rises(s, sent, sent + n)
  BY <1>4 DEF Rises
<1> QED
  BY <1>4, <1>5, <1>6 DEF s

(* The latency is one block at least.                                      *)
LEMMA LatencyBig == BlockSize <= Latency
<1>1. \A m, b \in Nat : m # 0 => b <= m * b
  OBVIOUS
<1> QED
  BY <1>1, StreamAssumption DEF Latency

-----------------------------------------------------------------------------
(* The inductive invariant.                                                *)

(* Types, with what the steps of the threads say of what they hold.        *)
StreamTypes ==
  /\ fixed \in BOOLEAN
  /\ daw \in [step : {"host", "read", "failed"}, size : 0..BlockSize]
  /\ daw.step = "host" => daw.size = 0
  /\ writeBuffer \in [samples : Seq(Nat), pos : Nat, left : Nat, fresh : BOOLEAN]
  /\ Len(writeBuffer.samples) < BlockSize
  /\ \A i \in DOMAIN writeBuffer.samples : writeBuffer.samples[i] > 0
  /\ ~writeBuffer.fresh =>
       /\ writeBuffer.left < Len(writeBuffer.samples)
       /\ writeBuffer.samples[writeBuffer.left + 1] = writeBuffer.pos
  /\ writeQ \in Seq(Records)
  /\ io \in [step : {"idle", "drop", "putback", "push"}, samples : Seq(Nat),
             owed : Nat]
  /\ io.step = "idle" => io.samples = <<>>
  /\ IF io.step = "putback" THEN Len(io.samples) <= io.owed ELSE io.owed = 0
  /\ readQ \in Blocks /\ readBuffer \in Seq(Nat)
  /\ heard \in [at : Nat, samples : Seq(Nat), after : Nat]
  /\ dropSamples \in Nat /\ sent \in 0..MaxSamples
  /\ played \in Nat /\ sent = played + daw.size
  /\ held \subseteq 1..MaxSamples /\ lost \in Nat

(* What is heard lies before a, and bounds that only rise lie between what *)
(* waits: in m_readBuffer, m_readQ, the io thread, m_writeQ, m_writeBuffer.*)
Risen(a, r, w) ==
  /\ a \in 0..sent
  /\ Ladder(readQ, r, sent) /\ Ladder(SamplesOf(writeQ), w, sent)
  /\ Rises(heard.samples, heard.after, a)
  /\ Rises(readBuffer, a, r[1])
  /\ Rises(io.samples, r[Len(r)], w[1])
  /\ Rises(writeBuffer.samples, w[Len(w)], sent)

(* Where every block will be heard, and that its samples fit there.        *)
Fitting(r, w) ==
  /\ Fits(heard.samples, heard.at, held)
  /\ Fits(readBuffer, played, held)
  /\ \A k \in 1..Len(readQ) : Fits(readQ[k], r[k], held)
  /\ io.step = "push" => Fits(io.samples, r[Len(r)], held)
  /\ io.step = "drop" => Fits(io.samples, r[Len(r)] - dropSamples, held)
  /\ \A k \in 1..Len(writeQ) : Fits(SamplesOf(writeQ)[k], w[k], held)
  /\ Fits(writeBuffer.samples, w[Len(w)], held)

(* Where the first block of m_writeQ will be heard: behind the block of    *)
(* the io thread, less the drops that are still to be made.                *)
WriteStart(r) == r[Len(r)] + Len(io.samples) - io.owed - dropSamples

(* Every block has its place, and the line ends at the latency, less what  *)
(* was lost.                                                               *)
Placed(r, w) ==
  /\ Offsets(readQ, played + Len(readBuffer), r)
  /\ Offsets(SamplesOf(writeQ), WriteStart(r), w)
  /\ w[Len(w)] + Len(writeBuffer.samples) + lost = Latency + sent
  /\ lost = 0 => Fitting(r, w)

(* The inductive invariant.                                                *)
StreamInv ==
  /\ StreamTypes
  /\ \E a, r, w : Risen(a, r, w)
  /\ \E r, w : Placed(r, w)

(* What the types say of the numbers in the state.                         *)
LEMMA Numbers ==
  ASSUME StreamTypes
  PROVE  /\ readBuffer \in Seq(Nat) /\ Len(readBuffer) \in Nat
         /\ readQ \in Blocks /\ Len(readQ) \in Nat
         /\ writeQ \in Seq(Records) /\ Len(writeQ) \in Nat
         /\ SamplesOf(writeQ) \in Blocks /\ Len(SamplesOf(writeQ)) = Len(writeQ)
         /\ writeBuffer.samples \in Seq(Nat) /\ Len(writeBuffer.samples) \in Nat
         /\ io.samples \in Seq(Nat) /\ Len(io.samples) \in Nat
         /\ io.owed \in Nat /\ dropSamples \in Nat /\ played \in Nat
         /\ sent \in Nat /\ sent <= MaxSamples /\ MaxSamples \in Nat
         /\ lost \in Nat /\ daw.size \in Nat /\ daw.size <= BlockSize
         /\ heard.at \in Nat /\ heard.samples \in Seq(Nat) /\ heard.after \in Nat
         /\ sent = played + daw.size /\ BlockSize \in Nat /\ Latency \in Nat
<1>1. writeQ \in Seq(Records)
  BY DEF StreamTypes
<1>2. /\ SamplesOf(writeQ) \in Blocks /\ Len(SamplesOf(writeQ)) = Len(writeQ)
      /\ Len(writeQ) \in Nat
  BY <1>1, SamplesOfRecords
<1>3. /\ readBuffer \in Seq(Nat) /\ readQ \in Blocks
      /\ Len(readBuffer) \in Nat /\ Len(readQ) \in Nat
  BY DEF StreamTypes, Blocks
<1>4. /\ writeBuffer.samples \in Seq(Nat) /\ io.samples \in Seq(Nat)
      /\ io.owed \in Nat /\ daw.size \in 0..BlockSize
      /\ heard.at \in Nat /\ heard.samples \in Seq(Nat) /\ heard.after \in Nat
  BY DEF StreamTypes
<1>5. Len(writeBuffer.samples) \in Nat /\ Len(io.samples) \in Nat
  BY <1>4
<1>6. BlockSize \in Nat /\ MaxSamples \in Nat
  BY StreamAssumption
<1>7. /\ dropSamples \in Nat /\ played \in Nat /\ lost \in Nat
      /\ sent \in 0..MaxSamples /\ sent = played + daw.size
  BY DEF StreamTypes
<1> QED
  BY <1>1, <1>2, <1>3, <1>4, <1>5, <1>6, <1>7, LatencyNat

(* What one bound tells of the samples below it.                           *)
LEMMA Below ==
  ASSUME NEW s \in Seq(Nat), NEW a \in Nat, NEW b \in Nat, Rises(s, a, b),
         NEW top \in Nat, b <= top
  PROVE  \A x \in Range(s) : x # 0 => x \in 1..top
<1>1. Range(s) = {s[i] : i \in DOMAIN s}
  BY DEF Range
<1>2. \A i \in DOMAIN s : s[i] \in Nat /\ (s[i] > 0 => s[i] <= b)
  BY DEF Rises
<1>3. \A i \in DOMAIN s : s[i] # 0 => s[i] \in 1..top
  BY <1>2
<1> QED
  BY <1>1, <1>3

(* A new streamer has NUM_OF_BUFFERS blocks of silence in m_readQ.         *)
LEMMA SamplesInitially == SamplesInit => StreamInv
<1> SUFFICES ASSUME SamplesInit
             PROVE  StreamInv
  OBVIOUS
<1> DEFINE N == NUM_OF_BUFFERS
           B == BlockSize
           q == [i \in 1..N |-> Silence(B)]
<1>0. N \in Nat \ {0} /\ B \in Nat \ {0} /\ MaxSamples \in Nat
  BY StreamAssumption
<1>1. Silence(B) \in Seq(Nat) /\ Len(Silence(B)) = B
      /\ \A i \in DOMAIN Silence(B) : Silence(B)[i] = 0
  BY <1>0, Silent
<1>2. q \in Blocks /\ Len(q) = N /\ \A k \in 1..N : q[k] = Silence(B)
  BY <1>0, <1>1 DEF Blocks
<1>3. /\ readQ = q /\ writeQ = <<>> /\ readBuffer = <<>> /\ played = 0
      /\ sent = 0 /\ dropSamples = 0 /\ lost = 0 /\ held = {}
      /\ io = [step |-> "idle", samples |-> <<>>, owed |-> 0]
      /\ heard = [at |-> 0, samples |-> <<>>, after |-> 0]
      /\ writeBuffer = [samples |-> <<>>, pos |-> 0, left |-> 0, fresh |-> TRUE]
      /\ daw = [step |-> "host", size |-> 0] /\ fixed \in BOOLEAN
  BY StreamAssumption DEF SamplesInit
<1> HIDE DEF q, N, B
<1>4. <<>> \in Seq(Records) /\ <<>> \in Seq(Nat) /\ Len(<<>>) = 0
  OBVIOUS
<1>5. SamplesOf(writeQ) = <<>>
  <2>1. SamplesOf(writeQ) \in Blocks /\ Len(SamplesOf(writeQ)) = 0
    BY <1>3, <1>4, SamplesOfRecords
  <2> QED
    BY <2>1 DEF Blocks
<1>6. StreamTypes
  <2>1. daw \in [step : {"host", "read", "failed"}, size : 0..BlockSize]
    BY <1>0, <1>3 DEF B
  <2>2. io \in [step : {"idle", "drop", "putback", "push"}, samples : Seq(Nat),
             owed : Nat]
    BY <1>3, <1>4
  <2>3. heard \in [at : Nat, samples : Seq(Nat), after : Nat]
    BY <1>3, <1>4
  <2>4. writeBuffer \in [samples : Seq(Nat), pos : Nat, left : Nat, fresh : BOOLEAN]
    BY <1>3, <1>4
  <2>5. Len(writeBuffer.samples) < BlockSize
    BY <1>0, <1>3, <1>4 DEF B
  <2>6. \A i \in DOMAIN writeBuffer.samples : writeBuffer.samples[i] > 0
    BY <1>3
  <2> QED
    BY <1>0, <1>2, <1>3, <1>4, <2>1, <2>2, <2>3, <2>4, <2>5, <2>6 DEF StreamTypes
<1>7. \E a, r, w : Risen(a, r, w)
  <2> DEFINE r == [k \in 1..N + 1 |-> 0]
             w == <<0>>
  <2>1. r \in Seq(0..0) /\ Len(r) = N + 1 /\ \A k \in 1..N + 1 : r[k] = 0
    BY <1>0
  <2>2. w \in Seq(0..0) /\ Len(w) = 1 /\ w[1] = 0
    OBVIOUS
  <2> HIDE DEF r, w
  <2>3. \A k \in 1..N : Rises(q[k], r[k], r[k + 1])
    <3> TAKE k \in 1..N
    <3>1. q[k] = Silence(B) /\ r[k] = 0 /\ r[k + 1] = 0
      BY <1>0, <1>2, <2>1
    <3> QED
      BY <1>1, <3>1, RisesNone
  <2>4. Ladder(q, r, 0)
    BY <1>2, <2>1, <2>3 DEF Ladder
  <2>5. Ladder(<<>>, w, 0)
    BY <2>2 DEF Ladder
  <2>6. Rises(<<>>, 0, 0)
    BY DEF Rises
  <2>7. r[1] = 0 /\ r[Len(r)] = 0 /\ w[Len(w)] = 0
    BY <1>0, <2>1, <2>2
  <2>8. Risen(0, r, w)
    BY <1>3, <1>5, <2>2, <2>4, <2>5, <2>6, <2>7 DEF Risen
  <2> QED
    BY <2>8
<1>8. \E r, w : Placed(r, w)
  <2> DEFINE r == [k \in 1..N + 1 |-> (k - 1) * B]
             w == <<N * B>>
  <2>0. \A k \in Nat : k * B \in Nat /\ (k + 1) * B = k * B + B
    BY <1>0
  <2>1. \A k \in 1..N + 1 : (k - 1) * B \in Int
    BY <1>0, <2>0
  <2>2. r \in Seq(Int) /\ Len(r) = N + 1
    BY <1>0, <2>1
  <2>3. \A k \in 1..N + 1 : r[k] = (k - 1) * B
    OBVIOUS
  <2>4. w \in Seq(Int) /\ Len(w) = 1 /\ w[1] = N * B
    BY <1>0, <2>0
  <2> HIDE DEF r, w
  <2>5. \A k \in 1..N : r[k + 1] = r[k] + B
    <3> TAKE k \in 1..N
    <3>1. r[k] = (k - 1) * B /\ r[k + 1] = k * B
      <4>1. k \in 1..N + 1 /\ k + 1 \in 1..N + 1 /\ (k + 1) - 1 = k
        BY <1>0
      <4> QED
        BY <2>3, <4>1
    <3>2. k * B = (k - 1) * B + B
      <4>1. k - 1 \in Nat /\ (k - 1) + 1 = k
        OBVIOUS
      <4> QED
        BY <2>0, <4>1
    <3> QED
      BY <3>1, <3>2
  <2>6. r[1] = 0 /\ r[Len(r)] = N * B
    <3>1. 1 \in 1..N + 1 /\ N + 1 \in 1..N + 1 /\ (N + 1) - 1 = N /\ 1 - 1 = 0
      BY <1>0
    <3>2. r[1] = 0 * B /\ r[N + 1] = N * B
      BY <2>3, <3>1
    <3> QED
      BY <1>0, <2>2, <3>2
  <2>7. Offsets(q, 0, r)
    BY <1>1, <1>2, <2>2, <2>5, <2>6 DEF Offsets
  <2>8. Offsets(<<>>, N * B, w)
    BY <2>4 DEF Offsets
  <2>9. N * B = Latency /\ N * B \in Nat
    BY <1>0, <2>0 DEF Latency, N, B
  <2>10. WriteStart(r) = N * B
    BY <1>3, <1>4, <2>6, <2>9 DEF WriteStart
  <2>11. Fitting(r, w)
    <3>1. \A at : Fits(<<>>, at, held)
      BY FitsNone
    <3>2. \A k \in 1..Len(readQ) : Fits(readQ[k], r[k], held)
      <4> TAKE k \in 1..Len(readQ)
      <4>1. readQ[k] = Silence(B)
        BY <1>2, <1>3
      <4> QED
        BY <1>1, <4>1, FitsNone
    <3>3. 1..Len(writeQ) = {}
      BY <1>3, <1>4
    <3> QED
      BY <1>3, <3>1, <3>2, <3>3 DEF Fitting
  <2>12. Placed(r, w)
    <3>1. played + Len(readBuffer) = 0
      BY <1>3, <1>4
    <3>2. w[Len(w)] + Len(writeBuffer.samples) + lost = Latency + sent
      BY <1>3, <1>4, <2>4, <2>9
    <3> QED
      BY <1>3, <1>5, <2>7, <2>8, <2>10, <2>11, <3>1, <3>2 DEF Placed
  <2> QED
    BY <2>12
<1> QED
  BY <1>6, <1>7, <1>8 DEF StreamInv

-----------------------------------------------------------------------------
(* The audio thread: read().                                               *)

(* A block moves from m_readQ to m_readBuffer and keeps its place.         *)
LEMMA PopInv == ASSUME StreamInv, Pop PROVE StreamInv'
<1>1. StreamTypes
  BY DEF StreamInv
<1>2. /\ readQ # <<>> /\ readQ' = Tail(readQ)
      /\ readBuffer' = readBuffer \o Head(readQ)
      /\ UNCHANGED <<fixed, daw, writeBuffer, writeQ, io, dropSamples, sent,
                     played, heard, held, lost>>
  BY DEF Pop, Collected, history
<1>3. /\ Tail(readQ) \in Blocks /\ Len(Tail(readQ)) = Len(readQ) - 1
      /\ \A k \in 1..Len(readQ) - 1 : Tail(readQ)[k] = readQ[k + 1]
      /\ Head(readQ) = readQ[1] /\ Head(readQ) \in Seq(Nat)
      /\ Len(readQ) \in Nat \ {0}
  BY <1>1, <1>2, Numbers, ShorterQueue DEF Blocks
<1>4. /\ readBuffer \o Head(readQ) \in Seq(Nat)
      /\ Len(readBuffer \o Head(readQ)) = Len(readBuffer) + Len(Head(readQ))
      /\ Len(Head(readQ)) \in Nat
  BY <1>1, <1>3, Numbers, JoinedSamples
<1>5. StreamTypes'
  BY <1>1, <1>2, <1>3, <1>4 DEF StreamTypes
<1>6. SamplesOf(writeQ') = SamplesOf(writeQ)
  BY <1>2
<1>7. (\E a, r, w : Risen(a, r, w))'
  <2>1. PICK a, r, w : Risen(a, r, w)
    BY DEF StreamInv
  <2>2. a \in Nat /\ Ladder(readQ, r, sent) /\ Rises(readBuffer, a, r[1])
    BY <1>1, <2>1, Numbers DEF Risen
  <2>3. /\ Ladder(Tail(readQ), Tail(r), sent)
        /\ Tail(r)[1] = r[2] /\ Tail(r)[Len(Tail(r))] = r[Len(r)]
        /\ Rises(Head(readQ), r[1], r[2])
        /\ r[1] \in Nat /\ r[2] \in Nat
    <3>1. readQ \in Blocks /\ sent \in Nat
      BY <1>1, Numbers
    <3> QED
      BY <1>2, <2>2, <3>1, LadderShorter
  <2>4. Rises(readBuffer \o Head(readQ), a, r[2])
    BY <1>1, <1>3, <2>2, <2>3, Numbers, RisesJoined
  <2>5. Risen(a, Tail(r), w)'
    BY <1>2, <1>6, <2>1, <2>3, <2>4 DEF Risen
  <2> QED
    BY <2>5
<1>8. (\E r, w : Placed(r, w))'
  <2>1. PICK r, w : Placed(r, w)
    BY DEF StreamInv
  <2>2. Offsets(readQ, played + Len(readBuffer), r)
    BY <2>1 DEF Placed
  <2>3. /\ Offsets(Tail(readQ), played + Len(readBuffer) + Len(Head(readQ)),
                   Tail(r))
        /\ Tail(r)[Len(Tail(r))] = r[Len(r)]
        /\ \A k \in 1..Len(Tail(readQ)) : Tail(r)[k] = r[k + 1]
    BY <1>1, <1>2, <2>2, Numbers, OffsetsShorter
  <2>4. played + Len(readBuffer) + Len(Head(readQ))
          = played' + Len(readBuffer')
    BY <1>1, <1>2, <1>4, Numbers
  <2>5. Offsets(readQ', (played + Len(readBuffer))', Tail(r))
    BY <1>2, <2>3, <2>4
  <2>6. WriteStart(Tail(r))' = WriteStart(r)
    BY <1>2, <2>3 DEF WriteStart
  <2>7. ASSUME Fitting(r, w)
        PROVE  Fitting(Tail(r), w)'
    <3>1. r[1] = played + Len(readBuffer) /\ played \in Int
      BY <1>1, <2>2, Numbers DEF Offsets
    <3>2. Fits(readBuffer, played, held)
      BY <2>7 DEF Fitting
    <3>3. Fits(Head(readQ), r[1], held)
      <4>1. 1 \in 1..Len(readQ)
        BY <1>3
      <4> QED
        BY <1>3, <2>7, <4>1 DEF Fitting
    <3>4. Fits(readBuffer \o Head(readQ), played, held)
      BY <1>1, <1>3, <3>1, <3>2, <3>3, Numbers, FitsJoined
    <3>5. \A k \in 1..Len(Tail(readQ)) : Fits(Tail(readQ)[k], Tail(r)[k], held)
      <4> TAKE k \in 1..Len(Tail(readQ))
      <4>1. k \in 1..Len(readQ) - 1 /\ k + 1 \in 1..Len(readQ)
        BY <1>3
      <4>2. Fits(readQ[k + 1], r[k + 1], held)
        BY <2>7, <4>1 DEF Fitting
      <4> QED
        BY <1>3, <2>3, <4>1, <4>2
    <3> QED
      BY <1>2, <1>6, <2>3, <2>7, <3>4, <3>5 DEF Fitting
  <2>8. Placed(Tail(r), w)'
    BY <1>2, <1>6, <2>1, <2>5, <2>6, <2>7 DEF Placed
  <2> QED
    BY <2>8
<1> QED
  BY <1>5, <1>7, <1>8 DEF StreamInv

(* A timeout moves no sample.                                              *)
LEMMA WaitTimeoutInv == ASSUME StreamInv, WaitTimeout PROVE StreamInv'
<1>1. /\ UNCHANGED <<fixed, writeBuffer, writeQ, io, readQ, readBuffer,
                     dropSamples, sent, played, heard, held, lost>>
      /\ daw.step = "read" /\ daw' = [daw EXCEPT !.step = "failed"]
  BY DEF WaitTimeout, Wants, stream, history
<1>2. StreamTypes
  BY DEF StreamInv
<1>3. daw \in [step : {"host", "read", "failed"}, size : 0..BlockSize]
  BY <1>2 DEF StreamTypes
<1>4. /\ daw' \in [step : {"host", "read", "failed"}, size : 0..BlockSize]
      /\ daw'.step # "host" /\ daw'.size = daw.size
  BY <1>1, <1>3
<1>5. StreamTypes'
  BY <1>1, <1>2, <1>4 DEF StreamTypes
<1>6. \A a, r, w : Risen(a, r, w)' <=> Risen(a, r, w)
  BY <1>1 DEF Risen, SamplesOf
<1>7. \A r, w : Placed(r, w)' <=> Placed(r, w)
  BY <1>1 DEF Placed, Fitting, WriteStart, SamplesOf
<1> QED
  BY <1>5, <1>6, <1>7 DEF StreamInv

(* The switch moves no sample.                                             *)
LEMMA SwitchFixedInv == ASSUME StreamInv, SwitchFixed PROVE StreamInv'
<1>1. /\ UNCHANGED <<daw, writeBuffer, writeQ, io, readQ, readBuffer,
                     dropSamples, sent, played, heard, held, lost>>
      /\ fixed' = ~fixed
  BY DEF SwitchFixed, stream
<1>2. StreamTypes
  BY DEF StreamInv
<1>3. fixed' \in BOOLEAN
  BY <1>1
<1>5. StreamTypes'
  BY <1>1, <1>2, <1>3 DEF StreamTypes
<1>6. \A a, r, w : Risen(a, r, w)' <=> Risen(a, r, w)
  BY <1>1 DEF Risen, SamplesOf
<1>7. \A r, w : Placed(r, w)' <=> Placed(r, w)
  BY <1>1 DEF Placed, Fitting, WriteStart, SamplesOf
<1> QED
  BY <1>5, <1>6, <1>7 DEF StreamInv

(* Nothing past the drops is past what the host has sent.                  *)
LEMMA PastSent ==
  ASSUME StreamTypes, NEW a, NEW r, NEW w, Risen(a, r, w)
  PROVE  \A x \in Past : x # 0 => x \in 1..MaxSamples
<1>1. /\ a \in Nat /\ r[1] \in 0..sent /\ r[Len(r)] \in 0..sent
      /\ \A k \in 1..Len(readQ) :
           r[k] \in Nat /\ r[k + 1] \in Nat /\ r[k + 1] <= sent
      /\ w[1] \in 0..sent
  <2>1. Ladder(readQ, r, sent) /\ Ladder(SamplesOf(writeQ), w, sent)
    BY DEF Risen
  <2>2. a \in 0..sent
    BY DEF Risen
  <2>3. readQ \in Blocks /\ SamplesOf(writeQ) \in Blocks /\ sent \in Nat
    BY Numbers
  <2>4. /\ r[1] \in 0..sent /\ r[Len(r)] \in 0..sent
        /\ \A k \in 1..Len(readQ) :
             r[k] \in Nat /\ r[k + 1] \in Nat /\ r[k + 1] <= sent
    BY <2>1, <2>3, LadderEnds
  <2>5. w[1] \in 0..sent
    BY <2>1, <2>3, LadderEnds
  <2> QED
    BY <2>2, <2>3, <2>4, <2>5
<1>2. \A b \in 0..sent : b \in Nat /\ b <= MaxSamples
  BY Numbers
<1>3. \A x \in Range(readBuffer) : x # 0 => x \in 1..MaxSamples
  <2>1. Rises(readBuffer, a, r[1])
    BY DEF Risen
  <2> QED
    BY <1>1, <1>2, <2>1, Numbers, Below
<1>4. \A k \in DOMAIN readQ : \A x \in Range(readQ[k]) :
        x # 0 => x \in 1..MaxSamples
  <2> TAKE k \in DOMAIN readQ
  <2>0. readQ \in Seq(Seq(Nat))
    BY Numbers DEF Blocks
  <2>1. k \in 1..Len(readQ) /\ readQ[k] \in Seq(Nat)
    BY <2>0
  <2>2. Rises(readQ[k], r[k], r[k + 1])
    BY <2>1 DEF Risen, Ladder
  <2>3. r[k] \in Nat /\ r[k + 1] \in Nat /\ r[k + 1] <= MaxSamples
    <3>1. sent \in Nat /\ sent <= MaxSamples /\ MaxSamples \in Nat
      BY Numbers
    <3>2. r[k] \in Nat /\ r[k + 1] \in Nat /\ r[k + 1] <= sent
      BY <1>1, <2>1
    <3> QED
      BY <3>1, <3>2
  <2>4. MaxSamples \in Nat
    BY Numbers
  <2> QED
    BY <2>1, <2>2, <2>3, <2>4, Below
<1>5. \A x \in Range(io.samples) : x # 0 => x \in 1..MaxSamples
  <2>1. Rises(io.samples, r[Len(r)], w[1])
    BY DEF Risen
  <2> QED
    BY <1>1, <1>2, <2>1, Numbers, Below
<1>6. ASSUME NEW x \in Past
      PROVE  \/ x \in Range(readBuffer) \/ x \in Range(io.samples)
             \/ \E k \in DOMAIN readQ : x \in Range(readQ[k])
  <2> DEFINE queued == UNION {Range(readQ[k]) : k \in DOMAIN readQ}
             hand == IF io.step = "push" THEN Range(io.samples) ELSE {}
  <2>1. x \in Range(readBuffer) \/ x \in queued \/ x \in hand
    BY Zenon DEF Past
  <2>2. hand \subseteq Range(io.samples)
    OBVIOUS
  <2>3. x \in queued => \E k \in DOMAIN readQ : x \in Range(readQ[k])
    OBVIOUS
  <2> QED
    BY <2>1, <2>2, <2>3, Zenon
<1> QED
  BY <1>3, <1>4, <1>5, <1>6, Zenon

(* A read() that gives up moves the places past the drops on by its size:  *)
(* what has one is late from now on, and is held.  The new drops leave all *)
(* other places where they were.                                           *)
LEMMA GiveUpInv == ASSUME StreamInv, GiveUp PROVE StreamInv'
<1> DEFINE d == daw.size
           g == (held \cup Past) \ {0}
<1>1. StreamTypes
  BY DEF StreamInv
<1>2. /\ daw.step = "failed" /\ daw' = [step |-> "host", size |-> 0]
      /\ played' = played + d /\ dropSamples' = dropSamples + d
      /\ held' = g
      /\ UNCHANGED <<fixed, writeBuffer, writeQ, io, readQ, readBuffer, sent,
                     heard, lost>>
  BY DEF GiveUp, Came
<1>3. d \in Nat /\ sent = played + d /\ dropSamples \in Nat /\ played \in Nat
  BY <1>1, Numbers
<1>4. PICK a, ra, wa : Risen(a, ra, wa)
  BY DEF StreamInv
<1>5. held \subseteq g /\ g \subseteq 1..MaxSamples
  <2>1. \A x \in Past : x # 0 => x \in 1..MaxSamples
    BY <1>1, <1>4, PastSent
  <2>2. held \subseteq 1..MaxSamples
    BY <1>1 DEF StreamTypes
  <2>3. 0 \notin held
    BY <2>2, StreamAssumption
  <2>4. held \subseteq g
    BY <2>3
  <2>5. g \subseteq 1..MaxSamples
    BY <2>1, <2>2, Zenon
  <2> QED
    BY <2>4, <2>5
<1>6. \A x \in Past : x > 0 => x \in g
  OBVIOUS
<1> HIDE DEF g, d
<1>7. StreamTypes'
  <2>1. /\ daw' \in [step : {"host", "read", "failed"}, size : 0..BlockSize]
        /\ daw'.size = 0
    BY <1>2, StreamAssumption
  <2>2. played' \in Nat /\ dropSamples' \in Nat /\ sent' = played' + daw'.size
    BY <1>2, <1>3, <2>1
  <2>3. held' \subseteq 1..MaxSamples
    BY <1>2, <1>5
  <2> QED
    BY <1>1, <1>2, <2>1, <2>2, <2>3 DEF StreamTypes
<1>8. (\E b, r, w : Risen(b, r, w))'
  <2>1. Risen(a, ra, wa)'
    BY <1>2, <1>4 DEF Risen, SamplesOf
  <2> QED
    BY <2>1
<1>9. (\E r, w : Placed(r, w))'
  <2>1. PICK r, w : Placed(r, w)
    BY DEF StreamInv
  <2> DEFINE at == played + Len(readBuffer)
  <2>0. PICK v : v = [k \in 1..Len(r) |-> r[k] + d]
    OBVIOUS
  <2>2. Offsets(readQ, at, r) /\ at \in Int /\ d \in Int
    BY <1>1, <1>3, <2>1, Numbers DEF Placed
  <2>3. Offsets(readQ, at + d, v) /\ Len(v) = Len(r)
    <3>1. readQ \in Blocks
      BY <1>1, Numbers
    <3> QED
      BY <2>0, <2>2, <3>1, OffsetsMoved
  <2>4. /\ r[Len(r)] \in Int /\ Len(r) = Len(readQ) + 1
        /\ \A k \in 1..Len(readQ) : r[k] \in Int
    BY <1>1, <2>2, Numbers, OffsetEnds
  <2>5. v[Len(v)] = r[Len(r)] + d /\ \A k \in 1..Len(readQ) : v[k] = r[k] + d
    <3>1. Len(r) \in 1..Len(r) /\ 1..Len(readQ) \subseteq 1..Len(r)
      BY <1>1, <2>4, Numbers
    <3> QED
      BY <2>0, <2>3, <3>1
  <2>6. at + d = (played + Len(readBuffer))'
    BY <1>1, <1>2, <1>3, Numbers
  <2>7. WriteStart(v)' = WriteStart(r)
    <3>1. Len(io.samples) \in Nat /\ io.owed \in Nat
      BY <1>1, Numbers
    <3>2. (r[Len(r)] + d) + Len(io.samples) - io.owed - (dropSamples + d)
            = r[Len(r)] + Len(io.samples) - io.owed - dropSamples
      BY <1>3, <2>4, <3>1
    <3> QED
      BY <1>2, <2>5, <3>2 DEF WriteStart
  <2>8. ASSUME Fitting(r, w)
        PROVE  Fitting(v, w)'
    <3>1. Fits(heard.samples, heard.at, g)
      BY <1>5, <2>8, FitsMore DEF Fitting
    <3>2. Fits(readBuffer, played + d, g)
      <4>1. \A i \in DOMAIN readBuffer : readBuffer[i] > 0 => readBuffer[i] \in g
        BY <1>6 DEF Past, Range
      <4>2. Fits(readBuffer, played, held) /\ played \in Int
        BY <1>3, <2>8 DEF Fitting
      <4> QED
        BY <1>1, <1>3, <4>1, <4>2, Numbers, FitsLater
    <3>3. \A k \in 1..Len(readQ) : Fits(readQ[k], v[k], g)
      <4> TAKE k \in 1..Len(readQ)
      <4>0. k \in DOMAIN readQ /\ readQ[k] \in Seq(Nat)
        BY <1>1, Numbers DEF Blocks
      <4>1. \A i \in DOMAIN readQ[k] : readQ[k][i] > 0 => readQ[k][i] \in g
        <5>1. \A x \in Range(readQ[k]) : x \in Past
          BY <4>0, Zenon DEF Past
        <5>2. \A i \in DOMAIN readQ[k] : readQ[k][i] \in Past
          BY <5>1, Zenon DEF Range
        <5> QED
          BY <1>6, <5>2
      <4>2. Fits(readQ[k], r[k], held)
        BY <2>8 DEF Fitting
      <4>3. r[k] \in Int
        BY <2>4
      <4>4. Fits(readQ[k], r[k] + d, g)
        BY <1>3, <4>0, <4>1, <4>2, <4>3, FitsLater
      <4> QED
        BY <2>5, <4>4
    <3>4. io.step = "push" => Fits(io.samples, r[Len(r)] + d, g)
      <4> SUFFICES ASSUME io.step = "push"
                   PROVE  Fits(io.samples, r[Len(r)] + d, g)
        OBVIOUS
      <4>1. \A i \in DOMAIN io.samples : io.samples[i] > 0 => io.samples[i] \in g
        <5> DEFINE hand == IF io.step = "push" THEN Range(io.samples) ELSE {}
        <5>0. hand = Range(io.samples)
          OBVIOUS
        <5>a. hand \subseteq Past
          BY Zenon DEF Past
        <5>1. Range(io.samples) \subseteq Past
          BY <5>0, <5>a, Zenon
        <5>2. \A i \in DOMAIN io.samples : io.samples[i] \in Range(io.samples)
          BY Zenon DEF Range
        <5>3. \A i \in DOMAIN io.samples : io.samples[i] \in Past
          BY <5>1, <5>2, Zenon
        <5> QED
          BY <1>6, <5>3
      <4>2. Fits(io.samples, r[Len(r)], held)
        BY <2>8 DEF Fitting
      <4>3. io.samples \in Seq(Nat)
        BY <1>1, Numbers
      <4> QED
        BY <1>3, <2>4, <4>1, <4>2, <4>3, FitsLater
    <3>5. io.step = "drop" =>
            Fits(io.samples, v[Len(v)] - (dropSamples + d), g)
      <4>1. v[Len(v)] - (dropSamples + d) = r[Len(r)] - dropSamples
        BY <1>3, <2>4, <2>5
      <4> QED
        BY <1>5, <2>8, <4>1, FitsMore DEF Fitting
    <3>6. \A k \in 1..Len(writeQ) : Fits(SamplesOf(writeQ)[k], w[k], g)
      BY <1>5, <2>8, FitsMore DEF Fitting
    <3>7. Fits(writeBuffer.samples, w[Len(w)], g)
      BY <1>5, <2>8, FitsMore DEF Fitting
    <3>8. SamplesOf(writeQ)' = SamplesOf(writeQ)
      BY <1>2 DEF SamplesOf
    <3> QED
      BY <1>2, <2>5, <3>1, <3>2, <3>3, <3>4, <3>5, <3>6, <3>7, <3>8, Zenon DEF Fitting
  <2>9. SamplesOf(writeQ)' = SamplesOf(writeQ)
    BY <1>2 DEF SamplesOf
  <2>10. Placed(v, w)'
    <3>1. /\ Offsets(SamplesOf(writeQ), WriteStart(r), w)
          /\ w[Len(w)] + Len(writeBuffer.samples) + lost = Latency + sent
          /\ lost = 0 => Fitting(r, w)
      BY <2>1 DEF Placed
    <3>2. Offsets(readQ', (played + Len(readBuffer))', v)
      BY <1>2, <2>3, <2>6
    <3>3. Offsets(SamplesOf(writeQ)', WriteStart(v)', w)
      BY <2>7, <2>9, <3>1
    <3>4. (w[Len(w)] + Len(writeBuffer.samples) + lost = Latency + sent)'
      BY <1>2, <3>1
    <3>5. (lost = 0)' => Fitting(v, w)'
      BY <1>2, <2>8, <3>1
    <3> QED
      BY <3>2, <3>3, <3>4, <3>5 DEF Placed
  <2> QED
    BY <2>10
<1> QED
  BY <1>7, <1>8, <1>9 DEF StreamInv

(* What is heard has its place at the front of m_readBuffer.               *)
LEMMA DeliverInv == ASSUME StreamInv, Deliver PROVE StreamInv'
<1> DEFINE d == daw.size
           s == SubSeq(readBuffer, 1, d)
           u == Consume(readBuffer, d)
           top == Latest(heard.samples, heard.after)
<1>1. StreamTypes
  BY DEF StreamInv
<1>2. /\ d <= Len(readBuffer) /\ daw' = [step |-> "host", size |-> 0]
      /\ played' = played + d /\ readBuffer' = u
      /\ heard' = [at |-> played, samples |-> s, after |-> top]
      /\ UNCHANGED <<fixed, writeBuffer, writeQ, io, readQ, dropSamples, sent,
                     held, lost>>
  BY DEF Deliver, Came
<1>3. /\ d \in Nat /\ d \in 0..Len(readBuffer) /\ readBuffer \in Seq(Nat)
      /\ sent = played + d /\ played \in Nat /\ Len(readBuffer) \in Nat
  BY <1>1, <1>2, Numbers
<1>4. /\ s \in Seq(Nat) /\ u \in Seq(Nat) /\ Len(u) = Len(readBuffer) - d
  BY <1>3, SplitSamples
<1>5. PICK a, r, w : Risen(a, r, w)
  BY DEF StreamInv
<1>6. /\ a \in Nat /\ a <= sent /\ r[1] \in 0..sent /\ r[1] \in Nat
  <2>1. Ladder(readQ, r, sent) /\ a \in 0..sent /\ sent \in Nat
    BY <1>1, <1>5, Numbers DEF Risen
  <2>2. r[1] \in 0..sent /\ r[1] \in Nat
    BY <1>1, <2>1, Numbers, LadderEnds
  <2> QED
    BY <2>1, <2>2
<1>7. top \in Nat /\ top <= a
  <2>1. Rises(heard.samples, heard.after, a)
    BY <1>5 DEF Risen
  <2> QED
    BY <1>1, <1>6, <2>1, Numbers, LatestBound
<1>8. PICK m \in Nat : Rises(s, a, m) /\ Rises(u, m, r[1])
  <2>1. Rises(readBuffer, a, r[1])
    BY <1>5 DEF Risen
  <2> QED
    BY <1>3, <1>6, <2>1, RisesSplit
<1> HIDE DEF s, u, top, d
<1>9. StreamTypes'
  <2>1. /\ daw' \in [step : {"host", "read", "failed"}, size : 0..BlockSize]
        /\ daw'.size = 0
    BY <1>2, StreamAssumption
  <2>2. played' \in Nat /\ sent' = played' + daw'.size
    BY <1>2, <1>3, <2>1
  <2>3. heard' \in [at : Nat, samples : Seq(Nat), after : Nat]
    BY <1>2, <1>3, <1>4, <1>7
  <2> QED
    BY <1>1, <1>2, <1>4, <2>1, <2>2, <2>3 DEF StreamTypes
<1>10. SamplesOf(writeQ)' = SamplesOf(writeQ)
  BY <1>2 DEF SamplesOf
<1>11. (\E b, p, v : Risen(b, p, v))'
  <2>1. Rises(s, top, m)
    <3>1. m <= m
      OBVIOUS
    <3> QED
      BY <1>4, <1>6, <1>7, <1>8, <3>1, RisesWider
  <2>2. m \in 0..sent
    <3>1. m <= r[1]
      BY <1>8 DEF Rises
    <3>2. sent \in Nat
      BY <1>1, Numbers
    <3>3. PICK x \in Nat : x = r[1] /\ x <= sent
      BY <1>6, <3>2
    <3>4. m \in Nat /\ m <= x
      BY <3>1, <3>3
    <3> QED
      BY <3>2, <3>3, <3>4
  <2>3. Risen(m, r, w)'
    BY <1>2, <1>5, <1>8, <1>10, <2>1, <2>2 DEF Risen
  <2> QED
    BY <2>3
<1>12. (\E p, v : Placed(p, v))'
  <2>1. PICK p, v : Placed(p, v)
    BY DEF StreamInv
  <2>2. (played + Len(readBuffer))' = played + Len(readBuffer)
    BY <1>2, <1>3, <1>4
  <2>3. WriteStart(p)' = WriteStart(p)
    BY <1>2 DEF WriteStart
  <2>4. ASSUME Fitting(p, v)
        PROVE  Fitting(p, v)'
    <3>1. Fits(readBuffer, played, held) /\ played \in Int
      BY <1>3, <2>4 DEF Fitting
    <3>2. Fits(s, played, held) /\ Fits(u, played + d, held)
      BY <1>3, <3>1, FitsPart DEF s, u
    <3> QED
      BY <1>2, <1>10, <2>4, <3>2 DEF Fitting
  <2>5. Placed(p, v)'
    BY <1>2, <1>10, <2>1, <2>2, <2>3, <2>4 DEF Placed
  <2> QED
    BY <2>5
<1> QED
  BY <1>9, <1>11, <1>12 DEF StreamInv

-----------------------------------------------------------------------------
(* The io thread.                                                          *)

(* A block moves from m_writeQ into the hands of the io thread.            *)
LEMMA FetchInv == ASSUME StreamInv, Fetch PROVE StreamInv'
<1> DEFINE b == Head(writeQ)
           q == SamplesOf(writeQ)
<1>1. StreamTypes
  BY DEF StreamInv
<1>2. /\ io.step = "idle" /\ writeQ # <<>> /\ writeQ' = Tail(writeQ)
      /\ io' = [step |-> IF b.skip THEN "push" ELSE "drop",
                samples |-> b.samples, owed |-> 0]
      /\ UNCHANGED <<fixed, daw, writeBuffer, readQ, readBuffer, dropSamples,
                     sent, played, heard, held, lost>>
  BY DEF Fetch, history
<1>3. /\ Tail(writeQ) \in Seq(Records) /\ Len(Tail(writeQ)) = Len(writeQ) - 1
      /\ Len(writeQ) \in Nat \ {0} /\ b \in Records
  <2>1. writeQ \in Seq(Records)
    BY <1>1, Numbers
  <2> QED
    BY <1>2, <2>1, ShorterQueue
<1>4. /\ b.samples \in Seq(Nat) /\ b.skip \in BOOLEAN
      /\ b.skip => \A i \in DOMAIN b.samples : b.samples[i] = 0
  BY <1>3 DEF Records
<1>5. /\ SamplesOf(Tail(writeQ)) = Tail(q) /\ q # <<>> /\ Head(q) = b.samples
      /\ q \in Blocks /\ Len(q) = Len(writeQ)
  <2>1. writeQ \in Seq(Records) /\ q \in Blocks /\ Len(q) = Len(writeQ)
    BY <1>1, Numbers
  <2> QED
    BY <1>2, <2>1, SamplesOfShorter
<1>6. io.samples = <<>> /\ Len(io.samples) = 0 /\ io.owed = 0
  BY <1>1, <1>2 DEF StreamTypes
<1>7. /\ dropSamples \in Nat /\ sent \in Nat /\ readQ \in Blocks
      /\ Len(b.samples) \in Nat
  BY <1>1, <1>4, Numbers
<1>8. /\ io'.samples = b.samples /\ io'.owed = 0
      /\ io'.step = (IF b.skip THEN "push" ELSE "drop")
  BY <1>2
<1>9. SamplesOf(writeQ)' = Tail(q)
  BY <1>2, <1>5
<1>10. q = SamplesOf(writeQ)
  OBVIOUS
<1> HIDE DEF b, q
<1>11. StreamTypes'
  <2>1. io' \in [step : {"idle", "drop", "putback", "push"}, samples : Seq(Nat),
                 owed : Nat]
    BY <1>2, <1>4
  <2>2. io'.step # "idle" /\ io'.step # "putback"
    BY <1>8
  <2> QED
    BY <1>1, <1>2, <1>3, <1>8, <2>1, <2>2 DEF StreamTypes
<1>12. (\E a, r, w : Risen(a, r, w))'
  <2>1. PICK a, r, w : Risen(a, r, w)
    BY DEF StreamInv
  <2>2. Ladder(q, w, sent) /\ Ladder(readQ, r, sent)
    BY <1>10, <2>1 DEF Risen
  <2>3. /\ Ladder(Tail(q), Tail(w), sent)
        /\ Tail(w)[1] = w[2] /\ Tail(w)[Len(Tail(w))] = w[Len(w)]
        /\ Rises(b.samples, w[1], w[2])
        /\ w[1] \in Nat /\ w[2] \in Nat
    BY <1>5, <1>7, <2>2, LadderShorter
  <2>4. r[Len(r)] \in Nat
    BY <1>7, <2>2, LadderEnds
  <2>5. r[Len(r)] <= w[1]
    BY <2>1 DEF Risen, Rises
  <2>6. Rises(b.samples, r[Len(r)], w[2])
    <3>1. w[2] <= w[2]
      BY <2>3
    <3> QED
      BY <1>4, <2>3, <2>4, <2>5, <3>1, RisesWider
  <2>7. Risen(a, r, Tail(w))'
    BY <1>2, <1>8, <1>9, <2>1, <2>3, <2>6 DEF Risen
  <2> QED
    BY <2>7
<1>13. (\E r, w : Placed(r, w))'
  <2>1. PICK r, w : Placed(r, w)
    BY DEF StreamInv
  <2>2. Offsets(q, WriteStart(r), w) /\ Offsets(readQ, played + Len(readBuffer), r)
    BY <1>10, <2>1 DEF Placed
  <2>3. /\ Offsets(Tail(q), WriteStart(r) + Len(b.samples), Tail(w))
        /\ Tail(w)[Len(Tail(w))] = w[Len(w)]
        /\ \A k \in 1..Len(Tail(q)) : Tail(w)[k] = w[k + 1]
    BY <1>5, <2>2, OffsetsShorter
  <2>4. r[Len(r)] \in Int /\ w[1] = WriteStart(r)
    BY <1>5, <1>7, <2>2, OffsetEnds
  <2>5. WriteStart(r) = r[Len(r)] - dropSamples
    BY <1>6, <1>7, <2>4 DEF WriteStart
  <2>6. WriteStart(r)' = WriteStart(r) + Len(b.samples)
    <3>1. WriteStart(r)' = r[Len(r)] + Len(b.samples) - 0 - dropSamples
      BY <1>2, <1>8 DEF WriteStart
    <3> QED
      BY <1>7, <2>4, <2>5, <3>1
  <2>7. ASSUME Fitting(r, w)
        PROVE  Fitting(r, Tail(w))'
    <3>1. io'.step = "push" => Fits(b.samples, r[Len(r)], held)
      BY <1>4, <1>8, FitsNone
    <3>2. Fits(b.samples, w[1], held)
      <4>1. 1 \in 1..Len(writeQ)
        BY <1>3
      <4>2. q[1] = b.samples
        BY <1>5
      <4> QED
        BY <1>10, <2>7, <4>1, <4>2 DEF Fitting
    <3>3. io'.step = "drop" => Fits(b.samples, r[Len(r)] - dropSamples, held)
      BY <2>4, <2>5, <3>2
    <3>4. \A k \in 1..Len(Tail(writeQ)) : Fits(Tail(q)[k], Tail(w)[k], held)
      <4> TAKE k \in 1..Len(Tail(writeQ))
      <4>1. k + 1 \in 1..Len(writeQ) /\ k \in 1..Len(q) - 1
        BY <1>3, <1>5
      <4>2. Fits(q[k + 1], w[k + 1], held)
        BY <1>10, <2>7, <4>1 DEF Fitting
      <4>3. Tail(q)[k] = q[k + 1] /\ Len(Tail(q)) = Len(q) - 1
        BY <1>5, <4>1, ShorterQueue DEF Blocks
      <4>4. Tail(w)[k] = w[k + 1]
        BY <2>3, <4>1, <4>3
      <4> QED
        BY <4>2, <4>3, <4>4
    <3>5. (\A k \in 1..Len(writeQ) : Fits(SamplesOf(writeQ)[k], Tail(w)[k], held))'
      BY <1>2, <1>9, <3>4
    <3> QED
      BY <1>2, <1>8, <2>3, <2>7, <3>1, <3>3, <3>5 DEF Fitting
  <2>8. Placed(r, Tail(w))'
    <3>1. /\ w[Len(w)] + Len(writeBuffer.samples) + lost = Latency + sent
          /\ lost = 0 => Fitting(r, w)
      BY <2>1 DEF Placed
    <3> QED
      BY <1>2, <1>9, <2>2, <2>3, <2>6, <2>7, <3>1 DEF Placed
  <2> QED
    BY <2>8
<1> QED
  BY <1>11, <1>12, <1>13 DEF StreamInv

(* The drops shorten the block from its front, and what is left keeps its  *)
(* place.                                                                  *)
LEMMA TakeDropsInv == ASSUME StreamInv, TakeDrops PROVE StreamInv'
<1> DEFINE d == dropSamples
           s == io.samples
           u == Consume(s, d)
<1>1. StreamTypes
  BY DEF StreamInv
<1>2. /\ io.step = "drop" /\ dropSamples' = 0
      /\ io' = IF d < Len(s)
                 THEN [step |-> "push", samples |-> u, owed |-> 0]
                 ELSE [io EXCEPT !.step = "putback", !.owed = d]
      /\ UNCHANGED <<fixed, daw, writeBuffer, writeQ, readQ, readBuffer,
                     sent, played, heard, held, lost>>
  BY DEF TakeDrops, history
<1>3. SamplesOf(writeQ)' = SamplesOf(writeQ)
  BY <1>2 DEF SamplesOf
<1>4. /\ d \in Nat /\ s \in Seq(Nat) /\ Len(s) \in Nat /\ io.owed = 0
      /\ io \in [step : {"idle", "drop", "putback", "push"}, samples : Seq(Nat),
                 owed : Nat]
      /\ sent \in Nat /\ readQ \in Blocks /\ SamplesOf(writeQ) \in Blocks
  <2>1. io.owed = 0 /\ io \in [step : {"idle", "drop", "putback", "push"},
                               samples : Seq(Nat), owed : Nat]
    BY <1>1, <1>2 DEF StreamTypes
  <2> QED
    BY <1>1, <2>1, Numbers
<1>5. PICK a, r, w : Risen(a, r, w)
  BY DEF StreamInv
<1>6. Rises(s, r[Len(r)], w[1]) /\ r[Len(r)] \in Nat /\ w[1] \in Nat
  <2>1. Ladder(readQ, r, sent) /\ Ladder(SamplesOf(writeQ), w, sent)
    BY <1>5 DEF Risen
  <2>2. r[Len(r)] \in Nat
    BY <1>4, <2>1, LadderEnds
  <2>3. w[1] \in Nat
    BY <1>4, <2>1, LadderEnds
  <2> QED
    BY <1>5, <2>2, <2>3 DEF Risen
<1>7. PICK p, v : Placed(p, v)
  BY DEF StreamInv
<1>8. /\ Offsets(readQ, played + Len(readBuffer), p)
      /\ Offsets(SamplesOf(writeQ), WriteStart(p), v)
      /\ v[Len(v)] + Len(writeBuffer.samples) + lost = Latency + sent
      /\ lost = 0 => Fitting(p, v)
  BY <1>7 DEF Placed
<1>9. p[Len(p)] \in Int
  BY <1>4, <1>8, OffsetEnds
<1>10. WriteStart(p) = p[Len(p)] + Len(s) - d
  BY <1>4, <1>9 DEF WriteStart
<1> HIDE DEF s, u, d
<1>11. CASE d < Len(s)
  <2>1. io' = [step |-> "push", samples |-> u, owed |-> 0]
    BY <1>2, <1>11
  <2>2. d \in 0..Len(s)
    BY <1>4, <1>11
  <2>3. u \in Seq(Nat) /\ Len(u) = Len(s) - d
    BY <1>4, <2>2, SplitSamples DEF u
  <2>a. /\ io'.step = "push" /\ io'.samples = u /\ io'.owed = 0
        /\ io' \in [step : {"idle", "drop", "putback", "push"}, samples : Seq(Nat),
                    owed : Nat]
    BY <2>1, <2>3
  <2>4. StreamTypes'
    BY <1>1, <1>2, <2>a DEF StreamTypes
  <2>5. Rises(u, r[Len(r)], w[1])
    BY <1>4, <1>6, <2>2, RisesPart DEF u
  <2>6. Risen(a, r, w)'
    BY <1>2, <1>3, <1>5, <2>a, <2>5 DEF Risen
  <2>7. WriteStart(p)' = WriteStart(p)
    <3>1. WriteStart(p)' = p[Len(p)] + Len(u) - 0 - 0
      BY <1>2, <2>a DEF WriteStart
    <3>2. p[Len(p)] + Len(u) - 0 - 0 = p[Len(p)] + Len(s) - d
      BY <1>4, <1>9, <2>3
    <3> QED
      BY <1>10, <3>1, <3>2
  <2>8. ASSUME Fitting(p, v)
        PROVE  Fitting(p, v)'
    <3>1. Fits(s, p[Len(p)] - d, held)
      BY <1>2, <2>8 DEF Fitting, s, d
    <3>2. p[Len(p)] - d \in Int /\ (p[Len(p)] - d) + d = p[Len(p)]
      BY <1>4, <1>9
    <3>3. Fits(u, (p[Len(p)] - d) + d, held)
      BY <1>4, <2>2, <3>1, <3>2, FitsPart DEF u
    <3>4. Fits(u, p[Len(p)], held)
      BY <3>2, <3>3
    <3> QED
      BY <1>2, <1>3, <2>a, <2>8, <3>4 DEF Fitting
  <2>9. Placed(p, v)'
    BY <1>2, <1>3, <1>8, <2>7, <2>8 DEF Placed
  <2> QED
    BY <2>4, <2>6, <2>9 DEF StreamInv
<1>12. CASE ~(d < Len(s))
  <2>1. io' = [io EXCEPT !.step = "putback", !.owed = d]
    BY <1>2, <1>12
  <2>2. /\ io'.step = "putback" /\ io'.samples = s /\ io'.owed = d
        /\ io' \in [step : {"idle", "drop", "putback", "push"}, samples : Seq(Nat),
                    owed : Nat]
    BY <1>4, <2>1 DEF s
  <2>3. StreamTypes'
    BY <1>1, <1>2, <1>4, <1>12, <2>2 DEF StreamTypes
  <2>4. Risen(a, r, w)'
    BY <1>2, <1>3, <1>5, <2>2 DEF Risen, s
  <2>5. WriteStart(p)' = WriteStart(p)
    <3>1. WriteStart(p)' = p[Len(p)] + Len(s) - d - 0
      BY <1>2, <2>2 DEF WriteStart
    <3> QED
      BY <1>4, <1>9, <1>10, <3>1
  <2>6. Fitting(p, v) => Fitting(p, v)'
    BY <1>2, <1>3, <2>2 DEF Fitting
  <2>7. Placed(p, v)'
    BY <1>2, <1>3, <1>8, <2>5, <2>6 DEF Placed
  <2> QED
    BY <2>3, <2>4, <2>7 DEF StreamInv
<1> QED
  BY <1>11, <1>12

(* After PutBackDrops and PushRead the io thread holds nothing.            *)
LEMMA HandsEmpty ==
  ASSUME NEW r, NEW w, r[Len(r)] <= w[1]
  PROVE  Rises(<<>>, r[Len(r)], w[1])
BY DEF Rises

(* A block that was dropped leaves the rest of the drops.                  *)
LEMMA PutBackDropsInv == ASSUME StreamInv, PutBackDrops PROVE StreamInv'
<1>1. StreamTypes
  BY DEF StreamInv
<1>2. /\ io.step = "putback"
      /\ dropSamples' = dropSamples + (io.owed - Len(io.samples))
      /\ io' = [step |-> "idle", samples |-> <<>>, owed |-> 0]
      /\ UNCHANGED <<fixed, daw, writeBuffer, writeQ, readQ, readBuffer,
                     sent, played, heard, held, lost>>
  BY DEF PutBackDrops, history
<1>3. SamplesOf(writeQ)' = SamplesOf(writeQ)
  BY <1>2 DEF SamplesOf
<1>4. /\ io.owed \in Nat /\ Len(io.samples) \in Nat /\ dropSamples \in Nat
      /\ Len(io.samples) <= io.owed /\ readQ \in Blocks
  <2>1. Len(io.samples) <= io.owed
    BY <1>1, <1>2 DEF StreamTypes
  <2> QED
    BY <1>1, <2>1, Numbers
<1>5. StreamTypes'
  <2>1. /\ io' \in [step : {"idle", "drop", "putback", "push"}, samples : Seq(Nat),
                    owed : Nat]
        /\ io'.samples = <<>> /\ io'.owed = 0 /\ io'.step = "idle"
    BY <1>2, NoSamples
  <2>2. dropSamples' \in Nat
    BY <1>2, <1>4
  <2> QED
    BY <1>1, <1>2, <2>1, <2>2 DEF StreamTypes
<1>6. (\E a, r, w : Risen(a, r, w))'
  <2>1. PICK a, r, w : Risen(a, r, w)
    BY DEF StreamInv
  <2>2. Rises(<<>>, r[Len(r)], w[1])
    BY <2>1, HandsEmpty DEF Risen, Rises
  <2>3. Risen(a, r, w)'
    BY <1>2, <1>3, <2>1, <2>2 DEF Risen
  <2> QED
    BY <2>3
<1>7. (\E r, w : Placed(r, w))'
  <2>1. PICK r, w : Placed(r, w)
    BY DEF StreamInv
  <2>2. /\ Offsets(readQ, played + Len(readBuffer), r)
        /\ Offsets(SamplesOf(writeQ), WriteStart(r), w)
        /\ w[Len(w)] + Len(writeBuffer.samples) + lost = Latency + sent
        /\ lost = 0 => Fitting(r, w)
    BY <2>1 DEF Placed
  <2>3. r[Len(r)] \in Int
    BY <1>4, <2>2, OffsetEnds
  <2>4. WriteStart(r)' = WriteStart(r)
    <3>1. WriteStart(r)'
            = r[Len(r)] + 0 - 0 - (dropSamples + (io.owed - Len(io.samples)))
      BY <1>2, NoSamples DEF WriteStart
    <3> QED
      BY <1>4, <2>3, <3>1 DEF WriteStart
  <2>5. Fitting(r, w) => Fitting(r, w)'
    BY <1>2, <1>3 DEF Fitting
  <2>6. Placed(r, w)'
    BY <1>2, <1>3, <2>2, <2>4, <2>5 DEF Placed
  <2> QED
    BY <2>6
<1> QED
  BY <1>5, <1>6, <1>7 DEF StreamInv

(* A block moves into m_readQ, or is lost, and all places behind it come   *)
(* earlier by its length.                                                  *)
LEMMA PushReadInv == ASSUME StreamInv, PushRead PROVE StreamInv'
<1> DEFINE s == io.samples
<1>1. StreamTypes
  BY DEF StreamInv
<1>2. /\ io.step = "push" /\ readQ' = Push(readQ, s)
      /\ lost' = lost + Refused(readQ, s)
      /\ io' = [step |-> "idle", samples |-> <<>>, owed |-> 0]
      /\ UNCHANGED <<fixed, daw, writeBuffer, writeQ, readBuffer, dropSamples,
                     sent, played, heard, held>>
  BY DEF PushRead
<1>3. SamplesOf(writeQ)' = SamplesOf(writeQ)
  BY <1>2 DEF SamplesOf
<1>4. /\ s \in Seq(Nat) /\ Len(s) \in Nat /\ dropSamples \in Nat /\ io.owed = 0
      /\ readQ \in Blocks /\ Len(readQ) \in Nat /\ lost \in Nat /\ sent \in Nat
      /\ SamplesOf(writeQ) \in Blocks
      /\ Len(SamplesOf(writeQ)) = Len(writeQ) /\ Len(writeQ) \in Nat
      /\ Latency \in Nat /\ Len(writeBuffer.samples) \in Nat
  <2>1. io.owed = 0
    BY <1>1, <1>2 DEF StreamTypes
  <2> QED
    BY <1>1, <2>1, Numbers
<1>5. /\ io' \in [step : {"idle", "drop", "putback", "push"}, samples : Seq(Nat),
                  owed : Nat]
      /\ io'.samples = <<>> /\ io'.owed = 0 /\ io'.step = "idle"
      /\ Len(io'.samples) = 0
  BY <1>2, NoSamples
<1>6. PICK a, r, w : Risen(a, r, w)
  BY DEF StreamInv
<1>7. /\ Ladder(readQ, r, sent) /\ Ladder(SamplesOf(writeQ), w, sent)
      /\ Rises(s, r[Len(r)], w[1]) /\ r[Len(r)] <= w[1]
      /\ w[1] \in 0..sent /\ w[1] \in Nat
  <2>1. /\ Ladder(readQ, r, sent) /\ Ladder(SamplesOf(writeQ), w, sent)
        /\ Rises(s, r[Len(r)], w[1])
    BY <1>6 DEF Risen
  <2>2. r[Len(r)] <= w[1]
    BY <2>1 DEF Rises
  <2> QED
    BY <1>4, <2>1, <2>2, LadderEnds
<1>8. PICK p, v : Placed(p, v)
  BY DEF StreamInv
<1>9. /\ Offsets(readQ, played + Len(readBuffer), p)
      /\ Offsets(SamplesOf(writeQ), WriteStart(p), v)
      /\ v[Len(v)] + Len(writeBuffer.samples) + lost = Latency + sent
      /\ lost = 0 => Fitting(p, v)
  BY <1>8 DEF Placed
<1>10. /\ p[Len(p)] \in Int /\ Len(p) = Len(readQ) + 1
       /\ WriteStart(p) \in Int /\ v[Len(v)] \in Int
       /\ Len(v) = Len(writeQ) + 1 /\ \A k \in 1..Len(writeQ) : v[k] \in Int
  <2>1. p[Len(p)] \in Int /\ Len(p) = Len(readQ) + 1
    BY <1>4, <1>9, OffsetEnds
  <2>2. /\ WriteStart(p) \in Int /\ v[Len(v)] \in Int
        /\ Len(v) = Len(SamplesOf(writeQ)) + 1
        /\ \A k \in 1..Len(SamplesOf(writeQ)) : v[k] \in Int
    BY <1>4, <1>9, OffsetEnds
  <2> QED
    BY <1>4, <2>1, <2>2
<1>11. WriteStart(p) = p[Len(p)] + Len(s) - dropSamples
  BY <1>4, <1>10 DEF WriteStart
<1> HIDE DEF s
<1>12. CASE ~Full(readQ)
  <2>1. readQ' = Append(readQ, s) /\ lost' = lost
    BY <1>2, <1>4, <1>12 DEF Push, Refused
  <2>2. /\ readQ' \in Blocks /\ Len(readQ') = Len(readQ) + 1
        /\ \A k \in 1..Len(readQ) : readQ'[k] = readQ[k]
        /\ readQ'[Len(readQ) + 1] = s
    BY <1>4, <2>1, LongerQueue DEF Blocks
  <2>3. StreamTypes'
    BY <1>1, <1>2, <1>5, <2>1, <2>2 DEF StreamTypes
  <2>4. (\E b, q, x : Risen(b, q, x))'
    <3> DEFINE q == Append(r, w[1])
    <3>1. Ladder(readQ', q, sent) /\ q[1] = r[1] /\ q[Len(q)] = w[1]
      BY <1>4, <1>7, <2>1, LadderLonger
    <3> HIDE DEF q
    <3>2. Rises(<<>>, q[Len(q)], w[1])
      BY <1>7, <3>1, HandsEmpty
    <3>3. Risen(a, q, w)'
      BY <1>2, <1>3, <1>5, <1>6, <3>1, <3>2 DEF Risen
    <3> QED
      BY <3>3
  <2>5. (\E q, x : Placed(q, x))'
    <3>2. PICK q : /\ Offsets(readQ', played + Len(readBuffer), q)
                   /\ q[Len(q)] = p[Len(p)] + Len(s)
                   /\ \A k \in 1..Len(readQ) : q[k] = p[k]
                   /\ q[Len(readQ) + 1] = p[Len(p)]
      <4>1. /\ readQ \in Blocks /\ s \in Seq(Nat)
            /\ Offsets(readQ, played + Len(readBuffer), p)
        BY <1>4, <1>9
      <4>2. \E q : /\ Offsets(Append(readQ, s), played + Len(readBuffer), q)
                   /\ q[Len(q)] = p[Len(p)] + Len(s)
                   /\ \A k \in 1..Len(readQ) : q[k] = p[k]
                   /\ q[Len(readQ) + 1] = p[Len(p)]
        BY <4>1, OffsetsLonger
      <4> QED
        BY <2>1, <4>2
    <3>3. WriteStart(q)' = WriteStart(p)
      <4>1. WriteStart(q)' = q[Len(q)] + 0 - 0 - dropSamples
        BY <1>2, <1>5 DEF WriteStart
      <4> QED
        BY <1>4, <1>10, <1>11, <3>2, <4>1
    <3>4. ASSUME Fitting(p, v)
          PROVE  Fitting(q, v)'
      <4>1. \A k \in 1..Len(readQ') : Fits(readQ'[k], q[k], held)
        <5> TAKE k \in 1..Len(readQ')
        <5>1. CASE k = Len(readQ) + 1
          <6>1. Fits(s, p[Len(p)], held)
            BY <1>2, <3>4 DEF Fitting, s
          <6> QED
            BY <2>2, <3>2, <5>1, <6>1
        <5>2. CASE k # Len(readQ) + 1
          <6>1. k \in 1..Len(readQ)
            BY <1>4, <2>2, <5>2
          <6>2. Fits(readQ[k], p[k], held)
            BY <3>4, <6>1 DEF Fitting
          <6> QED
            BY <2>2, <3>2, <6>1, <6>2
        <5> QED
          BY <5>1, <5>2
      <4> QED
        BY <1>2, <1>3, <1>5, <3>4, <4>1 DEF Fitting
    <3>5. Placed(q, v)'
      BY <1>2, <1>3, <1>9, <2>1, <3>2, <3>3, <3>4 DEF Placed
    <3> QED
      BY <3>5
  <2> QED
    BY <2>3, <2>4, <2>5 DEF StreamInv
<1>13. CASE Full(readQ)
  <2>1. readQ' = readQ /\ lost' = lost + Len(s)
    BY <1>2, <1>13 DEF Push, Refused
  <2>2. StreamTypes'
    <3>1. lost' \in Nat
      BY <1>4, <2>1
    <3> QED
      BY <1>1, <1>2, <1>5, <2>1, <3>1 DEF StreamTypes
  <2>3. Risen(a, r, w)'
    <3>1. Rises(<<>>, r[Len(r)], w[1])
      BY <1>7, HandsEmpty
    <3> QED
      BY <1>2, <1>3, <1>5, <1>6, <2>1, <3>1 DEF Risen
  <2>4. (\E q, x : Placed(q, x))'
    <3> DEFINE d == 0 - Len(s)
    <3>1. PICK x : x = [k \in 1..Len(v) |-> v[k] + d]
      OBVIOUS
    <3>2. d \in Int
      BY <1>4
    <3>3. Offsets(SamplesOf(writeQ), WriteStart(p) + d, x) /\ Len(x) = Len(v)
      BY <1>4, <1>9, <1>10, <3>1, <3>2, OffsetsMoved
    <3>4. /\ x[Len(x)] = v[Len(v)] + d
          /\ \A k \in 1..Len(writeQ) : x[k] = v[k] + d
      <4>1. Len(v) \in 1..Len(v) /\ 1..Len(writeQ) \subseteq 1..Len(v)
        BY <1>4, <1>10
      <4> QED
        BY <3>1, <3>3, <4>1
    <3>5. WriteStart(p)' = WriteStart(p) + d
      <4>1. WriteStart(p)' = p[Len(p)] + 0 - 0 - dropSamples
        BY <1>2, <1>5 DEF WriteStart
      <4>2. p[Len(p)] + 0 - 0 - dropSamples
              = p[Len(p)] + Len(s) - dropSamples + d
        BY <1>4, <1>10
      <4> QED
        BY <1>11, <4>1, <4>2
    <3>6. x[Len(x)] + Len(writeBuffer.samples) + lost' = Latency + sent
      BY <1>4, <1>9, <1>10, <2>1, <3>4
    <3>7. ASSUME lost' = 0
          PROVE  Fitting(p, x)'
      <4>1. lost = 0 /\ d = 0
        BY <1>4, <2>1, <3>7
      <4>2. Fitting(p, v)
        BY <1>9, <4>1
      <4>3. x[Len(x)] = v[Len(v)] /\ \A k \in 1..Len(writeQ) : x[k] = v[k]
        <5>1. \A i \in Int : i + d = i
          BY <4>1
        <5> QED
          BY <1>10, <3>4, <5>1
      <4> QED
        BY <1>2, <1>3, <1>5, <2>1, <4>2, <4>3 DEF Fitting
    <3>8. Placed(p, x)'
      BY <1>2, <1>3, <1>9, <2>1, <3>3, <3>5, <3>6, <3>7 DEF Placed
    <3> QED
      BY <3>8
  <2> QED
    BY <2>2, <2>3, <2>4 DEF StreamInv
<1> QED
  BY <1>12, <1>13

-----------------------------------------------------------------------------
(* The audio thread: send().                                               *)

(* A block of the host, as long as there are samples.                      *)
LEMMA GivenTypes ==
  ASSUME StreamTypes, NEW n \in 1..BlockSize, Given(n), UNCHANGED played
  PROVE  /\ sent' = sent + n /\ n \in Nat \ {0} /\ n <= BlockSize
         /\ sent' \in 0..MaxSamples /\ sent' = played' + daw'.size
         /\ daw' \in [step : {"host", "read", "failed"}, size : 0..BlockSize]
         /\ daw'.step # "host"
<1>1. /\ daw.step = "host" /\ sent + n <= MaxSamples /\ sent' = sent + n
      /\ daw' = [step |-> "read", size |-> n]
  BY DEF Given
<1>2. n \in Nat \ {0} /\ n \in 0..BlockSize /\ n <= BlockSize
  BY StreamAssumption
<1>3. sent = played + 0 /\ played \in Nat /\ sent \in Nat /\ MaxSamples \in Nat
  <2>1. daw.size = 0
    BY <1>1 DEF StreamTypes
  <2> QED
    BY <2>1, Numbers
<1>4. /\ daw' \in [step : {"host", "read", "failed"}, size : 0..BlockSize]
      /\ daw'.step = "read" /\ daw'.size = n
  BY <1>1, <1>2
<1> QED
  BY <1>1, <1>2, <1>3, <1>4

(* A skip record takes the place of the block of the host, in front of     *)
(* what m_writeBuffer holds, which is held.                                *)
LEMMA SkipInv ==
  ASSUME StreamInv, NEW n \in 1..BlockSize, Skip(n)
  PROVE  StreamInv'
<1> DEFINE z == Silence(n)
           b == [skip |-> TRUE, pos |-> 0, left |-> 0, samples |-> z]
           s == writeBuffer.samples
           q == SamplesOf(writeQ)
<1>1. StreamTypes
  BY DEF StreamInv
<1>2. /\ Given(n) /\ writeQ' = Push(writeQ, b)
      /\ lost' = lost + Refused(writeQ, z)
      /\ held' = held \cup Range(s)
      /\ UNCHANGED <<fixed, writeBuffer, io, readQ, readBuffer, dropSamples,
                     played, heard>>
  BY DEF Skip
<1>3. /\ sent' = sent + n /\ n \in Nat \ {0} /\ n <= BlockSize
      /\ sent' \in 0..MaxSamples /\ sent' = played' + daw'.size
      /\ daw' \in [step : {"host", "read", "failed"}, size : 0..BlockSize]
      /\ daw'.step # "host"
  BY <1>1, <1>2, GivenTypes
<1>4. /\ z \in Seq(Nat) /\ Len(z) = n /\ \A i \in DOMAIN z : z[i] = 0
  BY <1>3, Silent
<1>5. /\ readQ \in Blocks /\ lost \in Nat /\ sent \in Nat /\ s \in Seq(Nat)
      /\ writeQ \in Seq(Records) /\ q \in Blocks /\ Len(q) = Len(writeQ)
      /\ Len(writeQ) \in Nat /\ Latency \in Nat /\ Len(s) \in Nat
      /\ MaxSamples \in Nat
  BY <1>1, Numbers
<1>6. b \in Records /\ b.samples = z
  <2> HIDE DEF z
  <2>1. /\ b \in [skip : BOOLEAN, pos : Nat, left : Nat, samples : Seq(Nat)]
        /\ b.skip /\ b.samples = z
    BY <1>4
  <2> QED
    BY <1>4, <2>1 DEF Records
<1> HIDE DEF z, b
<1>7. PICK a, r, w : Risen(a, r, w)
  BY DEF StreamInv
<1>8. /\ a \in 0..sent /\ Ladder(readQ, r, sent) /\ Ladder(q, w, sent)
      /\ Rises(s, w[Len(w)], sent)
  BY <1>7 DEF Risen
<1>9. w[Len(w)] \in 0..sent /\ w[Len(w)] \in Nat
  BY <1>5, <1>8, LadderEnds
<1>10. PICK p, v : Placed(p, v)
  BY DEF StreamInv
<1>11. /\ Offsets(readQ, played + Len(readBuffer), p)
       /\ Offsets(q, WriteStart(p), v)
       /\ v[Len(v)] + Len(s) + lost = Latency + sent
       /\ lost = 0 => Fitting(p, v)
  BY <1>10 DEF Placed
<1>12. v[Len(v)] \in Int /\ Len(v) = Len(q) + 1
  BY <1>5, <1>11, OffsetEnds
<1>13. q = SamplesOf(writeQ) /\ s = writeBuffer.samples
  OBVIOUS
<1>14. WriteStart(p)' = WriteStart(p)
  BY <1>2 DEF WriteStart
<1> HIDE DEF q
<1>15. held' \subseteq 1..MaxSamples
  <2>1. \A x \in Range(s) : x # 0 => x \in 1..MaxSamples
    <3>1. sent <= MaxSamples
      BY <1>1, Numbers
    <3> QED
      BY <1>5, <1>8, <1>9, <3>1, Below
  <2>2. \A x \in Range(s) : x # 0
    <3>1. \A i \in DOMAIN s : s[i] # 0
      BY <1>1 DEF StreamTypes
    <3> QED
      BY <3>1, Zenon DEF Range
  <2>3. held \subseteq 1..MaxSamples
    BY <1>1 DEF StreamTypes
  <2> QED
    BY <1>2, <2>1, <2>2, <2>3, Zenon
<1>16. /\ Ladder(readQ, r, sent') /\ Ladder(q, w, sent') /\ a \in 0..sent'
       /\ Rises(s, w[Len(w)], sent') /\ w[Len(w)] \in 0..sent'
  <2>1. sent' \in Nat /\ sent <= sent'
    BY <1>3, <1>5
  <2>2. Ladder(readQ, r, sent') /\ Ladder(q, w, sent')
    BY <1>5, <1>8, <2>1, LadderHigher
  <2>3. a \in 0..sent' /\ w[Len(w)] \in 0..sent'
    BY <1>5, <1>8, <1>9, <2>1
  <2>4. w[Len(w)] <= w[Len(w)]
    BY <1>9
  <2> QED
    BY <1>5, <1>8, <1>9, <2>1, <2>2, <2>3, <2>4, RisesWider
<1>19. /\ v[Len(v)] \in Int /\ Len(s) \in Nat /\ lost \in Nat /\ n \in Nat
       /\ Latency \in Nat /\ sent \in Nat /\ sent' = sent + n
  BY <1>3, <1>5, <1>12
<1>17. CASE ~Full(writeQ)
  <2>1. writeQ' = Append(writeQ, b) /\ lost' = lost
    BY <1>2, <1>5, <1>17 DEF Push, Refused
  <2>2. writeQ' \in Seq(Records) /\ Len(writeQ') = Len(writeQ) + 1
    BY <1>5, <1>6, <2>1, LongerQueue
  <2>3. SamplesOf(writeQ)' = Append(q, z)
    BY <1>5, <1>6, <1>13, <2>1, SamplesOfLonger
  <2>4. StreamTypes'
    BY <1>1, <1>2, <1>3, <1>15, <2>1, <2>2 DEF StreamTypes
  <2>5. (\E c, x, y : Risen(c, x, y))'
    <3>1. PICK y : y = Append(w, w[Len(w)])
      OBVIOUS
    <3>2. Rises(z, w[Len(w)], w[Len(w)])
      BY <1>4, <1>9, RisesNone
    <3>3. /\ Ladder(Append(q, z), y, sent') /\ y[1] = w[1]
          /\ y[Len(y)] = w[Len(w)]
      <4>1. sent' \in Nat
        BY <1>3, <1>5
      <4> QED
        BY <1>4, <1>5, <1>16, <3>1, <3>2, <4>1, LadderLonger
    <3>4. Risen(a, r, y)'
      BY <1>2, <1>7, <1>16, <2>3, <3>3 DEF Risen
    <3> QED
      BY <3>4
  <2>6. (\E x, y : Placed(x, y))'
    <3>2. PICK y : /\ Offsets(Append(q, z), WriteStart(p), y)
                   /\ y[Len(y)] = v[Len(v)] + Len(z)
                   /\ \A k \in 1..Len(q) : y[k] = v[k]
                   /\ y[Len(q) + 1] = v[Len(v)]
      <4>1. q \in Blocks /\ z \in Seq(Nat) /\ Offsets(q, WriteStart(p), v)
        BY <1>4, <1>5, <1>11
      <4> QED
        BY <4>1, OffsetsLonger
    <3>3. y[Len(y)] + Len(s) + lost = Latency + sent'
      <4>1. y[Len(y)] = v[Len(v)] + n
        BY <1>4, <3>2
      <4>2. v[Len(v)] + Len(s) + lost = Latency + sent
        BY <1>11
      <4>3. (v[Len(v)] + n) + Len(s) + lost = Latency + (sent + n)
        <5>1. PICK e \in Int : e = v[Len(v)]
          BY <1>19
        <5>2. PICK l \in Int : l = Len(s)
          BY <1>19
        <5>3. e + l + lost = Latency + sent
          BY <4>2, <5>1, <5>2
        <5>4. (e + n) + l + lost = Latency + (sent + n)
          BY <1>19, <5>3
        <5> QED
          BY <5>1, <5>2, <5>4
      <4> QED
        BY <1>19, <4>1, <4>3
    <3>4. ASSUME Fitting(p, v)
          PROVE  Fitting(p, y)'
      <4>1. held \subseteq held'
        BY <1>2
      <4>2. /\ Fits(heard.samples, heard.at, held')
            /\ Fits(readBuffer, played, held')
            /\ \A k \in 1..Len(readQ) : Fits(readQ[k], p[k], held')
            /\ io.step = "push" => Fits(io.samples, p[Len(p)], held')
            /\ io.step = "drop" =>
                 Fits(io.samples, p[Len(p)] - dropSamples, held')
        BY <3>4, <4>1, FitsMore DEF Fitting
      <4>3. /\ Len(Append(q, z)) = Len(q) + 1 /\ Append(q, z)[Len(q) + 1] = z
            /\ \A k \in 1..Len(q) : Append(q, z)[k] = q[k]
        BY <1>4, <1>5, LongerQueue DEF Blocks
      <4>4. \A k \in 1..Len(q) + 1 : Fits(Append(q, z)[k], y[k], held')
        <5> TAKE k \in 1..Len(q) + 1
        <5>1. CASE k = Len(q) + 1
          BY <1>4, <4>3, <5>1, FitsNone
        <5>2. CASE k # Len(q) + 1
          <6>1. k \in 1..Len(q)
            BY <1>5, <5>2
          <6>2. Fits(q[k], v[k], held')
            BY <1>5, <1>13, <3>4, <4>1, <6>1, FitsMore DEF Fitting
          <6> QED
            BY <3>2, <4>3, <6>1, <6>2
        <5> QED
          BY <5>1, <5>2
      <4>5. Fits(s, y[Len(y)], held')
        <5>1. Fits(s, v[Len(v)], held)
          BY <3>4 DEF Fitting
        <5>2. \A i \in DOMAIN s : s[i] > 0 => s[i] \in held'
          BY <1>2, Zenon DEF Range
        <5>3. Fits(s, v[Len(v)] + n, held')
          BY <1>3, <1>5, <1>12, <5>1, <5>2, FitsLater
        <5> QED
          BY <1>4, <3>2, <5>3
      <4>6. (\A k \in 1..Len(writeQ) : Fits(SamplesOf(writeQ)[k], y[k], held))'
        BY <1>5, <2>2, <2>3, <4>4
      <4> QED
        BY <1>2, <4>2, <4>5, <4>6 DEF Fitting
    <3>5. Placed(p, y)'
      BY <1>2, <1>11, <1>14, <2>1, <2>3, <3>2, <3>3, <3>4 DEF Placed
    <3> QED
      BY <3>5
  <2> QED
    BY <2>4, <2>5, <2>6 DEF StreamInv
<1>18. CASE Full(writeQ)
  <2>1. writeQ' = writeQ /\ lost' = lost + n
    BY <1>2, <1>4, <1>18 DEF Push, Refused
  <2>2. lost' \in Nat /\ lost' # 0
    BY <1>3, <1>5, <2>1
  <2>3. SamplesOf(writeQ)' = q
    BY <1>13, <2>1 DEF SamplesOf
  <2>4. StreamTypes'
    BY <1>1, <1>2, <1>3, <1>15, <2>1, <2>2 DEF StreamTypes
  <2>5. Risen(a, r, w)'
    BY <1>2, <1>7, <1>16, <2>3 DEF Risen
  <2>6. Placed(p, v)'
    <3>1. v[Len(v)] + Len(s) + lost' = Latency + sent'
      BY <1>11, <1>19, <2>1
    <3> QED
      BY <1>2, <1>11, <1>14, <2>1, <2>2, <2>3, <3>1 DEF Placed
  <2> QED
    BY <2>4, <2>5, <2>6 DEF StreamInv
<1> QED
  BY <1>17, <1>18

(* What m_writeBuffer holds when the block of the host is in it.           *)
LEMMA FillingIs ==
  ASSUME StreamTypes, NEW n \in 1..BlockSize
  PROVE  LET f == Filling(writeBuffer, n)
             s == writeBuffer.samples
             t == s \o HostBlock(n) IN
           /\ f \in [samples : Seq(Nat), pos : Nat, left : Nat, fresh : BOOLEAN]
           /\ f.samples = t /\ ~f.fresh
           /\ t \in Seq(Nat) /\ Len(t) = Len(s) + n
           /\ \A i \in DOMAIN t : t[i] > 0
           /\ f.left < BlockSize /\ f.left < Len(t) /\ t[f.left + 1] = f.pos
<1> DEFINE f == Filling(writeBuffer, n)
           s == writeBuffer.samples
           t == s \o HostBlock(n)
<1>1. /\ n \in Nat \ {0} /\ sent \in Nat /\ s \in Seq(Nat) /\ Len(s) \in Nat
      /\ BlockSize \in Nat
  BY Numbers
<1>2. /\ HostBlock(n) \in Seq(Nat) /\ Len(HostBlock(n)) = n
      /\ DOMAIN HostBlock(n) = 1..n
      /\ \A i \in 1..n : HostBlock(n)[i] = sent + i
  BY <1>1, HostNumbers
<1>3. /\ t \in Seq(Nat) /\ Len(t) = Len(s) + n /\ DOMAIN t = 1..Len(s) + n
      /\ \A i \in 1..Len(s) : t[i] = s[i]
      /\ \A i \in 1..n : t[Len(s) + i] = sent + i
  <2>1. /\ t \in Seq(Nat) /\ Len(t) = Len(s) + Len(HostBlock(n))
        /\ DOMAIN t = 1..Len(s) + Len(HostBlock(n))
        /\ \A i \in 1..Len(s) : t[i] = s[i]
        /\ \A i \in 1..Len(HostBlock(n)) : t[Len(s) + i] = HostBlock(n)[i]
    <3>1. s \in Seq(Nat) /\ HostBlock(n) \in Seq(Nat)
      BY <1>1, <1>2
    <3> QED
      BY <3>1, JoinedSamples
  <2> QED
    BY <1>2, <2>1
<1>0. /\ f = [samples |-> t, fresh |-> FALSE,
              pos |-> IF writeBuffer.fresh THEN sent + 1 ELSE writeBuffer.pos,
              left |-> IF writeBuffer.fresh THEN Len(s) ELSE writeBuffer.left]
  BY DEF Filling
<1>4. /\ writeBuffer \in [samples : Seq(Nat), pos : Nat, left : Nat,
                          fresh : BOOLEAN]
      /\ Len(s) < BlockSize /\ \A i \in DOMAIN s : s[i] > 0
      /\ ~writeBuffer.fresh => /\ writeBuffer.left < Len(s)
                               /\ s[writeBuffer.left + 1] = writeBuffer.pos
  BY DEF StreamTypes
<1> HIDE DEF f, s, t
<1>5. \A i \in DOMAIN t : t[i] > 0
  <2> TAKE i \in DOMAIN t
  <2>1. CASE i \in 1..Len(s)
    <3>1. i \in DOMAIN s
      BY <1>1, <2>1
    <3> QED
      BY <1>3, <1>4, <2>1, <3>1
  <2>2. CASE i \notin 1..Len(s)
    <3>0. i \in 1..Len(s) + n
      BY <1>3
    <3>1. i - Len(s) \in 1..n /\ i = Len(s) + (i - Len(s))
      BY <1>1, <2>2, <3>0
    <3>2. t[i] = sent + (i - Len(s))
      BY <1>3, <3>1
    <3> QED
      BY <1>1, <3>1, <3>2
  <2> QED
    BY <2>1, <2>2
<1>6. CASE writeBuffer.fresh
  <2>1. f = [samples |-> t, fresh |-> FALSE, pos |-> sent + 1, left |-> Len(s)]
    BY <1>0, <1>6
  <2>2. sent + 1 \in Nat /\ 1 \in 1..n
    BY <1>1
  <2>3. /\ f \in [samples : Seq(Nat), pos : Nat, left : Nat, fresh : BOOLEAN]
        /\ f.samples = t /\ ~f.fresh /\ f.pos = sent + 1 /\ f.left = Len(s)
    BY <1>1, <1>3, <2>1, <2>2
  <2>4. t[Len(s) + 1] = sent + 1 /\ Len(s) < Len(t)
    BY <1>1, <1>3, <2>2
  <2> QED
    BY <1>3, <1>4, <1>5, <2>3, <2>4 DEF f, s, t
<1>7. CASE ~writeBuffer.fresh
  <2>1. f = [samples |-> t, fresh |-> FALSE, pos |-> writeBuffer.pos,
             left |-> writeBuffer.left]
    BY <1>0, <1>7
  <2>2. writeBuffer.pos \in Nat /\ writeBuffer.left \in Nat
    BY <1>4
  <2>3. /\ f \in [samples : Seq(Nat), pos : Nat, left : Nat, fresh : BOOLEAN]
        /\ f.samples = t /\ ~f.fresh /\ f.pos = writeBuffer.pos
        /\ f.left = writeBuffer.left
    BY <1>3, <2>1, <2>2
  <2>4. /\ writeBuffer.left < BlockSize /\ writeBuffer.left < Len(t)
        /\ writeBuffer.left + 1 \in 1..Len(s)
    BY <1>1, <1>3, <1>4, <1>7, <2>2
  <2>5. t[writeBuffer.left + 1] = writeBuffer.pos
    BY <1>3, <1>4, <1>7, <2>4
  <2> QED
    BY <1>3, <1>5, <2>3, <2>4, <2>5 DEF f, s, t
<1> QED
  BY <1>6, <1>7

(* The block that leaves m_writeBuffer, and what stays.                    *)
LEMMA TakenIs ==
  ASSUME NEW f \in [samples : Seq(Nat), pos : Nat, left : Nat, fresh : BOOLEAN],
         f.left < BlockSize, f.left < Len(f.samples),
         f.samples[f.left + 1] = f.pos,
         \A i \in DOMAIN f.samples : f.samples[i] > 0,
         NEW l \in Nat, NEW n \in 1..BlockSize, Len(f.samples) = l + n,
         l < BlockSize, NEW z, z = IF fixed THEN BlockSize ELSE Len(f.samples),
         fixed => Len(f.samples) >= BlockSize
  PROVE  LET out == SubSeq(f.samples, 1, z)
             u == Consume(f.samples, z) IN
           /\ z \in 0..Len(f.samples) /\ z # 0 /\ z \in Nat
           /\ out \in Seq(Nat) /\ Len(out) = z
           /\ u \in Seq(Nat) /\ Len(u) = Len(f.samples) - z /\ Len(u) \in Nat
           /\ Block(f, out) \in Records /\ Block(f, out).samples = out
           /\ Rest(f, u) \in [samples : Seq(Nat), pos : Nat, left : Nat,
                              fresh : BOOLEAN]
           /\ Rest(f, u).samples = u /\ Rest(f, u).fresh
           /\ Len(u) < BlockSize /\ \A i \in DOMAIN u : u[i] > 0
<1> DEFINE t == f.samples
           out == SubSeq(t, 1, z)
           u == Consume(t, z)
<1>2. /\ f \in [samples : Seq(Nat), pos : Nat, left : Nat, fresh : BOOLEAN]
      /\ t \in Seq(Nat) /\ DOMAIN t = 1..Len(t) /\ Len(t) = l + n
      /\ \A i \in DOMAIN t : t[i] > 0
      /\ f.left < BlockSize /\ f.left < Len(t) /\ t[f.left + 1] = f.pos
      /\ f.left \in Nat /\ f.pos \in Nat /\ Len(t) \in Nat
  OBVIOUS
<1>3. /\ l \in Nat /\ n \in Nat \ {0} /\ n <= BlockSize
      /\ BlockSize \in Nat \ {0} /\ l < BlockSize
  BY StreamAssumption
<1>4. z = (IF fixed THEN BlockSize ELSE Len(t)) /\ (fixed => Len(t) >= BlockSize)
  OBVIOUS
<1> HIDE DEF t, out, u
<1>5. /\ z \in 0..Len(t) /\ z # 0 /\ z \in Nat /\ Len(t) - z < BlockSize
      /\ f.left < z
  <2>1. CASE fixed
    <3>1. z = BlockSize /\ Len(t) >= BlockSize
      BY <1>4, <2>1
    <3> QED
      BY <1>2, <1>3, <3>1
  <2>2. CASE ~fixed
    <3>1. z = Len(t)
      BY <1>4, <2>2
    <3> QED
      BY <1>2, <1>3, <3>1
  <2> QED
    BY <2>1, <2>2
<1>6. /\ out \in Seq(Nat) /\ Len(out) = z
      /\ \A i \in 1..z : out[i] = t[i]
      /\ u \in Seq(Nat) /\ Len(u) = Len(t) - z
      /\ DOMAIN u = 1..Len(t) - z
      /\ \A i \in 1..Len(t) - z : u[i] = t[z + i]
  <2>1. t \in Seq(Nat) /\ z \in 0..Len(t)
    BY <1>2, <1>5
  <2> QED
    BY <2>1, SplitSamples DEF out, u
<1>7. Block(f, out) \in Records /\ Block(f, out).samples = out
  <2>1. Block(f, out) = [skip |-> FALSE, pos |-> f.pos, left |-> f.left,
                         samples |-> out]
    BY DEF Block
  <2>2. f.pos \in Nat /\ f.left \in Nat
    BY <1>2
  <2>3. /\ Block(f, out) \in [skip : BOOLEAN, pos : Nat, left : Nat,
                              samples : Seq(Nat)]
        /\ ~Block(f, out).skip /\ Block(f, out).samples = out
        /\ Block(f, out).left = f.left /\ Block(f, out).pos = f.pos
    <3>1. out \in Seq(Nat)
      BY <1>6
    <3> QED
      BY <2>1, <2>2, <3>1
  <2>4. out[f.left + 1] = f.pos
    <3>1. f.left \in Nat /\ z \in Nat /\ f.left < z
      BY <1>2, <1>5
    <3>2. f.left + 1 \in 1..z
      BY <3>1
    <3> QED
      BY <1>2, <1>6, <3>2
  <2> QED
    BY <1>2, <2>3, <2>4 DEF Records
<1>8. /\ Rest(f, u) \in [samples : Seq(Nat), pos : Nat, left : Nat,
                         fresh : BOOLEAN]
      /\ Rest(f, u).samples = u /\ Rest(f, u).fresh
  BY <1>2, <1>6 DEF Rest
<1>9. \A i \in DOMAIN u : u[i] > 0
  <2> TAKE i \in DOMAIN u
  <2>1. i \in 1..Len(t) - z
    BY <1>6
  <2>2. z + i \in 1..Len(t)
    <3>1. z \in Nat /\ Len(t) \in Nat
      BY <1>2, <1>5
    <3> QED
      BY <2>1, <3>1
  <2>3. z + i \in DOMAIN t /\ u[i] = t[z + i]
    BY <1>2, <1>6, <2>1, <2>2
  <2> QED
    BY <1>2, <2>3
<1>10. Len(u) < BlockSize /\ Len(u) \in Nat
  BY <1>2, <1>5, <1>6
<1>11. z \in 0..Len(t) /\ z # 0 /\ z \in Nat
  BY <1>5
<1> QED
  BY <1>6, <1>7, <1>8, <1>9, <1>10, <1>11 DEF t, out, u

(* The block of the host goes behind m_writeBuffer, and a block of it may  *)
(* leave for m_writeQ.                                                     *)
LEMMA SendInv ==
  ASSUME StreamInv, NEW n \in 1..BlockSize, Send(n)
  PROVE  StreamInv'
<1> DEFINE s == writeBuffer.samples
           q == SamplesOf(writeQ)
<1>1. StreamTypes
  BY DEF StreamInv
<1>2. PICK f : f = Filling(writeBuffer, n)
  OBVIOUS
<1>3. PICK t : t = f.samples
  OBVIOUS
<1>4. PICK z : z = IF fixed THEN BlockSize ELSE Len(t)
  OBVIOUS
<1>5. PICK out : out = SubSeq(t, 1, z)
  OBVIOUS
<1>6. PICK u : u = Consume(t, z)
  OBVIOUS
<1>7. /\ Given(n)
      /\ IF Filled(t)
           THEN /\ writeQ' = Push(writeQ, Block(f, out))
                /\ lost' = lost + Refused(writeQ, out)
                /\ writeBuffer' = Rest(f, u)
           ELSE writeBuffer' = f /\ UNCHANGED <<writeQ, lost>>
      /\ UNCHANGED <<fixed, io, readQ, readBuffer, dropSamples, played, heard, held>>
  BY <1>2, <1>3, <1>4, <1>5, <1>6, Zenon DEF Send
<1>8. /\ sent' = sent + n /\ n \in Nat \ {0} /\ n <= BlockSize
      /\ sent' \in 0..MaxSamples /\ sent' = played' + daw'.size
      /\ daw' \in [step : {"host", "read", "failed"}, size : 0..BlockSize]
      /\ daw'.step # "host"
  BY <1>1, <1>7, GivenTypes
<1>9. /\ f \in [samples : Seq(Nat), pos : Nat, left : Nat, fresh : BOOLEAN]
      /\ t = s \o HostBlock(n) /\ ~f.fresh
      /\ t \in Seq(Nat) /\ Len(t) = Len(s) + n
      /\ \A i \in DOMAIN t : t[i] > 0
      /\ f.left < BlockSize /\ f.left < Len(t) /\ t[f.left + 1] = f.pos
  <2>1. t = s \o HostBlock(n)
    BY <1>2, <1>3 DEF Filling
  <2>2. /\ f \in [samples : Seq(Nat), pos : Nat, left : Nat, fresh : BOOLEAN]
        /\ ~f.fresh
        /\ s \o HostBlock(n) \in Seq(Nat)
        /\ Len(s \o HostBlock(n)) = Len(s) + n
        /\ \A i \in DOMAIN (s \o HostBlock(n)) : (s \o HostBlock(n))[i] > 0
        /\ f.left < BlockSize /\ f.left < Len(s \o HostBlock(n))
        /\ (s \o HostBlock(n))[f.left + 1] = f.pos
    BY <1>1, <1>2, FillingIs, Zenon
  <2> QED
    BY <2>1, <2>2, Zenon
<1>10. /\ readQ \in Blocks /\ lost \in Nat /\ sent \in Nat /\ s \in Seq(Nat)
       /\ writeQ \in Seq(Records) /\ q \in Blocks /\ Len(q) = Len(writeQ)
       /\ Len(writeQ) \in Nat /\ Latency \in Nat /\ Len(s) \in Nat
       /\ sent' \in Nat /\ sent <= sent' /\ Len(t) \in Nat
  <2>1. /\ readQ \in Blocks /\ lost \in Nat /\ sent \in Nat /\ s \in Seq(Nat)
        /\ writeQ \in Seq(Records) /\ q \in Blocks /\ Len(q) = Len(writeQ)
        /\ Len(writeQ) \in Nat /\ Latency \in Nat /\ Len(s) \in Nat
    BY <1>1, Numbers
  <2>2. sent' \in Nat /\ sent <= sent' /\ Len(t) \in Nat
    BY <1>8, <1>9, <2>1
  <2> QED
    BY <2>1, <2>2
<1>11. PICK a, r, w : Risen(a, r, w)
  BY DEF StreamInv
<1>12. /\ a \in 0..sent /\ Ladder(readQ, r, sent) /\ Ladder(q, w, sent)
       /\ Rises(s, w[Len(w)], sent)
  BY <1>11 DEF Risen
<1>13. PICK p, v : Placed(p, v)
  BY DEF StreamInv
<1>14. /\ Offsets(readQ, played + Len(readBuffer), p)
       /\ Offsets(q, WriteStart(p), v)
       /\ v[Len(v)] + Len(s) + lost = Latency + sent
       /\ lost = 0 => Fitting(p, v)
  BY <1>13 DEF Placed
<1>15. PICK e \in Int : e = v[Len(v)]
  BY <1>10, <1>14, OffsetEnds
<1>16. q = SamplesOf(writeQ) /\ s = writeBuffer.samples
  OBVIOUS
<1>17. WriteStart(p)' = WriteStart(p)
  BY <1>7 DEF WriteStart
<1> HIDE DEF q, s
<1>18. /\ Ladder(readQ, r, sent') /\ Ladder(q, w, sent') /\ a \in 0..sent'
       /\ w[Len(w)] \in 0..sent' /\ w[Len(w)] \in Nat
  <2>1. Ladder(readQ, r, sent') /\ Ladder(q, w, sent')
    BY <1>10, <1>12, LadderHigher
  <2>2. w[Len(w)] \in 0..sent' /\ w[Len(w)] \in Nat
    BY <1>10, <2>1, LadderEnds
  <2>3. a \in 0..sent'
    BY <1>10, <1>12
  <2> QED
    BY <2>1, <2>2, <2>3
<1>19. Rises(t, w[Len(w)], sent')
  <2>1. /\ Rises(HostBlock(n), sent, sent') /\ HostBlock(n) \in Seq(Nat)
    BY <1>8, <1>10, HostNumbers
  <2> QED
    BY <1>9, <1>10, <1>12, <1>18, <2>1, RisesJoined
<1>20. e + Len(t) + lost = Latency + sent'
  <2>1. e + Len(s) + lost = Latency + sent
    BY <1>14, <1>15
  <2>2. /\ Len(s) \in Nat /\ lost \in Nat /\ Latency \in Nat /\ sent \in Nat
        /\ n \in Nat
    BY <1>8, <1>10
  <2>3. e + (Len(s) + n) + lost = Latency + (sent + n)
    BY <2>1, <2>2
  <2> QED
    BY <1>8, <1>9, <2>3
<1>21. lost = 0 => Fits(t, e, held)
  <2> SUFFICES ASSUME lost = 0
               PROVE  Fits(t, e, held)
    OBVIOUS
  <2>1. Fits(s, e, held)
    BY <1>14, <1>15, <1>16 DEF Fitting
  <2>2. Fits(HostBlock(n), e + Len(s), held)
    <3>1. /\ DOMAIN HostBlock(n) = 1..n
          /\ \A i \in 1..n : HostBlock(n)[i] = sent + i
      BY <1>8, <1>10, HostNumbers
    <3>2. e + Len(s) = Latency + sent
      BY <1>10, <1>14, <1>15
    <3>3. \A i \in 1..n : sent + i = Latency + sent + i - Latency
      BY <1>10
    <3> QED
      BY <3>1, <3>2, <3>3 DEF Fits
  <2>3. HostBlock(n) \in Seq(Nat)
    BY <1>8, <1>10, HostNumbers
  <2> QED
    BY <1>9, <1>10, <2>1, <2>2, <2>3, FitsJoined
<1>22. CASE ~Filled(t)
  <2>1. writeBuffer' = f /\ UNCHANGED <<writeQ, lost>>
    BY <1>7, <1>22
  <2>2. Len(t) < BlockSize
    BY <1>10, <1>22, StreamAssumption DEF Filled
  <2>3. SamplesOf(writeQ)' = q
    BY <1>16, <2>1 DEF SamplesOf
  <2>4. StreamTypes'
    BY <1>1, <1>3, <1>7, <1>8, <1>9, <2>1, <2>2 DEF StreamTypes
  <2>5. Risen(a, r, w)'
    BY <1>3, <1>7, <1>11, <1>18, <1>19, <2>1, <2>3 DEF Risen
  <2>6. lost = 0 => Fitting(p, v)'
    BY <1>3, <1>7, <1>14, <1>15, <1>16, <1>21, <2>1, <2>3 DEF Fitting
  <2>7. Placed(p, v)'
    BY <1>3, <1>7, <1>14, <1>15, <1>17, <1>20, <2>1, <2>3, <2>6 DEF Placed
  <2> QED
    BY <2>4, <2>5, <2>7 DEF StreamInv
<1>23. CASE Filled(t)
  <2>1. /\ writeQ' = Push(writeQ, Block(f, out))
        /\ lost' = lost + Refused(writeQ, out)
        /\ writeBuffer' = Rest(f, u)
    BY <1>7, <1>23
  <2>2. /\ z \in 0..Len(t) /\ z # 0 /\ z \in Nat
        /\ out \in Seq(Nat) /\ Len(out) = z
        /\ u \in Seq(Nat) /\ Len(u) = Len(t) - z /\ Len(u) \in Nat
        /\ Block(f, out) \in Records /\ Block(f, out).samples = out
        /\ Rest(f, u) \in [samples : Seq(Nat), pos : Nat, left : Nat,
                           fresh : BOOLEAN]
        /\ Rest(f, u).samples = u /\ Rest(f, u).fresh
        /\ Len(u) < BlockSize /\ \A i \in DOMAIN u : u[i] > 0
    <3>1. Len(s) < BlockSize
      BY <1>1, <1>16 DEF StreamTypes
    <3>2. fixed => Len(f.samples) >= BlockSize
      BY <1>3, <1>23 DEF Filled
    <3>3. /\ f.left < Len(f.samples) /\ f.samples[f.left + 1] = f.pos
          /\ \A i \in DOMAIN f.samples : f.samples[i] > 0
          /\ Len(f.samples) = Len(s) + n /\ Len(s) \in Nat
          /\ z = IF fixed THEN BlockSize ELSE Len(f.samples)
          /\ out = SubSeq(f.samples, 1, z) /\ u = Consume(f.samples, z)
          /\ Len(t) = Len(f.samples)
      BY <1>3, <1>4, <1>5, <1>6, <1>9, <1>10
    <3> QED
      BY <1>9, <3>1, <3>2, <3>3, TakenIs
  <2>3. writeBuffer'.samples = u
    BY <2>1, <2>2
  <2>4. PICK m \in Nat : Rises(out, w[Len(w)], m) /\ Rises(u, m, sent')
    BY <1>5, <1>6, <1>9, <1>10, <1>18, <1>19, <2>2, RisesSplit
  <2>5. lost = 0 => Fits(out, e, held) /\ Fits(u, e + z, held)
    BY <1>5, <1>6, <1>9, <1>21, <2>2, FitsPart
  <2>6. CASE ~Full(writeQ)
    <3>1. writeQ' = Append(writeQ, Block(f, out)) /\ lost' = lost
      BY <1>10, <2>1, <2>6 DEF Push, Refused
    <3>2. writeQ' \in Seq(Records) /\ Len(writeQ') = Len(writeQ) + 1
      BY <1>10, <2>2, <3>1, LongerQueue
    <3>3. SamplesOf(writeQ)' = Append(q, out)
      BY <1>10, <1>16, <2>2, <3>1, SamplesOfLonger
    <3>4. StreamTypes'
      BY <1>1, <1>7, <1>8, <2>1, <2>2, <3>1, <3>2 DEF StreamTypes
    <3>5. (\E c, x, y : Risen(c, x, y))'
      <4>1. m \in 0..sent'
        BY <1>10, <2>4 DEF Rises
      <4>2. PICK y : y = Append(w, m)
        OBVIOUS
      <4>3. /\ Ladder(Append(q, out), y, sent') /\ y[1] = w[1]
            /\ y[Len(y)] = m
        BY <1>10, <1>18, <2>2, <2>4, <4>1, <4>2, LadderLonger
      <4>4. Risen(a, r, y)'
        BY <1>7, <1>11, <1>18, <2>3, <2>4, <3>3, <4>3 DEF Risen
      <4> QED
        BY <4>4
    <3>6. (\E x, y : Placed(x, y))'
      <4>1. q \in Blocks /\ out \in Seq(Nat) /\ Offsets(q, WriteStart(p), v)
        BY <1>10, <1>14, <2>2
      <4>2. PICK y : /\ Offsets(Append(q, out), WriteStart(p), y)
                     /\ y[Len(y)] = v[Len(v)] + Len(out)
                     /\ \A k \in 1..Len(q) : y[k] = v[k]
                     /\ y[Len(q) + 1] = v[Len(v)]
        BY <4>1, OffsetsLonger
      <4>3. y[Len(y)] = e + z /\ y[Len(q) + 1] = e
        BY <1>15, <2>2, <4>2
      <4>4. (e + z) + Len(u) + lost = Latency + sent'
        <5>1. (e + z) + (Len(t) - z) + lost = e + Len(t) + lost
          BY <1>10, <2>2
        <5> QED
          BY <1>20, <2>2, <5>1
      <4>5. ASSUME lost = 0
            PROVE  Fitting(p, y)'
        <5>1. /\ Len(Append(q, out)) = Len(q) + 1
              /\ Append(q, out)[Len(q) + 1] = out
              /\ \A k \in 1..Len(q) : Append(q, out)[k] = q[k]
          BY <1>10, <2>2, LongerQueue DEF Blocks
        <5>2. Fitting(p, v)
          BY <1>14, <4>5
        <5>3. \A k \in 1..Len(q) + 1 : Fits(Append(q, out)[k], y[k], held)
          <6> TAKE k \in 1..Len(q) + 1
          <6>1. CASE k = Len(q) + 1
            BY <2>5, <4>3, <4>5, <5>1, <6>1
          <6>2. CASE k # Len(q) + 1
            <7>1. k \in 1..Len(q)
              BY <1>10, <6>2
            <7>2. Fits(q[k], v[k], held)
              BY <1>10, <1>16, <5>2, <7>1 DEF Fitting
            <7> QED
              BY <4>2, <5>1, <7>1, <7>2
          <6> QED
            BY <6>1, <6>2
        <5>4. Fits(u, y[Len(y)], held)
          BY <2>5, <4>3, <4>5
        <5>5. (\A k \in 1..Len(writeQ) : Fits(SamplesOf(writeQ)[k], y[k], held))'
          BY <1>7, <1>10, <3>2, <3>3, <5>3
        <5> QED
          BY <1>7, <2>3, <5>2, <5>4, <5>5 DEF Fitting
      <4>6. Placed(p, y)'
        BY <1>7, <1>14, <1>17, <2>3, <3>1, <3>3, <4>2, <4>3, <4>4, <4>5 DEF Placed
      <4> QED
        BY <4>6
    <3> QED
      BY <3>4, <3>5, <3>6 DEF StreamInv
  <2>7. CASE Full(writeQ)
    <3>1. writeQ' = writeQ /\ lost' = lost + z
      BY <2>1, <2>2, <2>7 DEF Push, Refused
    <3>2. lost' \in Nat /\ lost' # 0
      BY <1>10, <2>2, <3>1
    <3>3. SamplesOf(writeQ)' = q
      BY <1>16, <3>1 DEF SamplesOf
    <3>4. StreamTypes'
      BY <1>1, <1>7, <1>8, <2>1, <2>2, <3>1, <3>2 DEF StreamTypes
    <3>5. Risen(a, r, w)'
      <4>1. Rises(u, w[Len(w)], sent')
        BY <1>5, <1>6, <1>9, <1>10, <1>18, <1>19, <2>2, RisesPart
      <4> QED
        BY <1>7, <1>11, <1>18, <2>3, <3>3, <4>1 DEF Risen
    <3>6. Placed(p, v)'
      <4>1. e + Len(u) + lost' = Latency + sent'
        <5>1. e + (Len(t) - z) + (lost + z) = e + Len(t) + lost
          BY <1>10, <2>2
        <5> QED
          BY <1>20, <2>2, <3>1, <5>1
      <4> QED
        BY <1>7, <1>14, <1>15, <1>17, <2>3, <3>2, <3>3, <4>1 DEF Placed
    <3> QED
      BY <3>4, <3>5, <3>6 DEF StreamInv
  <2> QED
    BY <2>6, <2>7
<1> QED
  BY <1>22, <1>23

-----------------------------------------------------------------------------
(* Every step keeps the invariant.                                         *)
LEMMA StreamStep == StreamInv /\ [SamplesNext]_sampleVars => StreamInv'
<1> SUFFICES ASSUME StreamInv, [SamplesNext]_sampleVars
             PROVE  StreamInv'
  OBVIOUS
<1>1. ASSUME NEW n \in 1..BlockSize, Send(n)
      PROVE  StreamInv'
  BY <1>1, SendInv
<1>2. ASSUME NEW n \in 1..BlockSize, Skip(n)
      PROVE  StreamInv'
  BY <1>2, SkipInv
<1>3. CASE SwitchFixed
  BY <1>3, SwitchFixedInv
<1>4. CASE Pop
  BY <1>4, PopInv
<1>5. CASE WaitTimeout
  BY <1>5, WaitTimeoutInv
<1>6. CASE GiveUp
  BY <1>6, GiveUpInv
<1>7. CASE Deliver
  BY <1>7, DeliverInv
<1>8. CASE Fetch
  BY <1>8, FetchInv
<1>9. CASE TakeDrops
  BY <1>9, TakeDropsInv
<1>10. CASE PutBackDrops
  BY <1>10, PutBackDropsInv
<1>11. CASE PushRead
  BY <1>11, PushReadInv
<1>12. CASE UNCHANGED sampleVars
  <2>1. UNCHANGED <<fixed, daw, writeBuffer, writeQ, io, readQ, readBuffer,
                    dropSamples, sent, played, heard, held, lost>>
    BY <1>12 DEF sampleVars, stream, history
  <2>2. StreamTypes' <=> StreamTypes
    BY <2>1 DEF StreamTypes
  <2>3. \A a, r, w : Risen(a, r, w)' <=> Risen(a, r, w)
    BY <2>1 DEF Risen, SamplesOf
  <2>4. \A r, w : Placed(r, w)' <=> Placed(r, w)
    BY <2>1 DEF Placed, Fitting, WriteStart, SamplesOf
  <2> QED
    BY <2>2, <2>3, <2>4 DEF StreamInv
<1> QED
  BY <1>1, <1>2, <1>3, <1>4, <1>5, <1>6, <1>7, <1>8, <1>9, <1>10, <1>11, <1>12
     DEF SamplesNext

(* The invariant holds in every reachable state.                           *)
LEMMA StreamAlways == SamplesSpec => []StreamInv
<1>1. SamplesInit => StreamInv
  BY SamplesInitially
<1>2. StreamInv /\ [SamplesNext]_sampleVars => StreamInv'
  BY StreamStep
<1> QED
  BY <1>1, <1>2, PTL DEF SamplesSpec

(* The accounts follow from the places.                                    *)
LEMMA AccountedInside == StreamInv => SamplesAccounted
<1> SUFFICES ASSUME StreamInv
             PROVE  SamplesAccounted
  OBVIOUS
<1>1. StreamTypes
  BY DEF StreamInv
<1>2. SampleTypes
  <2>1. played \in 0..sent
    BY <1>1, Numbers
  <2> QED
    BY <1>1, <2>1 DEF StreamTypes, SampleTypes
<1>3. PICK r, w : Placed(r, w)
  BY DEF StreamInv
<1> DEFINE q == SamplesOf(writeQ)
           at == played + Len(readBuffer)
           start == WriteStart(r)
<1>4. /\ Offsets(readQ, at, r) /\ Offsets(q, start, w)
      /\ w[Len(w)] + Len(writeBuffer.samples) + lost = Latency + sent
  BY <1>3 DEF Placed
<1>5. /\ readQ \in Blocks /\ q \in Blocks /\ played \in Nat
      /\ Len(readBuffer) \in Nat /\ Len(io.samples) \in Nat /\ io.owed \in Nat
      /\ dropSamples \in Nat /\ lost \in Nat /\ sent \in Nat /\ daw.size \in Nat
      /\ Len(writeBuffer.samples) \in Nat /\ Latency \in Nat
      /\ sent = played + daw.size /\ BlockSize \in Nat
  BY <1>1, Numbers
<1>6. /\ r[Len(r)] \in Int /\ Len(r) = Len(readQ) + 1
      /\ w[Len(w)] \in Int /\ Len(w) = Len(q) + 1 /\ start \in Int /\ at \in Int
  <2>1. r[Len(r)] \in Int /\ Len(r) = Len(readQ) + 1 /\ at \in Int
    BY <1>4, <1>5, OffsetEnds
  <2>2. w[Len(w)] \in Int /\ Len(w) = Len(q) + 1 /\ start \in Int
    BY <1>4, <1>5, OffsetEnds
  <2> QED
    BY <2>1, <2>2
<1>7. start = r[Len(r)] + Len(io.samples) - io.owed - dropSamples
  BY DEF WriteStart
<1> HIDE DEF q, start
<1>8. Total(readQ) = r[Len(r)] - at
  BY <1>4, <1>5, <1>6, TotalIs
<1>9. Total(q) = w[Len(w)] - start
  BY <1>4, <1>5, <1>6, TotalIs
<1>10. PICK e \in Int : e = w[Len(w)]
  BY <1>6
<1>11. PICK c \in Int : c = r[Len(r)]
  BY <1>6
<1>12. PICK b \in Nat : b = Len(readBuffer)
  BY <1>5
<1>13. PICK l \in Nat : l = Len(io.samples)
  BY <1>5
<1>14. PICK k \in Nat : k = Len(writeBuffer.samples)
  BY <1>5
<1>15. Coming = e - played
  <2>1. Coming = b + Total(readQ) + l - io.owed + Total(q) - dropSamples
    BY <1>12, <1>13 DEF Coming, q
  <2>2. Total(readQ) = c - (played + b)
    BY <1>8, <1>11, <1>12
  <2>3. Total(q) = e - (c + l - io.owed - dropSamples)
    BY <1>7, <1>9, <1>10, <1>11, <1>13
  <2>4. played \in Nat /\ io.owed \in Nat /\ dropSamples \in Nat
    BY <1>5
  <2>5. b + (c - (played + b)) + l - io.owed
          + (e - (c + l - io.owed - dropSamples)) - dropSamples = e - played
    BY <2>4
  <2> QED
    BY <2>1, <2>2, <2>3, <2>5
<1>16. /\ played \in Nat /\ lost \in Nat /\ sent \in Nat /\ Latency \in Nat
       /\ daw.size \in Nat /\ sent = played + daw.size /\ BlockSize \in Nat
       /\ e + k + lost = Latency + sent
  BY <1>4, <1>5, <1>10, <1>14
<1>17. Conservation
  <2>1. PICK y \in Nat : y = Latency
    BY <1>16
  <2>2. PICK x \in Nat : x = played
    BY <1>16
  <2>3. PICK m \in Nat : m = lost
    BY <1>16
  <2>4. PICK g \in Nat : g = sent
    BY <1>16
  <2>5. e + k + m = y + g
    BY <1>16, <2>1, <2>3, <2>4
  <2>6. k + (e - x) = y + g - x - m
    BY <2>5
  <2> QED
    BY <1>14, <1>15, <2>1, <2>2, <2>3, <2>4, <2>6 DEF Conservation
<1>18. ReadCanFinish
  <2>1. k < BlockSize /\ BlockSize <= Latency
    BY <1>1, <1>14, LatencyBig DEF StreamTypes
  <2>2. (e - played) + lost >= daw.size
    BY <1>16, <2>1
  <2> QED
    BY <1>15, <2>2 DEF ReadCanFinish
<1>19. PositionInside
  <2>1. writeQ \in Seq(Records)
    BY <1>1, Numbers
  <2>2. \A i \in DOMAIN writeQ : writeQ[i] \in Records
    BY <2>1
  <2> QED
    BY <2>2 DEF PositionInside, Records
<1> QED
  BY <1>2, <1>17, <1>18, <1>19 DEF SamplesAccounted

(* The order follows from the bounds, and the alignment from the places.   *)
LEMMA InPlaceInside == StreamInv => InPlace
<1> SUFFICES ASSUME StreamInv
             PROVE  InPlace
  OBVIOUS
<1>1. PICK a, r, w : Risen(a, r, w)
  BY DEF StreamInv
<1>2. Rises(heard.samples, heard.after, a)
  BY <1>1 DEF Risen
<1>3. HeardInOrder
  BY <1>2, Zenon DEF HeardInOrder, Rises
<1>4. PICK p, v : Placed(p, v)
  BY DEF StreamInv
<1>5. lost = 0 => Fits(heard.samples, heard.at, held)
  BY <1>4 DEF Placed, Fitting
<1>6. Aligned
  BY <1>5, Zenon DEF Aligned, Fits
<1> QED
  BY <1>3, <1>6 DEF InPlace

(* For any number of buffers, any block sizes of the host and any changes  *)
(* of the switch, the samples in the buffers, the queues and the hands of  *)
(* the io thread, with the drops that are owed, are those between the host *)
(* and its ear that met no full queue; a read() finds enough for its block *)
(* unless some did, and the position that goes with a block is that of one *)
(* of its own samples.                                                     *)
THEOREM SamplesAreAccounted == SamplesSpec => []SamplesAccounted
<1>1. SamplesSpec => []StreamInv
  BY StreamAlways
<1>2. StreamInv => SamplesAccounted
  BY AccountedInside
<1> QED
  BY <1>1, <1>2, PTL

(* For any number of buffers and any block sizes the samples are heard in  *)
(* their order, each once, and until a queue is full each one exactly      *)
(* after the announced latency, but for those that a skipped block         *)
(* overtook in m_writeBuffer or that were past the drops when a read()     *)
(* gave up.                                                                *)
THEOREM SamplesAreInPlace == SamplesSpec => []InPlace
<1>1. SamplesSpec => []StreamInv
  BY StreamAlways
<1>2. StreamInv => InPlace
  BY InPlaceInside
<1> QED
  BY <1>1, <1>2, PTL
=============================================================================
