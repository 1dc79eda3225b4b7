---------------------------- MODULE BlockChannel ----------------------------
(***************************************************************************)
(* What a buffered audio streamer promises the host.  Audio blocks are     *)
(* numbered in the order in which the host hands them over; the channel    *)
(* starts with Prefill blocks of silence.  A block that was handed over    *)
(* is delivered at most once, in order, or it is discarded: the channel    *)
(* never invents, repeats or reorders a block.                             *)
(*                                                                         *)
(* AudioStreamer implements this specification.                            *)
(***************************************************************************)
EXTENDS Naturals, Sequences

CONSTANT Prefill  (* Number of blocks of silence, a natural number.       *)

VARIABLES
  pipe,   (* The numbers of the blocks inside the channel, oldest first.   *)
  next,   (* The number the next block of the host gets.                   *)
  out     (* The number of the block delivered last, 0 before the first.   *)

vars == <<pipe, next, out>>

Init ==
  /\ pipe = [i \in 1..Prefill |-> i]
  /\ next = Prefill + 1
  /\ out = 0

Accept ==
  /\ pipe' = Append(pipe, next)
  /\ next' = next + 1
  /\ UNCHANGED out

Deliver ==
  /\ pipe # <<>>
  /\ out' = Head(pipe)
  /\ pipe' = Tail(pipe)
  /\ UNCHANGED next

(* A block can be discarded anywhere: at the entry of the channel because  *)
(* it is full, in the middle because it is already late.                   *)
Discard(i) ==
  /\ pipe' = SubSeq(pipe, 1, i - 1) \o SubSeq(pipe, i + 1, Len(pipe))
  /\ UNCHANGED <<next, out>>

Next ==
  \/ Accept
  \/ Deliver
  \/ \E i \in 1..Len(pipe) : Discard(i)

Spec == Init /\ [][Next]_vars
=============================================================================
