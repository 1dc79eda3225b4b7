---------------------------- MODULE AsyncFunctors ----------------------------
(***************************************************************************)
(* Callbacks into an object that may be destroyed meanwhile: the macros    *)
(* ENABLE_ASYNC_FUNCTORS, initAsyncFunctors and stopAsyncFunctors and the  *)
(* function runOnMsgThreadSync of Common/Source/Utils.hpp, which most      *)
(* objects of the plugin and of the server use.                            *)
(*                                                                         *)
(* A functor runs on the message thread (runOnMsgThreadAsync) or, through  *)
(* an __AsyncContext, on the thread of whoever holds the context.  Either  *)
(* way it looks at a shared flag, then counts itself in, runs, and counts  *)
(* itself out.  The destructor clears the flag, passes a barrier through   *)
(* the message thread, and waits for the count.                            *)
(*                                                                         *)
(* The message thread is JUCE's: it runs what is posted in order, until    *)
(* the application quits.                                                  *)
(***************************************************************************)
EXTENDS Naturals, Sequences, FiniteSets

CONSTANTS
  Context,       (* Threads that run functors through an __AsyncContext.   *)
  MayQuit,       (* The application may stop the message thread.           *)
  MaxPosts       (* Bound on the functors that are posted.                 *)

ASSUME ContextAssumption == IsFiniteSet(Context)
ASSUME QuitAssumption == MayQuit \in BOOLEAN
ASSUME PostsAssumption == MaxPosts \in Nat

VARIABLES
  flag,      (* __m_asyncExecFlag: "null" before initAsyncFunctors().      *)
  count,     (* __m_asyncExecCnt                                           *)
  owner,     (* Where the thread is that owns, and destroys, the object.   *)
  done,      (* done, of the barrier.                                      *)
  msg,       (* Where the message thread is.                               *)
  queue,     (* What was posted to the message thread.                     *)
  quit,      (* hasStopMessageBeenSent()                                   *)
  ctx,       (* Where the threads with a context are.                      *)
  posts      (* Functors posted so far.                                    *)

functorVars == <<flag, count, owner, done, msg, queue, quit, ctx, posts>>

FunctorsInit ==
  /\ flag = "null" /\ count = 0
  /\ owner = "new" /\ done = FALSE
  /\ msg = "idle" /\ queue = <<>> /\ quit = FALSE
  /\ ctx = [t \in Context |-> "none"]
  /\ posts = 0

-----------------------------------------------------------------------------
(* Plausible mistakes, see AudioStreamer.                                  *)

(* The waiter does not mark the barrier when it gives up.                  *)
EndBarrier_Unmarked ==
  /\ owner = "barrier"
  /\ done \/ quit
  /\ owner' = "counting"
  /\ UNCHANGED <<flag, count, done, msg, queue, quit, ctx, posts>>

(* The waiter does not look for the end of the message thread.             *)
EndBarrier_Forever ==
  /\ owner = "barrier"
  /\ done
  /\ owner' = "counting"
  /\ UNCHANGED <<flag, count, done, msg, queue, quit, ctx, posts>>

(* The barrier is left out: only the count is waited for.                  *)
PostBarrier_None ==
  /\ owner = "post"
  /\ owner' = "counting"
  /\ UNCHANGED <<flag, count, done, msg, queue, quit, ctx, posts>>

-----------------------------------------------------------------------------
(* The object and its owner.                                               *)

(* initAsyncFunctors(), in the constructor.                                *)
InitAsyncFunctors ==
  /\ owner = "new"
  /\ owner' = "alive"
  /\ flag' = "exec"
  /\ UNCHANGED <<count, done, msg, queue, quit, ctx, posts>>

(* The destructor begins: stopAsyncFunctors().  The owner's thread may be  *)
(* the message thread itself, between two functors.                        *)
StopAsyncFunctors ==
  /\ owner = "alive"
  /\ \/ owner' = "stopping"
     \/ msg = "idle" /\ owner' = "destroying"
  /\ flag' = "stop"
  /\ UNCHANGED <<count, done, msg, queue, quit, ctx, posts>>

(* msgThreadExistsAndNotLocked(): on the message thread, and when the      *)
(* application quits, nothing is waited for.                               *)
CheckMsgThread ==
  /\ owner \in {"stopping", "destroying"}
  /\ owner' = IF quit \/ owner = "destroying" THEN "gone" ELSE "post"
  /\ UNCHANGED <<flag, count, done, msg, queue, quit, ctx, posts>>

(* runOnMsgThreadSync([] {})                                               *)
PostBarrier ==
  /\ owner = "post"
  /\ IF quit
       THEN /\ owner' = "counting"
            /\ UNCHANGED queue
       ELSE /\ owner' = "barrier"
            /\ queue' = Append(queue, "barrier")
  /\ UNCHANGED <<flag, count, done, msg, quit, ctx, posts>>

(* A waiter that leaves because of the quitting application marks the      *)
(* barrier as done, with its mutex held.                                   *)
EndBarrier ==
  /\ owner = "barrier"
  /\ done \/ quit
  /\ done' = TRUE
  /\ owner' = "counting"
  /\ UNCHANGED <<flag, count, msg, queue, quit, ctx, posts>>

(* The object is freed when the count is 0.                                *)
EndCounting ==
  /\ owner = "counting"
  /\ count = 0
  /\ owner' = "gone"
  /\ UNCHANGED <<flag, count, done, msg, queue, quit, ctx, posts>>

-----------------------------------------------------------------------------
(* The message thread.                                                     *)

(* runOnMsgThreadAsync() of a member, as long as there is an object.       *)
RunOnMsgThreadAsync ==
  /\ owner \notin {"new", "gone"}
  /\ posts < MaxPosts
  /\ posts' = posts + 1
  /\ queue' = Append(queue, "functor")
  /\ UNCHANGED <<flag, count, owner, done, msg, quit, ctx>>

(* The next functor finds the flag set or cleared.                         *)
Dispatch ==
  /\ msg = "idle"
  /\ owner # "destroying"
  /\ queue # <<>> /\ Head(queue) = "functor"
  /\ queue' = Tail(queue)
  /\ msg' = IF flag = "exec" THEN "enter" ELSE "idle"
  /\ UNCHANGED <<flag, count, owner, done, quit, ctx, posts>>

(* The barrier runs with its mutex held, unless its waiter left.           *)
DispatchBarrier ==
  /\ msg = "idle"
  /\ queue # <<>> /\ Head(queue) = "barrier"
  /\ queue' = Tail(queue)
  /\ done' = TRUE
  /\ UNCHANGED <<flag, count, owner, msg, quit, ctx, posts>>

Enter ==
  /\ msg = "enter"
  /\ count' = count + 1
  /\ msg' = "run"
  /\ UNCHANGED <<flag, owner, done, queue, quit, ctx, posts>>

Leave ==
  /\ msg = "run"
  /\ count' = count - 1
  /\ msg' = "idle"
  /\ UNCHANGED <<flag, owner, done, queue, quit, ctx, posts>>

Quit ==
  /\ MayQuit
  /\ quit' = TRUE
  /\ UNCHANGED <<flag, count, owner, done, msg, queue, ctx, posts>>

-----------------------------------------------------------------------------
(* The threads with a context.                                             *)

(* getAsyncContext(), when the object hands out a callback.                *)
GetAsyncContext(t) ==
  /\ owner = "alive"
  /\ ctx[t] = "none"
  /\ ctx' = [ctx EXCEPT ![t] = "held"]
  /\ UNCHANGED <<flag, count, owner, done, msg, queue, quit, posts>>

(* execute()                                                               *)
ContextCheck(t) ==
  /\ ctx[t] = "held"
  /\ flag = "exec"
  /\ ctx' = [ctx EXCEPT ![t] = "enter"]
  /\ UNCHANGED <<flag, count, owner, done, msg, queue, quit, posts>>

ContextEnter(t) ==
  /\ ctx[t] = "enter"
  /\ count' = count + 1
  /\ ctx' = [ctx EXCEPT ![t] = "run"]
  /\ UNCHANGED <<flag, owner, done, msg, queue, quit, posts>>

ContextLeave(t) ==
  /\ ctx[t] = "run"
  /\ count' = count - 1
  /\ ctx' = [ctx EXCEPT ![t] = "held"]
  /\ UNCHANGED <<flag, owner, done, msg, queue, quit, posts>>

-----------------------------------------------------------------------------
OwnerStep == CheckMsgThread \/ PostBarrier \/ EndBarrier \/ EndCounting

Running == Enter \/ Leave

ContextStep(t) == ContextEnter(t) \/ ContextLeave(t)

FunctorsNext ==
  \/ InitAsyncFunctors \/ StopAsyncFunctors \/ OwnerStep
  \/ RunOnMsgThreadAsync \/ Dispatch \/ DispatchBarrier \/ Running \/ Quit
  \/ \E t \in Context :
       GetAsyncContext(t) \/ ContextCheck(t) \/ ContextStep(t)

FunctorsSpec == FunctorsInit /\ [][FunctorsNext]_functorVars

(* Functors end, and the message thread runs what was posted until the     *)
(* application quits.                                                      *)
FunctorsFairSpec ==
  /\ FunctorsSpec
  /\ WF_functorVars(OwnerStep)
  /\ WF_functorVars(Running)
  /\ WF_functorVars(~quit /\ (Dispatch \/ DispatchBarrier))
  /\ \A t \in Context : WF_functorVars(ContextStep(t))

-----------------------------------------------------------------------------
(* Properties.                                                             *)

FunctorsTypeOK ==
  /\ flag \in {"null", "exec", "stop"}
  /\ count \in Nat
  /\ owner \in {"new", "alive", "stopping", "destroying", "post", "barrier",
                "counting", "gone"}
  /\ done \in BOOLEAN /\ quit \in BOOLEAN
  /\ msg \in {"idle", "enter", "run"}
  /\ queue \in Seq({"functor", "barrier"})
  /\ ctx \in [Context -> {"none", "held", "enter", "run"}]
  /\ posts \in Nat

(* Until the application quits, no functor runs on the message thread when *)
(* the object is gone.  The count does not give this, because a functor    *)
(* counts itself in after it looked at the flag: it is the barrier that    *)
(* does.                                                                   *)
NoUseAfterDestroy == owner = "gone" /\ ~quit => msg # "run"

(* The functor of runOnMsgThreadSync() runs only while its caller waits:   *)
(* it may refer to the stack of the caller.                                *)
SyncWhileWaiting == [][done' # done => owner = "barrier"]_functorVars

(* The destructor comes back as long as functors end, also when the        *)
(* application quits and the message thread never runs the barrier.        *)
DestructorReturns == owner = "stopping" ~> owner = "gone"

(* The assertion of getAsyncContext(): the flag is a null pointer.         *)
ContextAssertion ==
  [][\A t \in Context :
       ctx[t] = "none" /\ ctx'[t] = "held" => flag = "null"]_functorVars
=============================================================================
