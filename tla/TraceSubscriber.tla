--------------------------- MODULE TraceSubscriber ---------------------------
(***************************************************************************)
(* One subscription through a TraceSubscriber, the subscriber that         *)
(* TraceOperator puts between the flow of a traced call (the source) and   *)
(* its downstream.  It is a Subscription as well: downstream cancels and   *)
(* requests through it.                                                    *)
(*                                                                         *)
(* Threads: "subscriber" runs the source's onSubscribe; "emitter" brings   *)
(* the source's other signals, which may start as soon as downstream has   *)
(* the subscription; every member of Cancellers makes one call of cancel.  *)
(* Every thread that ends the call runs cleanup, in which compareAndSet,   *)
(* span.finish and rootSpan.finish are separate steps.                     *)
(*                                                                         *)
(* The definitions that nothing uses (CompletionLost and the like) are     *)
(* faulty variants of the definitions that follow them.                    *)
(***************************************************************************)
EXTENDS Naturals

CONSTANTS
  Cancellers,  \* calls of cancel made by downstream
  MaxItems     \* bound: items the source emits

ASSUME TraceAssumption ==
  /\ Cancellers \intersect {"subscriber", "emitter"} = {}
  /\ MaxItems \in Nat

Threads == {"subscriber", "emitter"} \union Cancellers

VARIABLES
  pc,             \* where each thread is
  root,           \* the constructor found an active span: rootSpan # null
  reliable,       \* the tracer never throws while a scope is active
  upstream,       \* the field upstream is set
  refused,        \* a second subscription offered by the source was cancelled
  subscriptions,  \* calls of downstream.onSubscribe
  items,          \* calls of downstream.onNext
  signal,         \* the terminal signal the source gave
  down,           \* the terminal signal downstream received
  cancelled,      \* upstream.cancel was called
  done,           \* the AtomicBoolean
  spanFinished,   \* calls of span.finish
  rootFinished    \* calls of rootSpan.finish

finishes == <<spanFinished, rootFinished>>
flow     == <<upstream, refused, subscriptions, items, signal, down, cancelled>>
setup    == <<root, reliable>>
vars     == <<pc, setup, flow, done, finishes>>

Goto(t, l) == pc' = [pc EXCEPT ![t] = l]

-----------------------------------------------------------------------------
(* Signals of the source.                                                  *)

OnSubscribe ==
  /\ pc["subscriber"] = "start"
  /\ upstream' = TRUE
  /\ subscriptions' = subscriptions + 1
  /\ Goto("subscriber", "activate")
  /\ UNCHANGED <<setup, refused, items, signal, down, cancelled, done, finishes>>

(* The second downstream.onSubscribe, with the scope active.  Downstream   *)
(* has a subscription already and cancels the one it is given, which is    *)
(* this same object.                                                       *)
OnSubscribeInScope ==
  /\ pc["subscriber"] = "activate"
  /\ subscriptions' = subscriptions + 1
  /\ Goto("subscriber", "cancel")
  /\ UNCHANGED <<setup, upstream, refused, items, signal, down, cancelled, done,
                 finishes>>

OnSubscribeThrows ==
  /\ pc["subscriber"] = "activate" /\ ~reliable
  /\ Goto("subscriber", "end")
  /\ UNCHANGED <<setup, flow, done, finishes>>

ForwardsAgain ==
  /\ upstream /\ ~refused
  /\ refused' = TRUE
  /\ subscriptions' = subscriptions + 1
  /\ UNCHANGED <<pc, setup, upstream, items, signal, down, cancelled, done,
                 finishes>>

OnSubscribeAgain ==
  /\ upstream /\ ~refused
  /\ refused' = TRUE
  /\ UNCHANGED <<pc, setup, upstream, subscriptions, items, signal, down,
                 cancelled, done, finishes>>

(* The source may not have noticed yet that it is cancelled.               *)
Emitting == subscriptions > 0 /\ pc["emitter"] = "start"

OnNext ==
  /\ Emitting /\ items < MaxItems
  /\ items' = items + 1
  /\ UNCHANGED <<pc, setup, upstream, refused, subscriptions, signal, down,
                 cancelled, done, finishes>>

OnComplete ==
  /\ Emitting
  /\ signal' = "complete"
  /\ Goto("emitter", "complete")
  /\ UNCHANGED <<setup, upstream, refused, subscriptions, items, down, cancelled,
                 done, finishes>>

CompletionLost ==
  /\ pc["emitter"] = "complete"
  /\ Goto("emitter", "cleanup")
  /\ UNCHANGED <<setup, flow, done, finishes>>

DownstreamOnComplete ==
  /\ pc["emitter"] = "complete"
  /\ down' = "complete"
  /\ Goto("emitter", "cleanup")
  /\ UNCHANGED <<setup, upstream, refused, subscriptions, items, signal,
                 cancelled, done, finishes>>

(* onError logs, and nothing else.                                         *)
OnError ==
  /\ Emitting
  /\ signal' = "error"
  /\ Goto("emitter", "cleanup")
  /\ UNCHANGED <<setup, upstream, refused, subscriptions, items, down, cancelled,
                 done, finishes>>

-----------------------------------------------------------------------------
(* cancel, by downstream.                                                  *)

Cancel(t) ==
  /\ t \in Cancellers
  /\ subscriptions > 0 /\ pc[t] = "start"
  /\ Goto(t, "cancel")
  /\ UNCHANGED <<setup, flow, done, finishes>>

CancelUpstream(t) ==
  /\ pc[t] = "cancel"
  /\ cancelled' = TRUE
  /\ Goto(t, "cleanup")
  /\ UNCHANGED <<setup, upstream, refused, subscriptions, items, signal, down,
                 done, finishes>>

UnwindsToCaller == "end"

(* Where an exception of the tracer takes cancel and onComplete: into      *)
(* their finally block.                                                    *)
Unwinds == "cleanup"

ScopeThrows(t) ==
  /\ pc[t] \in {"cancel", "complete"} /\ ~reliable
  /\ Goto(t, Unwinds)
  /\ UNCHANGED <<setup, flow, done, finishes>>

-----------------------------------------------------------------------------
(* cleanup.                                                                *)

CheckOnly(t) ==
  /\ done' = done
  /\ Goto(t, IF done THEN "end" ELSE "finishSpan")

CompareAndSet(t) ==
  /\ done' = TRUE
  /\ Goto(t, IF done THEN "end" ELSE "finishSpan")

Cleanup(t) ==
  /\ pc[t] = "cleanup"
  /\ CompareAndSet(t)
  /\ UNCHANGED <<setup, flow, finishes>>

FinishSpan(t) ==
  /\ pc[t] = "finishSpan"
  /\ spanFinished' = spanFinished + 1
  /\ Goto(t, IF root THEN "finishRoot" ELSE "end")
  /\ UNCHANGED <<setup, flow, done, rootFinished>>

FinishRoot(t) ==
  /\ pc[t] = "finishRoot"
  /\ rootFinished' = rootFinished + 1
  /\ Goto(t, "end")
  /\ UNCHANGED <<setup, flow, done, spanFinished>>

-----------------------------------------------------------------------------
(* The constructors: one with a span context never has a root span, the    *)
(* other takes the active span, if there is one.                           *)
Init ==
  /\ pc = [t \in Threads |-> "start"]
  /\ root \in BOOLEAN /\ reliable \in BOOLEAN
  /\ upstream = FALSE /\ refused = FALSE /\ subscriptions = 0 /\ items = 0
  /\ signal = "none" /\ down = "none" /\ cancelled = FALSE
  /\ done = FALSE /\ spanFinished = 0 /\ rootFinished = 0

(* What a thread does once it is inside a method of the TraceSubscriber.   *)
Proceed(t) ==
  \/ t = "subscriber" /\ (OnSubscribeInScope \/ OnSubscribeThrows)
  \/ t = "emitter" /\ DownstreamOnComplete
  \/ CancelUpstream(t) \/ ScopeThrows(t)
  \/ Cleanup(t) \/ FinishSpan(t) \/ FinishRoot(t)

Next ==
  \/ OnSubscribe \/ OnSubscribeAgain \/ OnNext \/ OnComplete \/ OnError
  \/ \E t \in Threads : Cancel(t) \/ Proceed(t)

Spec == Init /\ [][Next]_vars

(* A thread that is inside a method returns from it; neither the source    *)
(* nor downstream has to call one.                                         *)
FairSpec == Spec /\ \A t \in Threads : WF_vars(Proceed(t))

-----------------------------------------------------------------------------
(* Every variable of the subscription has its type. *)
TypeOK ==
  /\ pc \in [Threads -> {"start", "activate", "complete", "cancel", "cleanup",
                         "finishSpan", "finishRoot", "end"}]
  /\ root \in BOOLEAN /\ reliable \in BOOLEAN
  /\ upstream \in BOOLEAN /\ refused \in BOOLEAN
  /\ subscriptions \in 0 .. 2 /\ items \in 0 .. MaxItems
  /\ signal \in {"none", "complete", "error"}
  /\ down \in {"none", "complete", "error"}
  /\ cancelled \in BOOLEAN /\ done \in BOOLEAN
  /\ spanFinished \in Nat /\ rootFinished \in Nat

(* However completion, failure and any number of cancellations race into   *)
(* cleanup, the span and the root span are finished at most once each.     *)
FinishedOnce == spanFinished <= 1 /\ rootFinished <= 1

(* Whichever signal ended the call, its span and root span are finished in *)
(* the end, a tracer that throws in the middle of the handler included.    *)
SpansSettle ==
  (signal # "none" \/ cancelled) ~>
    (spanFinished = 1 /\ (root => rootFinished = 1))

(* A completion of the source reaches downstream, unless the tracer throws *)
(* on the way.                                                             *)
CompletionDelivered == (signal = "complete" /\ reliable) ~> (down = "complete")

(* An error of the source reaches downstream as its terminal signal,       *)
(* unless downstream itself has called cancel.                             *)
ErrorDelivered ==
  (signal = "error" /\ reliable) ~>
    (down = "error" \/ \E t \in Cancellers : pc[t] # "start")

(* Downstream is given a subscription at most once.                        *)
SubscribedOnce == subscriptions <= 1
=============================================================================
