--------------------------- MODULE RequestChannel ---------------------------
(***************************************************************************)
(* The responder side of one request-channel interaction.                  *)
(*                                                                         *)
(* The requester's payloads arrive on the flow `payloads`.                 *)
(* StreamSplitter.split turns the first of them into a Split(head, tail)   *)
(* and feeds the others to a UnicastProcessor, `rest`.  flatMap maps the   *)
(* one Split to the response flow of the service that the head is routed   *)
(* to; the generated server hands the service the flow                     *)
(*        message = tail.startWith(head).map(deserializer).                *)
(*                                                                         *)
(* Four kinds of threads take steps: the one that delivers the requester's *)
(* signals, the ones that drain `rest`, the ones the service runs on, and  *)
(* the one that brings a cancellation of the response.  A requester's      *)
(* terminal signal takes two steps, since doOnComplete/doOnError terminate *)
(* `rest` before flatMap hears of the end; and so does the head, since     *)
(* startWith joins `rest` after the service's onNext(head) has returned.   *)
(*                                                                         *)
(* Payload n is the n-th payload the requester emits: nothing after the    *)
(* routing of the head depends on what a payload holds.  Response elements *)
(* are left out; the response flow is its life cycle.                      *)
(*                                                                         *)
(* The definitions that nothing uses (RestOnNextNewestFirst and the like)  *)
(* are faulty variants of the definitions that follow them.                *)
(***************************************************************************)
EXTENDS Naturals, Sequences

CONSTANTS
  Subs,            \* subscribers a service attaches to the flow `message`
  NoSub,           \* nobody has subscribed to `rest` yet
  MaxConcurrency,  \* flatMap's maxConcurrency (128 in RxJava)
  MaxPayloads,     \* bound: payloads one requester emits
  MaxDemand        \* bound: unserved demand of one subscriber

ASSUME ChannelAssumption ==
  /\ NoSub \notin Subs
  /\ MaxConcurrency \in Nat \ {0}
  /\ MaxPayloads \in Nat
  /\ MaxDemand \in Nat

VARIABLES
  up,            \* the requester's flow, as seen by flatMap
  emitted,       \* payloads the requester has emitted
  demand,        \* payloads flatMap has requested and not yet received
  first,         \* StreamSplitter: the next payload is the head
  queue,         \* rest: payloads buffered in the UnicastProcessor
  restEnd,       \* rest: terminal signal it was given
  restCancelled, \* rest: its subscriber cancelled
  owner,         \* rest: the one subscriber it ever accepts
  inner,         \* the response flow of the service
  down,          \* the merged flow requestChannel returned
  sub,           \* state of each subscriber of `message`
  want,          \* unserved demand of each subscriber
  received,      \* payloads delivered to each subscriber
  attached       \* the subscription is part of the response flow

requester == <<up, emitted, demand, first>>
rest      == <<queue, restEnd, restCancelled, owner>>
response  == <<inner, down>>
consumers == <<sub, want, received, attached>>
vars      == <<requester, rest, response, consumers>>

-----------------------------------------------------------------------------
(* The UnicastProcessor `rest`: an unbounded buffer for one subscriber,    *)
(* which delays a terminal signal until the buffer is drained and drops    *)
(* everything once its subscriber has cancelled.                           *)

RestOnNextNewestFirst(n) ==
  queue' = IF restCancelled THEN queue ELSE <<n>> \o queue

RestOnNext(n) ==
  queue' = IF restCancelled THEN queue ELSE Append(queue, n)

RestNeverTerminated(e) ==
  restEnd' = restEnd

RestTerminate(e) ==
  restEnd' = IF restCancelled THEN restEnd ELSE e

RestAcceptsAnyone(s) == TRUE

RestAccepts(s) ==
  owner = NoSub

RestEndsEarly == restEnd # "open"

RestDrained ==
  restEnd # "open" /\ queue = <<>>

Running(s) == sub[s] \in {"head", "joining", "tail"}

(* The subscriptions in S end in state st; the one that reads `rest`       *)
(* cancels it, which also drops its buffer.                                *)
EndSubs(S, st) ==
  /\ sub' = [s \in Subs |-> IF s \in S THEN st ELSE sub[s]]
  /\ IF \E s \in S : sub[s] = "tail"
       THEN restCancelled' = TRUE /\ queue' = <<>>
       ELSE UNCHANGED <<restCancelled, queue>>
  /\ UNCHANGED <<restEnd, owner, want, received, attached>>

DisposeNobody == EndSubs({}, "cancelled")

(* Disposing of the response flow cancels the subscriptions it is made of. *)
DisposeResponse ==
  EndSubs({s \in Subs : attached[s] /\ Running(s)}, "cancelled")

(* Cancelling the requester's flow does nothing to one that has ended.     *)
CancelRequester == IF up = "active" THEN "cancelled" ELSE up

-----------------------------------------------------------------------------
(* Signals of the requester.                                               *)

Arrives ==
  /\ up = "active"
  /\ demand > 0
  /\ emitted < MaxPayloads
  /\ emitted' = emitted + 1

(* The first payload names a service and a method that exist: flatMap      *)
(* subscribes to the service's response flow.                              *)
HeadRouted ==
  /\ Arrives /\ first
  /\ first' = FALSE
  /\ demand' = demand - 1
  /\ inner' = "active"
  /\ UNCHANGED <<up, down, rest, consumers>>

(* The route cannot be read, or nobody is registered under it: the inner   *)
(* flow is Flowable.error, and flatMap cancels the requester.              *)
HeadRejected ==
  /\ Arrives /\ first
  /\ first' = FALSE
  /\ demand' = demand - 1
  /\ inner' = "rejected"
  /\ up' = "cancelled"
  /\ down' = "errored"
  /\ UNCHANGED <<rest, consumers>>

NoReplenishment == 0

(* filter requests one more payload for each noopSplit it drops.           *)
Replenishment == 1

(* Any other payload goes to `rest`; filter drops the noopSplit.           *)
TailArrives ==
  /\ Arrives /\ ~first
  /\ RestOnNext(emitted + 1)
  /\ demand' = demand - 1 + Replenishment
  /\ UNCHANGED <<up, first, restEnd, restCancelled, owner, response, consumers>>

RequesterCompletes ==
  /\ up = "active"
  /\ up' = "completing"
  /\ RestTerminate("completed")
  /\ UNCHANGED <<emitted, demand, first, queue, restCancelled, owner, response,
                 consumers>>

RequesterFails ==
  /\ up = "active"
  /\ up' = "erroring"
  /\ RestTerminate("errored")
  /\ UNCHANGED <<emitted, demand, first, queue, restCancelled, owner, response,
                 consumers>>

CompletesWithResponse(u, i) == down = "open" /\ i = "completed"

(* The merged flow completes when the requester and the response have.     *)
CompletesWith(u, i) ==
  down = "open" /\ u = "completed" /\ i \in {"none", "completed"}

MergedEndMissed(u, i) == down

MergedEnd(u, i) == IF CompletesWith(u, i) THEN "completed" ELSE down

FlatMapOnComplete ==
  /\ up = "completing"
  /\ up' = "completed"
  /\ down' = MergedEnd("completed", inner)
  /\ UNCHANGED <<emitted, demand, first, inner, rest, consumers>>

(* The error goes downstream.  flatMap of the RxJava the build locks       *)
(* (2.2.12) leaves its inner flows alone: the response runs on.            *)
FlatMapOnError ==
  /\ up = "erroring"
  /\ up' = "errored"
  /\ down' = IF down = "open" THEN "errored" ELSE down
  /\ UNCHANGED <<emitted, demand, first, inner, rest, consumers>>

-----------------------------------------------------------------------------
(* The service and its subscribers.                                        *)

(* Only the response flow can hold a subscription that is part of it; a    *)
(* service that was handed `message` may also subscribe on its own, even   *)
(* after its response has ended.                                           *)
Subscribe(s, a) ==
  /\ sub[s] = "idle"
  /\ inner \notin {"none", "rejected"}
  /\ a => inner = "active"
  /\ sub' = [sub EXCEPT ![s] = "head"]
  /\ attached' = [attached EXCEPT ![s] = a]
  /\ UNCHANGED <<want, received, requester, rest, response>>

Request(s) ==
  /\ Running(s)
  /\ want[s] < MaxDemand
  /\ want' = [want EXCEPT ![s] = @ + 1]
  /\ UNCHANGED <<sub, received, attached, requester, rest, response>>

TakesUnrequested(s, n) ==
  /\ want' = [want EXCEPT ![s] = @ - 1]
  /\ received' = [received EXCEPT ![s] = Append(@, n)]
  /\ UNCHANGED <<attached, requester, response>>

Takes(s, n) ==
  /\ want[s] > 0
  /\ want' = [want EXCEPT ![s] = @ - 1]
  /\ received' = [received EXCEPT ![s] = Append(@, n)]
  /\ UNCHANGED <<attached, requester, response>>

(* startWith: the head first.                                              *)
DeliverHead(s) ==
  /\ sub[s] = "head"
  /\ Takes(s, 1)
  /\ sub' = [sub EXCEPT ![s] = "joining"]
  /\ UNCHANGED rest

(* Then `rest`, once onNext(head) has returned and nobody has cancelled.   *)
(* It refuses a second subscriber with an IllegalStateException.           *)
JoinRest(s) ==
  /\ sub[s] = "joining"
  /\ IF RestAccepts(s)
       THEN owner' = s /\ sub' = [sub EXCEPT ![s] = "tail"]
       ELSE owner' = owner /\ sub' = [sub EXCEPT ![s] = "errored"]
  /\ UNCHANGED <<queue, restEnd, restCancelled, want, received, attached,
                 requester, response>>

DeliverTail(s) ==
  /\ sub[s] = "tail"
  /\ queue # <<>>
  /\ Takes(s, Head(queue))
  /\ queue' = Tail(queue)
  /\ UNCHANGED <<sub, restEnd, restCancelled, owner>>

(* delayError: the buffer is drained first.                                *)
DeliverTerminal(s) ==
  /\ sub[s] = "tail"
  /\ RestDrained
  /\ sub' = [sub EXCEPT ![s] = restEnd]
  /\ UNCHANGED <<want, received, attached, requester, rest, response>>

(* The deserializer throws on a payload: map cancels its source.           *)
DeserializeError(s) ==
  /\ want[s] > 0
  /\ sub[s] = "head" \/ (sub[s] = "tail" /\ queue # <<>>)
  /\ EndSubs({s}, "errored")
  /\ UNCHANGED <<requester, response>>

(* A subscriber that leaves before it has joined `rest` leaves `rest` to   *)
(* the next one.                                                           *)
Cancel(s) ==
  /\ Running(s)
  /\ EndSubs({s}, "cancelled")
  /\ UNCHANGED <<requester, response>>

(* flatMap asks for one more Split in place of the one that is finished.   *)
ResponseCompletes ==
  /\ inner = "active"
  /\ inner' = "completed"
  /\ down' = MergedEnd(up, "completed")
  /\ demand' = IF up = "active" THEN demand + 1 ELSE demand
  /\ DisposeResponse
  /\ UNCHANGED <<up, emitted, first>>

ResponseFails ==
  /\ inner = "active"
  /\ inner' = "errored"
  /\ down' = "errored"
  /\ up' = CancelRequester
  /\ DisposeResponse
  /\ UNCHANGED <<emitted, demand, first>>

(* The requester cancels the response, or the connection goes away.        *)
ResponseCancelled ==
  /\ down = "open"
  /\ down' = "cancelled"
  /\ up' = CancelRequester
  /\ inner' = IF inner = "active" THEN "disposed" ELSE inner
  /\ DisposeResponse
  /\ UNCHANGED <<emitted, demand, first>>

-----------------------------------------------------------------------------
Init ==
  /\ up = "active" /\ emitted = 0 /\ demand = MaxConcurrency /\ first = TRUE
  /\ queue = <<>> /\ restEnd = "open" /\ restCancelled = FALSE /\ owner = NoSub
  /\ inner = "none" /\ down = "open"
  /\ sub = [s \in Subs |-> "idle"]
  /\ want = [s \in Subs |-> 0]
  /\ received = [s \in Subs |-> <<>>]
  /\ attached = [s \in Subs |-> FALSE]

Deliver(s) ==
  DeliverHead(s) \/ JoinRest(s) \/ DeliverTail(s) \/ DeliverTerminal(s)

Next ==
  \/ HeadRouted \/ HeadRejected \/ TailArrives
  \/ RequesterCompletes \/ RequesterFails \/ FlatMapOnComplete \/ FlatMapOnError
  \/ ResponseCompletes \/ ResponseFails \/ ResponseCancelled
  \/ \E s \in Subs :
       \/ \E a \in BOOLEAN : Subscribe(s, a)
       \/ Request(s)
       \/ Deliver(s)
       \/ DeserializeError(s)
       \/ Cancel(s)

Spec == Init /\ [][Next]_vars

(* The thread that brings a terminal signal goes on to flatMap, whoever    *)
(* drains `rest` does not stop while it can deliver, and the service       *)
(* returns from onNext(head) and keeps requesting what it subscribed to.   *)
Fairness ==
  /\ WF_vars(FlatMapOnComplete) /\ WF_vars(FlatMapOnError)
  /\ \A s \in Subs : WF_vars(Deliver(s)) /\ WF_vars(Request(s))

FairSpec == Spec /\ Fairness

-----------------------------------------------------------------------------
(* Every variable of the channel has its type. *)
TypeOK ==
  /\ up \in {"active", "completing", "erroring", "completed", "errored",
             "cancelled"}
  /\ emitted \in Nat /\ demand \in Nat /\ first \in BOOLEAN
  /\ queue \in Seq(Nat)
  /\ restEnd \in {"open", "completed", "errored"}
  /\ restCancelled \in BOOLEAN
  /\ owner \in Subs \union {NoSub}
  /\ inner \in {"none", "rejected", "active", "completed", "errored",
                "disposed"}
  /\ down \in {"open", "completed", "errored", "cancelled"}
  /\ sub \in [Subs -> {"idle", "head", "joining", "tail", "completed",
                       "errored", "cancelled"}]
  /\ want \in [Subs -> Nat]
  /\ received \in [Subs -> Seq(Nat)]
  /\ attached \in [Subs -> BOOLEAN]

(* split and startWith put the head in front of the tail again: what a     *)
(* subscriber has received is a prefix of what the requester emitted, and  *)
(* what it has received followed by what `rest` buffers for it is all of   *)
(* it, so no payload is lost, repeated or overtaken on its way.            *)
FifoDelivery ==
  \A s \in Subs :
    /\ \A i \in 1 .. Len(received[s]) : received[s][i] = i
    /\ sub[s] = "tail" =>
         /\ Len(received[s]) + Len(queue) = emitted
         /\ \A i \in 1 .. Len(queue) : queue[i] = Len(received[s]) + i

(* The service sees the end of the requester's stream only after all of    *)
(* its payloads, and only once the requester really ended it that way.     *)
EndAfterAll ==
  \A s \in Subs :
    sub[s] = "completed" =>
      up \in {"completing", "completed"} /\ Len(received[s]) = emitted

(* Of all subscribers a service attaches to `message`, at most one is ever *)
(* given payloads of the tail.                                             *)
SingleTailConsumer ==
  \A s, t \in Subs :
    Len(received[s]) > 1 /\ Len(received[t]) > 1 => s = t

(* A requester whose channel is open always has room to send: all of       *)
(* flatMap's concurrency but the one slot of the running response is       *)
(* outstanding as demand, however slowly the service consumes.             *)
DemandConserved ==
  up = "active" =>
    demand + (IF inner = "active" THEN 1 ELSE 0) = MaxConcurrency

(* The response side completes only when the requester completed as well,  *)
(* and the requester is cancelled only by a response that failed or was    *)
(* cancelled: a half that finishes early does not close the other.         *)
HalvesCloseTogether ==
  /\ down = "completed" => up = "completed" /\ inner \in {"none", "completed"}
  /\ up = "cancelled" => down \in {"errored", "cancelled"}

(* Nobody waits for what cannot come, and nothing is kept for somebody who *)
(* has left.  A subscription of the response outlives neither it nor, but  *)
(* for a requester that failed, the merged flow.  A reader of the tail can *)
(* still be sent payloads or has the end in front of it, unless the        *)
(* requester was cancelled, of which `rest` is not told: then it is one    *)
(* that the service subscribed on its own.  `rest` buffers for its reader, *)
(* or for the first that may yet join it.                                  *)
NoOrphanedConsumer ==
  /\ \A s \in Subs :
       /\ attached[s] /\ Running(s) =>
            inner = "active" /\ (down = "open" \/ up = "errored")
       /\ sub[s] = "tail" =>
            \/ up = "active" \/ restEnd # "open"
            \/ up = "cancelled" /\ ~attached[s]
  /\ queue # <<>> => owner = NoSub \/ sub[owner] = "tail"

(* A subscriber of `message` hears of the end of the requester's stream,   *)
(* or of being refused, even when it subscribed on its own or long after   *)
(* the end.                                                                *)
TailSettles ==
  \A s \in Subs :
    (Running(s) /\ up \in {"completed", "errored"}) ~> ~Running(s)

(* Once both halves have finished, or the requester failed, the merged     *)
(* flow that requestChannel returned terminates.                           *)
ChannelSettles ==
  /\ (up = "completing" /\ inner \in {"none", "completed"}) ~> (down # "open")
  /\ (up = "completed" /\ inner = "completed") ~> (down # "open")
  /\ (up = "erroring") ~> (down # "open")

-----------------------------------------------------------------------------
(* What the service is promised about `message`, whatever the buffer, the  *)
(* demand and the two-step terminal signals do: see MessageStream.         *)
StreamEnd ==
  IF up \in {"completing", "completed"} THEN "completed"
  ELSE IF up \in {"erroring", "errored"} THEN "errored"
  ELSE IF up = "cancelled" THEN "cancelled" ELSE "open"

StreamState == [s \in Subs |-> IF Running(s) THEN "live" ELSE sub[s]]

Stream == INSTANCE MessageStream WITH
  sent <- emitted, fin <- StreamEnd, got <- received, state <- StreamState,
  reader <- owner

(* StreamSplitter, the UnicastProcessor and startWith together implement   *)
(* the stream of messages that the service is promised.                    *)
ImplementsStream == Stream!Spec
=============================================================================
