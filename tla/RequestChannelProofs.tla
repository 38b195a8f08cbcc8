------------------------ MODULE RequestChannelProofs ------------------------
(***************************************************************************)
(* The safety invariants of RequestChannel, for every set of subscribers,  *)
(* every concurrency and every number of payloads.                         *)
(*                                                                         *)
(* FifoDelivery and EndAfterAll are not inductive by themselves: that the  *)
(* reader of `rest` gets everything in order needs to be known from before *)
(* there is a reader (BufferedForNobody), that the reader is the only one  *)
(* whose leaving drops the buffer (OwnerReads), and that `rest` ends only  *)
(* as the requester did (EndKnown).                                        *)
(***************************************************************************)
EXTENDS RequestChannel, TLAPS

SubState == {"idle", "head", "joining", "tail", "completed", "errored", "cancelled"}

InnerState == {"none", "rejected", "active", "completed", "errored", "disposed"}

(* Nothing happens before the head: no payload is buffered, no response    *)
(* runs and nobody has subscribed to `message`.                            *)
HeadFirst ==
  /\ first => emitted = 0 /\ inner = "none" /\ owner = NoSub
  /\ ~first => emitted > 0
  /\ inner = "none" => first
  /\ inner = "none" => \A s \in Subs : sub[s] = "idle"

(* Until it has taken the head, a subscriber has received nothing, and     *)
(* until it has joined `rest` nothing else.                                *)
HeadTaken ==
  \A s \in Subs :
    /\ sub[s] \in {"idle", "head"} => received[s] = <<>>
    /\ sub[s] = "joining" => Len(received[s]) = 1

(* Who reads `rest`: its owner, and the buffer is dropped when the owner   *)
(* leaves.  Nobody else ever gets past the head.                           *)
OwnerReads ==
  /\ owner = NoSub => ~restCancelled
  /\ \A s \in Subs :
       /\ sub[s] = "tail" => owner = s /\ ~restCancelled
       /\ sub[s] = "completed" => owner = s
       /\ sub[s] \in {"idle", "head", "joining"} => owner # s
       /\ Len(received[s]) > 1 => owner = s
       /\ owner = s /\ sub[s] # "tail" =>
            queue = <<>> /\ (restCancelled \/ up # "active")

(* While nobody reads `rest`, it buffers all payloads but the head.        *)
BufferedForNobody ==
  owner = NoSub =>
    /\ first => queue = <<>>
    /\ ~first => Len(queue) + 1 = emitted
    /\ \A i \in 1 .. Len(queue) : queue[i] = i + 1

(* `rest` knows of the end only once the requester has ended, as it did,   *)
(* and then it knows, but for one whose reader has cancelled it.           *)
EndKnown ==
  /\ up \notin {"active", "cancelled"} => restCancelled \/ restEnd # "open"
  /\ restEnd # "open" => up # "active"
  /\ restEnd = "completed" => up \in {"completing", "completed"}
  /\ restEnd = "errored" => up \in {"erroring", "errored"}

IInv ==
  /\ TypeOK
  /\ HeadFirst /\ HeadTaken /\ OwnerReads /\ BufferedForNobody /\ EndKnown
  /\ FifoDelivery /\ EndAfterAll

-----------------------------------------------------------------------------
(* The channel starts in the invariant. *)
LEMMA InitIInv == Init => IInv
<1> SUFFICES ASSUME Init PROVE IInv
  OBVIOUS
<1>1. TypeOK
  <2>1. first \in BOOLEAN /\ restCancelled \in BOOLEAN
    BY Zenon DEF Init
  <2>2. queue \in Seq(Nat) /\ received \in [Subs -> Seq(Nat)]
    BY DEF Init
  <2>3. attached \in [Subs -> BOOLEAN]
    BY DEF Init
  <2> QED
    BY <2>1, <2>2, <2>3, ChannelAssumption DEF Init, TypeOK
<1>2. HeadFirst /\ HeadTaken /\ OwnerReads /\ BufferedForNobody /\ EndKnown
  BY ChannelAssumption
     DEF Init, HeadFirst, HeadTaken, OwnerReads, BufferedForNobody, EndKnown
<1>3. FifoDelivery /\ EndAfterAll
  BY DEF Init, FifoDelivery, EndAfterAll
<1> QED
  BY <1>1, <1>2, <1>3 DEF IInv

(* What becomes of `rest` and of its subscribers when some that run end:   *)
(* the buffer is dropped if and only if its reader is among them.          *)
LEMMA EndSubsFacts ==
  ASSUME TypeOK, OwnerReads,
         NEW S \in SUBSET Subs, NEW st \in {"errored", "cancelled"},
         \A s \in S : Running(s), EndSubs(S, st)
  PROVE  /\ sub' \in [Subs -> SubState]
         /\ \A s \in Subs : sub'[s] = sub[s] \/ (Running(s) /\ sub'[s] = st)
         /\ queue' = queue \/ (restCancelled' /\ queue' = <<>>)
         /\ restCancelled' \in BOOLEAN
         /\ restCancelled => restCancelled'
         /\ \A s \in Subs : sub'[s] = "tail" => UNCHANGED <<queue, restCancelled>>
         /\ owner = NoSub => UNCHANGED <<queue, restCancelled>>
         /\ \A s \in Subs : sub[s] = "tail" /\ sub'[s] # "tail" => restCancelled' /\ queue' = <<>>
         /\ UNCHANGED <<restEnd, owner, want, received, attached>>
<1>1. \A s \in Subs : sub'[s] = IF s \in S THEN st ELSE sub[s]
  BY DEF EndSubs
<1>2. sub' \in [Subs -> SubState]
  BY DEF EndSubs, TypeOK, SubState
<1>3. CASE \E s \in S : sub[s] = "tail"
  <2>1. PICK r \in S : sub[r] = "tail"
    BY <1>3
  <2>2. owner = r /\ r \in Subs /\ r # NoSub
    BY <2>1, ChannelAssumption DEF OwnerReads
  <2>3. \A s \in Subs : sub'[s] # "tail"
    BY <1>1, <2>1, <2>2 DEF OwnerReads
  <2>4. restCancelled' /\ restCancelled' \in BOOLEAN /\ queue' = <<>>
    BY <1>3 DEF EndSubs
  <2> QED
    BY <1>1, <1>2, <2>2, <2>3, <2>4 DEF EndSubs
<1>4. CASE ~ \E s \in S : sub[s] = "tail"
  <2>1. UNCHANGED <<restCancelled, queue>>
    BY <1>4 DEF EndSubs
  <2> QED
    BY <1>1, <1>2, <1>4, <2>1 DEF EndSubs, TypeOK
<1> QED
  BY <1>3, <1>4

(* Every action that ends subscriptions keeps the invariant. *)
LEMMA Ending ==
  ASSUME IInv, NEW S \in SUBSET Subs, NEW st \in {"errored", "cancelled"},
         \A s \in S : Running(s), EndSubs(S, st),
         UNCHANGED <<emitted, first>>, demand' \in Nat,
         down' \in {"open", "completed", "errored", "cancelled"},
         \/ inner' = inner
         \/ inner = "active" /\ inner' \in {"completed", "errored", "disposed"},
         \/ up' = up
         \/ up = "active" /\ up' = "cancelled"
  PROVE  IInv'
<1>1. TypeOK /\ OwnerReads
  BY DEF IInv
<1>2. TypeOK'
  <2>1. queue' \in Seq(Nat)
    <3>1. queue' = queue \/ queue' = <<>>
      BY <1>1, EndSubsFacts
    <3>2. queue \in Seq(Nat) /\ <<>> \in Seq(Nat)
      BY <1>1 DEF TypeOK
    <3> QED
      BY <3>1, <3>2
  <2>2. /\ up' \in {"active", "completing", "erroring", "completed", "errored", "cancelled"}
        /\ inner' \in InnerState
    BY <1>1 DEF TypeOK, InnerState
  <2>3. emitted' \in Nat /\ first' \in BOOLEAN
    BY <1>1 DEF TypeOK
  <2> QED
    BY <1>1, <2>1, <2>2, <2>3, EndSubsFacts DEF TypeOK, SubState, InnerState
<1>3. HeadFirst' /\ HeadTaken'
  BY <1>1, EndSubsFacts DEF IInv, HeadFirst, HeadTaken, Running, SubState
<1>4. OwnerReads'
  <2>1. owner' = NoSub => ~restCancelled'
    BY <1>1, EndSubsFacts DEF OwnerReads
  <2>2. ASSUME NEW s \in Subs
        PROVE  /\ sub'[s] = "tail" => owner' = s /\ ~restCancelled'
               /\ sub'[s] = "completed" => owner' = s
               /\ sub'[s] \in {"idle", "head", "joining"} => owner' # s
               /\ Len(received'[s]) > 1 => owner' = s
    BY <1>1, EndSubsFacts DEF OwnerReads
  <2>3. ASSUME NEW s \in Subs, owner' = s, sub'[s] # "tail"
        PROVE  queue' = <<>> /\ (restCancelled' \/ up' # "active")
    BY <1>1, <2>3, EndSubsFacts DEF OwnerReads
  <2> QED
    BY <2>1, <2>2, <2>3 DEF OwnerReads
<1>5. BufferedForNobody'
  BY <1>1, EndSubsFacts DEF IInv, BufferedForNobody
<1>6. EndKnown'
  BY <1>1, EndSubsFacts DEF IInv, EndKnown
<1>7. FifoDelivery'
  BY <1>1, EndSubsFacts DEF IInv, FifoDelivery
<1>8. EndAfterAll'
  BY <1>1, EndSubsFacts DEF IInv, EndAfterAll
<1> QED
  BY <1>2, <1>3, <1>4, <1>5, <1>6, <1>7, <1>8 DEF IInv

-----------------------------------------------------------------------------
(* The actions that end no subscription, one lemma each where the action   *)
(* disturbs the buffer or what a subscriber has received.                  *)

(* The head arrives: `rest` is still empty, and stays so. *)
LEMMA HeadStep == IInv /\ (HeadRouted \/ HeadRejected) => IInv'
<1> SUFFICES ASSUME IInv, HeadRouted \/ HeadRejected PROVE IInv'
  OBVIOUS
<1>1. /\ up = "active" /\ first /\ demand > 0 /\ emitted' = emitted + 1
      /\ first' = FALSE /\ demand' = demand - 1
      /\ inner' \in {"active", "rejected"} /\ up' \in {"active", "cancelled"}
      /\ down' \in {down, "errored"}
      /\ UNCHANGED <<queue, restEnd, restCancelled, owner, sub, want, received, attached>>
  BY DEF HeadRouted, HeadRejected, Arrives, rest, consumers
<1>2. emitted = 0 /\ inner = "none" /\ \A s \in Subs : sub[s] = "idle"
  BY <1>1 DEF IInv, HeadFirst
<1>3. TypeOK'
  <2>1. first' \in BOOLEAN
    BY <1>1, Zenon
  <2> QED
    BY <1>1, <2>1 DEF IInv, TypeOK
<1>4. owner = NoSub /\ queue = <<>> /\ \A s \in Subs : received[s] = <<>>
  BY <1>1, <1>2 DEF IInv, HeadFirst, HeadTaken, BufferedForNobody
<1>5. HeadFirst' /\ HeadTaken' /\ EndKnown' /\ BufferedForNobody'
  BY <1>1, <1>2, <1>4
     DEF IInv, TypeOK, HeadFirst, HeadTaken, EndKnown, BufferedForNobody
<1>6. OwnerReads'
  BY <1>1, <1>2, <1>4, ChannelAssumption DEF IInv, OwnerReads
<1>7. FifoDelivery' /\ EndAfterAll'
  BY <1>1, <1>2, <1>4 DEF FifoDelivery, EndAfterAll
<1> QED
  BY <1>3, <1>5, <1>6, <1>7 DEF IInv

(* Of two numbers, one grows with the sum. *)
LEMMA SumGrows ==
  ASSUME NEW m \in Nat, NEW n \in Nat, NEW e \in Nat, m + n = e
  PROVE  m + (n + 1) = e + 1
OBVIOUS

(* A payload is appended to `rest` unless its reader has left. *)
LEMMA TailStep == IInv /\ TailArrives => IInv'
<1> SUFFICES ASSUME IInv, TailArrives PROVE IInv'
  OBVIOUS
<1>1. /\ up = "active" /\ ~first /\ demand > 0 /\ emitted' = emitted + 1
      /\ demand' = demand - 1 + 1
      /\ UNCHANGED <<up, first, restEnd, restCancelled, owner, inner, down, sub, want,
                     received, attached>>
  BY DEF TailArrives, Arrives, Replenishment, response, consumers
<1>2. queue' = IF restCancelled THEN queue ELSE Append(queue, emitted + 1)
  BY DEF TailArrives, RestOnNext
<1>3. TypeOK'
  BY <1>1, <1>2 DEF IInv, TypeOK
<1>4. HeadFirst' /\ HeadTaken' /\ EndKnown'
  BY <1>1 DEF IInv, TypeOK, HeadFirst, HeadTaken, EndKnown
<1>5. BufferedForNobody'
  BY <1>1, <1>2 DEF IInv, TypeOK, BufferedForNobody, OwnerReads
<1>6. OwnerReads'
  <2>1. ASSUME NEW s \in Subs, owner = s, sub[s] # "tail" PROVE queue' = <<>> /\ restCancelled
    BY <1>1, <1>2, <2>1 DEF IInv, OwnerReads
  <2> QED
    BY <1>1, <2>1 DEF IInv, OwnerReads
<1>7. FifoDelivery'
  <2>1. ASSUME NEW s \in Subs, sub[s] = "tail"
        PROVE  /\ Len(received[s]) + Len(queue') = emitted + 1
               /\ \A i \in 1 .. Len(queue') : queue'[i] = Len(received[s]) + i
    <3>1. queue' = Append(queue, emitted + 1)
      BY <1>2, <2>1 DEF IInv, OwnerReads
    <3>2. /\ Len(received[s]) + Len(queue) = emitted
          /\ \A i \in 1 .. Len(queue) : queue[i] = Len(received[s]) + i
      BY <2>1 DEF IInv, FifoDelivery
    <3>3. queue \in Seq(Nat) /\ Len(received[s]) \in Nat /\ emitted \in Nat
      BY DEF IInv, TypeOK
    <3>4. /\ Len(queue') = Len(queue) + 1 /\ queue'[Len(queue) + 1] = emitted + 1
          /\ \A i \in 1 .. Len(queue) : queue'[i] = queue[i]
      BY <3>1, <3>3
    <3>5. Len(queue) \in Nat
      BY <3>3
    <3>6. Len(received[s]) + (Len(queue) + 1) = emitted + 1
      BY <3>2, <3>3, <3>5, SumGrows
    <3>7. ASSUME NEW i \in 1 .. Len(queue) + 1 PROVE queue'[i] = Len(received[s]) + i
      <4>1. CASE i \in 1 .. Len(queue)
        BY <4>1, <3>2, <3>4
      <4>2. CASE i = Len(queue) + 1
        BY <4>2, <3>4, <3>6
      <4> QED
        BY <4>1, <4>2, <3>5
    <3> QED
      BY <3>4, <3>6, <3>7
  <2> QED
    BY <1>1, <2>1 DEF IInv, FifoDelivery
<1>8. EndAfterAll'
  BY <1>1 DEF IInv, EndAfterAll
<1> QED
  BY <1>3, <1>4, <1>5, <1>6, <1>7, <1>8 DEF IInv

(* The requester's terminal signals, to `rest` and then to flatMap. *)
LEMMA RequesterEndStep ==
  ASSUME IInv,
         RequesterCompletes \/ RequesterFails \/ FlatMapOnComplete \/ FlatMapOnError
  PROVE  IInv'
<1>1. /\ UNCHANGED <<emitted, demand, first, queue, restCancelled, owner, inner, sub, want,
                     received, attached>>
      /\ \/ up = "active" /\ up' = "completing"
            /\ restEnd' = IF restCancelled THEN restEnd ELSE "completed"
         \/ up = "active" /\ up' = "erroring"
            /\ restEnd' = IF restCancelled THEN restEnd ELSE "errored"
         \/ up = "completing" /\ up' = "completed" /\ restEnd' = restEnd
         \/ up = "erroring" /\ up' = "errored" /\ restEnd' = restEnd
      /\ down' \in {down, "completed", "errored"}
  BY DEF RequesterCompletes, RequesterFails, FlatMapOnComplete, FlatMapOnError,
         RestTerminate, MergedEnd, rest, response, consumers
<1>2. TypeOK'
  BY <1>1 DEF IInv, TypeOK
<1>3. HeadFirst' /\ HeadTaken' /\ BufferedForNobody'
  BY <1>1 DEF IInv, HeadFirst, HeadTaken, BufferedForNobody
<1>4. OwnerReads' /\ EndKnown'
  BY <1>1 DEF IInv, TypeOK, OwnerReads, EndKnown
<1>5. FifoDelivery' /\ EndAfterAll'
  BY <1>1 DEF IInv, FifoDelivery, EndAfterAll
<1> QED
  BY <1>2, <1>3, <1>4, <1>5 DEF IInv

(* A new subscription, and a request for one more payload. *)
LEMMA DemandStep ==
  ASSUME IInv, NEW s \in Subs, NEW a \in BOOLEAN, Subscribe(s, a) \/ Request(s)
  PROVE  IInv'
<1>1. /\ UNCHANGED <<up, emitted, demand, first, queue, restEnd, restCancelled, owner, inner,
                     down, received>>
      /\ want' \in [Subs -> Nat] /\ attached' \in [Subs -> BOOLEAN]
      /\ \/ sub' = sub
         \/ /\ sub[s] = "idle" /\ inner # "none"
            /\ sub' = [sub EXCEPT ![s] = "head"]
  <2>1. CASE Subscribe(s, a)
    <3>1. attached' \in [Subs -> BOOLEAN]
      BY <2>1, Zenon DEF IInv, TypeOK, Subscribe
    <3> QED
      BY <2>1, <3>1 DEF IInv, TypeOK, Subscribe, requester, rest, response
  <2>2. CASE Request(s)
    BY <2>2 DEF IInv, TypeOK, Request, requester, rest, response
  <2> QED
    BY <2>1, <2>2
<1>2. TypeOK'
  <2>1. sub' \in [Subs -> SubState]
    BY <1>1 DEF IInv, TypeOK, SubState
  <2> QED
    BY <1>1, <2>1 DEF IInv, TypeOK, SubState
<1>3. \A t \in Subs : sub'[t] = sub[t] \/ (sub[t] = "idle" /\ sub'[t] = "head" /\ inner # "none")
  BY <1>1 DEF IInv, TypeOK
<1>4. HeadFirst' /\ HeadTaken' /\ BufferedForNobody' /\ EndKnown'
  BY <1>1, <1>3 DEF IInv, HeadFirst, HeadTaken, BufferedForNobody, EndKnown
<1>5. OwnerReads'
  BY <1>1, <1>3 DEF IInv, OwnerReads
<1>6. FifoDelivery' /\ EndAfterAll'
  BY <1>1, <1>3 DEF IInv, FifoDelivery, EndAfterAll
<1> QED
  BY <1>2, <1>4, <1>5, <1>6 DEF IInv

(* A subscriber takes the head. *)
LEMMA DeliverHeadStep ==
  ASSUME IInv, NEW s \in Subs, DeliverHead(s)
  PROVE  IInv'
<1>1. /\ sub[s] = "head" /\ want[s] > 0
      /\ want' = [want EXCEPT ![s] = @ - 1]
      /\ received' = [received EXCEPT ![s] = Append(@, 1)]
      /\ sub' = [sub EXCEPT ![s] = "joining"]
      /\ UNCHANGED <<up, emitted, demand, first, queue, restEnd, restCancelled, owner, inner,
                     down, attached>>
  BY DEF DeliverHead, Takes, requester, rest, response
<1>2. Len(received'[s]) = 1 /\ received'[s][1] = 1 /\ inner # "none" /\ owner # s
  <2>1. received[s] = <<>> /\ inner # "none" /\ owner # s
    BY <1>1 DEF IInv, HeadTaken, HeadFirst, OwnerReads
  <2>2. received'[s] = Append(received[s], 1) /\ received[s] \in Seq(Nat)
    BY <1>1 DEF IInv, TypeOK
  <2> QED
    BY <2>1, <2>2
<1>3. sub'[s] = "joining" /\ \A t \in Subs : t # s => sub'[t] = sub[t] /\ received'[t] = received[t]
  BY <1>1 DEF IInv, TypeOK
<1>4. TypeOK'
  <2>1. received' \in [Subs -> Seq(Nat)] /\ want' \in [Subs -> Nat]
    BY <1>1 DEF IInv, TypeOK
  <2>2. sub' \in [Subs -> SubState]
    BY <1>1 DEF IInv, TypeOK, SubState
  <2> QED
    BY <1>1, <2>1, <2>2 DEF IInv, TypeOK, SubState
<1>5. HeadFirst' /\ HeadTaken' /\ EndKnown' /\ BufferedForNobody'
  BY <1>1, <1>2, <1>3 DEF IInv, HeadFirst, HeadTaken, EndKnown, BufferedForNobody
<1>6. OwnerReads'
  BY <1>1, <1>2, <1>3 DEF IInv, OwnerReads
<1>7. FifoDelivery' /\ EndAfterAll'
  BY <1>1, <1>2, <1>3 DEF IInv, FifoDelivery, EndAfterAll
<1> QED
  BY <1>4, <1>5, <1>6, <1>7 DEF IInv

(* The first subscriber to go on after the head becomes the reader of      *)
(* `rest`, which by then buffers all of the tail.                          *)
LEMMA JoinRestStep ==
  ASSUME IInv, NEW s \in Subs, JoinRest(s)
  PROVE  IInv'
<1>1. /\ sub[s] = "joining"
      /\ UNCHANGED <<up, emitted, demand, first, queue, restEnd, restCancelled, inner, down,
                     want, received, attached>>
  BY DEF JoinRest, requester, response
<1>2. \/ owner = NoSub /\ owner' = s /\ sub' = [sub EXCEPT ![s] = "tail"]
      \/ owner # NoSub /\ owner' = owner /\ sub' = [sub EXCEPT ![s] = "errored"]
  BY DEF JoinRest, RestAccepts
<1>3. Len(received[s]) = 1 /\ inner # "none" /\ ~first /\ owner # s
  BY <1>1 DEF IInv, HeadTaken, HeadFirst, OwnerReads
<1>4. \A t \in Subs : t # s => sub'[t] = sub[t]
  BY <1>2 DEF IInv, TypeOK
<1>5. TypeOK'
  <2>1. owner' \in Subs \union {NoSub} /\ sub' \in [Subs -> SubState]
    BY <1>2 DEF IInv, TypeOK, SubState
  <2> QED
    BY <1>1, <2>1 DEF IInv, TypeOK, SubState
<1>6. sub'[s] \in {"tail", "errored"}
  BY <1>2 DEF IInv, TypeOK
<1>7. HeadFirst' /\ HeadTaken' /\ EndKnown'
  BY <1>1, <1>3, <1>4, <1>6 DEF IInv, HeadFirst, HeadTaken, EndKnown
<1>8. owner' # NoSub
  BY <1>2, ChannelAssumption
<1>9. BufferedForNobody'
  BY <1>8 DEF BufferedForNobody
<1>10. CASE owner = NoSub
  <2>1. owner' = s /\ sub'[s] = "tail" /\ ~restCancelled
    BY <1>2, <1>10 DEF IInv, TypeOK, OwnerReads
  <2>2. \A t \in Subs : sub[t] \notin {"tail", "completed"} /\ ~(Len(received[t]) > 1)
    BY <1>10, ChannelAssumption DEF IInv, OwnerReads
  <2>3. OwnerReads'
    BY <1>1, <1>3, <1>4, <2>1, <2>2, ChannelAssumption DEF OwnerReads
  <2>4. FifoDelivery'
    <3>1. Len(queue) + 1 = emitted /\ \A i \in 1 .. Len(queue) : queue[i] = i + 1
      BY <1>3, <1>10 DEF IInv, BufferedForNobody
    <3>2. Len(queue) \in Nat
      BY DEF IInv, TypeOK
    <3>3. Len(received[s]) + Len(queue) = emitted
      BY <1>3, <3>1, <3>2
    <3>4. \A i \in 1 .. Len(queue) : queue[i] = Len(received[s]) + i
      BY <1>3, <3>1, <3>2
    <3>5. \A t \in Subs : \A i \in 1 .. Len(received[t]) : received[t][i] = i
      BY DEF IInv, FifoDelivery
    <3> QED
      BY <1>1, <1>4, <2>2, <3>3, <3>4, <3>5 DEF FifoDelivery
  <2>5. EndAfterAll'
    BY <1>1, <1>4, <2>1, <2>2 DEF EndAfterAll
  <2> QED
    BY <1>5, <1>7, <1>9, <2>3, <2>4, <2>5 DEF IInv
<1>11. CASE owner # NoSub
  <2>1. owner' = owner /\ sub'[s] = "errored"
    BY <1>2, <1>11 DEF IInv, TypeOK
  <2>2. OwnerReads'
    BY <1>1, <1>3, <1>4, <1>11, <2>1 DEF IInv, OwnerReads
  <2>3. FifoDelivery' /\ EndAfterAll'
    BY <1>1, <1>3, <1>4, <2>1 DEF IInv, FifoDelivery, EndAfterAll
  <2> QED
    BY <1>5, <1>7, <1>9, <2>2, <2>3 DEF IInv
<1> QED
  BY <1>10, <1>11

(* The reader takes the oldest payload of the buffer: the next one.        *)
LEMMA DeliverTailStep ==
  ASSUME IInv, NEW s \in Subs, DeliverTail(s)
  PROVE  IInv'
<1>1. /\ sub[s] = "tail" /\ queue # <<>> /\ want[s] > 0
      /\ want' = [want EXCEPT ![s] = @ - 1]
      /\ received' = [received EXCEPT ![s] = Append(@, Head(queue))]
      /\ queue' = Tail(queue)
      /\ UNCHANGED <<up, emitted, demand, first, restEnd, restCancelled, owner, inner, down,
                     attached, sub>>
  BY DEF DeliverTail, Takes, requester, response
<1>2. owner = s /\ s # NoSub /\ ~restCancelled
  BY <1>1, ChannelAssumption DEF IInv, OwnerReads
<1>3. \A t \in Subs : t # s => received'[t] = received[t] /\ sub[t] # "tail"
  BY <1>1, <1>2 DEF IInv, TypeOK, OwnerReads
<1>4. TypeOK'
  <2>1. Head(queue) \in Nat /\ Tail(queue) \in Seq(Nat)
    BY <1>1 DEF IInv, TypeOK
  <2>2. queue' \in Seq(Nat)
    BY <1>1, <2>1
  <2>3. want' \in [Subs -> Nat]
    BY <1>1 DEF IInv, TypeOK
  <2>4. received' \in [Subs -> Seq(Nat)]
    BY <1>1, <2>1 DEF IInv, TypeOK
  <2> QED
    BY <1>1, <2>2, <2>3, <2>4 DEF IInv, TypeOK
<1>5. HeadFirst' /\ HeadTaken' /\ EndKnown' /\ BufferedForNobody'
  BY <1>1, <1>2, <1>3 DEF IInv, HeadFirst, HeadTaken, EndKnown, BufferedForNobody
<1>6. OwnerReads'
  BY <1>1, <1>2, <1>3 DEF IInv, OwnerReads
<1>7. FifoDelivery'
  <2>1. /\ received[s] \in Seq(Nat) /\ queue \in Seq(Nat)
        /\ Len(received[s]) + Len(queue) = emitted
        /\ \A i \in 1 .. Len(queue) : queue[i] = Len(received[s]) + i
        /\ \A i \in 1 .. Len(received[s]) : received[s][i] = i
    BY <1>1 DEF IInv, TypeOK, FifoDelivery
  <2>2. received'[s] = Append(received[s], Len(received[s]) + 1)
    BY <1>1, <2>1 DEF IInv, TypeOK
  <2>3. \A i \in 1 .. Len(received'[s]) : received'[s][i] = i
    BY <2>1, <2>2
  <2>4. Len(received'[s]) + Len(queue') = emitted
    BY <1>1, <2>1, <2>2
  <2>5. \A i \in 1 .. Len(queue') : queue'[i] = Len(received'[s]) + i
    BY <1>1, <2>1, <2>2
  <2> QED
    BY <1>1, <1>3, <2>3, <2>4, <2>5 DEF IInv, FifoDelivery
<1>8. EndAfterAll'
  BY <1>1, <1>3 DEF IInv, EndAfterAll
<1> QED
  BY <1>4, <1>5, <1>6, <1>7, <1>8 DEF IInv

(* The reader hears of the end with the buffer drained: it has it all.     *)
LEMMA DeliverTerminalStep ==
  ASSUME IInv, NEW s \in Subs, DeliverTerminal(s)
  PROVE  IInv'
<1>1. /\ sub[s] = "tail" /\ restEnd # "open" /\ queue = <<>>
      /\ sub' = [sub EXCEPT ![s] = restEnd]
      /\ UNCHANGED <<up, emitted, demand, first, queue, restEnd, restCancelled, owner, inner,
                     down, want, received, attached>>
  BY DEF DeliverTerminal, RestDrained, requester, rest, response
<1>2. owner = s /\ s # NoSub /\ up # "active" /\ inner # "none"
  BY <1>1, ChannelAssumption DEF IInv, OwnerReads, EndKnown, HeadFirst
<1>3. sub'[s] = restEnd /\ \A t \in Subs : t # s => sub'[t] = sub[t]
  BY <1>1 DEF IInv, TypeOK
<1>4. TypeOK'
  BY <1>1 DEF IInv, TypeOK
<1>5. HeadFirst' /\ HeadTaken' /\ EndKnown' /\ BufferedForNobody'
  BY <1>1, <1>2, <1>3
     DEF IInv, TypeOK, HeadFirst, HeadTaken, EndKnown, BufferedForNobody
<1>6. OwnerReads'
  BY <1>1, <1>2, <1>3 DEF IInv, TypeOK, OwnerReads
<1>7. FifoDelivery'
  BY <1>1, <1>3 DEF IInv, TypeOK, FifoDelivery
<1>8. EndAfterAll'
  <2>1. Len(received[s]) + 0 = emitted
    BY <1>1 DEF IInv, FifoDelivery
  <2>2. Len(received[s]) \in Nat
    BY DEF IInv, TypeOK
  <2> QED
    BY <1>1, <1>3, <2>1, <2>2 DEF IInv, EndAfterAll, EndKnown
<1> QED
  BY <1>4, <1>5, <1>6, <1>7, <1>8 DEF IInv

-----------------------------------------------------------------------------
(* Disposing of the response ends subscriptions that run.                  *)
LEMMA DisposalEnds ==
  ASSUME DisposeResponse
  PROVE  \E S \in SUBSET Subs : (\A s \in S : Running(s)) /\ EndSubs(S, "cancelled")
<1> DEFINE S == {s \in Subs : attached[s] /\ Running(s)}
<1>1. S \in SUBSET Subs /\ \A s \in S : Running(s)
  OBVIOUS
<1>2. EndSubs(S, "cancelled")
  BY DEF DisposeResponse
<1> HIDE DEF S
<1> QED
  BY <1>1, <1>2

(* Every step of the channel keeps the invariant. *)
LEMMA StepIInv == IInv /\ [Next]_vars => IInv'
<1> SUFFICES ASSUME IInv, [Next]_vars PROVE IInv'
  OBVIOUS
<1>0. TypeOK
  BY DEF IInv
<1>1. CASE HeadRouted \/ HeadRejected
  BY <1>1, HeadStep
<1>2. CASE TailArrives
  BY <1>2, TailStep
<1>3. CASE RequesterCompletes \/ RequesterFails \/ FlatMapOnComplete \/ FlatMapOnError
  BY <1>3, RequesterEndStep
<1>4. CASE ResponseCompletes
  <2>1. PICK S \in SUBSET Subs : (\A s \in S : Running(s)) /\ EndSubs(S, "cancelled")
    BY <1>4, DisposalEnds DEF ResponseCompletes
  <2>2. /\ inner = "active" /\ inner' = "completed" /\ UNCHANGED <<up, emitted, first>>
        /\ down' \in {down, "completed"} /\ demand' \in Nat
    BY <1>0, <1>4 DEF ResponseCompletes, MergedEnd, TypeOK
  <2> QED
    BY <1>0, <2>1, <2>2, Ending DEF TypeOK
<1>5. CASE ResponseFails
  <2>1. PICK S \in SUBSET Subs : (\A s \in S : Running(s)) /\ EndSubs(S, "cancelled")
    BY <1>5, DisposalEnds DEF ResponseFails
  <2>2. /\ inner = "active" /\ inner' = "errored" /\ UNCHANGED <<emitted, demand, first>>
        /\ down' = "errored"
        /\ up' = up \/ (up = "active" /\ up' = "cancelled")
    BY <1>5 DEF ResponseFails, CancelRequester
  <2>3. demand' \in Nat
    BY <1>0, <2>2 DEF TypeOK
  <2> QED
    BY <2>1, <2>2, <2>3, Ending
<1>6. CASE ResponseCancelled
  <2>1. PICK S \in SUBSET Subs : (\A s \in S : Running(s)) /\ EndSubs(S, "cancelled")
    BY <1>6, DisposalEnds DEF ResponseCancelled
  <2>2. /\ UNCHANGED <<emitted, demand, first>> /\ down' = "cancelled"
        /\ inner' = inner \/ (inner = "active" /\ inner' = "disposed")
        /\ up' = up \/ (up = "active" /\ up' = "cancelled")
    BY <1>6 DEF ResponseCancelled, CancelRequester
  <2>3. demand' \in Nat
    BY <1>0, <2>2 DEF TypeOK
  <2> QED
    BY <2>1, <2>2, <2>3, Ending
<1>7. ASSUME NEW s \in Subs, NEW a \in BOOLEAN, Subscribe(s, a) PROVE IInv'
  BY <1>7, DemandStep
<1>8. ASSUME NEW s \in Subs, Request(s) PROVE IInv'
  BY <1>8, DemandStep
<1>9. ASSUME NEW s \in Subs, Deliver(s) PROVE IInv'
  BY <1>9, DeliverHeadStep, JoinRestStep, DeliverTailStep, DeliverTerminalStep DEF Deliver
<1>10. ASSUME NEW s \in Subs, DeserializeError(s) \/ Cancel(s) PROVE IInv'
  <2>1. PICK st \in {"errored", "cancelled"} : EndSubs({s}, st)
    BY <1>10 DEF DeserializeError, Cancel
  <2>2. Running(s) /\ UNCHANGED <<up, emitted, demand, first, inner, down>>
    BY <1>10 DEF DeserializeError, Cancel, Running, requester, response
  <2>3. demand' \in Nat /\ down' \in {"open", "completed", "errored", "cancelled"}
    BY <1>0, <2>2 DEF TypeOK
  <2>4. {s} \in SUBSET Subs /\ \A t \in {s} : Running(t)
    BY <2>2
  <2> QED
    BY <2>1, <2>2, <2>3, <2>4, Ending
<1>11. CASE UNCHANGED vars
  BY <1>11 DEF vars, requester, rest, response, consumers, IInv, TypeOK, HeadFirst,
               HeadTaken, OwnerReads, BufferedForNobody, EndKnown, FifoDelivery,
               EndAfterAll
<1> QED
  BY <1>1, <1>2, <1>3, <1>4, <1>5, <1>6, <1>7, <1>8, <1>9, <1>10, <1>11 DEF Next

(* The invariant holds throughout every channel. *)
THEOREM Invariance == Spec => []IInv
BY InitIInv, StepIInv, PTL DEF Spec

(* The variables of the channel keep their types. *)
THEOREM TypeCorrect == Spec => []TypeOK
<1>1. IInv => TypeOK
  BY DEF IInv
<1> QED
  BY Invariance, <1>1, PTL

(* split, `rest` and startWith deliver a prefix of the requester's         *)
(* payloads, in order and without loss, to any number of subscribers, for  *)
(* any number of payloads and any demand.                                  *)
THEOREM Fifo == Spec => []FifoDelivery
<1>1. IInv => FifoDelivery
  BY DEF IInv
<1> QED
  BY Invariance, <1>1, PTL

(* A service that sees its requester complete has received every payload.  *)
THEOREM CompleteAfterAll == Spec => []EndAfterAll
<1>1. IInv => EndAfterAll
  BY DEF IInv
<1> QED
  BY Invariance, <1>1, PTL

(* At most one subscriber of `message` is given payloads of the tail.      *)
THEOREM OneTailConsumer == Spec => []SingleTailConsumer
<1>1. IInv => SingleTailConsumer
  BY DEF IInv, OwnerReads, SingleTailConsumer
<1> QED
  BY Invariance, <1>1, PTL

-----------------------------------------------------------------------------
(* flatMap's demand is what its concurrency leaves, in every step. *)
LEMMA StepDemand == IInv /\ DemandConserved /\ [Next]_vars => DemandConserved'
<1> SUFFICES ASSUME IInv, DemandConserved, [Next]_vars PROVE DemandConserved'
  OBVIOUS
<1>0. /\ demand \in Nat /\ MaxConcurrency \in Nat
      /\ first => inner = "none"
  BY ChannelAssumption DEF IInv, TypeOK, HeadFirst
<1> USE DEF DemandConserved
<1>1. CASE HeadRouted
  BY <1>0, <1>1 DEF HeadRouted, Arrives
<1>2. CASE HeadRejected
  BY <1>2 DEF HeadRejected
<1>3. CASE TailArrives
  BY <1>0, <1>3 DEF TailArrives, Arrives, Replenishment, response
<1>4. CASE RequesterCompletes \/ RequesterFails \/ FlatMapOnComplete \/ FlatMapOnError
  BY <1>4 DEF RequesterCompletes, RequesterFails, FlatMapOnComplete, FlatMapOnError
<1>5. CASE ResponseCompletes
  BY <1>0, <1>5 DEF ResponseCompletes
<1>6. CASE ResponseFails \/ ResponseCancelled
  BY <1>6 DEF ResponseFails, ResponseCancelled, CancelRequester
<1>7. CASE UNCHANGED <<up, demand, inner>>
  BY <1>7
<1>8. ASSUME NEW s \in Subs,
             (\E a \in BOOLEAN : Subscribe(s, a)) \/ Request(s) \/ Deliver(s)
               \/ DeserializeError(s) \/ Cancel(s)
      PROVE  UNCHANGED <<up, demand, inner>>
  BY <1>8 DEF Subscribe, Request, Deliver, DeliverHead, JoinRest, DeliverTail, DeliverTerminal, Takes,
              DeserializeError, Cancel, requester, response
<1> QED
  BY <1>1, <1>2, <1>3, <1>4, <1>5, <1>6, <1>7, <1>8
     DEF Next, vars, requester, response

(* The requester always has the demand that flatMap's concurrency leaves:  *)
(* the service's pace never holds it back, for any maxConcurrency.         *)
THEOREM DemandKept == Spec => []DemandConserved
<1>1. Init => DemandConserved
  BY ChannelAssumption DEF Init, DemandConserved
<1> QED
  BY Invariance, StepDemand, <1>1, PTL DEF Spec

(* Neither half of the channel closes the other but by failing. *)
LEMMA StepHalves == HalvesCloseTogether /\ [Next]_vars => HalvesCloseTogether'
<1> SUFFICES ASSUME HalvesCloseTogether, [Next]_vars PROVE HalvesCloseTogether'
  OBVIOUS
<1> USE DEF HalvesCloseTogether
<1>1. CASE HeadRouted
  BY <1>1 DEF HeadRouted, Arrives
<1>2. CASE HeadRejected
  BY <1>2 DEF HeadRejected
<1>3. CASE TailArrives
  BY <1>3 DEF TailArrives, response
<1>4. CASE RequesterCompletes \/ RequesterFails
  BY <1>4 DEF RequesterCompletes, RequesterFails, response
<1>5. CASE FlatMapOnComplete
  BY <1>5 DEF FlatMapOnComplete, MergedEnd, CompletesWith
<1>6. CASE FlatMapOnError
  BY <1>6 DEF FlatMapOnError
<1>7. CASE ResponseCompletes
  BY <1>7 DEF ResponseCompletes, MergedEnd, CompletesWith
<1>8. CASE ResponseFails \/ ResponseCancelled
  BY <1>8 DEF ResponseFails, ResponseCancelled, CancelRequester
<1>9. CASE UNCHANGED <<up, inner, down>>
  BY <1>9
<1>10. ASSUME NEW s \in Subs,
              (\E a \in BOOLEAN : Subscribe(s, a)) \/ Request(s) \/ Deliver(s)
                \/ DeserializeError(s) \/ Cancel(s)
       PROVE  UNCHANGED <<up, inner, down>>
  BY <1>10 DEF Subscribe, Request, Deliver, DeliverHead, JoinRest, DeliverTail, DeliverTerminal, Takes,
               DeserializeError, Cancel, requester, response
<1> QED
  BY <1>1, <1>2, <1>3, <1>4, <1>5, <1>6, <1>7, <1>8, <1>9, <1>10
     DEF Next, vars, requester, response

(* The merged flow completes only with both halves, and the requester is   *)
(* cancelled only by a response that failed or was cancelled.              *)
THEOREM HalvesTogether == Spec => []HalvesCloseTogether
<1>1. Init => HalvesCloseTogether
  BY DEF Init, HalvesCloseTogether
<1> QED
  BY StepHalves, <1>1, PTL DEF Spec

(* Whatever ends the response flow ends the subscriptions it is made of;   *)
(* while it runs nobody has cancelled the requester, and the merged flow   *)
(* has not ended but by the requester's failure.                           *)
Disposed ==
  /\ inner # "active" => \A s \in Subs : attached[s] => ~Running(s)
  /\ inner = "active" => up # "cancelled" /\ (down = "open" \/ up = "errored")
  /\ up = "active" => down = "open"

(* Every step keeps Disposed. *)
LEMMA StepDisposed == IInv /\ Disposed /\ [Next]_vars => Disposed'
<1> SUFFICES ASSUME IInv, Disposed, [Next]_vars PROVE Disposed'
  OBVIOUS
<1>0. TypeOK /\ (first => \A s \in Subs : sub[s] = "idle")
  BY DEF IInv, HeadFirst
<1>1. CASE HeadRouted
  BY <1>1 DEF HeadRouted, Arrives, Disposed
<1>2. CASE HeadRejected
  BY <1>0, <1>2 DEF HeadRejected, Arrives, Disposed, Running, consumers
<1>3. CASE TailArrives \/ RequesterCompletes \/ RequesterFails \/ FlatMapOnError
  BY <1>3 DEF TailArrives, RequesterCompletes, RequesterFails, FlatMapOnError, response,
              consumers, Disposed, Running
<1>4. CASE FlatMapOnComplete
  BY <1>4 DEF FlatMapOnComplete, MergedEnd, CompletesWith, consumers, Disposed, Running
<1>5. CASE ResponseCompletes \/ ResponseFails \/ ResponseCancelled
  <2>1. DisposeResponse
    BY <1>5 DEF ResponseCompletes, ResponseFails, ResponseCancelled
  <2>2. \A s \in Subs : attached'[s] => sub'[s] \notin {"head", "joining", "tail"}
    BY <2>1 DEF DisposeResponse, EndSubs, Running
  <2>3. inner' # "active" /\ (up' = "active" => down' = "open")
    BY <1>5 DEF ResponseCompletes, ResponseFails, ResponseCancelled, CancelRequester,
                MergedEnd, CompletesWith, Disposed
  <2> QED
    BY <2>2, <2>3 DEF Disposed, Running
<1>6. ASSUME NEW s \in Subs, NEW a \in BOOLEAN, Subscribe(s, a) PROVE Disposed'
  BY <1>0, <1>6 DEF Subscribe, Disposed, Running, TypeOK, requester, response
<1>7. ASSUME NEW s \in Subs, Request(s) PROVE Disposed'
  BY <1>7 DEF Request, Disposed, Running, requester, response
<1>8. ASSUME NEW s \in Subs, Deliver(s) PROVE Disposed'
  <2>1. /\ UNCHANGED <<up, inner, down, attached>>
        /\ \A t \in Subs : sub'[t] = sub[t] \/ Running(t)
    BY <1>0, <1>8 DEF Deliver, DeliverHead, JoinRest, DeliverTail, DeliverTerminal, Takes,
                      Running, TypeOK, requester, rest, response
  <2> QED
    BY <2>1 DEF Disposed, Running
<1>9. ASSUME NEW s \in Subs, DeserializeError(s) \/ Cancel(s) PROVE Disposed'
  BY <1>0, <1>9 DEF DeserializeError, Cancel, EndSubs, Disposed, Running, requester, response
<1>10. CASE UNCHANGED vars
  BY <1>10 DEF vars, requester, response, consumers, Disposed, Running
<1> QED
  BY <1>1, <1>2, <1>3, <1>4, <1>5, <1>6, <1>7, <1>8, <1>9, <1>10 DEF Next

(* Nobody waits for an end that nobody will bring, and `rest` holds        *)
(* nothing for a reader that has left.                                     *)
THEOREM NoOrphans == Spec => []NoOrphanedConsumer
<1>1. Init => Disposed
  BY DEF Init, Disposed
<1>2. IInv /\ Disposed => NoOrphanedConsumer
  BY DEF IInv, OwnerReads, EndKnown, TypeOK, Disposed, NoOrphanedConsumer, Running
<1> QED
  BY Invariance, StepDisposed, <1>1, <1>2, PTL DEF Spec

-----------------------------------------------------------------------------
(* The channel implements MessageStream: every step of RequestChannel is a *)
(* step of the stream that the service is promised, or leaves it as it is. *)
(* Which one follows from the invariant above: that the oldest buffered    *)
(* payload is the next one of its reader, and that `rest` ends drained and *)
(* as the requester did.                                                   *)

(* Ending subscriptions of `message` abandons them, or fails one of them.  *)
LEMMA EndSubsState ==
  ASSUME NEW S \in SUBSET Subs, NEW st \in {"errored", "cancelled"}, EndSubs(S, st)
  PROVE  StreamState' = [s \in Subs |-> IF s \in S THEN st ELSE StreamState[s]]
<1>1. \A s \in Subs : sub'[s] = IF s \in S THEN st ELSE sub[s]
  BY DEF EndSubs
<1> QED
  BY <1>1 DEF StreamState, Running

(* A step that ends a set of subscriptions with the response, or one on    *)
(* its own, is the stream's Abandon.                                       *)
LEMMA Abandons ==
  ASSUME NEW S \in SUBSET Subs, \A s \in S : Running(s), EndSubs(S, "cancelled"),
         UNCHANGED emitted,
         StreamEnd' = StreamEnd \/ (StreamEnd = "open" /\ StreamEnd' = "cancelled")
  PROVE  Stream!Next
<1>1. \A s \in S : StreamState[s] = "live"
  BY DEF StreamState
<1>2. StreamState' = [s \in Subs |-> IF s \in S THEN "cancelled" ELSE StreamState[s]]
  BY EndSubsState
<1>3. UNCHANGED <<emitted, received, owner>>
  BY DEF EndSubs
<1>4. Stream!Abandon(S)
  BY <1>1, <1>2, <1>3 DEF Stream!Abandon
<1> QED
  BY <1>4 DEF Stream!Next

(* Every step of the channel is a step of the stream, or none.             *)
LEMMA StreamStep == IInv /\ [Next]_vars => [Stream!Next]_(Stream!vars)
<1> SUFFICES ASSUME IInv, [Next]_vars PROVE Stream!Next \/ UNCHANGED Stream!vars
  OBVIOUS
<1>0. TypeOK
  BY DEF IInv
<1>1. CASE HeadRouted \/ TailArrives
  <2>1. /\ StreamEnd = "open" /\ emitted' = emitted + 1
        /\ UNCHANGED <<up, received, sub, owner>>
    BY <1>1 DEF HeadRouted, TailArrives, Arrives, StreamEnd, rest, consumers
  <2>2. UNCHANGED <<StreamEnd, StreamState>>
    BY <2>1 DEF StreamEnd, StreamState, Running
  <2>3. Stream!Send
    BY <2>1, <2>2 DEF Stream!Send
  <2> QED
    BY <2>3 DEF Stream!Next
<1>2. CASE HeadRejected
  <2>1. /\ StreamEnd = "open" /\ emitted' = emitted + 1 /\ first /\ up' = "cancelled"
        /\ UNCHANGED <<received, sub, owner>>
    BY <1>2 DEF HeadRejected, Arrives, StreamEnd, rest, consumers
  <2>2. emitted = 0 /\ emitted' = 1
    BY <2>1 DEF IInv, HeadFirst
  <2>3. StreamEnd' = "cancelled" /\ UNCHANGED StreamState
    BY <2>1 DEF StreamEnd, StreamState, Running
  <2>4. Stream!Reject
    BY <2>1, <2>2, <2>3 DEF Stream!Reject
  <2> QED
    BY <2>4 DEF Stream!Next
<1>3. CASE RequesterCompletes \/ RequesterFails
  <2>1. /\ up = "active" /\ up' \in {"completing", "erroring"}
        /\ UNCHANGED <<emitted, received, sub, owner>>
    BY <1>3 DEF RequesterCompletes, RequesterFails, consumers
  <2>2. /\ StreamEnd = "open" /\ StreamEnd' \in {"completed", "errored"}
        /\ UNCHANGED StreamState
    BY <2>1 DEF StreamEnd, StreamState, Running
  <2>3. Stream!Finish(StreamEnd')
    BY <2>1, <2>2 DEF Stream!Finish
  <2> QED
    BY <2>2, <2>3 DEF Stream!Next
<1>4. CASE FlatMapOnComplete \/ FlatMapOnError
  <2>1. /\ UNCHANGED <<emitted, received, sub, owner>>
        /\ \/ up = "completing" /\ up' = "completed"
           \/ up = "erroring" /\ up' = "errored"
    BY <1>4 DEF FlatMapOnComplete, FlatMapOnError, rest, consumers
  <2> QED
    BY <2>1 DEF Stream!vars, StreamEnd, StreamState, Running
<1>5. CASE ResponseCompletes \/ ResponseFails \/ ResponseCancelled
  <2>1. PICK S \in SUBSET Subs : (\A s \in S : Running(s)) /\ EndSubs(S, "cancelled")
    BY <1>5, DisposalEnds DEF ResponseCompletes, ResponseFails, ResponseCancelled
  <2>2. /\ UNCHANGED emitted
        /\ \/ up' = up
           \/ up = "active" /\ up' = "cancelled"
    BY <1>5 DEF ResponseCompletes, ResponseFails, ResponseCancelled, CancelRequester
  <2>3. StreamEnd' = StreamEnd \/ (StreamEnd = "open" /\ StreamEnd' = "cancelled")
    BY <2>2 DEF StreamEnd
  <2> QED
    BY <2>1, <2>2, <2>3, Abandons
<1>6. ASSUME NEW s \in Subs, NEW a \in BOOLEAN, Subscribe(s, a) PROVE Stream!Next
  <2>1. /\ sub[s] = "idle" /\ inner # "none" /\ sub' = [sub EXCEPT ![s] = "head"]
        /\ UNCHANGED <<up, emitted, received, owner>>
    BY <1>6 DEF Subscribe, requester, rest
  <2>2. emitted > 0
    BY <2>1 DEF IInv, HeadFirst
  <2>3. /\ StreamState[s] = "idle" /\ UNCHANGED StreamEnd
        /\ StreamState' = [StreamState EXCEPT ![s] = "live"]
    BY <1>0, <2>1 DEF StreamEnd, StreamState, Running, TypeOK
  <2>4. Stream!Join(s)
    BY <2>1, <2>2, <2>3 DEF Stream!Join
  <2> QED
    BY <2>4 DEF Stream!Next
<1>7. ASSUME NEW s \in Subs, Request(s) PROVE UNCHANGED Stream!vars
  BY <1>7 DEF Request, requester, rest, Stream!vars, StreamEnd, StreamState, Running
<1>8. ASSUME NEW s \in Subs, DeliverHead(s) PROVE Stream!Next
  <2>1. /\ sub[s] = "head" /\ received' = [received EXCEPT ![s] = Append(@, 1)]
        /\ sub' = [sub EXCEPT ![s] = "joining"] /\ UNCHANGED <<up, emitted, owner>>
    BY <1>8 DEF DeliverHead, Takes, requester, rest
  <2>2. received[s] = <<>> /\ Len(received[s]) = 0 /\ emitted > 0
    BY <2>1 DEF IInv, HeadTaken, HeadFirst
  <2>3. StreamState[s] = "live" /\ UNCHANGED <<StreamEnd, StreamState>>
    BY <1>0, <2>1 DEF StreamEnd, StreamState, Running, TypeOK
  <2>4. Stream!TakeHead(s)
    BY <1>0, <2>1, <2>2, <2>3 DEF Stream!TakeHead, Stream!Gets, TypeOK
  <2> QED
    BY <2>4 DEF Stream!Next
<1>9. ASSUME NEW s \in Subs, JoinRest(s) PROVE Stream!Next
  <2>1. sub[s] = "joining" /\ UNCHANGED <<up, emitted, received>>
    BY <1>9 DEF JoinRest, requester
  <2>2. received[s] # <<>> /\ owner # s
    <3>1. Len(received[s]) = 1 /\ owner # s
      BY <2>1 DEF IInv, HeadTaken, OwnerReads
    <3> QED
      BY <3>1
  <2>3. StreamState[s] = "live" /\ UNCHANGED StreamEnd
    BY <2>1 DEF StreamEnd, StreamState, Running
  <2>4. CASE owner = NoSub
    <3>1. owner' = s /\ sub' = [sub EXCEPT ![s] = "tail"]
      BY <1>9, <2>4 DEF JoinRest, RestAccepts
    <3>2. UNCHANGED StreamState
      BY <1>0, <2>1, <3>1 DEF StreamState, Running, TypeOK
    <3>3. Stream!BecomeReader(s)
      BY <2>1, <2>2, <2>3, <2>4, <3>1, <3>2 DEF Stream!BecomeReader
    <3> QED
      BY <3>3 DEF Stream!Next
  <2>5. CASE owner # NoSub
    <3>1. owner' = owner /\ sub' = [sub EXCEPT ![s] = "errored"]
      BY <1>9, <2>5 DEF JoinRest, RestAccepts
    <3>2. StreamState' = [StreamState EXCEPT ![s] = "errored"]
      BY <1>0, <3>1 DEF StreamState, Running, TypeOK
    <3>3. Stream!Refused(s)
      BY <2>1, <2>2, <2>3, <2>5, <3>1, <3>2 DEF Stream!Refused
    <3> QED
      BY <3>3 DEF Stream!Next
  <2> QED
    BY <2>4, <2>5
<1>10. ASSUME NEW s \in Subs, DeliverTail(s) PROVE Stream!Next
  <2>1. /\ sub[s] = "tail" /\ queue # <<>>
        /\ received' = [received EXCEPT ![s] = Append(@, Head(queue))]
        /\ UNCHANGED <<up, emitted, sub, owner>>
    BY <1>10 DEF DeliverTail, Takes, requester
  <2>2. owner = s /\ Len(received[s]) < emitted /\ Head(queue) = Len(received[s]) + 1
    BY <2>1 DEF IInv, TypeOK, OwnerReads, FifoDelivery
  <2>3. StreamState[s] = "live" /\ UNCHANGED <<StreamEnd, StreamState>>
    BY <2>1 DEF StreamEnd, StreamState, Running
  <2>4. Stream!Receive(s)
    BY <1>0, <2>1, <2>2, <2>3 DEF Stream!Receive, Stream!Gets, TypeOK
  <2> QED
    BY <2>4 DEF Stream!Next
<1>11. ASSUME NEW s \in Subs, DeliverTerminal(s) PROVE Stream!Next
  <2>1. /\ sub[s] = "tail" /\ restEnd # "open" /\ queue = <<>>
        /\ sub' = [sub EXCEPT ![s] = restEnd]
        /\ UNCHANGED <<up, emitted, received, owner>>
    BY <1>11 DEF DeliverTerminal, RestDrained, requester, rest
  <2>2. restEnd \in {"completed", "errored"} /\ StreamEnd = restEnd /\ UNCHANGED StreamEnd
    BY <1>0, <2>1 DEF IInv, TypeOK, EndKnown, StreamEnd
  <2>3. owner = s /\ Len(received[s]) = emitted
    <3>1. owner = s /\ Len(received[s]) + 0 = emitted
      BY <2>1 DEF IInv, OwnerReads, FifoDelivery
    <3>2. Len(received[s]) \in Nat
      BY <1>0 DEF TypeOK
    <3> QED
      BY <3>1, <3>2
  <2>4. StreamState[s] = "live" /\ StreamState' = [StreamState EXCEPT ![s] = restEnd]
    BY <1>0, <2>1, <2>2 DEF StreamState, Running, TypeOK
  <2>5. Stream!End(s)
    BY <2>1, <2>2, <2>3, <2>4 DEF Stream!End
  <2> QED
    BY <2>5 DEF Stream!Next
<1>12. ASSUME NEW s \in Subs, DeserializeError(s) PROVE Stream!Next
  <2>1. /\ EndSubs({s}, "errored") /\ Running(s) /\ UNCHANGED <<up, emitted>>
        /\ sub[s] = "head" \/ (sub[s] = "tail" /\ queue # <<>>)
    BY <1>12 DEF DeserializeError, Running, requester
  <2>2. Len(received[s]) < emitted /\ (received[s] = <<>> \/ owner = s)
    <3>1. CASE sub[s] = "head"
      BY <3>1 DEF IInv, HeadTaken, HeadFirst
    <3>2. CASE sub[s] = "tail" /\ queue # <<>>
      BY <3>2 DEF IInv, TypeOK, FifoDelivery, OwnerReads
    <3> QED
      BY <2>1, <3>1, <3>2
  <2>3. StreamState' = [t \in Subs |-> IF t \in {s} THEN "errored" ELSE StreamState[t]]
    BY <2>1, EndSubsState
  <2>4. StreamState[s] = "live" /\ StreamState' = [StreamState EXCEPT ![s] = "errored"]
    BY <2>1, <2>3 DEF StreamState
  <2>5. UNCHANGED <<emitted, StreamEnd, received, owner>>
    BY <2>1 DEF EndSubs, StreamEnd
  <2>6. Stream!Fail(s)
    BY <2>2, <2>4, <2>5 DEF Stream!Fail
  <2> QED
    BY <2>6 DEF Stream!Next
<1>13. ASSUME NEW s \in Subs, Cancel(s) PROVE Stream!Next
  <2>1. EndSubs({s}, "cancelled") /\ UNCHANGED <<up, emitted>>
    BY <1>13 DEF Cancel, requester
  <2>2. {s} \in SUBSET Subs /\ (\A t \in {s} : Running(t)) /\ UNCHANGED StreamEnd
    BY <1>13, <2>1 DEF Cancel, StreamEnd
  <2> QED
    BY <2>1, <2>2, Abandons
<1>14. CASE UNCHANGED vars
  BY <1>14 DEF vars, requester, rest, consumers, Stream!vars, StreamEnd, StreamState, Running
<1> QED
  BY <1>1, <1>2, <1>3, <1>4, <1>5, <1>6, <1>7, <1>8, <1>9, <1>10, <1>11, <1>12, <1>13, <1>14
     DEF Next, Deliver

(* For any subscribers, any number of payloads and any interleaving of     *)
(* requester, `rest`, service and response: the flow `message` behaves as  *)
(* MessageStream promises.                                                 *)
THEOREM Refinement == Spec => ImplementsStream
<1>1. Init => Stream!Init
  BY DEF Init, Stream!Init, StreamEnd, StreamState, Running
<1> QED
  BY Invariance, StreamStep, <1>1, PTL DEF Spec, ImplementsStream, Stream!Spec
=============================================================================
