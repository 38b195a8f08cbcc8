----------------------- MODULE TraceSubscriberProofs -----------------------
(***************************************************************************)
(* For every set of cancellers: the types of TraceSubscriber, and that the *)
(* race into cleanup finishes each span at most once.                      *)
(*                                                                         *)
(* FinishedOnce is not inductive: two threads about to finish the span     *)
(* would break it.  compareAndSet lets one thread pass, so that at any     *)
(* time at most one thread is past it and not yet done (OneWinner), nobody *)
(* is before the AtomicBoolean is set, and what that thread has still to   *)
(* finish is unfinished (WinnerFinishes).                                  *)
(***************************************************************************)
EXTENDS TraceSubscriber, TLAPS

Finishing(t) == pc[t] \in {"finishSpan", "finishRoot"}

OneWinner ==
  \A t, u \in Threads : Finishing(t) /\ Finishing(u) => t = u

NobodyBeforeDone ==
  ~done => /\ \A t \in Threads : ~Finishing(t)
           /\ spanFinished = 0 /\ rootFinished = 0

WinnerFinishes ==
  \A t \in Threads :
    /\ pc[t] = "finishSpan" => spanFinished = 0 /\ rootFinished = 0
    /\ pc[t] = "finishRoot" => rootFinished = 0

SubscriberStages ==
  /\ pc["subscriber"] = "start" => subscriptions = 0
  /\ pc["subscriber"] = "activate" => subscriptions = 1

IInv ==
  /\ TypeOK /\ SubscriberStages
  /\ OneWinner /\ NobodyBeforeDone /\ WinnerFinishes /\ FinishedOnce

-----------------------------------------------------------------------------
(* The constructor establishes the invariant. *)
LEMMA InitIInv == Init => IInv
<1> SUFFICES ASSUME Init PROVE IInv
  OBVIOUS
<1>1. TypeOK
  <2>1. pc \in [Threads -> {"start", "activate", "complete", "cancel", "cleanup",
                            "finishSpan", "finishRoot", "end"}]
    BY DEF Init
  <2>2. /\ root \in BOOLEAN /\ reliable \in BOOLEAN /\ upstream \in BOOLEAN
        /\ refused \in BOOLEAN /\ cancelled \in BOOLEAN /\ done \in BOOLEAN
    BY Zenon DEF Init
  <2>3. /\ subscriptions \in 0 .. 2 /\ items \in 0 .. MaxItems
        /\ spanFinished \in Nat /\ rootFinished \in Nat
    BY TraceAssumption, SMT DEF Init
  <2> QED
    BY <2>1, <2>2, <2>3 DEF Init, TypeOK
<1>2. SubscriberStages
  BY DEF Init, SubscriberStages, Threads
<1>3. OneWinner /\ NobodyBeforeDone /\ WinnerFinishes /\ FinishedOnce
  BY DEF Init, OneWinner, NobodyBeforeDone, WinnerFinishes, FinishedOnce, Finishing
<1> QED
  BY <1>1, <1>2, <1>3 DEF IInv

(* Every step keeps the types and the stages of onSubscribe. *)
LEMMA TypeStep ==
  TypeOK /\ SubscriberStages /\ [Next]_vars => TypeOK' /\ SubscriberStages'
<1> SUFFICES ASSUME TypeOK, SubscriberStages, [Next]_vars
             PROVE  TypeOK' /\ SubscriberStages'
  OBVIOUS
<1> USE TraceAssumption DEF TypeOK, SubscriberStages, Threads, Goto, setup, flow, finishes
<1>1. CASE OnSubscribe
  BY <1>1 DEF OnSubscribe
<1>2. CASE OnSubscribeAgain
  BY <1>2 DEF OnSubscribeAgain
<1>3. CASE OnNext
  BY <1>3 DEF OnNext, Emitting
<1>4. CASE OnComplete
  BY <1>4 DEF OnComplete, Emitting
<1>5. CASE OnError
  BY <1>5 DEF OnError, Emitting
<1>6. ASSUME NEW t \in Threads, Cancel(t)
      PROVE  TypeOK' /\ SubscriberStages'
  BY <1>6 DEF Cancel
<1>7. ASSUME NEW t \in Threads, Proceed(t)
      PROVE  TypeOK' /\ SubscriberStages'
  <2>1. CASE OnSubscribeInScope
    BY <2>1 DEF OnSubscribeInScope
  <2>2. CASE OnSubscribeThrows
    BY <2>2 DEF OnSubscribeThrows
  <2>3. CASE DownstreamOnComplete
    BY <2>3 DEF DownstreamOnComplete
  <2>4. CASE CancelUpstream(t)
    BY <2>4 DEF CancelUpstream
  <2>5. CASE ScopeThrows(t)
    BY <2>5 DEF ScopeThrows, Unwinds
  <2>6. CASE Cleanup(t)
    BY <2>6 DEF Cleanup, CompareAndSet
  <2>7. CASE FinishSpan(t)
    BY <2>7 DEF FinishSpan
  <2>8. CASE FinishRoot(t)
    BY <2>8 DEF FinishRoot
  <2> QED
    BY <1>7, <2>1, <2>2, <2>3, <2>4, <2>5, <2>6, <2>7, <2>8 DEF Proceed
<1>8. CASE UNCHANGED vars
  BY <1>8 DEF vars
<1> QED
  BY <1>1, <1>2, <1>3, <1>4, <1>5, <1>6, <1>7, <1>8 DEF Next

Race == OneWinner /\ NobodyBeforeDone /\ WinnerFinishes /\ FinishedOnce

(* A thread that moves to a place outside cleanup's two calls of finish,   *)
(* or that stays, does not touch the race.                                 *)
LEMMA OutsideRace ==
  ASSUME TypeOK, Race, UNCHANGED <<done, finishes>>,
         NEW t \in Threads, NEW l \in {"activate", "complete", "cancel", "cleanup", "end"},
         Goto(t, l)
  PROVE  Race'
<1>1. \A u \in Threads : Finishing(u)' => Finishing(u)
  BY DEF TypeOK, Goto, Finishing
<1>2. \A u \in Threads : pc'[u] \in {"finishSpan", "finishRoot"} => pc'[u] = pc[u]
  BY DEF TypeOK, Goto
<1> QED
  BY <1>1, <1>2 DEF Race, OneWinner, NobodyBeforeDone, WinnerFinishes, FinishedOnce,
                    Finishing, finishes

(* Every step of cleanup, and every other one, keeps the race decided. *)
LEMMA RaceStep == TypeOK /\ Race /\ [Next]_vars => Race'
<1> SUFFICES ASSUME TypeOK, Race, [Next]_vars PROVE Race'
  OBVIOUS
<1> DEFINE Out == {"activate", "complete", "cancel", "cleanup", "end"}
<1>0. "subscriber" \in Threads /\ "emitter" \in Threads
  BY DEF Threads
<1>1. CASE UNCHANGED <<pc, done, finishes>>
  BY <1>1 DEF Race, OneWinner, NobodyBeforeDone, WinnerFinishes, FinishedOnce, Finishing,
              finishes
<1>2. CASE \E t \in Threads, l \in Out : Goto(t, l) /\ UNCHANGED <<done, finishes>>
  BY <1>2, OutsideRace
<1>3. ASSUME NEW t \in Threads, Cleanup(t) PROVE Race'
  <2>1. CASE done
    <3>1. Goto(t, "end") /\ UNCHANGED <<done, finishes>>
      BY <1>3, <2>1 DEF Cleanup, CompareAndSet, finishes, TypeOK
    <3> QED
      BY <3>1, OutsideRace
  <2>2. CASE ~done
    <3>1. /\ done' /\ pc' = [pc EXCEPT ![t] = "finishSpan"]
          /\ UNCHANGED <<spanFinished, rootFinished>>
      BY <1>3, <2>2 DEF Cleanup, CompareAndSet, finishes, Goto
    <3>2. \A u \in Threads : Finishing(u)' => u = t
      BY <2>2, <3>1 DEF Race, NobodyBeforeDone, Finishing, TypeOK
    <3> QED
      BY <2>2, <3>1, <3>2
         DEF Race, OneWinner, NobodyBeforeDone, WinnerFinishes, FinishedOnce, Finishing, TypeOK
  <2> QED
    BY <2>1, <2>2
<1>4. ASSUME NEW t \in Threads, FinishSpan(t) PROVE Race'
  <2>1. done /\ spanFinished = 0 /\ rootFinished = 0
    BY <1>4 DEF FinishSpan, Race, NobodyBeforeDone, WinnerFinishes, Finishing, TypeOK
  <2>2. \A u \in Threads : u # t => ~Finishing(u)
    BY <1>4 DEF FinishSpan, Race, OneWinner, Finishing
  <2>3. \A u \in Threads : u # t => pc'[u] = pc[u]
    BY <1>4 DEF FinishSpan, Goto, TypeOK
  <2>4. pc'[t] # "finishSpan" /\ spanFinished' = 1 /\ rootFinished' = 0 /\ done'
    BY <1>4, <2>1 DEF FinishSpan, Goto, TypeOK
  <2> QED
    BY <2>2, <2>3, <2>4
       DEF Race, OneWinner, NobodyBeforeDone, WinnerFinishes, FinishedOnce, Finishing
<1>5. ASSUME NEW t \in Threads, FinishRoot(t) PROVE Race'
  <2>1. done /\ rootFinished = 0
    BY <1>5 DEF FinishRoot, Race, NobodyBeforeDone, WinnerFinishes, Finishing, TypeOK
  <2>2. \A u \in Threads : u # t => ~Finishing(u)
    BY <1>5 DEF FinishRoot, Race, OneWinner, Finishing
  <2>3. \A u \in Threads : u # t => pc'[u] = pc[u]
    BY <1>5 DEF FinishRoot, Goto, TypeOK
  <2>4. pc'[t] = "end" /\ spanFinished' = spanFinished /\ rootFinished' = 1 /\ done'
    BY <1>5, <2>1 DEF FinishRoot, Goto, TypeOK
  <2>5. spanFinished <= 1
    BY DEF Race, FinishedOnce
  <2> QED
    BY <2>2, <2>3, <2>4, <2>5
       DEF Race, OneWinner, NobodyBeforeDone, WinnerFinishes, FinishedOnce, Finishing
<1>6. ASSUME NEW t \in Threads, Cancel(t) PROVE Race'
  BY <1>6, OutsideRace DEF Cancel
<1>7. ASSUME NEW t \in Threads, Proceed(t) PROVE Race'
  <2>1. CASE OnSubscribeInScope
    BY <2>1, <1>0, <1>2 DEF OnSubscribeInScope
  <2>2. CASE OnSubscribeThrows
    BY <2>2, <1>0, <1>2 DEF OnSubscribeThrows
  <2>3. CASE DownstreamOnComplete
    BY <2>3, <1>0, <1>2 DEF DownstreamOnComplete
  <2>4. CASE CancelUpstream(t)
    BY <2>4, <1>2 DEF CancelUpstream
  <2>5. CASE ScopeThrows(t)
    BY <2>5, <1>2 DEF ScopeThrows, Unwinds
  <2> QED
    BY <1>3, <1>4, <1>5, <1>7, <2>1, <2>2, <2>3, <2>4, <2>5 DEF Proceed
<1>8. CASE OnSubscribe
  BY <1>8, <1>0, <1>2 DEF OnSubscribe
<1>9. CASE OnSubscribeAgain \/ OnNext
  BY <1>9, <1>1 DEF OnSubscribeAgain, OnNext
<1>10. CASE OnComplete \/ OnError
  BY <1>10, <1>0, <1>2 DEF OnComplete, OnError
<1>11. CASE UNCHANGED vars
  BY <1>11, <1>1 DEF vars
<1> QED
  BY <1>6, <1>7, <1>8, <1>9, <1>10, <1>11 DEF Next

-----------------------------------------------------------------------------
(* The invariant holds in every state of every subscription. *)
THEOREM Invariance == Spec => []IInv
<1>1. IInv /\ [Next]_vars => IInv'
  BY TypeStep, RaceStep DEF IInv, Race
<1> QED
  BY InitIInv, <1>1, PTL DEF Spec

(* TraceSubscriber's variables keep their types, with any number of        *)
(* cancellers.                                                             *)
THEOREM TypeCorrect == Spec => []TypeOK
<1>1. IInv => TypeOK
  BY DEF IInv
<1> QED
  BY Invariance, <1>1, PTL

(* cleanup finishes the span and the root span at most once each, with any *)
(* number of cancellers racing each other and the terminal signal.         *)
THEOREM SpansFinishedOnce == Spec => []FinishedOnce
<1>1. IInv => FinishedOnce
  BY DEF IInv
<1> QED
  BY Invariance, <1>1, PTL
=============================================================================
