-------------------------- MODULE TracedCallsProofs --------------------------
(***************************************************************************)
(* The properties of TracedCalls for any calls and threads, and handlers   *)
(* nested to any depth.                                                    *)
(***************************************************************************)
EXTENDS TracedCalls, FiniteSetTheorems, TLAPS

AnySpan == Spans \union {NoSpan}

Frame == [call : Calls, restore : AnySpan,
          handler : {"onSubscribe", "onComplete", "onError", "cancel"}]

Typed ==
  /\ started \subseteq Calls /\ gone \subseteq started /\ IsFiniteSet(gone)
  /\ root \in [Calls -> AnySpan]
  /\ frames \in [Threads -> Seq(Frame)]
  /\ active \in [Threads -> AnySpan]
  /\ finishes \in [Spans -> Nat]

(* What a handler restores is the span of the handler below it, or the     *)
(* thread's own; the innermost handler's span is the active one.           *)
Nested ==
  \A t \in Threads :
    /\ frames[t] = <<>> => active[t] = Base[t]
    /\ frames[t] # <<>> => active[t] = Top(t).call
    /\ \A k \in 1 .. Len(frames[t]) :
         /\ frames[t][k].call \in started
         /\ frames[t][k].restore = IF k = 1 THEN Base[t] ELSE frames[t][k - 1].call

IInv == Typed /\ Nested /\ FinishesCounted

-----------------------------------------------------------------------------
(* The initial states satisfy the invariant. *)
LEMMA InitIInv == Init => IInv
<1> SUFFICES ASSUME Init PROVE IInv
  OBVIOUS
<1>1. Base \in [Threads -> AnySpan]
  BY CallsAssumption DEF AnySpan, Spans
<1>2. Typed
  BY <1>1, FS_EmptySet DEF Init, Typed, AnySpan
<1>3. Nested
  BY CallsAssumption DEF Init, Nested
<1>4. FinishesCounted
  <2>1. \A s \in Spans : Finishers(s) \intersect gone = {}
    BY DEF Init
  <2> QED
    BY <2>1, FS_EmptySet DEF Init, FinishesCounted
<1> QED
  BY <1>2, <1>3, <1>4 DEF IInv

(* Entering a handler keeps the order of scopes. *)
LEMMA EnterNested ==
  ASSUME IInv, NEW t \in Threads, NEW c \in Calls,
         NEW h \in {"onSubscribe", "onComplete", "onError", "cancel"},
         Enter(t, c, h), started \subseteq started', c \in started'
  PROVE  /\ frames' \in [Threads -> Seq(Frame)] /\ active' \in [Threads -> AnySpan]
         /\ Nested'
<1> DEFINE f == [call |-> c, handler |-> h, restore |-> active[t]]
<1>1. f \in Frame
  BY DEF IInv, Typed, Frame
<1>2. frames' = [frames EXCEPT ![t] = Append(frames[t], f)] /\ active' = [active EXCEPT ![t] = c]
  BY DEF Enter
<1>3. frames[t] \in Seq(Frame) /\ Append(frames[t], f) \in Seq(Frame)
  BY <1>1 DEF IInv, Typed
<1>4. frames' \in [Threads -> Seq(Frame)] /\ active' \in [Threads -> AnySpan]
  BY <1>2, <1>3 DEF IInv, Typed, AnySpan, Spans
<1>5. Nested'
  <2> SUFFICES ASSUME NEW u \in Threads
               PROVE  /\ frames'[u] = <<>> => active'[u] = Base[u]
                      /\ frames'[u] # <<>> => active'[u] = Top(u)'.call
                      /\ \A k \in 1 .. Len(frames'[u]) :
                           /\ frames'[u][k].call \in started'
                           /\ frames'[u][k].restore =
                                IF k = 1 THEN Base[u] ELSE frames'[u][k - 1].call
    BY DEF Nested
  <2>1. CASE u # t
    <3>1. frames'[u] = frames[u] /\ active'[u] = active[u]
      BY <2>1, <1>2 DEF IInv, Typed
    <3> QED
      BY <3>1 DEF IInv, Nested, Top
  <2>2. CASE u = t
    <3> DEFINE s == frames[t]
    <3>1. frames'[t] = Append(s, f) /\ active'[t] = c
      BY <1>2 DEF IInv, Typed
    <3>2. Len(Append(s, f)) = Len(s) + 1 /\ Append(s, f)[Len(s) + 1] = f /\ Len(s) \in Nat
      BY <1>3
    <3>3. \A k \in 1 .. Len(s) : Append(s, f)[k] = s[k]
      BY <1>3
    <3>4. \A k \in 1 .. Len(s) :
            s[k].call \in started /\ s[k].restore = IF k = 1 THEN Base[t] ELSE s[k - 1].call
      BY DEF IInv, Nested
    <3>5. f.restore = IF Len(s) = 0 THEN Base[t] ELSE s[Len(s)].call
      BY <1>3 DEF IInv, Nested, Top
    <3>6. \A k \in 1 .. Len(s) + 1 :
            /\ Append(s, f)[k].call \in started'
            /\ Append(s, f)[k].restore = IF k = 1 THEN Base[t] ELSE Append(s, f)[k - 1].call
      <4> SUFFICES ASSUME NEW k \in 1 .. Len(s) + 1
                   PROVE  /\ Append(s, f)[k].call \in started'
                          /\ Append(s, f)[k].restore =
                               IF k = 1 THEN Base[t] ELSE Append(s, f)[k - 1].call
        OBVIOUS
      <4>1. CASE k \in 1 .. Len(s)
        <5>1. k # 1 => k - 1 \in 1 .. Len(s)
          BY <4>1, <3>2
        <5> QED
          BY <4>1, <5>1, <3>3, <3>4
      <4>2. CASE k = Len(s) + 1
        <5>1. k # 1 => k - 1 \in 1 .. Len(s) /\ k - 1 = Len(s)
          BY <4>2, <3>2
        <5> QED
          BY <4>2, <5>1, <3>2, <3>3, <3>5
      <4> QED
        BY <4>1, <4>2, <3>2
    <3>7. Top(t)' = f /\ frames'[t] # <<>>
      BY <3>1, <3>2 DEF Top
    <3> QED
      BY <2>2, <3>1, <3>2, <3>6, <3>7
  <2> QED
    BY <2>1, <2>2
<1> QED
  BY <1>4, <1>5

(* A step that ends no call and changes the root of none that ended keeps  *)
(* count of the finishes.                                                  *)
LEMMA CountKept ==
  ASSUME IInv, UNCHANGED <<gone, finishes>>, gone \subseteq started',
         \A d \in gone : root'[d] = root[d]
  PROVE  FinishesCounted'
<1>1. gone \subseteq started
  BY DEF IInv, Typed
<1>2. \A s : Finishers(s)' \intersect gone' = Finishers(s) \intersect gone
  BY <1>1 DEF Finishers
<1> QED
  BY <1>2 DEF IInv, FinishesCounted

(* Subscribing keeps the invariant. *)
LEMMA SubscribeIInv ==
  ASSUME IInv, NEW t \in Threads, NEW c \in Calls, Subscribe(t, c)
  PROVE  IInv'
<1>1. /\ c \notin started /\ started' = started \union {c}
      /\ root' = [root EXCEPT ![c] = RootSpan(t, c)]
      /\ Enter(t, c, "onSubscribe") /\ UNCHANGED <<gone, finishes>>
  BY DEF Subscribe
<1>2. /\ frames' \in [Threads -> Seq(Frame)] /\ active' \in [Threads -> AnySpan]
      /\ Nested'
  BY <1>1, EnterNested
<1>3. RootSpan(t, c) \in AnySpan
  BY DEF IInv, Typed, RootSpan, AnySpan
<1>4. Typed'
  BY <1>1, <1>2, <1>3 DEF IInv, Typed
<1>5. \A d \in gone : root'[d] = root[d] /\ d \in started'
  BY <1>1 DEF IInv, Typed
<1>6. FinishesCounted'
  BY <1>1, <1>5, CountKept
<1> QED
  BY <1>2, <1>4, <1>6 DEF IInv

(* Entering any other handler keeps the invariant. *)
LEMMA EnterIInv ==
  ASSUME IInv, NEW t \in Threads, NEW c \in started,
         NEW h \in {"onComplete", "onError", "cancel"}, Enter(t, c, h),
         UNCHANGED <<started, root, gone, finishes>>
  PROVE  IInv'
<1>1. c \in Calls
  BY DEF IInv, Typed
<1>2. /\ frames' \in [Threads -> Seq(Frame)] /\ active' \in [Threads -> AnySpan]
      /\ Nested'
  BY <1>1, EnterNested
<1>3. Typed'
  BY <1>2 DEF IInv, Typed
<1>4. gone \subseteq started'
  BY DEF IInv, Typed
<1>5. FinishesCounted'
  BY <1>4, CountKept
<1> QED
  BY <1>2, <1>3, <1>5 DEF IInv

(* Cleanup keeps the count: the first of a call finishes its span and its  *)
(* root, and no further one does.                                          *)
LEMMA CleanupCounted ==
  ASSUME IInv, NEW c \in started, Cleanup(c), UNCHANGED <<started, root>>
  PROVE  /\ gone' \subseteq started' /\ IsFiniteSet(gone') /\ finishes' \in [Spans -> Nat]
         /\ FinishesCounted'
<1>1. /\ gone' = gone \union {c}
      /\ \A s \in Spans : finishes'[s] = IF c \notin gone /\ (s = c \/ s = root[c])
                                          THEN finishes[s] + 1 ELSE finishes[s]
      /\ finishes \in [Spans -> Nat] /\ gone \subseteq started /\ IsFiniteSet(gone)
  BY DEF Cleanup, IInv, Typed
<1>2. finishes' \in [Spans -> Nat]
  BY <1>1 DEF Cleanup
<1>3. gone' \subseteq started' /\ IsFiniteSet(gone')
  BY <1>1, FS_AddElement
<1>4. FinishesCounted'
  <2> SUFFICES ASSUME NEW s \in Spans, s # NoSpan
               PROVE  finishes'[s] = Cardinality(Finishers(s)' \intersect gone')
    BY DEF FinishesCounted
  <2> DEFINE F == Finishers(s) \intersect gone
  <2>1. finishes[s] = Cardinality(F)
    BY DEF IInv, FinishesCounted
  <2>2. IsFiniteSet(F)
    BY <1>1, FS_Subset
  <2>3. CASE c \notin gone /\ (s = c \/ s = root[c])
    <3>1. Finishers(s)' \intersect gone' = F \union {c} /\ c \notin F
      BY <2>3, <1>1 DEF Finishers
    <3>2. Cardinality(F \union {c}) = Cardinality(F) + 1
      BY <3>1, <2>2, FS_AddElement
    <3>3. finishes'[s] = finishes[s] + 1
      BY <2>3, <1>1
    <3> QED
      BY <3>1, <3>2, <3>3, <2>1
  <2>4. CASE ~(c \notin gone /\ (s = c \/ s = root[c]))
    <3>1. Finishers(s)' \intersect gone' = F
      BY <2>4, <1>1 DEF Finishers
    <3> QED
      BY <3>1, <2>1, <2>4, <1>1
  <2> QED
    BY <2>3, <2>4
<1> QED
  BY <1>2, <1>3, <1>4

(* Leaving a handler keeps the invariant. *)
LEMMA LeaveIInv ==
  ASSUME IInv, NEW t \in Threads, Leave(t)
  PROVE  IInv'
<1> DEFINE s == frames[t]
<1> DEFINE r == SubSeq(s, 1, Len(s) - 1)
<1>1. /\ s # <<>> /\ active' = [active EXCEPT ![t] = Top(t).restore]
      /\ frames' = [frames EXCEPT ![t] = r]
      /\ UNCHANGED <<started, root>>
  BY DEF Leave, Close
<1>2. s \in Seq(Frame) /\ Len(s) \in Nat \ {0}
  BY <1>1 DEF IInv, Typed
<1>3. Top(t) = s[Len(s)] /\ Top(t) \in Frame /\ Top(t).call \in started
  BY <1>2 DEF IInv, Nested, Top
<1>4. r \in Seq(Frame) /\ Len(r) = Len(s) - 1 /\ \A k \in 1 .. Len(s) - 1 : r[k] = s[k]
  BY <1>2
<1>5. frames' \in [Threads -> Seq(Frame)] /\ active' \in [Threads -> AnySpan]
  BY <1>1, <1>3, <1>4 DEF IInv, Typed, Frame
<1>6. Nested'
  <2> SUFFICES ASSUME NEW u \in Threads
               PROVE  /\ frames'[u] = <<>> => active'[u] = Base[u]
                      /\ frames'[u] # <<>> => active'[u] = Top(u)'.call
                      /\ \A k \in 1 .. Len(frames'[u]) :
                           /\ frames'[u][k].call \in started'
                           /\ frames'[u][k].restore =
                                IF k = 1 THEN Base[u] ELSE frames'[u][k - 1].call
    BY DEF Nested
  <2>1. CASE u # t
    <3>1. frames'[u] = frames[u] /\ active'[u] = active[u] /\ started' = started
      BY <2>1, <1>1 DEF IInv, Typed
    <3> QED
      BY <3>1 DEF IInv, Nested, Top
  <2>2. CASE u = t
    <3>1. frames'[t] = r /\ active'[t] = s[Len(s)].restore /\ started' = started
      BY <1>1, <1>3 DEF IInv, Typed
    <3>2. \A k \in 1 .. Len(s) :
            s[k].call \in started /\ s[k].restore = IF k = 1 THEN Base[t] ELSE s[k - 1].call
      BY DEF IInv, Nested
    <3>3. \A k \in 1 .. Len(r) :
            r[k].call \in started /\ r[k].restore = IF k = 1 THEN Base[t] ELSE r[k - 1].call
      <4> SUFFICES ASSUME NEW k \in 1 .. Len(r)
                   PROVE  /\ r[k].call \in started
                          /\ r[k].restore = IF k = 1 THEN Base[t] ELSE r[k - 1].call
        OBVIOUS
      <4>1. k \in 1 .. Len(s) - 1 /\ k \in 1 .. Len(s) /\ (k # 1 => k - 1 \in 1 .. Len(s) - 1)
        BY <1>2, <1>4
      <4>2. r[k] = s[k] /\ (k # 1 => r[k - 1] = s[k - 1])
        BY <4>1, <1>4
      <4> HIDE DEF r
      <4> QED
        BY <4>1, <4>2, <3>2
    <3>4. CASE Len(s) = 1
      <4>1. r = <<>>
        BY <3>4, <1>4
      <4>2. active'[t] = Base[t]
        BY <3>1, <3>2, <3>4
      <4> QED
        BY <4>1, <4>2, <3>1, <3>3, <2>2
    <3>5. CASE Len(s) # 1
      <4>1. Len(s) - 1 \in 1 .. Len(s) /\ Len(s) \in 1 .. Len(s)
        <5>1. \A n \in Nat \ {0} : n # 1 => n - 1 \in 1 .. n /\ n \in 1 .. n
          OBVIOUS
        <5> QED
          BY <5>1, <3>5, <1>2
      <4>2. active'[t] = s[Len(s) - 1].call
        BY <4>1, <3>1, <3>2, <3>5
      <4>3. r # <<>> /\ Top(t)' = r[Len(r)] /\ r[Len(r)] = s[Len(s) - 1]
        <5>1. Len(s) - 1 \in 1 .. Len(s) - 1 /\ Len(r) # 0
          BY <4>1, <1>2, <1>4, <3>5
        <5>2. r[Len(r)] = s[Len(s) - 1] /\ r # <<>>
          <6>1. Len(r) = Len(s) - 1 /\ r[Len(s) - 1] = s[Len(s) - 1]
            BY <5>1, <1>4
          <6> HIDE DEF r
          <6> QED
            BY <6>1, <5>1
        <5>3. Top(t)' = r[Len(r)]
          <6> HIDE DEF r
          <6> QED
            BY <3>1 DEF Top
        <5> QED
          BY <5>2, <5>3
      <4> QED
        BY <4>2, <4>3, <3>1, <3>3, <2>2
    <3> QED
      BY <3>4, <3>5
  <2> QED
    BY <2>1, <2>2
<1>7. /\ gone' \subseteq started' /\ IsFiniteSet(gone') /\ finishes' \in [Spans -> Nat]
      /\ FinishesCounted'
  <2>1. CASE Top(t).handler = "onSubscribe"
    <3>1. UNCHANGED <<gone, finishes>>
      BY <2>1 DEF Leave
    <3>2. gone \subseteq started' /\ IsFiniteSet(gone) /\ finishes \in [Spans -> Nat]
      BY <1>1 DEF IInv, Typed
    <3>3. FinishesCounted'
      BY <3>1, <3>2, <1>1, CountKept
    <3> QED
      BY <3>1, <3>2, <3>3
  <2>2. CASE Top(t).handler # "onSubscribe"
    <3>1. Cleanup(Top(t).call)
      BY <2>2 DEF Leave
    <3> QED
      BY <3>1, <1>1, <1>3, CleanupCounted
  <2> QED
    BY <2>1, <2>2
<1>8. Typed'
  BY <1>1, <1>5, <1>7 DEF IInv, Typed
<1> QED
  BY <1>6, <1>7, <1>8 DEF IInv

(* Every step keeps the invariant. *)
LEMMA NextIInv == IInv /\ [Next]_vars => IInv'
<1> SUFFICES ASSUME IInv, [Next]_vars PROVE IInv'
  OBVIOUS
<1>1. CASE UNCHANGED vars
  BY <1>1 DEF vars, IInv, Typed, Nested, Top, FinishesCounted, Finishers
<1>2. ASSUME NEW t \in Threads, Leave(t) PROVE IInv'
  BY <1>2, LeaveIInv
<1>3. ASSUME NEW t \in Threads, NEW c \in Calls, Subscribe(t, c) PROVE IInv'
  BY <1>3, SubscribeIInv
<1>4. ASSUME NEW t \in Threads, NEW c \in Calls, OnComplete(t, c) PROVE IInv'
  BY <1>4, EnterIInv DEF OnComplete
<1>5. ASSUME NEW t \in Threads, NEW c \in Calls, OnError(t, c) PROVE IInv'
  BY <1>5, EnterIInv DEF OnError
<1>6. ASSUME NEW t \in Threads, NEW c \in Calls, Cancel(t, c) PROVE IInv'
  BY <1>6, EnterIInv DEF Cancel
<1> QED
  BY <1>1, <1>2, <1>3, <1>4, <1>5, <1>6 DEF Next

-----------------------------------------------------------------------------
(* The invariant holds in every behaviour. *)
LEMMA Invariance == Spec => []IInv
BY InitIInv, NextIInv, PTL DEF Spec

(* However calls nest and race, cleanup finishes a span once for each      *)
(* ended call it belongs to or is the rootSpan of.                         *)
THEOREM CountOfFinishes == Spec => []FinishesCounted
<1>1. IInv => FinishesCounted
  BY DEF IInv
<1> QED
  BY <1>1, Invariance, PTL

(* A thread that comes back from a handler has the span active of the      *)
(* handler it comes back to, and outside of all the one it had before.     *)
THEOREM ActiveRestored == Spec => []ScopesRestored
<1>1. IInv => ScopesRestored
  BY DEF IInv, Nested, ScopesRestored
<1> QED
  BY <1>1, Invariance, PTL
=============================================================================
