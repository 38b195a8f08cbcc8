----------------------------- MODULE TracedCalls -----------------------------
(***************************************************************************)
(* Several traced calls on threads that have an active span each.  A call  *)
(* of a client, or of a server that was sent no context, takes the span    *)
(* that is active where it is subscribed as parent and as rootSpan, and    *)
(* its cleanup finishes both (second constructor of TraceSubscriber); a    *)
(* server's call with a context has no rootSpan (first constructor).       *)
(* Handlers activate the call's span while they call downstream, so that a *)
(* call subscribed in there takes it for its root.                         *)
(*                                                                         *)
(* One call's handlers racing each other are the subject of                *)
(* TraceSubscriber; here a handler is entered and left, and what happens   *)
(* in between on its thread are handlers of other calls or of the same.    *)
(*                                                                         *)
(* CleanupAgain and StaysActive are faulty variants of the definitions     *)
(* that follow them.                                                       *)
(***************************************************************************)
EXTENDS Integers, Sequences, FiniteSets

CONSTANTS
  Calls,        \* traced calls; each names its own span
  ContextCalls, \* those of a server that was sent a context
  Threads,      \* threads
  Base,         \* the span each thread has active at first, or NoSpan
  MaxDepth      \* bound on handlers within handlers

NoSpan == "none"

ASSUME CallsAssumption ==
  /\ ContextCalls \subseteq Calls
  /\ Base \in [Threads -> {Base[t] : t \in Threads}]
  /\ NoSpan \notin Calls
  /\ \A t \in Threads : Base[t] \notin Calls
  /\ MaxDepth \in Nat

VARIABLES
  started,   \* calls that were subscribed
  root,      \* rootSpan of each
  gone,      \* calls whose AtomicBoolean is set
  over,      \* calls whose source has completed or failed
  frames,    \* each thread's handlers: [call, handler, restore]
  active,    \* each thread's active span
  finishes   \* how often each span was finished

vars == <<started, root, gone, over, frames, active, finishes>>

Spans == Calls \union {Base[t] : t \in Threads}

Top(t) == frames[t][Len(frames[t])]

(* A handler calls the application unless it is onError, which only logs.  *)
InApplication(t) == frames[t] # <<>> => Top(t).handler # "onError"

Enter(t, c, handler) ==
  /\ Len(frames[t]) < MaxDepth
  /\ frames' = [frames EXCEPT ![t] =
                  Append(@, [call |-> c, handler |-> handler, restore |-> active[t]])]
  /\ active' = [active EXCEPT ![t] = c]

(* The constructor, and the source's onSubscribe.                          *)
RootSpan(t, c) == IF c \in ContextCalls THEN NoSpan ELSE active[t]

Subscribe(t, c) ==
  /\ c \notin started /\ InApplication(t)
  /\ started' = started \union {c}
  /\ root' = [root EXCEPT ![c] = RootSpan(t, c)]
  /\ Enter(t, c, "onSubscribe")
  /\ UNCHANGED <<gone, over, finishes>>

OnComplete(t, c) ==
  /\ c \in started \ over /\ InApplication(t)
  /\ over' = over \union {c}
  /\ Enter(t, c, "onComplete")
  /\ UNCHANGED <<started, root, gone, finishes>>

OnError(t, c) ==
  /\ c \in started \ over /\ InApplication(t)
  /\ over' = over \union {c}
  /\ Enter(t, c, "onError")
  /\ UNCHANGED <<started, root, gone, finishes>>

Cancel(t, c) ==
  /\ c \in started /\ InApplication(t)
  /\ Enter(t, c, "cancel")
  /\ UNCHANGED <<started, root, gone, over, finishes>>

(* compareAndSet, span.finish and rootSpan?.finish.                        *)
CleanupAgain(c) ==
  /\ gone' = gone \union {c}
  /\ finishes' = [s \in Spans |->
                    IF s = c \/ s = root[c] THEN finishes[s] + 1 ELSE finishes[s]]

Cleanup(c) ==
  /\ gone' = gone \union {c}
  /\ finishes' = [s \in Spans |->
                    IF c \notin gone /\ (s = c \/ s = root[c])
                      THEN finishes[s] + 1 ELSE finishes[s]]

(* Scope.close, which `use` calls on every way out.                        *)
StaysActive(t) == UNCHANGED active

Close(t) == active' = [active EXCEPT ![t] = Top(t).restore]

(* A handler returns or throws; all but onSubscribe clean up in either     *)
(* case.                                                                   *)
Leave(t) ==
  /\ frames[t] # <<>>
  /\ Close(t)
  /\ frames' = [frames EXCEPT ![t] = SubSeq(@, 1, Len(@) - 1)]
  /\ IF Top(t).handler = "onSubscribe" THEN UNCHANGED <<gone, finishes>>
     ELSE Cleanup(Top(t).call)
  /\ UNCHANGED <<started, root, over>>

Init ==
  /\ started = {} /\ gone = {} /\ over = {}
  /\ root = [c \in Calls |-> NoSpan]
  /\ frames = [t \in Threads |-> <<>>]
  /\ active = Base
  /\ finishes = [s \in Spans |-> 0]

Next ==
  \E t \in Threads :
    \/ Leave(t)
    \/ \E c \in Calls :
         Subscribe(t, c) \/ OnComplete(t, c) \/ OnError(t, c) \/ Cancel(t, c)

Spec == Init /\ [][Next]_vars

-----------------------------------------------------------------------------
(* The calls that finish a span: its own and those it is the root of.      *)
Finishers(s) == {c \in started : s # NoSpan /\ (c = s \/ root[c] = s)}

(* However calls nest and race, a span is finished once by each call it    *)
(* belongs to or is the root of, when that call has ended, and by no       *)
(* other: more than once only where calls share a root, or where one was   *)
(* made in the scope of another.                                           *)
FinishesCounted ==
  \A s \in Spans \ {NoSpan} :
    finishes[s] = Cardinality(Finishers(s) \intersect gone)

(* Whatever was called in between, a thread that comes back from a nested  *)
(* handler has the span of the handler it comes back to active, so that    *)
(* calls made from there take the right parent and root; and one that is   *)
(* out of all handlers has the span it had before.                         *)
ScopesRestored ==
  \A t \in Threads :
    active[t] = IF frames[t] = <<>> THEN Base[t] ELSE Top(t).call
=============================================================================
