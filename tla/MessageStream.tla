---------------------------- MODULE MessageStream ----------------------------
(***************************************************************************)
(* What a service that implements a request-channel method is promised     *)
(* about the flow `message` of requester payloads it is handed.            *)
(*                                                                         *)
(* Any subscriber sees the first payload, the one that carried the route.  *)
(* Having taken it, the first to go on becomes the reader of all the other *)
(* payloads and of the end of the stream; whoever goes on later fails.     *)
(* One that leaves at the head is not the reader, and leaves the stream to *)
(* the others.                                                             *)
(* Payload n is the n-th payload the requester sends.                      *)
(***************************************************************************)
EXTENDS Naturals, Sequences

CONSTANTS
  Subs,   \* subscribers of the flow
  NoSub   \* the flow has no reader yet

VARIABLES
  sent,   \* payloads the requester has sent
  fin,    \* how the requester's stream ended
  got,    \* payloads each subscriber has received
  state,  \* each subscriber's life cycle
  reader  \* the subscriber that reads beyond the head

vars == <<sent, fin, got, state, reader>>

Init ==
  /\ sent = 0 /\ fin = "open"
  /\ got = [s \in Subs |-> <<>>]
  /\ state = [s \in Subs |-> "idle"]
  /\ reader = NoSub

Send ==
  /\ fin = "open"
  /\ sent' = sent + 1
  /\ UNCHANGED <<fin, got, state, reader>>

(* Nobody serves the route of the first payload: there is no stream.       *)
Reject ==
  /\ fin = "open" /\ sent = 0
  /\ sent' = 1 /\ fin' = "cancelled"
  /\ UNCHANGED <<got, state, reader>>

Finish(f) ==
  /\ fin = "open"
  /\ fin' = f
  /\ UNCHANGED <<sent, got, state, reader>>

Join(s) ==
  /\ state[s] = "idle" /\ sent > 0
  /\ state' = [state EXCEPT ![s] = "live"]
  /\ UNCHANGED <<sent, fin, got, reader>>

Gets(s) ==
  /\ state[s] = "live" /\ Len(got[s]) < sent
  /\ got' = [got EXCEPT ![s] = Append(@, Len(@) + 1)]
  /\ UNCHANGED <<sent, fin, state, reader>>

TakeHead(s) == got[s] = <<>> /\ Gets(s)

(* Who takes the head first and who goes on first need not be the same.    *)
BecomeReader(s) ==
  /\ state[s] = "live" /\ got[s] # <<>> /\ reader = NoSub
  /\ reader' = s
  /\ UNCHANGED <<sent, fin, got, state>>

Refused(s) ==
  /\ state[s] = "live" /\ got[s] # <<>> /\ reader \notin {NoSub, s}
  /\ state' = [state EXCEPT ![s] = "errored"]
  /\ UNCHANGED <<sent, fin, got, reader>>

Receive(s) == reader = s /\ Gets(s)

(* The end of the stream comes after all of it.                            *)
End(s) ==
  /\ state[s] = "live" /\ reader = s
  /\ fin \in {"completed", "errored"} /\ Len(got[s]) = sent
  /\ state' = [state EXCEPT ![s] = fin]
  /\ UNCHANGED <<sent, fin, got, reader>>

(* A message that cannot be deserialized.                                  *)
Fail(s) ==
  /\ state[s] = "live" /\ Len(got[s]) < sent
  /\ got[s] = <<>> \/ reader = s
  /\ state' = [state EXCEPT ![s] = "errored"]
  /\ UNCHANGED <<sent, fin, got, reader>>

(* Subscriptions are cancelled, by the service or with its response; with  *)
(* the response, an unfinished requester may be cancelled too.             *)
Abandon(S) ==
  /\ \A s \in S : state[s] = "live"
  /\ state' = [s \in Subs |-> IF s \in S THEN "cancelled" ELSE state[s]]
  /\ fin' = fin \/ (fin = "open" /\ fin' = "cancelled")
  /\ UNCHANGED <<sent, got, reader>>

Next ==
  \/ Send \/ Reject
  \/ \E f \in {"completed", "errored"} : Finish(f)
  \/ \E s \in Subs :
       \/ Join(s) \/ TakeHead(s) \/ BecomeReader(s) \/ Refused(s)
       \/ Receive(s) \/ End(s) \/ Fail(s)
  \/ \E S \in SUBSET Subs : Abandon(S)

Spec == Init /\ [][Next]_vars
=============================================================================
