---------------------------- MODULE MCTracedCalls ----------------------------
(***************************************************************************)
(* Two client calls and a server's, on one thread with a span of the       *)
(* application and one without.                                            *)
(***************************************************************************)
EXTENDS TracedCalls

CONSTANTS a, b, s, app, t1, t2

OneTraced == [t \in {t1, t2} |-> IF t = t1 THEN app ELSE NoSpan]
=============================================================================
