--------------------------- MODULE MCCallBuffers ---------------------------
(***************************************************************************)
(* A deferred call, a channel and a server's answers, two payloads each.   *)
(***************************************************************************)
EXTENDS CallBuffers

CONSTANTS d, h, r

OneOfEach == [c \in {d, h, r} |->
                IF c = d THEN "deferred" ELSE IF c = h THEN "channel" ELSE "respond"]
=============================================================================
