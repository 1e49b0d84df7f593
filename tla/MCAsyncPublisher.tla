--------------------------- MODULE MCAsyncPublisher ---------------------------
(***************************************************************************)
(* Two callers, of two calls and of one.                                   *)
(***************************************************************************)
EXTENDS AsyncPublisher

CONSTANTS c1, c2

MCCallers == {c1, c2}
MCCalls == [c \in MCCallers |-> IF c = c1 THEN 2 ELSE 1]
=============================================================================
