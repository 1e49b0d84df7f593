----------------------------- MODULE OneSession -----------------------------
(***************************************************************************)
(* A gateway with the one session its startAccept creates implements       *)
(* AtMostOnce, where Sessions = {TheSession}.  With two sessions it does   *)
(* not: both may find a message unrecorded before either records it.       *)
(***************************************************************************)
EXTENDS Session

CONSTANT TheSession  (* the session of the gateway *)

(* The abstract state: a claim is held from recordMessage to the publish,  *)
(* and a window is open while the message is recorded.                     *)
InFlight == {m \in Messages : Carries(TheSession, m)}
Windows == [m \in Messages |-> IF m \in recorded THEN expiries[m] + 1 ELSE expiries[m]]

Promise == INSTANCE AtMostOnce
             WITH window <- recorded, claimed <- InFlight, opened <- Windows,
                  out <- published[TheSession], acked <- acks

(* The pipeline implements the promise: every step of the session, its     *)
(* environment and its crashes is a step of AtMostOnce or leaves it alone. *)
ImplementsAtMostOnce == Promise!Spec
=============================================================================
