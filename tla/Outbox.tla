-------------------------------- MODULE Outbox --------------------------------
(***************************************************************************)
(* What a publisher promises of the messages it accepts, wherever it keeps *)
(* them: each goes out once or is dropped, never both, and one that is     *)
(* kept stays until then.  Nothing is said of their order.                 *)
(***************************************************************************)
EXTENDS Naturals

CONSTANT Messages

VARIABLES
  accepted,  (* messages the publisher has taken responsibility for          *)
  kept,      (* those it still has                                           *)
  out,       (* out[m]: times m went out                                     *)
  dropped    (* those that were given up on demand                           *)

vars == <<accepted, kept, out, dropped>>

Init ==
  /\ accepted = {} /\ kept = {} /\ dropped = {}
  /\ out = [m \in Messages |-> 0]

(* Accepted and sent at once. *)
Deliver(m) ==
  /\ m \notin accepted
  /\ accepted' = accepted \cup {m}
  /\ out' = [out EXCEPT ![m] = @ + 1]
  /\ UNCHANGED <<kept, dropped>>

(* Accepted to be sent later. *)
Keep(m) ==
  /\ m \notin accepted
  /\ accepted' = accepted \cup {m}
  /\ kept' = kept \cup {m}
  /\ UNCHANGED <<out, dropped>>

Release(m) ==
  /\ m \in kept
  /\ kept' = kept \ {m}
  /\ out' = [out EXCEPT ![m] = @ + 1]
  /\ UNCHANGED <<accepted, dropped>>

Drop(S) ==
  /\ kept' = kept \ S
  /\ dropped' = dropped \cup S
  /\ UNCHANGED <<accepted, out>>

Next ==
  \/ \E m \in Messages : Deliver(m) \/ Keep(m) \/ Release(m)
  \/ \E S \in SUBSET kept : Drop(S)

Spec == Init /\ [][Next]_vars
=============================================================================
