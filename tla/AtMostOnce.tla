----------------------------- MODULE AtMostOnce -----------------------------
(***************************************************************************)
(* What the gateway promises of a message, whatever the network and its    *)
(* dependencies do: a message is claimed for publication at most once per  *)
(* deduplication window, published at most once per claim, and             *)
(* acknowledged as a success only when it has been published.              *)
(***************************************************************************)
EXTENDS Naturals

CONSTANT Messages

VARIABLES
  window,   (* messages whose deduplication window is open                   *)
  claimed,  (* messages somebody may publish, once                           *)
  opened,   (* opened[m]: windows opened for m so far                        *)
  out,      (* out[m]: times m was published                                 *)
  acked     (* messages acknowledged as published                            *)

vars == <<window, claimed, opened, out, acked>>

Init ==
  /\ window = {} /\ claimed = {} /\ acked = {}
  /\ opened = [m \in Messages |-> 0]
  /\ out = [m \in Messages |-> 0]

Claim(m) ==
  /\ m \notin window /\ m \notin claimed
  /\ window' = window \cup {m}
  /\ claimed' = claimed \cup {m}
  /\ opened' = [opened EXCEPT ![m] = @ + 1]
  /\ UNCHANGED <<out, acked>>

Publish(m) ==
  /\ m \in claimed
  /\ claimed' = claimed \ {m}
  /\ out' = [out EXCEPT ![m] = @ + 1]
  /\ UNCHANGED <<window, opened, acked>>

(* A claim is given up: the message is lost until its window closes. *)
Drop(m) ==
  /\ m \in claimed
  /\ claimed' = claimed \ {m}
  /\ UNCHANGED <<window, opened, out, acked>>

Acknowledge(m) ==
  /\ out[m] > 0
  /\ acked' = acked \cup {m}
  /\ UNCHANGED <<window, claimed, opened, out>>

Close(m) ==
  /\ m \in window
  /\ window' = window \ {m}
  /\ UNCHANGED <<claimed, opened, out, acked>>

Next ==
  \E m \in Messages :
    Claim(m) \/ Publish(m) \/ Drop(m) \/ Acknowledge(m) \/ Close(m)

Spec == Init /\ [][Next]_vars
=============================================================================
