---------------------------- MODULE MCOneSession ----------------------------
(* One gateway instance, for TLC: one message, whose sender all commands   *)
(* are for.                                                                *)
EXTENDS OneSession

MCAddressees == [c \in Commands |-> Messages]
=============================================================================
