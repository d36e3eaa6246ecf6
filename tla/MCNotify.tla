------------------------------ MODULE MCNotify ------------------------------
(***************************************************************************)
(* Instances of Notify for TLC.                                            *)
(***************************************************************************)
EXTENDS Notify

CONSTANTS telegram, email, c1, blank

(* One body sets the chat, one blanks it, one sets another channel.        *)
Bodies ==
  {[c \in Channel |-> IF c = telegram THEN c1 ELSE Unset],
   [c \in Channel |-> IF c = telegram THEN blank ELSE Unset],
   [c \in Channel |-> IF c = email THEN c1 ELSE Unset]}
=============================================================================
