---------------------------- MODULE TreeChannel ----------------------------
(***************************************************************************)
(* What the wire format promises: the nodes of a tree, as the front end     *)
(* serializes them, reach the back end unchanged, in order and each once.   *)
(***************************************************************************)
EXTENDS Naturals, Sequences

VARIABLES
  sent,     \* nodes serialized and not yet read, oldest first
  got       \* the node read last

vars == <<sent, got>>

(* Nothing has been serialized yet.                                         *)
Init == sent = <<>>

(* Some nodes are serialized, behind those not yet read.                    *)
Send ==
  /\ Len(sent') > Len(sent)
  /\ SubSeq(sent', 1, Len(sent)) = sent
  /\ UNCHANGED got

(* The oldest one is read.                                                  *)
Receive ==
  /\ sent # <<>>
  /\ got' = Head(sent)
  /\ sent' = Tail(sent)

Spec == Init /\ [][Send \/ Receive]_vars
=============================================================================
