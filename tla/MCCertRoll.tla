----------------------------- MODULE MCCertRoll -----------------------------
(* CertRoll with the sets its configurations choose from, and the texts of *)
(* the messages it abstracts.                                              *)
EXTENDS CertRoll, PemText

TwoStates  == {"offlineboot", "onlineboot"}
EveryPhase == Phases
AllKinds   == Kinds
OnlySave   == {"save"}
NoKind     == {}
WhileIdle  == {"idle"}

(* The public key reaches the server, and the certificate of a message     *)
(* setdevicecert, as they were sent, whatever stands behind the            *)
(* certificate in the message and whatever without a marker stands before  *)
(* it: the texts are searched and rewritten in place while they grow and   *)
(* shrink (main.c:416, :417, :444), and the bound of the copy              *)
(* (configure.c:270) lets a text in that leaves no room for a terminator.  *)
TextsArrive ==
  /\ pc = "pk_send"  => Misdelivered = {}
  /\ pc = "dc_check" => Misread = {}
=============================================================================
