-------------------------- MODULE IdentityRegister --------------------------
(***************************************************************************)
(* What a device that renews its certificate promises to its server, when  *)
(* no command fails: it has one identity at a time and a spare key; it     *)
(* announces the spare, and moves to it, in one step, only after it was    *)
(* announced.  The key it leaves is gone, and a new one takes its place.   *)
(***************************************************************************)
EXTENDS Naturals

VARIABLES
  slot,       \* which slot the device uses
  certified,  \* the key in it, for which it has a certificate
  spare,      \* the key in the other slot
  fresh,      \* the next key that will be generated
  issued      \* keys the server may hold certificates for

Init == slot = 0 /\ certified = 1 /\ spare = 2 /\ fresh = 3 /\ issued = {1}

Announce ==
  /\ issued' = issued \union {spare}
  /\ UNCHANGED <<slot, certified, spare, fresh>>

Move ==
  /\ spare \in issued
  /\ slot' = 1 - slot /\ certified' = spare /\ spare' = fresh
  /\ fresh' = fresh + 1 /\ UNCHANGED issued

Spec == Init /\ [][Announce \/ Move]_<<slot, certified, spare, fresh, issued>>
=============================================================================
