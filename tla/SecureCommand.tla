--------------------------- MODULE SecureCommand ---------------------------
(***************************************************************************)
(* What calib_execute_command promises to its callers: a command is        *)
(* carried out at most once, "ok" is reported only of a command that was   *)
(* carried out, and a command reported as failed may have been carried     *)
(* out all the same.  CertRoll and Bootloader model every access to the    *)
(* secure element with these outcomes (Save, WriteCert, DcGenkey, ...).    *)
(***************************************************************************)
EXTENDS Naturals

VARIABLES
  call,      \* "none", "pending", "ok" or "error"
  executed   \* how often the chip has carried out the present command

Init == call = "none" /\ executed = 0

Begin   == call # "pending" /\ call' = "pending" /\ executed' = 0
Execute == call = "pending" /\ executed = 0 /\ executed' = 1 /\ UNCHANGED call
Succeed == call = "pending" /\ executed = 1 /\ call' = "ok" /\ UNCHANGED executed
Refuse  == call = "pending" /\ call' = "error" /\ UNCHANGED executed

Spec == Init /\ [][Begin \/ Execute \/ Succeed \/ Refuse]_<<call, executed>>
=============================================================================
