---------------------------- MODULE MCBootloader ----------------------------
(* Bootloader with the sets its configurations choose from.                *)
EXTENDS Bootloader

EveryRequest == AllRequests
OnlyNone     == {"none"}
EveryState   == AllStates
OnlineOrNot  == {"onlineboot", "bootprohibited"}
Offline      == {"offlineboot"}
Prohibit     == {"bootprohibited"}
EveryPhase   == Phases
WhileIdle    == {"idle"}
=============================================================================
