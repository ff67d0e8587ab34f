----------------------------- MODULE BootPolicy -----------------------------
(***************************************************************************)
(* Who decides what a device runs, when no command to its secure element   *)
(* fails: the server sets the state, and nobody else; it asks for things   *)
(* before the device does them; the application runs when it is selected   *)
(* and whole, and is selected only as the state allows.                    *)
(***************************************************************************)
CONSTANTS
  Requests,   \* what the server may ask for
  States,     \* the states it may set
  InitialSt   \* the states a device may start with

VARIABLES
  state,      \* the boot state
  selected,   \* the partition selected for the next start
  image,      \* the application, "valid" or "broken"
  running,    \* "loader" or "app"
  asked       \* what the server has asked for since the start

vars == <<state, selected, image, running, asked>>

Init ==
  /\ state \in InitialSt /\ selected = "factory" /\ image \in {"valid", "broken"}
  /\ running = "loader" /\ asked = {}

Start ==
  /\ running' = IF selected' = "ota_0" /\ image' = "valid" THEN "app" ELSE "loader"
  /\ asked' = {} /\ UNCHANGED state

ServerSets(s) ==
  /\ running = "loader" /\ state' = s
  /\ UNCHANGED <<selected, image, running, asked>>

ServerAsks(r) ==
  /\ running = "loader" /\ asked' = asked \union {r}
  /\ UNCHANGED <<state, selected, image, running>>

(* In onlineboot only a device that has heard from its server may go on.   *)
Selects ==
  /\ running = "loader" /\ image = "valid" /\ selected' = "ota_0"
  /\ state = "offlineboot" \/ (state = "onlineboot" /\ asked # {})
  /\ UNCHANGED image

Select == Selects /\ UNCHANGED <<state, running, asked>>

(* With or without a decision for the application; a power cut is one      *)
(* without.                                                                *)
Restart == (Selects \/ UNCHANGED <<selected, image>>) /\ Start

(* A download is asked for or forced.                                      *)
Download ==
  /\ running = "loader"
  /\ "ota" \in asked \/ (state = "forcefwdownload" /\ asked # {})
  /\ \/ image' = "valid" /\ selected' = "ota_0"
     \/ image' \in {image, "broken"} /\ UNCHANGED selected
  /\ Start

Return ==
  /\ running = "app" /\ selected' = "factory" /\ UNCHANGED image
  /\ Start

Next ==
  \/ \E s \in States : ServerSets(s)
  \/ \E r \in Requests : ServerAsks(r)
  \/ Select \/ Restart \/ Download \/ Return

Spec == Init /\ [][Next]_vars
=============================================================================
