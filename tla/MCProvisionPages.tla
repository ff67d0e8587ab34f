-------------------------- MODULE MCProvisionPages --------------------------
(* The provisioning session together with what is written on its pages:    *)
(* wherever the session runs one of the pure algorithms, the algorithm is  *)
(* right for every scan of up to four points of two networks, and every    *)
(* sample of a name.                                                       *)
EXTENDS MCWifiProvision, AccessPoints

CONSTANTS net, cafe
TwoNames  == {net, cafe}
TwoModes  == {0, 3}
TwoLevels == {-80, -60}

SomeEscapes  == 0 .. 23
LongestPages == Overlong(SomeEscapes)

(* The manager is at the step that lists the points; a page names a network. *)
Listing == gpc = "scan"
Naming  == Listing \/ json # NoStatus

(* After a scan the list is exactly the networks found, each once, with    *)
(* the best signal, without gaps, and no name is left behind its end       *)
(* ("reorder the list so APs follow each other in the list",               *)
(* wifi_manager.c:299): nested loops over one array, also for an empty     *)
(* scan, hidden networks and one name with two authentication modes.       *)
FilterCorrect == Listing => Misfiltered = {}

(* A name on a page is a JSON string that means it, with nothing between   *)
(* text, closing quote and terminator (json.c:76 and :138), although the   *)
(* place of the closing quote is computed separately.                      *)
EscapeCorrect == Naming => Misread = {}

(* Both pages fit into the memory set aside for them, for any number of    *)
(* points with the longest names and numbers, up to 23 characters of each  *)
(* name needing an escape ("we need to escape JSON", wifi_manager.h:93):   *)
(* constants counted by hand there against what the formats write.  The    *)
(* status page only where the name ends before the password behind it      *)
(* (http_server.c:197): a name of 32 characters has the password printed   *)
(* with it, for which there is no room in general.                         *)
PagesFit == Naming => LongestPages = {}
=============================================================================
