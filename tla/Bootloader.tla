----------------------------- MODULE Bootloader -----------------------------
(***************************************************************************)
(* One device from power-on to the application: app_main, stateupdate,     *)
(* websocket_app_start and the websocket task of src/main.c, ota_start of  *)
(* src/ota.c, and the boot state that configure.c keeps in the secure      *)
(* element.  The server may set the boot state and make one of five        *)
(* requests; when a request has been served the device downloads firmware, *)
(* starts the application (partition ota_0) or idles.                      *)
(*                                                                         *)
(* Abstractions.  What a request does to keys and certificates is in       *)
(* CertRoll; here "pubkey" and "cert" only restore and save the block that *)
(* also holds the boot state.  A request is its name.  The application and *)
(* the ROM loader are external: the ROM loader starts ota_0 when it is     *)
(* selected and valid and the factory image (this program) otherwise, and  *)
(* the application may hand control back.  `faults` counts failed accesses *)
(* to the block up to MaxFaults.                                           *)
(***************************************************************************)
EXTENDS Naturals

CONSTANTS
  Requests,    \* the requests the server makes
  States,      \* the boot states the server sets
  InitialSt,   \* the boot states a device may be provisioned with
  MaxFaults,   \* bound: failed reads and writes of the block
  CutAt        \* the control points at which power may be cut

AllRequests == {"none", "pubkey", "cert", "url", "ota"}
AllStates   == {"offlineboot", "onlineboot", "forcefwdownload", "bootprohibited"}
Bootable    == {"offlineboot", "onlineboot"}
Phases      == {"boot", "wifi", "start", "poll", "work", "save", "report",
                "leave", "left", "ota", "idle", "app"}

ASSUME ServerAssumption == Requests \subseteq AllRequests /\ States \subseteq AllStates
ASSUME InitialAssumption == InitialSt \subseteq AllStates
ASSUME BoundAssumption == MaxFaults \in Nat /\ CutAt \subseteq Phases

VARIABLES
  st,            \* ATECC608: secdata[3] in slot 8 block 4
  bootpart,      \* flash: the selected partition, "factory" or "ota_0"
  ota0,          \* flash: the image in ota_0, "valid" or "broken"
  ram,           \* secdata[3] in RAM
  currentstate,  \* the global of main.c
  pending,       \* noneresponse, getnextkey, certificate, geturl, otastart
  rebootflag,    \* the next connection belongs to a request
  wifi,          \* CONNECTED_BIT
  ws,            \* websocket client: "stopped", "down", "up"
  pc,            \* where the main task is, or "app"
  serving,       \* the request the main task has taken, or "nothing"
  told,          \* "bootup" was sent on the present connection
  faults         \* failed accesses so far

flash == <<bootpart, ota0>>
boot  == <<st, ram, currentstate>>
link  == <<ws, rebootflag, told>>
vars  == <<flash, boot, link, pending, wifi, pc, serving, faults>>

TypeOK ==
  /\ st \in AllStates /\ ram \in AllStates /\ currentstate \in AllStates
  /\ bootpart \in {"factory", "ota_0"} /\ ota0 \in {"valid", "broken"}
  /\ pending \subseteq AllRequests /\ serving \in AllRequests \union {"nothing"}
  /\ rebootflag \in BOOLEAN /\ wifi \in BOOLEAN /\ told \in BOOLEAN
  /\ ws \in {"stopped", "down", "up"} /\ pc \in Phases
  /\ faults \in 0 .. MaxFaults

(* Zeroed RAM reads as offlineboot, the first state of statetype.          *)
Init ==
  /\ st \in InitialSt /\ bootpart = "factory" /\ ota0 \in {"valid", "broken"}
  /\ ram = "offlineboot" /\ currentstate = "offlineboot"
  /\ pending = {} /\ rebootflag = FALSE /\ wifi = FALSE /\ ws = "stopped"
  /\ pc = "boot" /\ serving = "nothing" /\ told = FALSE /\ faults = 0

-----------------------------------------------------------------------------
Fault == faults < MaxFaults /\ faults' = faults + 1

(* restoredevstatus: a failed read leaves the RAM copy as it was.          *)
Restoring(copy) ==
  \/ copy = st /\ UNCHANGED faults
  \/ copy = ram /\ Fault

(* savedevstatus: a failed write may or may not have reached the chip.     *)
Save(state) ==
  \/ st' = state /\ UNCHANGED faults
  \/ st' \in {st, state} /\ Fault

(* esp_ota_set_boot_partition refuses an image that does not verify; the   *)
(* code ignores the refusal.                                               *)
SelectApp == bootpart' = IF ota0 = "valid" THEN "ota_0" ELSE bootpart

(* A reset: the ROM loader chooses the image, RAM starts from zero.        *)
Restart ==
  /\ pc' = IF bootpart' = "ota_0" /\ ota0' = "valid" THEN "app" ELSE "boot"
  /\ ram' = "offlineboot" /\ currentstate' = "offlineboot"
  /\ pending' = {} /\ serving' = "nothing"
  /\ rebootflag' = FALSE /\ wifi' = FALSE /\ ws' = "stopped" /\ told' = FALSE

-----------------------------------------------------------------------------
(* Mutant: onlineboot also selects the application without asking.         *)
StateUpdate_TrustsOnline ==
  /\ pc = "boot"
  /\ \E copy \in {st, ram} :
       /\ Restoring(copy) /\ ram' = copy /\ currentstate' = copy
       /\ IF copy \in Bootable THEN SelectApp ELSE UNCHANGED bootpart
  /\ pc' = "wifi"
  /\ UNCHANGED <<st, ota0, link, pending, wifi, serving>>

(* app_main and stateupdate: in offlineboot the application is selected at *)
(* once, before there is a connection.                                     *)
StateUpdate ==
  /\ pc = "boot"
  /\ \E copy \in {st, ram} :
       /\ Restoring(copy) /\ ram' = copy /\ currentstate' = copy
       /\ IF copy = "offlineboot" THEN SelectApp ELSE UNCHANGED bootpart
  /\ pc' = "wifi"
  /\ UNCHANGED <<st, ota0, link, pending, wifi, serving>>

(* xEventGroupWaitBits(CONNECTED_BIT, portMAX_DELAY).                      *)
WaitWifi ==
  /\ pc = "wifi" /\ wifi
  /\ pc' = "start"
  /\ UNCHANGED <<flash, boot, link, pending, wifi, serving, faults>>

(* websocket_app_start: sysinit restores once more, the client starts.     *)
Start ==
  /\ pc = "start"
  /\ \E copy \in {st, ram} : Restoring(copy) /\ ram' = copy
  /\ ws' = "down" /\ told' = FALSE /\ pc' = "poll"
  /\ UNCHANGED <<flash, st, currentstate, rebootflag, pending, wifi, serving>>

(* The secure element does not answer: esp_restart.                        *)
StartFails ==
  /\ pc = "start" /\ Fault
  /\ UNCHANGED <<flash, st>> /\ Restart

(* The order in which the polling loop looks at the flags.                 *)
Rank == [none |-> 1, pubkey |-> 2, cert |-> 3, url |-> 4, ota |-> 5]
First(r) == r \in pending /\ \A q \in pending : Rank[r] <= Rank[q]

(* "none" and "ota" are reported on the open connection; the others stop   *)
(* the client first.                                                       *)
PollReport(r) ==
  /\ pc = "poll" /\ First(r) /\ r \in {"none", "ota"}
  /\ serving' = r /\ pc' = "report"
  /\ UNCHANGED <<flash, boot, link, pending, wifi, faults>>

PollWork(r) ==
  /\ pc = "poll" /\ First(r) /\ r \in {"pubkey", "cert", "url"}
  /\ serving' = r /\ ws' = "stopped" /\ told' = FALSE /\ pc' = "work"
  /\ UNCHANGED <<flash, boot, rebootflag, pending, wifi, faults>>

(* getpubkey and setdevicecert restore the block and, when they get that   *)
(* far, save it; savemiscdata writes other blocks.                         *)
Work ==
  /\ pc = "work"
  /\ IF serving = "url" THEN UNCHANGED <<ram, faults>>
     ELSE \E copy \in {st, ram} : Restoring(copy) /\ ram' = copy
  /\ pc' = "save"
  /\ UNCHANGED <<flash, st, currentstate, link, pending, wifi, serving>>

WorkSave ==
  /\ pc = "save"
  /\ \/ serving # "url" /\ Save(ram)
     \/ UNCHANGED <<st, faults>>
  /\ ws' = "down" /\ pc' = "report"
  /\ UNCHANGED <<flash, ram, currentstate, rebootflag, told, pending, wifi,
                 serving>>

(* The report may be lost; every flag but otastart is reset.               *)
Report ==
  /\ pc = "report"
  /\ pending' = IF serving = "ota" THEN pending ELSE pending \ {serving}
  /\ pc' = "leave"
  /\ UNCHANGED <<flash, boot, link, wifi, serving, faults>>

(* Mutant: the client goes on.                                             *)
Leave_ClientRuns ==
  /\ pc = "leave" /\ pc' = "left"
  /\ UNCHANGED <<flash, boot, link, pending, wifi, serving, faults>>

(* The loop is left after one request; the client is stopped.              *)
Leave ==
  /\ pc = "leave"
  /\ ws' = "stopped" /\ told' = FALSE /\ pc' = "left"
  /\ UNCHANGED <<flash, boot, rebootflag, pending, wifi, serving, faults>>

(* What to do next is decided with the client stopped.                     *)
LeaveToOta ==
  /\ pc = "left" /\ ("ota" \in pending \/ currentstate = "forcefwdownload")
  /\ pc' = "ota"
  /\ UNCHANGED <<flash, boot, link, pending, wifi, serving, faults>>

LeaveToApp ==
  /\ pc = "left" /\ "ota" \notin pending /\ currentstate \in Bootable
  /\ UNCHANGED <<ota0, st, faults>>
  /\ SelectApp /\ Restart

(* Mutant: back to the loop, with the client stopped.                      *)
LeaveToIdle_PollsOn ==
  /\ pc = "left" /\ "ota" \notin pending /\ currentstate = "bootprohibited"
  /\ pc' = "poll"
  /\ UNCHANGED <<flash, boot, link, pending, wifi, serving, faults>>

LeaveToIdle ==
  /\ pc = "left" /\ "ota" \notin pending /\ currentstate = "bootprohibited"
  /\ pc' = "idle"
  /\ UNCHANGED <<flash, boot, link, pending, wifi, serving, faults>>

(* esp_https_ota: a complete image is selected; a download that fails may  *)
(* have overwritten part of the old one.  Either way the device restarts.  *)
OtaStart ==
  /\ pc = "ota"
  /\ \/ ota0' = "valid" /\ bootpart' = "ota_0"
     \/ ota0' \in {ota0, "broken"} /\ UNCHANGED bootpart
  /\ Restart /\ UNCHANGED <<st, faults>>

Main ==
  \/ StateUpdate \/ WaitWifi \/ Start \/ StartFails
  \/ \E r \in AllRequests : PollReport(r) \/ PollWork(r)
  \/ Work \/ WorkSave \/ Report \/ Leave
  \/ LeaveToOta \/ LeaveToApp \/ LeaveToIdle \/ OtaStart

-----------------------------------------------------------------------------
(* The WiFi event handler.                                                 *)
WifiUp ==
  /\ pc \notin {"boot", "app"} /\ ~wifi /\ wifi' = TRUE
  /\ UNCHANGED <<flash, boot, link, pending, pc, serving, faults>>

WifiDown ==
  /\ wifi /\ wifi' = FALSE
  /\ UNCHANGED <<flash, boot, link, pending, pc, serving, faults>>

(* websocket_event_handler, WEBSOCKET_EVENT_CONNECTED: "bootup" is sent    *)
(* unless the connection belongs to a request.                             *)
Connect ==
  /\ ws = "down" /\ wifi
  /\ ws' = "up" /\ told' = ~rebootflag /\ rebootflag' = FALSE
  /\ UNCHANGED <<flash, boot, pending, wifi, pc, serving, faults>>

Drop ==
  /\ ws = "up" /\ ws' = "down" /\ told' = FALSE
  /\ UNCHANGED <<flash, boot, rebootflag, pending, wifi, pc, serving, faults>>

(* actiontask, "state".                                                    *)
RecvState(s) ==
  /\ ws = "up"
  /\ currentstate' = s /\ ram' = s /\ Save(s)
  /\ UNCHANGED <<flash, link, pending, wifi, pc, serving>>

(* Mutants: rebootflag is set before the request is looked at, which may   *)
(* then be refused; any word is taken for a request.                       *)
RecvRequest_FlagFirst(r) ==
  /\ ws = "up" /\ (r = "cert" => r \notin pending)
  /\ pending' \in {pending, pending \union {r}}
  /\ rebootflag' = (rebootflag \/ r \in {"url", "pubkey", "cert"})
  /\ UNCHANGED <<flash, boot, ws, told, wifi, pc, serving, faults>>

RecvRequest_AnyWord(r) ==
  /\ ws = "up" /\ (r = "cert" => r \notin pending)
  /\ pending' \in {pending \union {r}, pending \union {"word"}}
  /\ rebootflag' = (rebootflag \/ r \in {"url", "pubkey", "cert"})
  /\ UNCHANGED <<flash, boot, ws, told, wifi, pc, serving, faults>>

(* actiontask, "request"; a second "cert" is ignored.                      *)
RecvRequest(r) ==
  /\ ws = "up" /\ (r = "cert" => r \notin pending)
  /\ pending' = pending \union {r}
  /\ rebootflag' = (rebootflag \/ r \in {"url", "pubkey", "cert"})
  /\ UNCHANGED <<flash, boot, ws, told, wifi, pc, serving, faults>>

(* The application hands control back to the factory image.                *)
AppReturns ==
  /\ pc = "app" /\ bootpart' = "factory"
  /\ UNCHANGED <<ota0, st, faults>> /\ Restart

(* A power cut; in the middle of a download the image is lost.             *)
PowerCut ==
  /\ pc \in CutAt
  /\ ota0' \in IF pc = "ota" THEN {ota0, "broken"} ELSE {ota0}
  /\ UNCHANGED bootpart
  /\ Restart /\ UNCHANGED <<st, faults>>

Environment ==
  \/ WifiUp \/ WifiDown \/ Connect \/ Drop \/ AppReturns \/ PowerCut
  \/ \E s \in States : RecvState(s)
  \/ \E r \in Requests : RecvRequest(r)

Next == Main \/ Environment

Spec == Init /\ [][Next]_vars

(* The main task runs, WiFi and server keep coming back, and the server    *)
(* answers "bootup" with a request; it need not say anything unasked.      *)
FairSpec ==
  /\ Spec /\ WF_vars(Main)
  /\ SF_vars(WifiUp) /\ SF_vars(Connect) /\ SF_vars(WaitWifi)
  /\ SF_vars(told /\ \E r \in Requests : RecvRequest(r))

-----------------------------------------------------------------------------
(* The application is selected, other than by a complete download, only    *)
(* while the state on the chip allows it, and in onlineboot only after a   *)
(* request of the server has been served in this boot.  Without faults:    *)
(* RAM and chip agree however state messages, restores and saves of the    *)
(* whole block interleave.                                                 *)
SelectionPermitted ==
  [][(faults' = 0 /\ bootpart = "factory" /\ bootpart' = "ota_0" /\ pc # "ota")
       => /\ st \in Bootable
          /\ st = "onlineboot" => serving # "nothing"]_vars

(* Device and server never wait for each other: a connection on which the  *)
(* device waits for a request has been opened with "bootup", even after    *)
(* connections were lost.                                                  *)
NoMutualWait ==
  (pc = "poll" /\ ws = "up" /\ pending = {}) => told

-----------------------------------------------------------------------------
(* What makes the safety properties inductive (proved in BootloaderProofs). *)

(* Before the loop there is no client and no request.                      *)
Fresh == pc \in {"boot", "wifi", "start"} =>
           ws = "stopped" /\ pending = {} /\ ~rebootflag

(* The next connection is kept from saying "bootup" only by a request that *)
(* is still pending, or by one that has been taken.                        *)
Asked == (pc = "poll" /\ pending = {}) => ~rebootflag /\ (ws = "up" => told)

(* Once the loop has found a request, one is being served.                 *)
Serving == pc \in {"work", "save", "report", "leave", "left"} =>
             serving # "nothing"

(* Without faults the RAM copies are the state on the chip.                *)
Mirrored ==
  faults = 0 =>
    /\ pc \in {"wifi", "start", "poll", "work", "save", "report", "leave",
                "left"} => currentstate = st /\ ram = st

(* The client is stopped before it is decided what comes next ...          *)
Stopped == pc \in {"left", "ota", "idle", "app"} => ws = "stopped"

(* ... and a download was asked for or forced.                             *)
Decided ==
  pc = "ota" =>
    /\ serving # "nothing"
    /\ "ota" \in pending \/ (faults = 0 => st = "forcefwdownload")

(* Nothing has been asked for by the server of an earlier boot.            *)
Unasked ==
  /\ pc \in {"boot", "wifi", "start", "poll", "app"} => serving = "nothing"
  /\ pc = "app" => pending = {}

(* Without faults a boot, with its polling loop, its restores and saves of *)
(* a block that holds more than the state, and its messages and outages in *)
(* between, does no more than BootPolicy: the state is the server's        *)
(* ("set state to ...", main.c:167 to 187), and what runs follows from it. *)
Policy == INSTANCE BootPolicy
          WITH state <- st, selected <- bootpart, image <- ota0,
               running <- IF pc = "app" THEN "app" ELSE "loader",
               asked <- pending \union ({serving} \ {"nothing"})
ImplementsPolicy == Policy!Spec

(* Every boot of this program ends: in the application, in another boot or *)
(* idle, whichever requests arrive in whichever order.                     *)
BootEnds == pc = "wifi" ~> pc \in {"boot", "app", "idle"}

(* A boot in onlineboot, with an application to start, leads to it through *)
(* every loss of WiFi and connection and whatever the server asks first,   *)
(* unless the server asks for a download or changes the state: the device  *)
(* says "bootup" again on every new connection until a request has been    *)
(* accepted (rebootflag, main.c:292).                                      *)
OnlineBoots ==
  (pc = "boot" /\ st = "onlineboot" /\ ota0 = "valid")
    ~> (pc \in {"app", "ota"} \/ st # "onlineboot")

(* "set state to bootprohobited" (main.c:187): from then on the            *)
(* application does not run.                                               *)
ProhibitedNeverRuns == pc = "app" => st # "bootprohibited"
=============================================================================
