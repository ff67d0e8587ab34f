--------------------------- MODULE WifiProvision ---------------------------
(***************************************************************************)
(* WiFi provisioning: the main task in wifiinit (src/wifitask.c), the HTTP *)
(* server task (src/wifimgr/http_server.c), the WiFi manager task and the  *)
(* event handler (src/wifimgr/wifi_manager.c), with the browser and the    *)
(* WiFi driver as environment.  The tasks share the requested credentials  *)
(* (wifi_manager_config_sta, no lock), the status page (ip_info_json, one  *)
(* mutex), the bits of an event group and the flag `connected`.            *)
(*                                                                         *)
(* Abstractions.  Credentials (SSID and password) are one value with a     *)
(* size; the status page is the reason code with the credentials it names. *)
(* A page is written in one step, and system calls that cannot block are   *)
(* one step.  A request the server answers with 503 because it did not get *)
(* the mutex changes nothing and is left out.  The 50 ms delays of         *)
(* wifiinit are not timed, but for what KillManager says.  Driver          *)
(* (ESP-IDF): an attempt ends with GOT_IP or DISCONNECTED;                 *)
(* esp_wifi_disconnect posts DISCONNECTED only if there is a connection or *)
(* an attempt to give up.                                                  *)
(***************************************************************************)
EXTENDS Naturals, Sequences

CONSTANTS
  Creds,      \* the credentials a user may enter
  Good,       \* those some access point accepts
  Size,       \* length of the strings
  NoCred,     \* zeroed memory
  Garbled,    \* one string written over a longer one
  Ops,        \* what the environment does: "scan", "delete", "loss", and
              \* "rejoin": joining a network while a success is shown
  Patient,    \* does the user wait for answers (see MayPost)?
  MaxEvents   \* bound: events of the driver not yet handled

ASSUME CredAssumption ==
  /\ Good \subseteq Creds /\ Size \in [Creds -> Nat]
  /\ NoCred \notin Creds /\ Garbled \notin Creds
ASSUME EnvironmentAssumption ==
  Ops \subseteq {"scan", "delete", "loss", "rejoin"} /\ Patient \in BOOLEAN

Memory      == Creds \union {NoCred, Garbled}
RequestBits == {"connect", "scan", "disconnect"}
Bits        == RequestBits \union {"CONNECTED", "DISCONNECT"}

(* The status page; 0 UPDATE_CONNECTION_OK, 1 UPDATE_FAILED_ATTEMPT,       *)
(* 2 UPDATE_USER_DISCONNECT; 4 stands for "{}".                            *)
Page     == [urc : {0, 1, 2, 4}, cred : Memory, tried : Memory]
NoStatus == [urc |-> 4, cred |-> NoCred, tried |-> NoCred]

VARIABLES
  bits,       \* wifi_manager_event_group
  config,     \* wifi_manager_config_sta
  json,       \* ip_info_json, with the credentials really tried
  mutex,      \* wifi_manager_json_mutex: "free" or who has it
  result,     \* ssidresult and passresult
  connected,  \* flag of wifitask.c
  saved,      \* slot 8 blocks 0 to 2 of the secure element
  mpc,        \* main task
  hpc,        \* HTTP server task
  posting,    \* credentials in the POST being served
  gpc,        \* WiFi manager task
  seen,       \* its uxBits
  sta,        \* driver: "off", "connecting", "on"
  tried,      \* credentials the driver was last given
  events,     \* events posted by the driver
  epc,        \* event task: "idle" or in the middle of DISCONNECTED
  verified    \* credentials that have led to an IP address

shared  == <<config, json, mutex, result, connected>>
http    == <<hpc, posting>>
manager == <<gpc, seen>>
driver  == <<sta, tried, events, verified>>
vars    == <<bits, shared, saved, mpc, http, manager, driver, epc>>

MainPhases    == {"poll", "kill_http", "kill_manager", "save", "restarted"}
HttpPhases    == {"idle", "status", "test", "post_fill", "post_clear",
                  "post_set", "dead"}
ManagerPhases == {"wait", "disc", "disc_wait", "disc_end", "disc_json",
                  "disc_clear", "conn", "conn_wait", "conn_set", "conn_result",
                  "conn_json", "conn_copy", "conn_clear", "scan", "dead"}

(* Serving a request to connect, and one to disconnect.                    *)
ConnPhases == {"conn", "conn_wait", "conn_set", "conn_result", "conn_json",
               "conn_copy", "conn_clear"}
DiscPhases == {"disc", "disc_wait", "disc_end", "disc_json", "disc_clear"}

TypeOK ==
  /\ bits \subseteq Bits /\ seen \subseteq Bits
  /\ {config, result, saved, posting, tried} \subseteq Memory
  /\ verified \subseteq Creds /\ json \in Page
  /\ mutex \in {"free", "http", "manager"} /\ connected \in BOOLEAN
  /\ mpc \in MainPhases /\ hpc \in HttpPhases /\ gpc \in ManagerPhases
  /\ sta \in {"off", "connecting", "on"} /\ epc \in {"idle", "clear"}
  /\ events \in Seq({"GOT_IP", "DISCONNECTED"})

(* The access point is up and both tasks wait for work.                    *)
Init ==
  /\ bits = {} /\ config = NoCred /\ json = NoStatus /\ mutex = "free"
  /\ result = NoCred /\ connected = FALSE /\ saved = NoCred
  /\ mpc = "poll" /\ hpc = "idle" /\ posting = NoCred /\ gpc = "wait"
  /\ seen = {} /\ sta = "off" /\ tried = NoCred /\ events = <<>>
  /\ epc = "idle" /\ verified = {}

-----------------------------------------------------------------------------
(* HTTP server task: one request after the other.                          *)
Http(from, to) == hpc = from /\ hpc' = to

(* GET /status.json: the page is sent under the mutex ...                  *)
StatusLock ==
  /\ Http("idle", "status") /\ mutex = "free" /\ mutex' = "http"
  /\ UNCHANGED <<bits, config, json, result, connected, saved, mpc, posting,
                 manager, driver, epc>>

StatusUnlock ==
  /\ Http("status", "test") /\ mutex' = "free"
  /\ UNCHANGED <<bits, config, json, result, connected, saved, mpc, posting,
                 manager, driver, epc>>

(* ... and looked at again after the mutex has been given back.            *)
StatusTest ==
  /\ Http("test", "idle")
  /\ connected' = (connected \/ json.urc = 0)
  /\ UNCHANGED <<bits, config, json, mutex, result, saved, mpc, posting,
                 manager, driver, epc>>

(* A patient user enters new credentials only when his last request has    *)
(* been answered; the page scans for networks all the time.  While it      *)
(* shows a success it lets him join another network, too ("rejoin").       *)
MayPost ==
  Patient =>
    /\ bits \cap {"connect", "disconnect"} = {}
    /\ gpc \notin ConnPhases \union DiscPhases
    /\ json.urc = 0 => "rejoin" \in Ops

(* POST /connect.json: the configuration is overwritten without the mutex, *)
Post(c) ==
  /\ Http("idle", "post_fill") /\ MayPost
  /\ config' = NoCred /\ posting' = c
  /\ UNCHANGED <<bits, json, mutex, result, connected, saved, mpc, manager,
                 driver, epc>>

PostFill ==
  /\ Http("post_fill", "post_clear") /\ config' = posting
  /\ UNCHANGED <<bits, json, mutex, result, connected, saved, mpc, posting,
                 manager, driver, epc>>

(* Mutant: the page is left as it is.                                      *)
PostClear_KeepsPage ==
  /\ Http("post_clear", "post_set")
  /\ UNCHANGED <<bits, config, json, mutex, result, connected, saved, mpc,
                 posting, manager, driver, epc>>

(* then wifi_manager_connect_async clears the page and sets the bit.       *)
PostClear ==
  /\ Http("post_clear", "post_set") /\ mutex = "free" /\ json' = NoStatus
  /\ UNCHANGED <<bits, config, mutex, result, connected, saved, mpc, posting,
                 manager, driver, epc>>

PostSet ==
  /\ Http("post_set", "idle") /\ bits' = bits \union {"connect"}
  /\ UNCHANGED <<shared, saved, mpc, posting, manager, driver, epc>>

(* GET /ap.json requests a scan, DELETE /connect.json a disconnection.     *)
ScanAsync ==
  /\ "scan" \in Ops /\ hpc = "idle" /\ bits' = bits \union {"scan"}
  /\ UNCHANGED <<shared, saved, mpc, http, manager, driver, epc>>

DisconnectAsync ==
  /\ "delete" \in Ops /\ hpc = "idle" /\ bits' = bits \union {"disconnect"}
  /\ UNCHANGED <<shared, saved, mpc, http, manager, driver, epc>>

HttpTask == StatusUnlock \/ StatusTest \/ PostFill \/ PostClear \/ PostSet
Browser  == StatusLock \/ ScanAsync \/ DisconnectAsync \/ \E c \in Creds : Post(c)

-----------------------------------------------------------------------------
(* WiFi manager task.                                                      *)
Manager(from, to) == gpc = from /\ gpc' = to

(* What follows the disconnect branch, or no such branch, for given bits.  *)
Branch(ux) == IF "connect" \in ux THEN "conn"
              ELSE IF "scan" \in ux THEN "scan" ELSE "wait"

WaitRequest ==
  /\ gpc = "wait" /\ bits \cap RequestBits # {}
  /\ seen' = bits
  /\ gpc' = IF "disconnect" \in bits THEN "disc" ELSE Branch(bits)
  /\ UNCHANGED <<bits, shared, saved, mpc, http, driver, epc>>

(* esp_wifi_disconnect.                                                    *)
GiveUp ==
  /\ sta' = "off"
  /\ events' = IF sta = "off" THEN events ELSE Append(events, "DISCONNECTED")
  /\ UNCHANGED <<tried, verified>>

(* Both branches leave a present connection first, going by the bits read  *)
(* at the top of the loop.                                                 *)
Leave(from, waiting, otherwise) ==
  /\ gpc = from
  /\ \/ /\ "CONNECTED" \in seen
        /\ bits' = bits \ {"DISCONNECT"} /\ GiveUp /\ gpc' = waiting
     \/ "CONNECTED" \notin seen /\ gpc' = otherwise /\ UNCHANGED <<bits, driver>>
  /\ UNCHANGED <<shared, saved, mpc, http, seen, epc>>

(* ... and wait for the DISCONNECT bit for as long as it takes.            *)
AwaitDisconnect(waiting, next) ==
  /\ Manager(waiting, next) /\ "DISCONNECT" \in bits
  /\ UNCHANGED <<bits, shared, saved, mpc, http, seen, driver, epc>>

(* The disconnect branch erases the configuration (without the mutex) and  *)
(* updates the page.                                                       *)
DiscErase ==
  /\ Manager("disc_end", "disc_json")
  /\ bits' = bits \ {"DISCONNECT"} /\ config' = NoCred
  /\ UNCHANGED <<json, mutex, result, connected, saved, mpc, http, seen,
                 driver, epc>>

(* Mutants: without the mutex; with UPDATE_LOST_CONNECTION as the reason.  *)
DiscJson_Unlocked ==
  /\ Manager("disc_json", "disc_clear")
  /\ json' = [urc |-> 2, cred |-> config, tried |-> tried]
  /\ UNCHANGED <<bits, config, mutex, result, connected, saved, mpc, http,
                 seen, driver, epc>>

DiscJson_Lost ==
  /\ Manager("disc_json", "disc_clear") /\ mutex = "free"
  /\ json' = [urc |-> 3, cred |-> config, tried |-> tried]
  /\ UNCHANGED <<bits, config, mutex, result, connected, saved, mpc, http,
                 seen, driver, epc>>

DiscJson ==
  /\ Manager("disc_json", "disc_clear") /\ mutex = "free"
  /\ json' = [urc |-> 2, cred |-> config, tried |-> tried]
  /\ UNCHANGED <<bits, config, mutex, result, connected, saved, mpc, http,
                 seen, driver, epc>>

DiscClear ==
  /\ Manager("disc_clear", Branch(seen)) /\ bits' = bits \ {"disconnect"}
  /\ UNCHANGED <<shared, saved, mpc, http, seen, driver, epc>>

(* The connect branch hands the configuration to the driver.               *)
ConnSet ==
  /\ Manager("conn_set", "conn_result")
  /\ config # NoCred
  /\ bits' = bits \ {"DISCONNECT"} /\ tried' = config /\ sta' = "connecting"
  /\ UNCHANGED <<shared, saved, mpc, http, seen, events, verified, epc>>

(* esp_wifi_connect refuses an empty SSID: ESP_ERROR_CHECK restarts.       *)
ConnRefused ==
  /\ Manager("conn_set", "dead") /\ config = NoCred
  /\ mpc' = "restarted" /\ hpc' = "dead"
  /\ UNCHANGED <<bits, shared, saved, posting, seen, driver, epc>>

(* Mutant: only success ends the wait.                                     *)
ConnResult_SuccessOnly ==
  /\ Manager("conn_result", "conn_json")
  /\ "CONNECTED" \in bits /\ seen' = bits
  /\ UNCHANGED <<bits, shared, saved, mpc, http, driver, epc>>

ConnResult ==
  /\ Manager("conn_result", "conn_json")
  /\ bits \cap {"CONNECTED", "DISCONNECT"} # {} /\ seen' = bits
  /\ UNCHANGED <<bits, shared, saved, mpc, http, driver, epc>>

(* memcpy of strlen bytes: the end of a longer old string stays behind.    *)
Overlay(new, old) ==
  IF new = NoCred THEN old
  ELSE IF old = NoCred THEN new
  ELSE IF old \in Creds /\ Size[new] >= Size[old] THEN new ELSE Garbled

(* The page is written under the mutex, which the manager keeps until the  *)
(* result has been copied or the configuration reset.                      *)
ConnJson ==
  /\ Manager("conn_json", "conn_copy") /\ mutex = "free" /\ mutex' = "manager"
  /\ json' = [urc |-> IF "CONNECTED" \in seen THEN 0 ELSE 1, cred |-> config,
              tried |-> tried]
  /\ UNCHANGED <<bits, config, result, connected, saved, mpc, http, seen,
                 driver, epc>>

(* Mutant: the result is copied whatever the bits say.                     *)
ConnCopy_Always ==
  /\ Manager("conn_copy", "conn_clear") /\ mutex' = "free"
  /\ result' = Overlay(config, result)
  /\ config' = IF "CONNECTED" \in seen THEN config ELSE NoCred
  /\ UNCHANGED <<bits, json, connected, saved, mpc, http, seen, driver, epc>>

ConnCopy ==
  /\ Manager("conn_copy", "conn_clear") /\ mutex' = "free"
  /\ \/ /\ "CONNECTED" \in seen
        /\ result' = Overlay(config, result) /\ UNCHANGED config
     \/ /\ "CONNECTED" \notin seen
        /\ config' = NoCred /\ UNCHANGED result
  /\ UNCHANGED <<bits, json, connected, saved, mpc, http, seen, driver, epc>>

ConnClear ==
  /\ Manager("conn_clear", "wait") /\ bits' = bits \ {"connect"}
  /\ UNCHANGED <<shared, saved, mpc, http, seen, driver, epc>>

Scan ==
  /\ Manager("scan", "wait") /\ bits' = bits \ {"scan"}
  /\ UNCHANGED <<shared, saved, mpc, http, seen, driver, epc>>

ManagerTask ==
  \/ WaitRequest
  \/ Leave("disc", "disc_wait", "disc_end")
  \/ AwaitDisconnect("disc_wait", "disc_end")
  \/ DiscErase \/ DiscJson \/ DiscClear
  \/ Leave("conn", "conn_wait", "conn_set")
  \/ AwaitDisconnect("conn_wait", "conn_set")
  \/ ConnSet \/ ConnRefused \/ ConnResult \/ ConnJson \/ ConnCopy
  \/ ConnClear \/ Scan

-----------------------------------------------------------------------------
(* The driver (external).                                                  *)
Running == mpc # "restarted"

Connected ==
  /\ Running /\ sta = "connecting" /\ tried \in Good
  /\ sta' = "on" /\ events' = Append(events, "GOT_IP")
  /\ verified' = verified \union {tried}
  /\ UNCHANGED <<bits, shared, saved, mpc, http, manager, tried, epc>>

Disconnected ==
  /\ Running /\ Len(events) < MaxEvents
  /\ sta = "connecting" \/ (sta = "on" /\ "loss" \in Ops)
  /\ sta' = "off" /\ events' = Append(events, "DISCONNECTED")
  /\ UNCHANGED <<bits, shared, saved, mpc, http, manager, tried, verified, epc>>

(* wifi_manager_event_handler: DISCONNECTED takes two calls.               *)
EventGotIp ==
  /\ Running /\ events # <<>> /\ Head(events) = "GOT_IP"
  /\ bits' = bits \union {"CONNECTED"} /\ events' = Tail(events)
  /\ UNCHANGED <<shared, saved, mpc, http, manager, sta, tried, verified, epc>>

EventDisconnected ==
  /\ Running /\ events # <<>> /\ Head(events) = "DISCONNECTED" /\ epc = "idle"
  /\ bits' = bits \union {"DISCONNECT"} /\ epc' = "clear"
  /\ UNCHANGED <<shared, saved, mpc, http, manager, driver>>

EventClear ==
  /\ Running /\ epc = "clear"
  /\ bits' = bits \ {"CONNECTED"} /\ epc' = "idle" /\ events' = Tail(events)
  /\ UNCHANGED <<shared, saved, mpc, http, manager, sta, tried, verified>>

EventTask == EventGotIp \/ EventDisconnected \/ EventClear

-----------------------------------------------------------------------------
(* wifiinit: poll the flag, delete the tasks, stop the radio, save, restart. *)
Main(from, to) == mpc = from /\ mpc' = to

MainPoll ==
  /\ Main("poll", "kill_http") /\ connected
  /\ UNCHANGED <<bits, shared, saved, http, manager, driver, epc>>

KillHttp ==
  /\ Main("kill_http", "kill_manager") /\ hpc' = "dead"
  /\ UNCHANGED <<bits, shared, saved, posting, manager, driver, epc>>

(* Mutant: the manager is given no time to copy what the page shows.       *)
KillManager_NoDelay ==
  /\ Main("kill_manager", "save") /\ gpc' = "dead" /\ GiveUp
  /\ UNCHANGED <<bits, shared, saved, http, seen, epc>>

(* The 100 ms since `connected` was seen (wifitask.c:150-154) are taken to *)
(* be enough for the two memcpy that follow the page that set it: nothing  *)
(* else keeps the main task from deleting the manager in between.          *)
KillManager ==
  /\ Main("kill_manager", "save") /\ gpc # "conn_copy"
  /\ gpc' = "dead" /\ GiveUp
  /\ UNCHANGED <<bits, shared, saved, http, seen, epc>>

SaveCredentials ==
  /\ Main("save", "restarted") /\ saved' = result
  /\ UNCHANGED <<bits, shared, http, manager, driver, epc>>

MainTask == MainPoll \/ KillHttp \/ KillManager \/ SaveCredentials

(* The session is over.                                                    *)
Restarted == mpc = "restarted" /\ UNCHANGED vars

Next ==
  \/ MainTask \/ HttpTask \/ Browser \/ ManagerTask
  \/ Connected \/ Disconnected \/ EventTask \/ Restarted

Spec == Init /\ [][Next]_vars

(* Every task runs; a task that waits for the mutex gets it; an attempt of *)
(* the driver ends; the browser keeps polling the status.                  *)
FairSpec ==
  /\ Spec
  /\ WF_vars(MainTask) /\ SF_vars(HttpTask) /\ SF_vars(ManagerTask)
  /\ WF_vars(EventTask) /\ WF_vars(Connected \/ Disconnected)
  /\ SF_vars(StatusLock)

-----------------------------------------------------------------------------
(* The saved credentials have led to a connection ("only save the config   *)
(* if the connection was successful!", wifi_manager.c:512): although four  *)
(* tasks touch configuration, result and flag.                             *)
SavedVerified == saved # NoCred => saved \in verified

(* A success or failure shown to the user is about the credentials he last *)
(* entered and were really tried (wifi_manager.c:234, "a remnant from a    *)
(* previous connection").                                                  *)
StatusTruthful ==
  (hpc = "status" /\ json.urc \in {0, 1}) =>
    /\ json.cred = json.tried /\ json.tried = posting
    /\ json.urc = 0 => json.tried \in verified

(* The page does not change while it is being sent ("not thread-safe and   *)
(* should be called only if wifi_manager_lock_json_buffer", wifi_manager.h *)
(* lines 219 to 237): three tasks write and read it.                       *)
PageStable == [][hpc = "status" /\ hpc' = "status" => json' = json]_vars

-----------------------------------------------------------------------------
(* What makes them inductive (proved in WifiProvisionProofs), for a        *)
(* patient user who does not join again.  The events of the driver that    *)
(* have not been seen by anybody: ...                                      *)
Pending == IF epc = "clear" THEN Tail(events) ELSE events

(* ... nothing is left of the attempts made so far; ...                    *)
Over ==
  /\ sta = "off" /\ Pending = <<>>
  /\ "CONNECTED" \in bits => epc = "clear"

(* ... the last attempt has succeeded, and may have been lost since; ...   *)
Won ==
  /\ "CONNECTED" \in bits /\ epc = "idle" /\ tried \in verified
  /\ \/ sta = "on" /\ Pending = <<>>
     \/ sta = "off" /\ Pending = <<"DISCONNECTED">>

(* ... or its outcome is not known yet.                                    *)
Underway ==
  /\ "CONNECTED" \notin bits
  /\ \/ sta = "connecting" /\ Pending = <<>>
     \/ sta = "on" /\ Pending = <<"GOT_IP">> /\ tried \in verified
     \/ sta = "off" /\ Pending = <<"DISCONNECTED">>
     \/ /\ sta = "off" /\ Pending = <<"GOT_IP", "DISCONNECTED">>
        /\ tried \in verified

(* What the manager may take for granted in each phase.  It never leaves   *)
(* conn_wait: a patient user connects when no connection is left.          *)
Attempt ==
  /\ gpc \in {"wait", "scan", "conn_clear"} =>
       Over \/ (Won /\ json.urc = 0)
  /\ gpc \in {"disc", "disc_wait"} => Over \/ Won
  /\ gpc = "disc_wait" =>
       /\ sta = "off" /\ "CONNECTED" \in seen
       /\ "DISCONNECT" \in bits => Over
  /\ gpc \in {"disc_end", "disc_json", "disc_clear", "conn", "conn_wait",
              "conn_set"} => Over
  /\ /\ gpc \in {"disc", "disc_end", "disc_json", "disc_clear", "conn"}
     /\ "CONNECTED" \notin seen
     => Over /\ "CONNECTED" \notin bits
  /\ gpc = "conn_wait" => "DISCONNECT" \notin bits
  /\ gpc = "conn_set" => "CONNECTED" \notin bits
  /\ gpc = "conn_result" =>
       /\ Over \/ Won \/ Underway
       /\ "CONNECTED" \in bits => tried \in verified
       /\ "DISCONNECT" \in bits => Over
  /\ gpc \in {"conn_json", "conn_copy"} =>
       IF "CONNECTED" \in seen THEN tried \in verified /\ (Over \/ Won) ELSE Over
  /\ gpc = "conn_copy" /\ "CONNECTED" \in seen => json.urc = 0

(* The configuration is the user's from the request to its answer.         *)
Requested ==
  /\ hpc \in {"post_fill", "post_clear", "post_set"} =>
       /\ gpc \notin ConnPhases \union DiscPhases
       /\ bits \cap {"connect", "disconnect"} = {} /\ json.urc # 0
  /\ hpc \in {"post_clear", "post_set"} => config = posting
  /\ mpc = "kill_manager" => hpc = "dead"
  /\ "connect" \in bits =>
       /\ config \in {posting, NoCred}
       /\ gpc \notin {"conn_copy", "conn_clear", "dead"} => json.urc # 0
  /\ gpc \in ConnPhases => "connect" \in bits
  /\ gpc \in DiscPhases /\ "connect" \in seen => "connect" \in bits
  /\ gpc \in {"conn_result", "conn_json", "conn_copy"} =>
       config = tried /\ config # NoCred

(* What is shown and what is kept comes from the attempts.                 *)
Shown ==
  /\ json.urc \in {0, 1} /\ hpc \notin {"post_fill", "post_clear", "dead"} =>
       json.cred = json.tried /\ json.tried = posting
  /\ json.urc = 0 => json.tried \in verified

Kept == {result, saved} \subseteq verified \union {NoCred} /\ verified \subseteq Good

-----------------------------------------------------------------------------
(* Liveness.                                                               *)

(* A request to connect is answered: the bit is cleared in the end.        *)
ConnectServed == "connect" \in bits ~> ("connect" \notin bits \/ ~Running)

(* Once an attempt has succeeded its credentials are saved.                *)
SuccessSaved == json.urc = 0 ~> saved # NoCred

(* "only save the config ..." (wifi_manager.c:512): what is kept for saving *)
(* is the configuration, not a mixture of two (lines 518 and 519).         *)
ResultIsConfig == [][result' # result => result' = config]_vars

(* "wait until wifi disconnects. From experiments, it seems to take about  *)
(* 150ms to disconnect" (wifi_manager.c:487): the wait ends.               *)
DisconnectEnds == gpc = "conn_wait" ~> gpc # "conn_wait"
=============================================================================
