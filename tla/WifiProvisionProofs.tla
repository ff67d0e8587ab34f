------------------------ MODULE WifiProvisionProofs ------------------------
(***************************************************************************)
(* Proofs about WifiProvision, for every set of credentials, every choice  *)
(* of what the environment does, and users patient or not.                 *)
(***************************************************************************)
EXTENDS WifiProvision, SequenceTheorems, TLAPS

(* Whoever sends the page holds the mutex, even if the main task deletes   *)
(* the HTTP task in the middle; so does the manager until it has copied    *)
(* what it has written.                                                    *)
Held ==
  /\ hpc = "status" => mutex = "http"
  /\ gpc = "conn_copy" => mutex = "manager"

(* The event task handles DISCONNECTED until it takes it from the queue.   *)
Handling == epc = "clear" => events # <<>> /\ Head(events) = "DISCONNECTED"

Events     == {"GOT_IP", "DISCONNECTED"}
EventInv   == events \in Seq(Events) /\ epc \in {"idle", "clear"} /\ Handling

(* Events are appended at one end and taken from the other, by the event   *)
(* task only.                                                              *)
LEMMA EventStep == EventInv /\ [Next]_vars => EventInv'
<1> SUFFICES ASSUME EventInv, [Next]_vars PROVE EventInv'
  OBVIOUS
<1> USE DEF driver
<1>1. CASE events' = events /\ epc' = epc
  BY <1>1 DEF EventInv, Handling
<1>2. CASE epc' = epc /\ \E e \in Events : events' = Append(events, e)
  <2>1. PICK e \in Events : events' = Append(events, e)
    BY <1>2
  <2>2. events' \in Seq(Events) /\ (events # <<>> => Head(events') = Head(events))
    BY <2>1 DEF EventInv
  <2>3. events' # <<>>
    BY <2>1 DEF EventInv
  <2>4. QED
    BY <1>2, <2>2, <2>3 DEF EventInv, Handling
<1>3. CASE EventTask
  <2>1. CASE EventGotIp
    BY <2>1 DEF EventGotIp, EventInv, Handling
  <2>2. CASE EventDisconnected
    BY <2>2 DEF EventDisconnected, EventInv, Handling
  <2>3. CASE EventClear
    BY <2>3 DEF EventClear, EventInv, Handling
  <2>4. QED
    BY <1>3, <2>1, <2>2, <2>3 DEF EventTask
<1>4. CASE MainTask
  BY <1>1, <1>2, <1>4 DEF MainTask, MainPoll, KillHttp, KillManager, SaveCredentials, GiveUp, Events
<1>5. CASE HttpTask
  BY <1>1, <1>5 DEF HttpTask, StatusUnlock, StatusTest, PostFill, PostClear, PostSet
<1>6. CASE Browser
  BY <1>1, <1>6 DEF Browser, StatusLock, ScanAsync, DisconnectAsync, Post
<1>7. CASE ManagerTask
  BY <1>1, <1>2, <1>7
  DEF ManagerTask, WaitRequest, Leave, GiveUp, AwaitDisconnect, DiscErase,
      DiscJson, DiscClear, ConnSet, ConnRefused, ConnResult, ConnJson,
      ConnCopy, ConnClear, Scan, Events
<1>8. CASE Connected \/ Disconnected
  BY <1>1, <1>2, <1>8 DEF Connected, Disconnected, Events
<1>9. CASE Restarted \/ UNCHANGED vars
  BY <1>1, <1>9 DEF Restarted, vars
<1>10. QED
  BY <1>3, <1>4, <1>5, <1>6, <1>7, <1>8, <1>9 DEF Next

LoopInv == TypeOK /\ Handling /\ Held

(* The flag of wifitask.c, which one prover handles better on its own.     *)
LEMMA ConnectedStep == connected \in BOOLEAN /\ [Next]_vars => connected' \in BOOLEAN
<1> SUFFICES ASSUME connected \in BOOLEAN, [Next]_vars PROVE connected' \in BOOLEAN
  OBVIOUS
<1> USE DEF shared
<1>1. CASE MainTask
  BY <1>1, Zenon DEF MainTask, MainPoll, KillHttp, KillManager, SaveCredentials
<1>2. CASE HttpTask
  BY <1>2, Zenon DEF HttpTask, StatusUnlock, StatusTest, PostFill, PostClear, PostSet
<1>3. CASE Browser
  BY <1>3, Zenon DEF Browser, StatusLock, ScanAsync, DisconnectAsync, Post
<1>4. CASE ManagerTask
  BY <1>4, Zenon
  DEF ManagerTask, WaitRequest, Leave, AwaitDisconnect, DiscErase, DiscJson,
      DiscClear, ConnSet, ConnRefused, ConnResult, ConnJson, ConnCopy,
      ConnClear, Scan
<1>5. CASE Connected \/ Disconnected \/ EventTask
  BY <1>5, Zenon
  DEF Connected, Disconnected, EventTask, EventGotIp, EventDisconnected, EventClear
<1>6. CASE Restarted \/ UNCHANGED vars
  BY <1>6, Zenon DEF Restarted, vars
<1>7. QED
  BY <1>1, <1>2, <1>3, <1>4, <1>5, <1>6, Zenon DEF Next

(* What a result is copied to is still a string of the program.            *)
LEMMA OverlayType == \A new, old \in Memory : Overlay(new, old) \in Memory
  BY DEF Overlay, Memory

(* Every step preserves the types, and the mutex its holder.               *)
LEMMA LoopStep == LoopInv /\ [Next]_vars => LoopInv'
<1> SUFFICES ASSUME LoopInv, [Next]_vars PROVE LoopInv'
  OBVIOUS
<1>0. /\ connected' \in BOOLEAN /\ Handling'
      /\ events' \in Seq({"GOT_IP", "DISCONNECTED"}) /\ epc' \in {"idle", "clear"}
  <2>1. connected' \in BOOLEAN
    BY ConnectedStep, Zenon DEF LoopInv, TypeOK
  <2>2. EventInv
    BY DEF LoopInv, TypeOK, EventInv, Events
  <2>3. EventInv'
    BY <2>2, EventStep
  <2>4. QED
    BY <2>1, <2>3 DEF EventInv, Events
<1> DEFINE Rest ==
      /\ bits \subseteq Bits /\ seen \subseteq Bits
      /\ {config, result, saved, posting, tried} \subseteq Memory
      /\ verified \subseteq Creds /\ json \in Page
      /\ mutex \in {"free", "http", "manager"}
      /\ mpc \in MainPhases /\ hpc \in HttpPhases /\ gpc \in ManagerPhases
      /\ sta \in {"off", "connecting", "on"} /\ Held
<1>a. Rest
  BY DEF LoopInv, TypeOK
<1>b. SUFFICES Rest'
  BY <1>0 DEF LoopInv, TypeOK
<1> USE <1>a
    DEF Rest, Held, Bits, RequestBits, Page, NoStatus, MainPhases, HttpPhases,
        ManagerPhases, shared, http, manager, driver
<1>1. CASE MainTask
  <2>1. CASE MainPoll
    BY <2>1 DEF MainPoll, Main
  <2>2. CASE KillHttp
    BY <2>2 DEF KillHttp, Main
  <2>3. CASE KillManager
    BY <2>3 DEF KillManager, Main, GiveUp
  <2>4. CASE SaveCredentials
    BY <2>4 DEF SaveCredentials, Main
  <2>5. QED
    BY <1>1, <2>1, <2>2, <2>3, <2>4 DEF MainTask
<1>2. CASE HttpTask
  <2>1. CASE StatusUnlock
    BY <2>1 DEF StatusUnlock, Http
  <2>2. CASE StatusTest
    BY <2>2 DEF StatusTest, Http
  <2>3. CASE PostFill
    BY <2>3 DEF PostFill, Http
  <2>4. CASE PostClear
    BY <2>4 DEF PostClear, Http, Memory
  <2>5. CASE PostSet
    BY <2>5 DEF PostSet, Http
  <2>6. QED
    BY <1>2, <2>1, <2>2, <2>3, <2>4, <2>5 DEF HttpTask
<1>3. CASE Browser
  <2>1. CASE StatusLock
    BY <2>1 DEF StatusLock, Http
  <2>2. CASE ScanAsync
    BY <2>2 DEF ScanAsync
  <2>3. CASE DisconnectAsync
    BY <2>3 DEF DisconnectAsync
  <2>4. ASSUME NEW c \in Creds, Post(c) PROVE Rest'
    BY <2>4 DEF Post, Http, Memory
  <2>5. QED
    BY <1>3, <2>1, <2>2, <2>3, <2>4 DEF Browser
<1>4. CASE ManagerTask
  <2> USE DEF Manager
  <2>1. CASE WaitRequest
    BY <2>1 DEF WaitRequest, Branch
  <2>2. CASE Leave("disc", "disc_wait", "disc_end") \/ Leave("conn", "conn_wait", "conn_set")
    BY <2>2 DEF Leave, GiveUp
  <2>3. CASE \/ AwaitDisconnect("disc_wait", "disc_end")
             \/ AwaitDisconnect("conn_wait", "conn_set")
    BY <2>3 DEF AwaitDisconnect
  <2>4. CASE DiscErase
    BY <2>4 DEF DiscErase, Memory
  <2>5. CASE DiscJson
    BY <2>5 DEF DiscJson
  <2>6. CASE DiscClear
    BY <2>6 DEF DiscClear, Branch
  <2>7. CASE ConnSet \/ ConnRefused
    BY <2>7 DEF ConnSet, ConnRefused
  <2>8. CASE ConnResult
    BY <2>8 DEF ConnResult
  <2>9. CASE ConnJson
    BY <2>9 DEF ConnJson
  <2>10. CASE ConnCopy
    BY <2>10, OverlayType DEF ConnCopy, Memory
  <2>11. CASE ConnClear \/ Scan
    BY <2>11 DEF ConnClear, Scan
  <2>12. QED
    BY <1>4, <2>1, <2>2, <2>3, <2>4, <2>5, <2>6, <2>7, <2>8, <2>9, <2>10, <2>11
    DEF ManagerTask
<1>5. CASE Connected \/ Disconnected
  <2>1. CASE Connected
    BY <2>1, CredAssumption DEF Connected
  <2>2. CASE Disconnected
    BY <2>2 DEF Disconnected
  <2>3. QED
    BY <1>5, <2>1, <2>2
<1>6. CASE EventTask
  <2>1. CASE EventGotIp
    BY <2>1 DEF EventGotIp
  <2>2. CASE EventDisconnected
    BY <2>2 DEF EventDisconnected
  <2>3. CASE EventClear
    BY <2>3 DEF EventClear
  <2>4. QED
    BY <1>6, <2>1, <2>2, <2>3 DEF EventTask
<1>7. CASE UNCHANGED vars
  BY <1>7 DEF vars
<1>8. QED
  BY <1>1, <1>2, <1>3, <1>4, <1>5, <1>6, <1>7 DEF Next, Restarted

LEMMA InitInv == Init => LoopInv
<1> SUFFICES ASSUME Init PROVE LoopInv
  OBVIOUS
<1>1. connected \in BOOLEAN
  BY Zenon DEF Init
<1>2. events \in Seq({"GOT_IP", "DISCONNECTED"})
  BY DEF Init
<1>0. Handling
  BY DEF Init, Handling
<1>3. json \in Page
  BY DEF Init, Page, NoStatus, Memory
<1>4. QED
  BY <1>0, <1>1, <1>2, <1>3
  DEF Init, LoopInv, TypeOK, Held, Bits, Memory, MainPhases, HttpPhases,
      ManagerPhases

(* Types: every variable of the session keeps its type.                    *)
THEOREM TypeCorrect == Spec => []TypeOK
<1>1. LoopInv => TypeOK
  BY DEF LoopInv
<1>2. QED
  BY InitInv, LoopStep, <1>1, PTL DEF Spec

(* The page does not change while the HTTP task sends it, though manager   *)
(* and requests rewrite it and the main task may delete either task.       *)
THEOREM PageCorrect == Spec => PageStable
<1> DEFINE Stable == (hpc = "status" /\ hpc' = "status" => json' = json)
<1>1. LoopInv /\ [Next]_vars => Stable \/ UNCHANGED vars
  <2> SUFFICES ASSUME LoopInv, [Next]_vars, hpc = "status", hpc' = "status"
               PROVE  json' = json
    BY DEF vars
  <2>1. mutex = "http"
    BY DEF LoopInv, Held
  <2> USE <2>1 DEF shared, http
  <2>2. CASE HttpTask
    BY <2>2 DEF HttpTask, Http, StatusUnlock, StatusTest, PostFill, PostClear, PostSet
  <2>3. CASE ManagerTask
    BY <2>3
    DEF ManagerTask, WaitRequest, Leave, AwaitDisconnect, DiscErase, DiscJson,
        DiscClear, ConnSet, ConnRefused, ConnResult, ConnJson, ConnCopy,
        ConnClear, Scan
  <2>4. CASE MainTask \/ Browser
    BY <2>4
    DEF MainTask, MainPoll, KillHttp, KillManager, SaveCredentials, Browser,
        Http, StatusLock, ScanAsync, DisconnectAsync, Post
  <2>5. CASE Connected \/ Disconnected \/ EventTask
    BY <2>5
    DEF Connected, Disconnected, EventTask, EventGotIp, EventDisconnected, EventClear
  <2>6. CASE Restarted \/ UNCHANGED vars
    BY <2>6 DEF Restarted, vars
  <2>7. QED
    BY <2>2, <2>3, <2>4, <2>5, <2>6 DEF Next
<1>2. QED
  BY InitInv, LoopStep, <1>1, PTL DEF Spec, PageStable

-----------------------------------------------------------------------------
(* A patient user's session.  First what the environment does to the three *)
(* states of an attempt: lemmas about Pending, then one about each.        *)

(* The few queues there are, told apart.                                   *)
LEMMA Queues ==
  ASSUME NEW e \in Events, NEW f \in Events
  PROVE  /\ Append(<<>>, e) = <<e>> /\ Append(<<e>>, f) = <<e, f>>
         /\ Tail(<<e>>) = <<>> /\ Tail(<<e, f>>) = <<f>>
         /\ <<e>> # <<>> /\ Head(<<e>>) = e
         /\ <<e, f>> # <<>> /\ Head(<<e, f>>) = e
<1>1. Append(<<e>>, f) = <<e, f>>
  <2> DEFINE one == <<e>>
             two == <<e, f>>
             app == Append(one, f)
  <2>1. /\ one \in Seq(Events) /\ two \in Seq(Events)
        /\ Len(one) = 1 /\ Len(two) = 2
    OBVIOUS
  <2>2. app \in Seq(Events) /\ Len(app) = 2
    BY <2>1
  <2>3. app[1] = e /\ app[2] = f
    BY <2>1
  <2>4. \A i \in 1 .. 2 : app[i] = two[i]
    BY <2>3
  <2>5. app = two
    <3> HIDE DEF one, two, app
    <3> QED
      BY <2>1, <2>2, <2>4, SeqEqual
  <2>6. QED
    BY <2>5
<1>2. QED
  BY <1>1

LEMMA PendingAppend ==
  ASSUME EventInv, epc' = epc, NEW e \in Events, events' = Append(events, e)
  PROVE  Pending' = Append(Pending, e)
<1>1. CASE epc = "clear"
  <2>1. events # <<>>
    BY <1>1 DEF EventInv, Handling
  <2>2. Tail(Append(events, e)) = Append(Tail(events), e)
    BY <2>1 DEF EventInv
  <2>3. QED
    BY <1>1, <2>2 DEF Pending
<1>2. CASE epc # "clear"
  BY <1>2 DEF Pending
<1>3. QED
  BY <1>1, <1>2

(* Nothing that concerns an attempt has changed.                           *)
Undisturbed ==
  /\ UNCHANGED <<driver, epc>>
  /\ "CONNECTED" \in bits' <=> "CONNECTED" \in bits

LEMMA Stays ==
  ASSUME Undisturbed
  PROVE  (Over' <=> Over) /\ (Won' <=> Won) /\ (Underway' <=> Underway)
  BY DEF Undisturbed, driver, Over, Won, Underway, Pending

(* The driver succeeds only in an attempt under way.                       *)
LEMMA ConnectedStays ==
  ASSUME EventInv, Connected
  PROVE  ~Over /\ ~Won /\ (Underway => Underway')
<1> USE DEF Connected, Over, Won, Underway, shared, manager, http
<1>1. Pending' = Append(Pending, "GOT_IP")
  BY PendingAppend DEF Events
<1>2. Append(<<>>, "GOT_IP") = <<"GOT_IP">>
  BY Queues DEF Events
<1>3. QED
  BY <1>1, <1>2

LEMMA DisconnectedStays ==
  ASSUME EventInv, Disconnected
  PROVE  ~Over /\ (Won => Won') /\ (Underway => Underway')
<1> USE DEF Disconnected, Over, Won, Underway, shared, manager, http
<1>1. Pending' = Append(Pending, "DISCONNECTED")
  BY PendingAppend DEF Events
<1>2. /\ Append(<<>>, "DISCONNECTED") = <<"DISCONNECTED">>
      /\ Append(<<"GOT_IP">>, "DISCONNECTED") = <<"GOT_IP", "DISCONNECTED">>
  BY Queues DEF Events
<1>3. QED
  BY <1>1, <1>2

(* An address makes an attempt under way a success.                        *)
LEMMA GotIpWins ==
  ASSUME EventInv, EventGotIp
  PROVE  ~Over /\ ~Won /\ (Underway => Won')
<1> USE DEF EventGotIp, Over, Won, Underway, shared, manager, http
<1>1. epc = "idle" /\ epc' = "idle"
  BY DEF EventInv, Handling
<1>2. Pending = events /\ Pending' = Tail(Pending) /\ Pending # <<>>
      /\ Head(Pending) = "GOT_IP"
  BY <1>1 DEF Pending
<1>3. /\ Head(<<"DISCONNECTED">>) # "GOT_IP"
      /\ Tail(<<"GOT_IP">>) = <<>>
      /\ Tail(<<"GOT_IP", "DISCONNECTED">>) = <<"DISCONNECTED">>
  BY Queues DEF Events
<1>4. QED
  BY <1>1, <1>2, <1>3

(* A disconnection ends it, whatever it was.                               *)
LEMMA DisconnectedEnds ==
  ASSUME EventInv, EventDisconnected
  PROVE  ~Over /\ (Won \/ Underway => Over')
<1> USE DEF EventDisconnected, Over, Won, Underway, shared, manager, http, driver
<1>1. Pending = events /\ Pending' = Tail(Pending) /\ Pending # <<>>
      /\ Head(Pending) = "DISCONNECTED"
  BY DEF Pending
<1>2. /\ Head(<<"GOT_IP">>) # "DISCONNECTED"
      /\ Head(<<"GOT_IP", "DISCONNECTED">>) # "DISCONNECTED"
      /\ Tail(<<"DISCONNECTED">>) = <<>>
  BY Queues DEF Events
<1>3. QED
  BY <1>1, <1>2

LEMMA ClearStays ==
  ASSUME EventInv, EventClear
  PROVE  /\ Over => Over' /\ "CONNECTED" \notin bits'
         /\ ~Won /\ (Underway => Underway')
<1> USE DEF EventClear, Over, Won, Underway, shared, manager, http
<1>1. Pending' = Pending
  BY DEF Pending
<1>2. QED
  BY <1>1

(* esp_wifi_disconnect leaves the disconnection to be seen.                *)
LEMMA GiveUpStays ==
  ASSUME EventInv, GiveUp, epc' = epc, "CONNECTED" \in bits' <=> "CONNECTED" \in bits
  PROVE  sta' = "off" /\ (Over => Over') /\ (Won => Won')
<1> USE DEF GiveUp, Over, Won
<1>1. CASE sta = "off"
  BY <1>1 DEF Pending
<1>2. CASE sta # "off"
  <2>1. Pending' = Append(Pending, "DISCONNECTED")
    BY <1>2, PendingAppend DEF Events
  <2>2. Append(<<>>, "DISCONNECTED") = <<"DISCONNECTED">>
    BY Queues DEF Events
  <2>3. QED
    BY <1>2, <2>1, <2>2
<1>3. QED
  BY <1>1, <1>2

(* What the rest of the proof needs to know about the three states.        *)
LEMMA States ==
  /\ Over => sta = "off"
  /\ Won => "CONNECTED" \in bits /\ tried \in verified
  /\ Underway => "CONNECTED" \notin bits
  BY DEF Over, Won, Underway

(* The steps that neither the driver nor the manager is concerned with.    *)
Bystander ==
  /\ UNCHANGED <<gpc, seen, driver, epc>>
  /\ bits' \cap {"CONNECTED", "DISCONNECT"} = bits \cap {"CONNECTED", "DISCONNECT"}
  /\ json' = json \/ hpc \in {"post_fill", "post_clear", "post_set"}

LEMMA BystanderKeeps ==
  ASSUME Requested, Attempt, Bystander
  PROVE  Attempt'
<1>1. /\ Over' <=> Over
      /\ Won' <=> Won
      /\ Underway' <=> Underway
  BY Stays DEF Bystander, Undisturbed
<1>2. QED
  BY <1>1 DEF Bystander, Attempt, Requested, driver

(* Every step keeps what the manager takes for granted.                    *)
LEMMA AttemptStep ==
  ASSUME LoopInv, Requested, Attempt, [Next]_vars
  PROVE  Attempt'
<1>0. EventInv
  BY DEF LoopInv, TypeOK, EventInv, Events
<1>1. CASE MainTask
  <2>1. CASE MainPoll \/ KillHttp \/ SaveCredentials
    <3>1. Bystander
      BY <2>1 DEF MainPoll, KillHttp, SaveCredentials, Bystander, shared, manager, http
    <3>2. QED
      BY <3>1, BystanderKeeps
  <2>2. CASE KillManager
    BY <2>2 DEF KillManager, Attempt
  <2>3. QED
    BY <1>1, <2>1, <2>2 DEF MainTask
<1>2. CASE HttpTask \/ Browser
  <2>1. Bystander
    BY <1>2
    DEF HttpTask, Http, StatusUnlock, StatusTest, PostFill, PostClear, PostSet,
        Browser, StatusLock, ScanAsync, DisconnectAsync, Post, Bystander,
        shared, manager
  <2>2. QED
    BY <2>1, BystanderKeeps
<1>3. CASE ManagerTask
  <2> USE DEF Manager, shared, http
  <2>a. ASSUME Undisturbed PROVE (Over' <=> Over) /\ (Won' <=> Won) /\ (Underway' <=> Underway)
    BY <2>a, Stays
  <2>1. CASE WaitRequest
    <3>1. Undisturbed
      BY <2>1 DEF WaitRequest, Undisturbed
    <3>2. "connect" \in bits => Over
      BY <2>1 DEF WaitRequest, Attempt, Requested
    <3>3. Over \/ (Won /\ json.urc = 0)
      BY <2>1 DEF WaitRequest, Attempt
    <3>4. QED
      BY <2>1, <2>a, <3>1, <3>2, <3>3, States DEF WaitRequest, Branch, Attempt
  <2>2. CASE Leave("disc", "disc_wait", "disc_end")
    <3>1. CASE "CONNECTED" \in seen
      <4>1. sta' = "off" /\ (Over => Over') /\ (Won => Won')
        BY <1>0, <2>2, <3>1, GiveUpStays DEF Leave
      <4>2. QED
        BY <2>2, <3>1, <4>1 DEF Leave, Attempt
    <3>2. CASE "CONNECTED" \notin seen
      <4>1. Undisturbed
        BY <2>2, <3>2 DEF Leave, Undisturbed
      <4>2. QED
        BY <2>2, <2>a, <3>2, <4>1 DEF Leave, Attempt
    <3>3. QED
      BY <3>1, <3>2
  <2>3. CASE Leave("conn", "conn_wait", "conn_set")
    <3>1. CASE "CONNECTED" \in seen
      <4>1. Over => Over'
        BY <1>0, <2>3, <3>1, GiveUpStays DEF Leave
      <4>2. QED
        BY <2>3, <3>1, <4>1 DEF Leave, Attempt
    <3>2. CASE "CONNECTED" \notin seen
      <4>1. Undisturbed
        BY <2>3, <3>2 DEF Leave, Undisturbed
      <4>2. QED
        BY <2>3, <2>a, <3>2, <4>1 DEF Leave, Attempt
    <3>3. QED
      BY <3>1, <3>2
  <2>4. CASE AwaitDisconnect("disc_wait", "disc_end")
    <3>1. Undisturbed
      BY <2>4 DEF AwaitDisconnect, Undisturbed
    <3>2. QED
      BY <2>4, <2>a, <3>1 DEF AwaitDisconnect, Attempt
  <2>5. CASE AwaitDisconnect("conn_wait", "conn_set")
    BY <2>5 DEF AwaitDisconnect, Attempt
  <2>6. CASE DiscErase \/ DiscJson \/ DiscClear
    <3>1. Undisturbed
      BY <2>6 DEF DiscErase, DiscJson, DiscClear, Undisturbed
    <3>2. QED
      BY <2>6, <2>a, <3>1 DEF DiscErase, DiscJson, DiscClear, Branch, Attempt
  <2>7. CASE ConnSet
    <3>1. Over /\ "CONNECTED" \notin bits
      BY <2>7 DEF ConnSet, Attempt
    <3>2. Underway' /\ "CONNECTED" \notin bits'
      BY <2>7, <3>1 DEF ConnSet, Over, Underway, Pending
    <3>3. QED
      BY <2>7, <3>2 DEF ConnSet, Attempt
  <2>8. CASE ConnRefused
    BY <2>8 DEF ConnRefused, Attempt
  <2>9. CASE ConnResult
    <3>1. Undisturbed
      BY <2>9 DEF ConnResult, Undisturbed
    <3>2. Over \/ Won \/ Underway
      BY <2>9 DEF ConnResult, Attempt
    <3>3. IF "CONNECTED" \in bits THEN tried \in verified /\ (Over \/ Won) ELSE Over
      BY <2>9, <3>2, States DEF ConnResult, Attempt
    <3>4. QED
      BY <2>9, <2>a, <3>1, <3>3 DEF ConnResult, Attempt, driver
  <2>10. CASE ConnJson
    <3>1. Undisturbed
      BY <2>10 DEF ConnJson, Undisturbed
    <3>2. IF "CONNECTED" \in seen THEN tried \in verified /\ (Over \/ Won) ELSE Over
      BY <2>10 DEF ConnJson, Attempt
    <3>3. gpc' = "conn_copy" /\ seen' = seen /\ tried' = tried /\ verified' = verified
      BY <2>10 DEF ConnJson, driver
    <3>4. "CONNECTED" \in seen => json'.urc = 0
      BY <2>10 DEF ConnJson
    <3>5. QED
      BY <2>a, <3>1, <3>2, <3>3, <3>4 DEF Attempt
  <2>11. CASE ConnCopy
    <3>1. Undisturbed
      BY <2>11 DEF ConnCopy, Undisturbed
    <3>2. Over \/ (Won /\ json.urc = 0)
      BY <2>11 DEF ConnCopy, Attempt
    <3>3. QED
      BY <2>11, <2>a, <3>1, <3>2 DEF ConnCopy, Attempt
  <2>12. CASE ConnClear \/ Scan
    <3>1. Undisturbed
      BY <2>12 DEF ConnClear, Scan, Undisturbed
    <3>2. QED
      BY <2>12, <2>a, <3>1 DEF ConnClear, Scan, Attempt
  <2>13. QED
    BY <1>3, <2>1, <2>2, <2>3, <2>4, <2>5, <2>6, <2>7, <2>8, <2>9, <2>10, <2>11,
       <2>12
    DEF ManagerTask
<1>4. CASE Connected
  <2>1. ~Over /\ ~Won /\ (Underway => Underway')
    BY <1>0, <1>4, ConnectedStays
  <2>2. QED
    BY <1>4, <2>1 DEF Connected, Attempt, shared, manager
<1>5. CASE Disconnected
  <2>1. ~Over /\ (Won => Won') /\ (Underway => Underway')
    BY <1>0, <1>5, DisconnectedStays
  <2>2. sta # "off"
    BY <1>5 DEF Disconnected
  <2>3. QED
    BY <1>5, <2>1, <2>2 DEF Disconnected, Attempt, shared, manager
<1>6. CASE EventGotIp
  <2>1. ~Over /\ ~Won /\ (Underway => Won')
    BY <1>0, <1>6, GotIpWins
  <2>2. Won' => tried' \in verified'
    BY DEF Won
  <2>3. QED
    BY <1>6, <2>1, <2>2 DEF EventGotIp, Attempt, shared, manager
<1>7. CASE EventDisconnected
  <2>1. ~Over /\ (Won \/ Underway => Over')
    BY <1>0, <1>7, DisconnectedEnds
  <2>2. QED
    BY <1>7, <2>1 DEF EventDisconnected, Attempt, shared, manager, driver
<1>8. CASE EventClear
  <2>1. /\ Over => Over' /\ "CONNECTED" \notin bits'
        /\ ~Won /\ (Underway => Underway')
    BY <1>0, <1>8, ClearStays
  <2>2. QED
    BY <1>8, <2>1 DEF EventClear, Attempt, shared, manager
<1>9. CASE UNCHANGED vars
  <2>1. Bystander
    BY <1>9 DEF vars, Bystander, shared, manager
  <2>2. QED
    BY <2>1, BystanderKeeps
<1>10. QED
  BY <1>1, <1>2, <1>3, <1>4, <1>5, <1>6, <1>7, <1>8, <1>9
  DEF Next, EventTask, Restarted

(* The configuration is the user's, whatever the tasks do in between.      *)
LEMMA RequestedStep ==
  ASSUME Patient, "rejoin" \notin Ops, LoopInv, Requested, [Next]_vars
  PROVE  Requested'
<1> USE DEF Requested, ConnPhases, DiscPhases, RequestBits, shared, http, manager, driver
<1>1. CASE MainTask
  BY <1>1 DEF MainTask, Main, MainPoll, KillHttp, KillManager, SaveCredentials
<1>2. CASE HttpTask
  <2>1. CASE StatusUnlock \/ StatusTest
    BY <2>1 DEF StatusUnlock, StatusTest, Http
  <2>2. CASE PostFill
    BY <2>2 DEF PostFill, Http
  <2>3. CASE PostClear
    BY <2>3 DEF PostClear, Http, NoStatus
  <2>4. CASE PostSet
    BY <2>4 DEF PostSet, Http
  <2>5. QED
    BY <1>2, <2>1, <2>2, <2>3, <2>4 DEF HttpTask
<1>3. CASE Browser
  <2>1. CASE StatusLock \/ ScanAsync \/ DisconnectAsync
    BY <2>1 DEF StatusLock, ScanAsync, DisconnectAsync, Http
  <2>2. CASE \E c \in Creds : Post(c)
    BY <2>2 DEF Post, MayPost, Http
  <2>3. QED
    BY <1>3, <2>1, <2>2 DEF Browser
<1>4. CASE ManagerTask
  <2> USE DEF Manager
  <2>1. CASE WaitRequest
    BY <2>1 DEF WaitRequest, Branch
  <2>2. CASE Leave("disc", "disc_wait", "disc_end") \/ Leave("conn", "conn_wait", "conn_set")
    BY <2>2 DEF Leave, GiveUp
  <2>3. CASE \/ AwaitDisconnect("disc_wait", "disc_end")
             \/ AwaitDisconnect("conn_wait", "conn_set")
    BY <2>3 DEF AwaitDisconnect
  <2>4. CASE DiscErase \/ DiscJson
    BY <2>4 DEF DiscErase, DiscJson
  <2>5. CASE DiscClear
    BY <2>5 DEF DiscClear, Branch
  <2>6. CASE ConnSet \/ ConnRefused
    BY <2>6 DEF ConnSet, ConnRefused
  <2>7. CASE ConnResult
    BY <2>7 DEF ConnResult
  <2>8. CASE ConnJson
    BY <2>8 DEF ConnJson
  <2>9. CASE ConnCopy
    BY <2>9 DEF ConnCopy
  <2>10. CASE ConnClear \/ Scan
    BY <2>10 DEF ConnClear, Scan
  <2>11. QED
    BY <1>4, <2>1, <2>2, <2>3, <2>4, <2>5, <2>6, <2>7, <2>8, <2>9, <2>10
    DEF ManagerTask
<1>5. CASE Connected \/ Disconnected \/ EventTask
  BY <1>5
  DEF Connected, Disconnected, EventTask, EventGotIp, EventDisconnected, EventClear
<1>6. CASE UNCHANGED vars
  BY <1>6 DEF vars
<1>7. QED
  BY <1>1, <1>2, <1>3, <1>4, <1>5, <1>6 DEF Next, Restarted

(* The answer is about the credentials tried, which are the user's.        *)
LEMMA Answered ==
  ASSUME Requested, Attempt, gpc \in {"conn_json", "conn_copy"}
  PROVE  /\ config = tried /\ tried = posting /\ config # NoCred
         /\ "CONNECTED" \in seen => config \in verified
  BY DEF Requested, Attempt, ConnPhases

LEMMA ShownStep ==
  ASSUME LoopInv, Requested, Attempt, Shown, [Next]_vars
  PROVE  Shown'
<1> USE DEF Shown, shared, http, manager, driver
<1>1. CASE ConnJson
  <2>1. gpc = "conn_json" /\ tried' = tried /\ posting' = posting /\ verified' = verified
    BY <1>1 DEF ConnJson, Manager
  <2>2. /\ json'.cred = config /\ json'.tried = tried
        /\ json'.urc = 0 => "CONNECTED" \in seen
    BY <1>1 DEF ConnJson
  <2>3. QED
    BY <2>1, <2>2, Answered
<1>2. CASE DiscJson \/ PostClear
  BY <1>2 DEF DiscJson, PostClear, NoStatus
<1>3. CASE json' = json /\ posting' = posting /\ verified \subseteq verified'
           /\ (hpc' \in {"post_fill", "post_clear", "dead"} \/ hpc \notin {"post_fill", "post_clear", "dead"})
  BY <1>3
<1>4. CASE \E c \in Creds : Post(c)
  BY <1>4 DEF Post, Http
<1>5. CASE MainTask
  BY <1>3, <1>5 DEF MainTask, MainPoll, KillHttp, KillManager, SaveCredentials, GiveUp
<1>6. CASE HttpTask
  BY <1>2, <1>3, <1>6
  DEF HttpTask, Http, StatusUnlock, StatusTest, PostFill, PostSet
<1>7. CASE Browser
  BY <1>3, <1>4, <1>7 DEF Browser, Http, StatusLock, ScanAsync, DisconnectAsync
<1>8. CASE ManagerTask
  BY <1>1, <1>2, <1>3, <1>8
  DEF ManagerTask, WaitRequest, Leave, GiveUp, AwaitDisconnect, DiscErase,
      DiscClear, ConnSet, ConnRefused, ConnResult, ConnCopy, ConnClear, Scan
<1>9. CASE Connected \/ Disconnected \/ EventTask
  BY <1>3, <1>9
  DEF Connected, Disconnected, EventTask, EventGotIp, EventDisconnected, EventClear
<1>10. CASE UNCHANGED vars
  BY <1>3, <1>10 DEF vars
<1>11. QED
  BY <1>5, <1>6, <1>7, <1>8, <1>9, <1>10 DEF Next, Restarted

(* Strings of one length replace each other entirely.                      *)
OneLength == \A c, d \in Good : Size[c] = Size[d]

LEMMA OverlayReplaces ==
  ASSUME OneLength, NEW new \in Good, NEW old \in Good \union {NoCred}
  PROVE  Overlay(new, old) = new
<1>1. Size[new] \in Nat /\ new \in Creds /\ NoCred \notin Creds /\ Good \subseteq Creds
  BY CredAssumption
<1>2. CASE old = NoCred
  BY <1>1, <1>2 DEF Overlay
<1>3. CASE old \in Good
  <2>1. Size[new] >= Size[old]
    BY <1>1, <1>3 DEF OneLength
  <2>2. QED
    BY <1>1, <1>3, <2>1 DEF Overlay
<1>4. QED
  BY <1>2, <1>3

LEMMA KeptStep ==
  ASSUME OneLength, Requested, Attempt, Kept, [Next]_vars
  PROVE  Kept'
<1> USE DEF Kept, shared, http, manager, driver
<1>1. CASE ConnCopy
  <2>1. gpc = "conn_copy" /\ saved' = saved /\ verified' = verified
    BY <1>1 DEF ConnCopy, Manager
  <2>2. CASE "CONNECTED" \in seen
    <3>1. config \in verified
      BY <2>1, <2>2, Answered
    <3>2. Overlay(config, result) = config
      BY <3>1, OverlayReplaces
    <3>3. QED
      BY <1>1, <2>1, <2>2, <3>1, <3>2 DEF ConnCopy
  <2>3. CASE "CONNECTED" \notin seen
    BY <1>1, <2>1, <2>3 DEF ConnCopy
  <2>4. QED
    BY <2>2, <2>3
<1>2. CASE result' = result /\ saved' \in {saved, result} /\ verified' = verified
  BY <1>2
<1>3. CASE MainTask
  BY <1>2, <1>3 DEF MainTask, MainPoll, KillHttp, KillManager, SaveCredentials, GiveUp
<1>4. CASE HttpTask \/ Browser
  BY <1>2, <1>4
  DEF HttpTask, StatusUnlock, StatusTest, PostFill, PostClear, PostSet,
      Browser, StatusLock, ScanAsync, DisconnectAsync, Post
<1>5. CASE ManagerTask
  BY <1>1, <1>2, <1>5
  DEF ManagerTask, WaitRequest, Leave, GiveUp, AwaitDisconnect, DiscErase,
      DiscJson, DiscClear, ConnSet, ConnRefused, ConnResult, ConnJson,
      ConnClear, Scan
<1>6. CASE Connected
  BY <1>6 DEF Connected
<1>7. CASE Disconnected \/ EventTask
  BY <1>2, <1>7
  DEF Disconnected, EventTask, EventGotIp, EventDisconnected, EventClear
<1>8. CASE UNCHANGED vars
  BY <1>2, <1>8 DEF vars
<1>9. QED
  BY <1>3, <1>4, <1>5, <1>6, <1>7, <1>8 DEF Next, Restarted

SessionInv == LoopInv /\ Attempt /\ Requested /\ Shown

LEMMA SessionInit == Init => SessionInv /\ Kept
<1> SUFFICES ASSUME Init PROVE SessionInv /\ Kept
  OBVIOUS
<1>1. Over
  BY DEF Init, Over, Pending
<1>2. QED
  BY <1>1, InitInv
  DEF Init, SessionInv, Attempt, Requested, ConnPhases, DiscPhases,
      RequestBits, Shown, NoStatus, Kept

(* What a patient user is told is about the credentials he entered last,   *)
(* and a success is one, if he does not join another network while he is   *)
(* told of it.  That the user is patient is needed, see ProvOverwrite; so  *)
(* is the other hypothesis: with it dropped, TLC finds the manager taking  *)
(* the CONNECTED bit of the network that was left for one of the next.     *)
THEOREM StatusCorrect ==
  ASSUME Patient, "rejoin" \notin Ops PROVE Spec => []StatusTruthful
<1>1. SessionInv /\ [Next]_vars => SessionInv'
  BY LoopStep, AttemptStep, RequestedStep, ShownStep DEF SessionInv
<1>2. SessionInv => StatusTruthful
  BY DEF SessionInv, Shown, StatusTruthful
<1>3. QED
  BY SessionInit, <1>1, <1>2, PTL DEF Spec

(* What is saved has led to an address, for the same user, if the strings  *)
(* some access point accepts have one length, which is needed, too: see    *)
(* ProvTail.                                                               *)
THEOREM SavedCorrect ==
  ASSUME Patient, "rejoin" \notin Ops, OneLength PROVE Spec => []SavedVerified
<1>1. SessionInv /\ Kept /\ [Next]_vars => (SessionInv /\ Kept)'
  BY LoopStep, AttemptStep, RequestedStep, ShownStep, KeptStep DEF SessionInv
<1>2. Kept => SavedVerified
  BY DEF Kept, SavedVerified
<1>3. QED
  BY SessionInit, <1>1, <1>2, PTL DEF Spec
=============================================================================
