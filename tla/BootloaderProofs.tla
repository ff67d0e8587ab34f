-------------------------- MODULE BootloaderProofs --------------------------
(***************************************************************************)
(* Proofs about Bootloader, for every choice of requests, states, faults   *)
(* and power cuts.                                                         *)
(***************************************************************************)
EXTENDS Bootloader, TLAPS

(* Types, and the facts about the websocket client and the request flags.  *)
LoopInv == TypeOK /\ Fresh /\ Asked /\ Serving

(* The Boolean variables, which one prover handles better on their own.    *)
Booleans == rebootflag \in BOOLEAN /\ wifi \in BOOLEAN /\ told \in BOOLEAN

(* A step leaves them Boolean.                                            *)
LEMMA BooleansStep == Booleans /\ [Next]_vars => Booleans'
<1> SUFFICES ASSUME Booleans, [Next]_vars PROVE Booleans'
  OBVIOUS
<1> USE DEF Booleans, link
<1>1. CASE StateUpdate \/ WaitWifi \/ Start \/ StartFails
  BY <1>1, Zenon DEF StateUpdate, WaitWifi, Start, StartFails, Restart
<1>2. ASSUME NEW r \in AllRequests, PollReport(r) \/ PollWork(r)
      PROVE  Booleans'
  BY <1>2, Zenon DEF PollReport, PollWork
<1>3. CASE Work \/ WorkSave \/ Report \/ Leave
  BY <1>3, Zenon DEF Work, WorkSave, Report, Leave
<1>4. CASE LeaveToOta \/ LeaveToApp \/ LeaveToIdle \/ OtaStart
  BY <1>4, Zenon DEF LeaveToOta, LeaveToApp, LeaveToIdle, OtaStart, Restart
<1>5. CASE WifiUp \/ WifiDown \/ Connect \/ Drop
  BY <1>5, Zenon DEF WifiUp, WifiDown, Connect, Drop
<1>6. CASE AppReturns \/ PowerCut
  BY <1>6, Zenon DEF AppReturns, PowerCut, Restart
<1>7. ASSUME NEW s \in States, RecvState(s) PROVE Booleans'
  BY <1>7, Zenon DEF RecvState
<1>8. ASSUME NEW r \in Requests, RecvRequest(r) PROVE Booleans'
  BY <1>8, Zenon DEF RecvRequest
<1>9. CASE UNCHANGED vars
  BY <1>9, Zenon DEF vars
<1>10. QED
  BY <1>1, <1>2, <1>3, <1>4, <1>5, <1>6, <1>7, <1>8, <1>9, Zenon
  DEF Next, Main, Environment

(* Every step preserves them.                                              *)
LEMMA LoopStep == LoopInv /\ [Next]_vars => LoopInv'
<1> SUFFICES ASSUME LoopInv, [Next]_vars PROVE LoopInv'
  OBVIOUS
<1>0. rebootflag' \in BOOLEAN /\ wifi' \in BOOLEAN /\ told' \in BOOLEAN
  BY BooleansStep, Zenon DEF LoopInv, TypeOK, Booleans
<1> USE <1>0, BoundAssumption, ServerAssumption
    DEF LoopInv, TypeOK, Fresh, Asked, Serving, AllStates, AllRequests, Phases, flash, boot, link
<1>1. CASE StateUpdate
  BY <1>1 DEF StateUpdate, Restoring, Fault, SelectApp
<1>2. CASE WaitWifi
  BY <1>2 DEF WaitWifi
<1>3. CASE Start
  BY <1>3 DEF Start, Restoring, Fault
<1>4. CASE StartFails
  BY <1>4 DEF StartFails, Fault, Restart
<1>5. ASSUME NEW r \in AllRequests, PollReport(r) PROVE LoopInv'
  BY <1>5 DEF PollReport, First
<1>6. ASSUME NEW r \in AllRequests, PollWork(r) PROVE LoopInv'
  BY <1>6 DEF PollWork, First
<1>7. CASE Work
  BY <1>7 DEF Work, Restoring, Fault
<1>8. CASE WorkSave
  BY <1>8 DEF WorkSave, Save, Fault
<1>9. CASE Report
  BY <1>9 DEF Report
<1>10. CASE Leave
  BY <1>10 DEF Leave
<1>11. CASE LeaveToOta \/ LeaveToIdle
  <2>1. TypeOK'
    <3>1. CASE LeaveToOta
      BY <3>1 DEF LeaveToOta
    <3>2. CASE LeaveToIdle
      BY <3>2 DEF LeaveToIdle
    <3>3. QED
      BY <1>11, <3>1, <3>2
  <2>2. Fresh' /\ Asked' /\ Serving'
    BY <1>11 DEF LeaveToOta, LeaveToIdle
  <2>3. QED
    BY <2>1, <2>2
<1>12. CASE LeaveToApp
  BY <1>12 DEF LeaveToApp, SelectApp, Restart
<1>13. CASE OtaStart
  BY <1>13 DEF OtaStart, Restart
<1>14. CASE WifiUp \/ WifiDown
  <2>1. TypeOK'
    <3>1. CASE WifiUp
      BY <3>1 DEF WifiUp
    <3>2. CASE WifiDown
      BY <3>2 DEF WifiDown
    <3>3. QED
      BY <1>14, <3>1, <3>2
  <2>2. Fresh' /\ Serving'
    BY <1>14 DEF WifiUp, WifiDown
  <2>3. Asked'
    BY <1>14 DEF WifiUp, WifiDown
  <2>4. QED
    BY <2>1, <2>2, <2>3
<1>15. CASE Connect
  <2>1. TypeOK'
    BY <1>15 DEF Connect
  <2>2. Fresh' /\ Serving'
    BY <1>15 DEF Connect
  <2>3. Asked'
    BY <1>15 DEF Connect
  <2>4. QED
    BY <2>1, <2>2, <2>3
<1>16. CASE Drop
  BY <1>16 DEF Drop
<1>17. CASE AppReturns
  BY <1>17 DEF AppReturns, Restart
<1>18. CASE PowerCut
  BY <1>18 DEF PowerCut, Restart
<1>19. ASSUME NEW s \in States, RecvState(s) PROVE LoopInv'
  BY <1>19 DEF RecvState, Save, Fault
<1>20. ASSUME NEW r \in Requests, RecvRequest(r) PROVE LoopInv'
  BY <1>20 DEF RecvRequest
<1>21. CASE UNCHANGED vars
  BY <1>21 DEF vars
<1>22. QED
  BY <1>1, <1>2, <1>3, <1>4, <1>5, <1>6, <1>7, <1>8, <1>9, <1>10, <1>11,
     <1>12, <1>13, <1>14, <1>15, <1>16, <1>17, <1>18, <1>19, <1>20, <1>21
  DEF Next, Main, Environment

(* Without faults, restores and saves keep RAM and chip equal.             *)
LEMMA MirroredStep == LoopInv /\ Mirrored /\ [Next]_vars => Mirrored'
<1> SUFFICES ASSUME LoopInv, Mirrored, [Next]_vars PROVE Mirrored'
  OBVIOUS
<1> USE BoundAssumption
    DEF LoopInv, TypeOK, Fresh, Mirrored, flash, boot, link
<1>1. CASE StateUpdate \/ Start
  BY <1>1 DEF StateUpdate, Start, Restoring, Fault
<1>2. CASE WaitWifi \/ Report \/ Leave \/ LeaveToOta \/ LeaveToIdle
  BY <1>2 DEF WaitWifi, Report, Leave, LeaveToOta, LeaveToIdle
<1>3. CASE StartFails \/ LeaveToApp \/ OtaStart \/ AppReturns \/ PowerCut
  BY <1>3 DEF StartFails, LeaveToApp, OtaStart, AppReturns, PowerCut, Restart
<1>4. ASSUME NEW r \in AllRequests, PollReport(r) \/ PollWork(r)
      PROVE  Mirrored'
  BY <1>4 DEF PollReport, PollWork
<1>5. CASE Work
  BY <1>5 DEF Work, Restoring, Fault
<1>6. CASE WorkSave
  BY <1>6 DEF WorkSave, Save, Fault
<1>7. CASE WifiUp \/ WifiDown \/ Connect \/ Drop
  BY <1>7 DEF WifiUp, WifiDown, Connect, Drop
<1>8. ASSUME NEW s \in States, RecvState(s) PROVE Mirrored'
  BY <1>8 DEF RecvState, Save, Fault
<1>9. ASSUME NEW r \in Requests, RecvRequest(r) PROVE Mirrored'
  BY <1>9 DEF RecvRequest
<1>10. CASE UNCHANGED vars
  BY <1>10 DEF vars
<1>11. QED
  BY <1>1, <1>2, <1>3, <1>4, <1>5, <1>6, <1>7, <1>8, <1>9, <1>10
  DEF Next, Main, Environment

(* A device that is being switched on.                                     *)
LEMMA InitInv == Init => LoopInv /\ Mirrored
<1> SUFFICES ASSUME Init PROVE LoopInv /\ Mirrored
  OBVIOUS
<1>1. TypeOK
  <2>1. rebootflag \in BOOLEAN /\ wifi \in BOOLEAN /\ told \in BOOLEAN
    BY Zenon DEF Init
  <2>2. QED
    BY <2>1, BoundAssumption, InitialAssumption
    DEF Init, TypeOK, AllStates, AllRequests, Phases
<1>2. Fresh /\ Asked /\ Serving /\ Mirrored
  BY DEF Init, Fresh, Asked, Serving, Mirrored
<1>3. QED
  BY <1>1, <1>2 DEF LoopInv

(* Every reachable state is well typed.                                    *)
THEOREM TypeCorrect == Spec => []TypeOK
<1>1. LoopInv => TypeOK
  BY DEF LoopInv
<1>2. QED
  BY <1>1, InitInv, LoopStep, PTL DEF Spec

(* A device waiting for a request has said so on the connection it has.    *)
THEOREM WaitCorrect == Spec => []NoMutualWait
<1>1. LoopInv => NoMutualWait
  BY DEF LoopInv, Asked, NoMutualWait
<1>2. QED
  BY <1>1, InitInv, LoopStep, PTL DEF Spec

(* Without faults the application is selected only in a state that allows  *)
(* it, and in onlineboot only after the server has been served.            *)
THEOREM SelectionCorrect == Spec => SelectionPermitted
<1> DEFINE Permitted ==
      (faults' = 0 /\ bootpart = "factory" /\ bootpart' = "ota_0" /\ pc # "ota")
        => /\ st \in Bootable
           /\ st = "onlineboot" => serving # "nothing"
<1>1. LoopInv /\ Mirrored /\ [Next]_vars => [Permitted]_vars
  <2> SUFFICES ASSUME LoopInv, Mirrored, Next,
                      faults' = 0, bootpart = "factory", bootpart' = "ota_0",
                      pc # "ota"
               PROVE  /\ st \in Bootable
                      /\ st = "onlineboot" => serving # "nothing"
    OBVIOUS
  <2>1. StateUpdate \/ LeaveToApp
    BY DEF Next, Main, Environment, WaitWifi, Start, StartFails, PollReport,
           PollWork, Work, WorkSave, Report, Leave, LeaveToOta, LeaveToIdle,
           OtaStart, WifiUp, WifiDown, Connect, Drop, AppReturns, PowerCut,
           RecvState, RecvRequest, flash
  <2>2. CASE StateUpdate
    BY <2>2, BoundAssumption
    DEF StateUpdate, Restoring, Fault, Bootable, LoopInv, TypeOK
  <2>3. CASE LeaveToApp
    BY <2>3 DEF LeaveToApp, Mirrored, LoopInv, Serving
  <2>4. QED
    BY <2>1, <2>2, <2>3
<1>2. QED
  BY <1>1, InitInv, LoopStep, MirroredStep, PTL DEF Spec, SelectionPermitted

-----------------------------------------------------------------------------
(* The refinement of BootPolicy.                                           *)
PolicyInv == LoopInv /\ Mirrored /\ Stopped /\ Decided /\ Unasked

LEMMA PolicyInvStep == PolicyInv /\ [Next]_vars => PolicyInv'
<1> SUFFICES ASSUME PolicyInv, [Next]_vars PROVE PolicyInv'
  OBVIOUS
<1>0. LoopInv' /\ Mirrored'
  BY LoopStep, MirroredStep DEF PolicyInv
<1>a. faults' = 0 => faults = 0
  <2> USE BoundAssumption DEF PolicyInv, LoopInv, TypeOK, Fault
  <2>1. CASE StateUpdate \/ Start \/ StartFails \/ Work \/ WorkSave
    BY <2>1 DEF StateUpdate, Start, StartFails, Work, WorkSave, Restoring, Save
  <2>2. CASE \E s \in States : RecvState(s)
    BY <2>2 DEF RecvState, Save
  <2>3. CASE faults' = faults
    BY <2>3
  <2>4. QED
    BY <2>1, <2>2, <2>3
    DEF Next, Main, Environment, WaitWifi, PollReport, PollWork, Report, Leave,
        LeaveToOta, LeaveToApp, LeaveToIdle, OtaStart, WifiUp, WifiDown,
        Connect, Drop, RecvRequest, AppReturns, PowerCut, vars
<1> SUFFICES Stopped' /\ Decided' /\ Unasked'
  BY <1>0 DEF PolicyInv
<1> USE <1>a DEF PolicyInv, LoopInv, Fresh, Stopped, Decided, Unasked, flash, boot, link
<1>1. CASE StateUpdate \/ WaitWifi \/ Start
  BY <1>1 DEF StateUpdate, WaitWifi, Start
<1>2. CASE StartFails \/ LeaveToApp \/ OtaStart \/ AppReturns \/ PowerCut
  BY <1>2 DEF StartFails, LeaveToApp, OtaStart, AppReturns, PowerCut, Restart
<1>3. ASSUME NEW r \in AllRequests, PollReport(r) \/ PollWork(r)
      PROVE  Stopped' /\ Decided' /\ Unasked'
  BY <1>3 DEF PollReport, PollWork
<1>4. CASE Work \/ WorkSave \/ Report \/ Leave
  BY <1>4 DEF Work, WorkSave, Report, Leave
<1>5. CASE LeaveToOta \/ LeaveToIdle
  BY <1>5 DEF LeaveToOta, LeaveToIdle, Serving, Mirrored
<1>6. CASE WifiUp \/ WifiDown \/ Connect \/ Drop
  BY <1>6 DEF WifiUp, WifiDown, Connect, Drop
<1>7. ASSUME NEW s \in States, RecvState(s) PROVE Stopped' /\ Decided' /\ Unasked'
  BY <1>7 DEF RecvState
<1>8. ASSUME NEW r \in Requests, RecvRequest(r) PROVE Stopped' /\ Decided' /\ Unasked'
  BY <1>8 DEF RecvRequest
<1>9. CASE UNCHANGED vars
  BY <1>9 DEF vars
<1>10. QED
  BY <1>1, <1>2, <1>3, <1>4, <1>5, <1>6, <1>7, <1>8, <1>9
  DEF Next, Main, Environment

(* What BootPolicy sees of a step that concerns only this program.         *)
AskedFor == pending \union ({serving} \ {"nothing"})
Runs     == IF pc = "app" THEN "app" ELSE "loader"

Hidden ==
  /\ UNCHANGED <<st, flash, Runs>>
  /\ pending' \union ({serving'} \ {"nothing"}) = AskedFor

LEMMA HiddenStutters == Hidden => UNCHANGED Policy!vars
  BY DEF Hidden, Policy!vars, AskedFor, Runs, flash

(* A reset of the device is a start of BootPolicy.                         *)
LEMMA RestartStarts ==
  ASSUME TypeOK, ota0' \in {"valid", "broken"}, Restart, st' = st
  PROVE  Policy!Start
<1>1. pending' \union ({serving'} \ {"nothing"}) = {}
  BY DEF Restart
<1>2. Runs' = IF bootpart' = "ota_0" /\ ota0' = "valid" THEN "app" ELSE "loader"
  BY DEF Restart, Runs
<1>3. QED
  BY <1>1, <1>2 DEF Policy!Start, Runs

LEMMA PolicyStep ==
  ASSUME MaxFaults = 0, PolicyInv, [Next]_vars
  PROVE  [Policy!Next]_Policy!vars
<1>a. TypeOK /\ faults = 0 /\ faults' = 0 /\ ~Fault
  <2>1. TypeOK /\ TypeOK'
    BY LoopStep DEF PolicyInv, LoopInv
  <2>2. QED
    BY <2>1 DEF TypeOK, Fault
<1> USE DEF flash, boot, link, AskedFor, Runs
<1>1. CASE StateUpdate
  <2>1. PICK copy \in {st, ram} :
          /\ copy = st
          /\ IF copy = "offlineboot" THEN SelectApp ELSE UNCHANGED bootpart
    BY <1>a, <1>1 DEF StateUpdate, Restoring
  <2>2. pc # "app" /\ pc' # "app" /\ ota0' = ota0 /\ st' = st
        /\ pending' = pending /\ serving' = serving
    BY <1>1 DEF StateUpdate
  <2>3. CASE bootpart' = bootpart
    BY <2>2, <2>3, HiddenStutters DEF Hidden
  <2>4. CASE bootpart' # bootpart
    <3>1. st = "offlineboot" /\ ota0 = "valid" /\ bootpart' = "ota_0"
      BY <2>1, <2>4 DEF SelectApp
    <3>2. Policy!Select
      BY <2>2, <3>1 DEF Policy!Select, Policy!Selects
    <3>3. QED
      BY <3>2 DEF Policy!Next
  <2>5. QED
    BY <2>3, <2>4
<1>2. CASE WaitWifi \/ Start \/ Work \/ Leave \/ LeaveToOta \/ LeaveToIdle
  <2>1. Hidden
    BY <1>2 DEF WaitWifi, Start, Work, Leave, LeaveToOta, LeaveToIdle, Hidden
  <2>2. QED
    BY <2>1, HiddenStutters
<1>3. CASE StartFails
  BY <1>a, <1>3 DEF StartFails
<1>4. ASSUME NEW r \in AllRequests, PollReport(r) \/ PollWork(r)
      PROVE  [Policy!Next]_Policy!vars
  <2>1. serving = "nothing" /\ serving' = r /\ r \in pending
    BY <1>4 DEF PollReport, PollWork, First, PolicyInv, Unasked
  <2>2. "nothing" \notin AllRequests
    BY DEF AllRequests
  <2>3. Hidden
    BY <1>4, <2>1, <2>2 DEF PollReport, PollWork, Hidden
  <2>4. QED
    BY <2>3, HiddenStutters
<1>5. CASE WorkSave
  <2>1. ram = st
    BY <1>a, <1>5 DEF WorkSave, PolicyInv, Mirrored
  <2>2. Hidden
    BY <1>a, <1>5, <2>1 DEF WorkSave, Save, Hidden
  <2>3. QED
    BY <2>2, HiddenStutters
<1>6. CASE Report
  <2>1. serving # "nothing"
    BY <1>6 DEF Report, PolicyInv, LoopInv, Serving
  <2>2. Hidden
    BY <1>6, <2>1 DEF Report, Hidden
  <2>3. QED
    BY <2>2, HiddenStutters
<1>7. CASE LeaveToApp
  <2>1. /\ st \in Bootable /\ serving # "nothing" /\ pc # "app"
        /\ st' = st /\ ota0' = ota0 /\ Restart
    BY <1>a, <1>7 DEF LeaveToApp, PolicyInv, LoopInv, Serving, Mirrored
  <2>2. Policy!Start
    BY <1>a, <2>1, RestartStarts DEF TypeOK
  <2>3. Policy!Selects \/ UNCHANGED <<bootpart, ota0>>
    BY <1>7, <2>1 DEF LeaveToApp, SelectApp, Bootable, Policy!Selects
  <2>4. QED
    BY <2>2, <2>3 DEF Policy!Next, Policy!Restart
<1>8. CASE OtaStart
  <2>1. /\ pc = "ota" /\ serving # "nothing" /\ st' = st /\ Restart
        /\ "ota" \in pending \/ st = "forcefwdownload"
    BY <1>a, <1>8 DEF OtaStart, PolicyInv, Decided
  <2>2. ota0' \in {"valid", "broken"}
    BY <1>a, <1>8 DEF OtaStart, TypeOK
  <2>3. Policy!Start
    BY <1>a, <2>1, <2>2, RestartStarts
  <2>4. Policy!Download
    BY <1>8, <2>1, <2>3 DEF OtaStart, Policy!Download
  <2>5. QED
    BY <2>4 DEF Policy!Next
<1>9. CASE WifiUp \/ WifiDown \/ Connect \/ Drop
  <2>1. Hidden
    BY <1>9 DEF WifiUp, WifiDown, Connect, Drop, Hidden
  <2>2. QED
    BY <2>1, HiddenStutters
<1>10. ASSUME NEW s \in States, RecvState(s) PROVE [Policy!Next]_Policy!vars
  <2>1. pc # "app" /\ st' = s
    BY <1>a, <1>10 DEF RecvState, Save, PolicyInv, Stopped
  <2>2. Policy!ServerSets(s)
    BY <1>10, <2>1 DEF RecvState, Policy!ServerSets
  <2>3. QED
    BY <2>2 DEF Policy!Next
<1>11. ASSUME NEW r \in Requests, RecvRequest(r) PROVE [Policy!Next]_Policy!vars
  <2>1. pc # "app"
    BY <1>11 DEF RecvRequest, PolicyInv, Stopped
  <2>2. Policy!ServerAsks(r)
    BY <1>11, <2>1 DEF RecvRequest, Policy!ServerAsks
  <2>3. QED
    BY <2>2 DEF Policy!Next
<1>12. CASE AppReturns
  <2>1. Policy!Start
    BY <1>a, <1>12, RestartStarts DEF AppReturns, TypeOK
  <2>2. Policy!Return
    BY <1>12, <2>1 DEF AppReturns, Policy!Return
  <2>3. QED
    BY <2>2 DEF Policy!Next
<1>13. CASE PowerCut
  <2>1. ota0' \in {"valid", "broken"} /\ st' = st /\ Restart /\ bootpart' = bootpart
    BY <1>a, <1>13 DEF PowerCut, TypeOK
  <2>2. Policy!Start
    BY <1>a, <2>1, RestartStarts
  <2>3. CASE ota0' = ota0
    BY <2>1, <2>2, <2>3 DEF Policy!Next, Policy!Restart
  <2>4. CASE ota0' # ota0
    <3>1. /\ pc = "ota" /\ serving # "nothing" /\ ota0' = "broken"
          /\ "ota" \in pending \/ st = "forcefwdownload"
      BY <1>a, <1>13, <2>4 DEF PowerCut, PolicyInv, Decided
    <3>2. Policy!Download
      BY <2>1, <2>2, <3>1 DEF Policy!Download
    <3>3. QED
      BY <3>2 DEF Policy!Next
  <2>5. QED
    BY <2>3, <2>4
<1>14. CASE UNCHANGED vars
  <2>1. Hidden
    BY <1>14 DEF vars, Hidden
  <2>2. QED
    BY <2>1, HiddenStutters
<1>15. QED
  BY <1>1, <1>2, <1>3, <1>4, <1>5, <1>6, <1>7, <1>8, <1>9, <1>10, <1>11, <1>12,
     <1>13, <1>14
  DEF Next, Main, Environment

(* Without faults the state is the server's, and what runs follows from    *)
(* state and requests, whatever messages, outages and power cuts do: every *)
(* behaviour is one of BootPolicy.                                         *)
THEOREM BootImplements == ASSUME MaxFaults = 0 PROVE Spec => ImplementsPolicy
<1>1. Init => PolicyInv
  BY InitInv DEF Init, PolicyInv, Stopped, Decided, Unasked
<1>2. Init => Policy!Init
  BY DEF Init, Policy!Init
<1>3. QED
  BY <1>1, <1>2, PolicyInvStep, PolicyStep, PTL DEF Spec, ImplementsPolicy, Policy!Spec
=============================================================================
