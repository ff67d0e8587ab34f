--------------------------- MODULE CertRollProofs ---------------------------
(***************************************************************************)
(* Proofs about CertRoll, for every States, MaxKey, FaultKinds and CutAt.  *)
(* TypeInv, ArmedInv, LinkAuthentic and Told hold under all faults;        *)
(* Follows when restores do not fail; FaultFree speaks of behaviours       *)
(* without faults.  Each has one step lemma; the theorems combine them.    *)
(* The last part is about PemText: what the messages carry, for texts of   *)
(* any length and every MaxPem.                                            *)
(***************************************************************************)
EXTENDS MCCertRoll, Induction, SequenceTheorems, TLAPS

(* Types, and that the client is stopped and the request fixed while main  *)
(* works on the chip.                                                      *)
TypeInv == TypeOK /\ Quiet /\ Served

(* Every step preserves the types and the control facts.                   *)
LEMMA TypeStep == TypeInv /\ [Next]_vars => TypeInv'
<1> SUFFICES ASSUME TypeInv, [Next]_vars PROVE TypeInv'
  OBVIOUS
<1>1. TypeInv'
  <2> USE StateAssumption
      DEF TypeInv, TypeOK, Quiet, Served, Slots, Foreign, BadPem, BootStates, SecData, Zeroed, PubkeyPhases, Window, CertPhases, Phases, Certs, chip, flags, tlsid, bufs, others, Up
  <2>1. CASE StateUpdate
    BY <2>1 DEF StateUpdate, Restoring, Fault
  <2>2. CASE SysInit
    BY <2>2 DEF SysInit, Restoring, Fault
  <2>3. CASE SysInitFails
    <3>1. getnextkey' \in BOOLEAN /\ certificate' \in BOOLEAN
      BY <2>3, Zenon DEF SysInitFails, Reset
    <3>2. QED
      BY <2>3, <3>1 DEF SysInitFails, Fault, Reset
  <2>4. CASE PollPubkey
    BY <2>4 DEF PollPubkey
  <2>5. CASE PollCert
    BY <2>5 DEF PollCert
  <2>6. CASE PkRestore
    BY <2>6 DEF PkRestore, Restoring, Fault
  <2>7. CASE PkRead
    BY <2>7 DEF PkRead, Fault
  <2>8. CASE PkSave
    BY <2>8 DEF PkSave, Save, Fault
  <2>9. CASE PkAnnounce
    BY <2>9 DEF PkAnnounce
  <2>10. CASE PkSend
    <3>1. getnextkey' \in BOOLEAN /\ certificate' \in BOOLEAN
      BY <2>10, Zenon DEF PkSend
    <3>2. issued' \subseteq Nat
      BY <2>10 DEF PkSend
    <3>3. QED
      BY <2>10, <3>1, <3>2 DEF PkSend
  <2>11. CASE DcCheck
    BY <2>11 DEF DcCheck, Restoring, Fault, Acceptable
  <2>12. CASE DcBackup
    BY <2>12 DEF DcBackup, Fault
  <2>13. CASE DcWrite
    BY <2>13 DEF DcWrite, WriteCert, Fault
  <2>14. CASE DcVerify
    BY <2>14 DEF DcVerify, Matches, Fault
  <2>15. CASE DcRecover
    BY <2>15 DEF DcRecover, WriteCert, Fault
  <2>16. CASE DcRecheck
    BY <2>16 DEF DcRecheck, Fault
  <2>17. CASE DcGenkey
    <3>1. key' \in [Slots -> Nat] /\ fresh' \in Nat
      BY <2>17 DEF DcGenkey, NewKey, Rolled
    <3>2. faults' \subseteq FaultKinds
      BY <2>17 DEF DcGenkey, NewKey, Rolled, Fault
    <3>3. secdata' \in SecData /\ defslot' \in Slots
      BY <2>17 DEF DcGenkey, NewKey, Rolled
    <3>4. pc' \in {"dc_save", "dc_return"} /\ said' \in {said, "success"}
      BY <2>17 DEF DcGenkey, NewKey, Rolled
    <3>5. QED
      BY <2>17, <3>1, <3>2, <3>3, <3>4 DEF DcGenkey, NewKey, Rolled
  <2>18. CASE DcSave
    BY <2>18 DEF DcSave, Save, Fault
  <2>19. CASE DcReturn
    BY <2>19 DEF DcReturn
  <2>20. CASE DcSend
    <3>1. getnextkey' \in BOOLEAN /\ certificate' \in BOOLEAN
      BY <2>20, Zenon DEF DcSend
    <3>2. QED
      BY <2>20, <3>1 DEF DcSend
  <2>21. CASE Leave
    BY <2>21 DEF Leave
  <2>22. CASE Connect
    BY <2>22 DEF Connect
  <2>23. CASE Drop
    BY <2>23 DEF Drop
  <2>24. CASE RecvPubkey
    BY <2>24 DEF RecvPubkey
  <2>25. ASSUME NEW st \in States, RecvState(st)
        PROVE  TypeInv'
    BY <2>25 DEF RecvState, Save, Fault
  <2>26. ASSUME NEW d \in Digits, RecvNoPem(d)
        PROVE  TypeInv'
    BY <2>26 DEF RecvNoPem, Digits
  <2>27. ASSUME NEW d \in Digits, NEW c \in issued \union {Foreign, BadPem},
               RecvCert(d, c)
        PROVE  TypeInv'
    BY <2>27 DEF RecvCert, Digits
  <2>28. CASE PowerCut
    <3>1. getnextkey' \in BOOLEAN /\ certificate' \in BOOLEAN
      BY <2>28, Zenon DEF PowerCut, Reset
    <3>2. faults' \subseteq FaultKinds
      BY <2>28 DEF PowerCut, Fault
    <3>3. QED
      BY <2>28, <3>1, <3>2 DEF PowerCut, Reset
  <2>29. CASE UNCHANGED vars
    BY <2>29 DEF vars
  <2>30. QED
    BY <2>1, <2>2, <2>3, <2>4, <2>5, <2>6, <2>7, <2>8, <2>9, <2>10,
       <2>11, <2>12, <2>13, <2>14, <2>15, <2>16, <2>17, <2>18,
       <2>19, <2>20, <2>21, <2>22, <2>23, <2>24, <2>25, <2>26,
       <2>27, <2>28, <2>29
    DEF Next, Main, Websocket
<1> QED BY <1>1

-----------------------------------------------------------------------------
(* What makes WindowArmed inductive.                                       *)
ArmedInv == Agrees /\ Armed

(* A stale RAM copy never passes the checks of setdevicecert: it is either *)
(* zeroed (accept mode off) or agrees with the block.                      *)
LEMMA ArmedStep == TypeInv /\ ArmedInv /\ [Next]_vars => ArmedInv'
<1> SUFFICES ASSUME TypeInv, ArmedInv, [Next]_vars PROVE ArmedInv'
  OBVIOUS
<1> USE DEF TypeInv, TypeOK, Quiet, Served, ArmedInv, Agrees, Armed, Slots, SecData, Window, CertPhases, PubkeyPhases, chip, flags, tlsid, bufs, others, Up
<1>1. CASE StateUpdate \/ SysInit
  BY <1>1 DEF StateUpdate, SysInit, Restoring
<1>2. CASE SysInitFails \/ PowerCut
  BY <1>2 DEF SysInitFails, PowerCut, Reset, Zeroed
<1>3. CASE PollPubkey \/ PollCert
  BY <1>3 DEF PollPubkey, PollCert
<1>4. CASE PkRestore \/ PkRead \/ PkAnnounce \/ PkSend
  BY <1>4 DEF PkRestore, PkRead, PkAnnounce, PkSend
<1>5. CASE PkSave
  BY <1>5 DEF PkSave
<1>6. CASE DcCheck
  BY <1>6 DEF DcCheck, Restoring, Acceptable
<1>7. CASE DcBackup \/ DcWrite
  BY <1>7 DEF DcBackup, DcWrite, WriteCert
<1>8. CASE DcVerify \/ DcRecover \/ DcRecheck \/ DcGenkey
  BY <1>8 DEF DcVerify, Matches, DcRecover, DcRecheck, DcGenkey, NewKey, Rolled, WriteCert
<1>9. CASE DcSave \/ DcReturn \/ DcSend \/ Leave
  BY <1>9 DEF DcSave, DcReturn, DcSend, Leave
<1>10. CASE Connect \/ Drop \/ RecvPubkey
  BY <1>10 DEF Connect, Drop, RecvPubkey
<1>11. ASSUME NEW st \in States, RecvState(st) PROVE ArmedInv'
  BY <1>11 DEF RecvState, Save
<1>12. ASSUME NEW d \in Digits, RecvNoPem(d) PROVE ArmedInv'
  BY <1>12 DEF RecvNoPem
<1>13. ASSUME NEW d \in Digits, NEW c \in issued \union {Foreign, BadPem},
              RecvCert(d, c)
       PROVE  ArmedInv'
  BY <1>13 DEF RecvCert
<1>14. CASE UNCHANGED vars
  BY <1>14 DEF vars
<1>15. QED
  BY <1>1, <1>2, <1>3, <1>4, <1>5, <1>6, <1>7, <1>8, <1>9, <1>10, <1>11,
     <1>12, <1>13, <1>14
  DEF Next, Main, Websocket

-----------------------------------------------------------------------------
(* Only steps of a stopped client change keys, certificate and slots.      *)
LEMMA LinkStep ==
  TypeInv /\ LinkAuthentic /\ [Next]_vars => LinkAuthentic'
<1> SUFFICES ASSUME TypeInv, LinkAuthentic, [Next]_vars PROVE LinkAuthentic'
  OBVIOUS
<1> USE DEF TypeInv, Quiet, LinkAuthentic, Authentic, chip, flags, tlsid, bufs, others, Up
<1>1. CASE SysInitFails \/ PowerCut
  BY <1>1 DEF SysInitFails, PowerCut, Reset
<1>2. CASE StateUpdate \/ SysInit
  BY <1>2 DEF StateUpdate, SysInit
<1>3. CASE PollPubkey \/ PollCert
  BY <1>3 DEF PollPubkey, PollCert
<1>4. CASE PkRestore \/ PkRead \/ PkSave \/ PkAnnounce \/ PkSend
  BY <1>4 DEF PkRestore, PkRead, PkSave, PkAnnounce, PkSend
<1>5. CASE DcCheck \/ DcBackup \/ DcWrite \/ DcVerify \/ DcRecover \/ DcRecheck
  BY <1>5 DEF DcCheck, DcBackup, DcWrite, DcVerify, Matches, DcRecover, DcRecheck
<1>6. CASE DcGenkey \/ DcSave \/ DcReturn \/ DcSend \/ Leave
  BY <1>6 DEF DcGenkey, NewKey, Rolled, DcSave, DcReturn, DcSend, Leave
<1>7. CASE Connect \/ Drop \/ RecvPubkey
  BY <1>7 DEF Connect, Drop, RecvPubkey
<1>8. ASSUME NEW st \in States, RecvState(st) PROVE LinkAuthentic'
  BY <1>8 DEF RecvState
<1>9. ASSUME NEW d \in Digits, RecvNoPem(d) PROVE LinkAuthentic'
  BY <1>9 DEF RecvNoPem
<1>10. ASSUME NEW d \in Digits, NEW c \in issued \union {Foreign, BadPem},
              RecvCert(d, c)
       PROVE  LinkAuthentic'
  BY <1>10 DEF RecvCert
<1>11. CASE UNCHANGED vars
  BY <1>11 DEF vars
<1>12. QED
  BY <1>1, <1>2, <1>3, <1>4, <1>5, <1>6, <1>7, <1>8, <1>9, <1>10, <1>11
  DEF Next, Main, Websocket

-----------------------------------------------------------------------------
(* The success message is printed for the certificate of the request, and  *)
(* the two keys of the chip always differ.                                 *)
LEMMA ToldStep == TypeInv /\ Told /\ [Next]_vars => Told'
<1> SUFFICES ASSUME TypeInv, Told, [Next]_vars PROVE Told'
  OBVIOUS
<1> USE DEF TypeInv, TypeOK, Quiet, Served, Told, Slots, SecData, Window, CertPhases, PubkeyPhases, chip, flags, tlsid, bufs, others, Up
<1>1. CASE SysInitFails \/ PowerCut
  BY <1>1 DEF SysInitFails, PowerCut, Reset
<1>2. CASE StateUpdate \/ SysInit
  BY <1>2 DEF StateUpdate, SysInit
<1>3. CASE PollPubkey \/ PollCert
  BY <1>3 DEF PollPubkey, PollCert
<1>4. CASE PkRestore \/ PkRead \/ PkSave \/ PkAnnounce \/ PkSend
  BY <1>4 DEF PkRestore, PkRead, PkSave, PkAnnounce, PkSend
<1>5. CASE DcCheck \/ DcBackup
  BY <1>5 DEF DcCheck, DcBackup
<1>6. CASE DcWrite \/ DcRecover
  BY <1>6 DEF DcWrite, DcRecover, WriteCert
<1>7. CASE DcVerify \/ DcRecheck
  BY <1>7 DEF DcVerify, Matches, DcRecheck
<1>8. CASE DcGenkey
  <2>1. \/ key' = key /\ fresh' = fresh
        \/ key' = [key EXCEPT ![defslot] = fresh] /\ fresh' = fresh + 1
    BY <1>8 DEF DcGenkey, NewKey
  <2>2. key'[0] # key'[1] /\ \A s \in Slots : key'[s] < fresh'
    BY <2>1
  <2>3. cert' = cert /\ newcert' = newcert /\ cert = newcert
        /\ pc' \in {"dc_save", "dc_return"} /\ (pc' = "dc_save" => said' = "success")
    BY <1>8 DEF DcGenkey
  <2>4. QED
    BY <2>2, <2>3
<1>9. CASE DcSave \/ DcReturn \/ DcSend \/ Leave
  BY <1>9 DEF DcSave, DcReturn, DcSend, Leave
<1>10. CASE Connect \/ Drop \/ RecvPubkey
  BY <1>10 DEF Connect, Drop, RecvPubkey
<1>11. ASSUME NEW st \in States, RecvState(st) PROVE Told'
  BY <1>11 DEF RecvState
<1>12. ASSUME NEW d \in Digits, RecvNoPem(d) PROVE Told'
  BY <1>12 DEF RecvNoPem
<1>13. ASSUME NEW d \in Digits, NEW c \in issued \union {Foreign, BadPem},
              RecvCert(d, c)
       PROVE  Told'
  BY <1>13 DEF RecvCert
<1>14. CASE UNCHANGED vars
  BY <1>14 DEF vars
<1>15. QED
  BY <1>1, <1>2, <1>3, <1>4, <1>5, <1>6, <1>7, <1>8, <1>9, <1>10, <1>11,
     <1>12, <1>13, <1>14
  DEF Next, Main, Websocket

-----------------------------------------------------------------------------
(* With restores that succeed, secdata and g_cert_def_2_device name the    *)
(* slot of the block until genkey has retired it.                          *)
LEMMA FollowsStep == TypeInv /\ Told /\ Follows /\ [Next]_vars => Follows'
<1> SUFFICES ASSUME TypeInv, Told, Follows, [Next]_vars PROVE Follows'
  OBVIOUS
<1> USE DEF TypeInv, TypeOK, Quiet, Follows, Before, SecData, Slots, chip, flags, tlsid, bufs, others, Up
<1>1. CASE SysInitFails \/ PowerCut
  BY <1>1 DEF SysInitFails, PowerCut, Reset, Fault
<1>2. CASE StateUpdate \/ SysInit
  BY <1>2 DEF StateUpdate, SysInit, Restoring, Fault
<1>3. CASE PollPubkey \/ PollCert
  BY <1>3 DEF PollPubkey, PollCert
<1>4. CASE PkRestore \/ PkRead \/ PkAnnounce \/ PkSend
  BY <1>4 DEF PkRestore, PkRead, PkAnnounce, PkSend, Restoring, Fault
<1>5. CASE PkSave
  BY <1>5 DEF PkSave, Save, Fault
<1>6. CASE DcCheck
  BY <1>6 DEF DcCheck, Restoring, Fault, Acceptable
<1>7. CASE DcBackup \/ DcVerify \/ DcRecheck
  BY <1>7 DEF DcBackup, DcVerify, Matches, DcRecheck, Fault
<1>8. CASE DcWrite \/ DcRecover
  BY <1>8 DEF DcWrite, DcRecover, WriteCert, Fault
<1>9. CASE DcGenkey
  <2>1. CASE pc' = "dc_save"
    BY <2>1
  <2>2. CASE pc' = "dc_return"
    <3>1. pc = "dc_genkey" /\ blk' = blk
      BY <1>9 DEF DcGenkey
    <3>2. secdata' = secdata /\ defslot' = defslot
      BY <1>9, <2>2 DEF DcGenkey
    <3>3. "restore" \notin faults' => "restore" \notin faults
      BY <1>9 DEF DcGenkey, Fault
    <3>4. QED
      BY <3>1, <3>2, <3>3
  <2>3. QED
    BY <1>9, <2>1, <2>2 DEF DcGenkey
<1>10. CASE DcSave
  BY <1>10 DEF DcSave, Save, Fault, Told
<1>11. CASE DcReturn \/ DcSend \/ Leave
  BY <1>11 DEF DcReturn, DcSend, Leave
<1>12. CASE Connect \/ Drop \/ RecvPubkey
  BY <1>12 DEF Connect, Drop, RecvPubkey
<1>13. ASSUME NEW st \in States, RecvState(st) PROVE Follows'
  BY <1>13 DEF RecvState, Save, Fault
<1>14. ASSUME NEW d \in Digits, RecvNoPem(d) PROVE Follows'
  BY <1>14 DEF RecvNoPem
<1>15. ASSUME NEW d \in Digits, NEW c \in issued \union {Foreign, BadPem},
              RecvCert(d, c)
       PROVE  Follows'
  BY <1>15 DEF RecvCert
<1>16. CASE UNCHANGED vars
  BY <1>16 DEF vars
<1>17. QED
  BY <1>1, <1>2, <1>3, <1>4, <1>5, <1>6, <1>7, <1>8, <1>9, <1>10, <1>11,
     <1>12, <1>13, <1>14, <1>15, <1>16
  DEF Next, Main, Websocket

(* The certificate and its replacement, as long as nothing has failed.     *)
FaultFree == faults = {} => Intact

(* A step that spends no fault preserves it; one that does makes it void.  *)
LEMMA FaultFreeStep ==
  TypeInv /\ ArmedInv /\ FaultFree /\ [Next]_vars => FaultFree'
<1> SUFFICES ASSUME TypeInv, ArmedInv, FaultFree, [Next]_vars PROVE FaultFree'
  OBVIOUS
<1> USE StateAssumption
    DEF TypeInv, TypeOK, Quiet, Served, ArmedInv, Armed, FaultFree, Intact, SecData, Slots, Window, CertPhases, PubkeyPhases, chip, flags, tlsid, bufs, others, Up
<1>1. CASE SysInitFails \/ PowerCut
  BY <1>1 DEF SysInitFails, PowerCut, Reset, Fault
<1>2. CASE StateUpdate \/ SysInit
  BY <1>2 DEF StateUpdate, SysInit, Restoring, Fault
<1>3. CASE PollPubkey \/ PollCert
  BY <1>3 DEF PollPubkey, PollCert
<1>4. CASE PkRestore \/ PkRead \/ PkAnnounce \/ PkSend
  BY <1>4 DEF PkRestore, PkRead, PkAnnounce, PkSend, Restoring, Fault
<1>5. CASE PkSave
  BY <1>5 DEF PkSave, Save, Fault
<1>6. CASE DcCheck
  BY <1>6 DEF DcCheck, Restoring, Fault, Acceptable
<1>7. CASE DcBackup \/ DcVerify \/ DcRecheck
  BY <1>7 DEF DcBackup, DcVerify, Matches, DcRecheck, Fault
<1>8. CASE DcWrite \/ DcRecover
  BY <1>8 DEF DcWrite, DcRecover, WriteCert, Fault
<1>9. CASE DcGenkey
  <2> SUFFICES ASSUME faults' = {} PROVE Intact'
    BY DEF FaultFree
  <2>1. faults = {} /\ pc' = "dc_save"
    BY <1>9 DEF DcGenkey, NewKey, Rolled, Fault
  <2>2. nextkey \in Slots /\ defslot = 1 - nextkey /\ cert = key[nextkey]
    BY <1>9, <2>1 DEF DcGenkey, NewKey, Rolled
  <2>3. key' = [key EXCEPT ![defslot] = fresh] /\ cert' = cert
        /\ secdata'.cur = nextkey /\ defslot' = nextkey /\ nextkey' = nextkey
    BY <1>9, <2>1 DEF DcGenkey, NewKey, Rolled
  <2>4. key'[nextkey] = key[nextkey]
    BY <2>2, <2>3
  <2>5. QED
    BY <2>1, <2>2, <2>3, <2>4
<1>10. CASE DcSave
  BY <1>10 DEF DcSave, Save, Fault
<1>11. CASE DcReturn \/ DcSend \/ Leave
  BY <1>11 DEF DcReturn, DcSend, Leave
<1>12. CASE Connect \/ Drop \/ RecvPubkey
  BY <1>12 DEF Connect, Drop, RecvPubkey
<1>13. ASSUME NEW st \in States, RecvState(st) PROVE FaultFree'
  BY <1>13 DEF RecvState, Save, Fault
<1>14. ASSUME NEW d \in Digits, RecvNoPem(d) PROVE FaultFree'
  BY <1>14 DEF RecvNoPem
<1>15. ASSUME NEW d \in Digits, NEW c \in issued \union {Foreign, BadPem},
              RecvCert(d, c)
       PROVE  FaultFree'
  BY <1>15 DEF RecvCert
<1>16. CASE UNCHANGED vars
  BY <1>16 DEF vars
<1>17. QED
  BY <1>1, <1>2, <1>3, <1>4, <1>5, <1>6, <1>7, <1>8, <1>9, <1>10, <1>11,
     <1>12, <1>13, <1>14, <1>15, <1>16
  DEF Next, Main, Websocket

-----------------------------------------------------------------------------
(* A provisioned device that is being switched on satisfies all of them.   *)
LEMMA InitInv ==
  Init => TypeInv /\ ArmedInv /\ LinkAuthentic /\ Follows /\ FaultFree /\ Told
<1> SUFFICES ASSUME Init
             PROVE  /\ TypeInv /\ ArmedInv /\ LinkAuthentic
                    /\ Follows /\ FaultFree /\ Told
  OBVIOUS
<1>1. TypeInv
  <2>1. getnextkey \in BOOLEAN /\ certificate \in BOOLEAN
    BY Zenon DEF Init
  <2>2. blk \in SecData /\ secdata \in SecData
    BY StateAssumption DEF Init, SecData, Zeroed, Slots, BootStates
  <2>3. key \in [Slots -> Nat] /\ issued \subseteq Nat
    BY DEF Init, Slots
  <2>4. faults \subseteq FaultKinds /\ newcert \in Certs /\ defslot \in Slots
    BY BoundAssumption DEF Init, Certs, Slots
  <2>5. pc \in Phases /\ pc = "boot" /\ ws = "stopped"
    BY DEF Init, Phases
  <2>6. TypeOK
    BY <2>1, <2>2, <2>3, <2>4, <2>5 DEF Init, TypeOK, Foreign
  <2>7. Quiet /\ Served
    BY <2>5 DEF Quiet, Served, CertPhases, Window
  <2>8. QED
    BY <2>6, <2>7 DEF TypeInv
<1>2. ArmedInv /\ Follows
  BY DEF Init, ArmedInv, Agrees, Armed, Follows, Before, Zeroed, Window
<1>3. LinkAuthentic
  BY DEF Init, LinkAuthentic
<1>4. FaultFree
  BY DEF Init, FaultFree, Intact, Window, Zeroed, Slots
<1>5. Told
  BY DEF Init, Told, Slots
<1>6. QED
  BY <1>1, <1>2, <1>3, <1>4, <1>5

(* Every reachable state is well typed, whatever fails and wherever power  *)
(* is cut; in particular the block never names a slot that does not exist. *)
THEOREM TypeCorrect == Spec => []TypeOK
<1>1. Init => TypeInv
  BY InitInv
<1>2. TypeInv /\ [Next]_vars => TypeInv'
  BY TypeStep
<1>3. TypeInv => TypeOK
  BY DEF TypeInv
<1>4. QED
  BY <1>1, <1>2, <1>3, PTL DEF Spec

(* The certificate is touched only while the block on the chip is armed    *)
(* for the slot being certified, under every choice of faults.             *)
THEOREM ArmedCorrect == Spec => []WindowArmed
<1>1. Init => TypeInv /\ ArmedInv
  BY InitInv
<1>2. TypeInv /\ ArmedInv /\ [Next]_vars => TypeInv' /\ ArmedInv'
  BY TypeStep, ArmedStep
<1>3. ArmedInv => WindowArmed
  BY DEF ArmedInv, Armed, WindowArmed
<1>4. QED
  BY <1>1, <1>2, <1>3, PTL DEF Spec

(* The credentials of an open connection are never changed under it.       *)
THEOREM LinkCorrect == Spec => []LinkAuthentic
<1>1. Init => TypeInv /\ LinkAuthentic
  BY InitInv
<1>2. TypeInv /\ LinkAuthentic /\ [Next]_vars => TypeInv' /\ LinkAuthentic'
  BY TypeStep, LinkStep
<1>3. QED
  BY <1>1, <1>2, PTL DEF Spec

(* A server that checks certificates hears of a finished roll only after   *)
(* the roll of this boot, with the certificate of the request installed,   *)
(* or when the slot of the request was current already; as long as no      *)
(* restore fails, never after a roll that stopped half way.                *)
THEOREM FinishCorrect == Spec => NoHalfRollReported
<1> DEFINE Inv == TypeInv /\ LinkAuthentic /\ ArmedInv /\ Follows /\ Told
           Honest ==
             FinishDelivered =>
               /\ keynum = nextkey /\ nextkey \in Slots /\ cert = key[nextkey]
               /\ \/ said = "success" /\ cert = newcert
                  \/ /\ said = "nothing"
                     /\ "restore" \notin faults => blk.cur = nextkey
<1>1. Init => Inv
  BY InitInv
<1>2. Inv /\ [Next]_vars => Inv'
  BY TypeStep, LinkStep, ArmedStep, FollowsStep, ToldStep
<1>3. Inv => [Honest]_vars
  <2> SUFFICES ASSUME Inv, FinishDelivered PROVE Honest
    OBVIOUS
  <2>1. pc = "dc_send" /\ ws = "trusted"
    BY DEF FinishDelivered, DcSend
  <2>2. keynum = nextkey /\ nextkey \in Slots
        /\ cert = key[nextkey] /\ cert = key[defslot]
    BY <2>1 DEF TypeInv, Served, LinkAuthentic, Authentic
  <2>3. defslot = nextkey
    <3>1. defslot \in {0, 1} /\ nextkey \in {0, 1}
      BY <2>2 DEF TypeInv, TypeOK, Slots
    <3>2. key[0] # key[1]
      BY DEF Told
    <3>3. CASE nextkey = 0
      BY <2>2, <3>1, <3>2, <3>3
    <3>4. CASE nextkey = 1
      BY <2>2, <3>1, <3>2, <3>4
    <3>5. QED
      BY <3>1, <3>3, <3>4
  <2>4. CASE said = "success"
    BY <2>1, <2>2, <2>4 DEF Told
  <2>5. CASE said = "nothing"
    <3>1. "restore" \notin faults => blk.cur = nextkey
      BY <2>1, <2>3, <2>5 DEF Follows, Before
    <3>2. QED
      BY <2>2, <2>5, <3>1
  <2>6. QED
    BY <2>4, <2>5 DEF TypeInv, TypeOK
<1>4. QED
  BY <1>1, <1>2, <1>3, PTL DEF Spec, NoHalfRollReported

(* As long as no restore fails, a key is destroyed only when the           *)
(* certificate on the chip certifies the other one.                        *)
THEOREM RetireCorrect == Spec => RetireVerified
<1> DEFINE Inv == TypeInv /\ ArmedInv /\ Told /\ Follows
           Retire == \A s \in Slots :
                       key'[s] # key[s] /\ "restore" \notin faults
                         => cert = key[1 - s]
<1>1. Init => Inv
  BY InitInv
<1>2. Inv /\ [Next]_vars => Inv'
  BY TypeStep, ArmedStep, ToldStep, FollowsStep
<1>3. Inv /\ [Next]_vars => [Retire]_vars
  <2> SUFFICES ASSUME Inv, Next PROVE Retire
    OBVIOUS
  <2>1. CASE DcGenkey
    <3>1. cert = key[nextkey] /\ nextkey \in Slots
          /\ ("restore" \notin faults => defslot = 1 - nextkey)
      BY <2>1 DEF DcGenkey, NewKey, Rolled, TypeInv, TypeOK, Served, ArmedInv, Armed, Follows,
                  Before, Window
    <3>2. \A s \in Slots : key'[s] # key[s] => s = defslot
      BY <2>1 DEF DcGenkey, NewKey, Rolled, TypeInv, TypeOK
    <3>3. QED
      BY <3>1, <3>2 DEF Slots
  <2>2. CASE ~DcGenkey
    <3>1. key' = key
      BY <2>2
      DEF Next, Main, Websocket, StateUpdate, SysInit, SysInitFails,
          PollPubkey, PollCert, PkRestore, PkRead, PkSave, PkAnnounce, PkSend,
          DcCheck, DcBackup, DcWrite, DcVerify, Matches, DcRecover, DcRecheck, DcSave,
          DcReturn, DcSend, Leave, PowerCut, Connect, Drop, RecvPubkey,
          RecvState, RecvNoPem, RecvCert, chip, others, Up
    <3>2. QED
      BY <3>1
  <2>3. QED
    BY <2>1, <2>2
<1>4. QED
  BY <1>1, <1>2, <1>3, PTL DEF Spec, RetireVerified

(* Without faults the block names the slot whose key is certified whenever *)
(* no certificate is being written, for any number of rolls.               *)
THEOREM IdentityCorrect == Spec => []IdentityIntact
<1> DEFINE Inv == TypeInv /\ ArmedInv /\ FaultFree
<1>1. Init => Inv
  BY InitInv
<1>2. Inv /\ [Next]_vars => Inv'
  BY TypeStep, ArmedStep, FaultFreeStep
<1>3. Inv => IdentityIntact
  BY DEF FaultFree, Intact, IdentityIntact
<1>4. QED
  BY <1>1, <1>2, <1>3, PTL DEF Spec

-----------------------------------------------------------------------------
(* The pieces of the refinement below: what was announced stays known, and *)
(* no step makes a key 0.                                                  *)
LEMMA AnnouncedStep ==
  TypeInv /\ FaultFree /\ Announced /\ [Next]_vars => Announced'
<1> SUFFICES ASSUME TypeInv, FaultFree, Announced, [Next]_vars PROVE Announced'
  OBVIOUS
<1> USE DEF TypeInv, TypeOK, Quiet, Served, FaultFree, Intact, Announced, SecData, Slots, Foreign, BadPem, Window, CertPhases, PubkeyPhases, chip, flags, tlsid, bufs, others, Up
<1>1. CASE SysInitFails \/ PowerCut
  BY <1>1 DEF SysInitFails, PowerCut, Reset, Fault
<1>2. CASE StateUpdate \/ SysInit
  BY <1>2 DEF StateUpdate, SysInit, Restoring, Fault
<1>3. CASE PollPubkey \/ PollCert
  BY <1>3 DEF PollPubkey, PollCert
<1>4. CASE PkRestore \/ PkRead \/ PkAnnounce
  BY <1>4 DEF PkRestore, PkRead, PkAnnounce, Restoring, Fault
<1>5. CASE PkSave
  BY <1>5 DEF PkSave, Save, Fault
<1>6. CASE PkSend
  BY <1>6 DEF PkSend
<1>7. CASE DcCheck \/ DcBackup \/ DcRecheck
  BY <1>7 DEF DcCheck, DcBackup, DcRecheck, Restoring, Fault, Acceptable
<1>8. CASE DcWrite \/ DcRecover
  BY <1>8 DEF DcWrite, DcRecover, WriteCert, Fault
<1>9. CASE DcVerify
  BY <1>9 DEF DcVerify, Matches, Fault
<1>10. CASE DcGenkey
  BY <1>10 DEF DcGenkey, NewKey, Rolled, Fault
<1>11. CASE DcSave \/ DcReturn \/ DcSend \/ Leave
  BY <1>11 DEF DcSave, Save, DcReturn, DcSend, Leave, Fault
<1>12. CASE Connect \/ Drop \/ RecvPubkey
  BY <1>12 DEF Connect, Drop, RecvPubkey
<1>13. ASSUME NEW st \in States, RecvState(st) PROVE Announced'
  BY <1>13 DEF RecvState, Save, Fault
<1>14. ASSUME NEW d \in Digits, RecvNoPem(d) PROVE Announced'
  BY <1>14 DEF RecvNoPem
<1>15. ASSUME NEW d \in Digits, NEW c \in issued \union {Foreign, BadPem},
              RecvCert(d, c)
       PROVE  Announced'
  BY <1>15 DEF RecvCert
<1>16. CASE UNCHANGED vars
  BY <1>16 DEF vars
<1>17. QED
  BY <1>1, <1>2, <1>3, <1>4, <1>5, <1>6, <1>7, <1>8, <1>9, <1>10, <1>11,
     <1>12, <1>13, <1>14, <1>15, <1>16
  DEF Next, Main, Websocket

(* The pubkey branch announces the spare key; genkey moves the device.     *)
LEMMA SendAnnounces ==
  ASSUME TypeInv, FaultFree, Announced, faults = {}, PkSend
  PROVE  \/ Identity!Announce
         \/ UNCHANGED <<Current, key, fresh, issued>>
<1>1. UNCHANGED <<key, fresh, Current>>
  BY DEF PkSend, Current, chip
<1>2. pem = key[1 - Current] /\ pem # Foreign
  BY DEF TypeInv, TypeOK, FaultFree, Intact, Announced, PkSend, Current, SecData, Slots
<1>3. issued' = issued \/ issued' = issued \union {pem}
  BY <1>2 DEF PkSend
<1>4. QED
  BY <1>1, <1>2, <1>3 DEF Identity!Announce

(* Genkey moves the device to the key that was announced.                  *)
LEMMA GenkeyMoves ==
  ASSUME TypeInv, ArmedInv, FaultFree, Announced, faults = {}, faults' = {}, DcGenkey
  PROVE  Identity!Move
<1>1. Current \in Slots /\ nextkey = 1 - Current /\ defslot = Current
  BY DEF TypeInv, TypeOK, Served, ArmedInv, Armed, FaultFree, Intact, DcGenkey, Current,
         SecData, Slots, Window
<1>2. NewKey /\ Current' = nextkey /\ issued' = issued
  BY DEF DcGenkey, Fault, Rolled, Current, TypeInv, TypeOK, SecData
<1>3. key'[nextkey] = key[nextkey] /\ key'[1 - nextkey] = fresh /\ fresh' = fresh + 1
  BY <1>1, <1>2 DEF NewKey, TypeInv, TypeOK, Slots
<1>4. key[nextkey] \in issued
  BY DEF Announced, DcGenkey
<1>5. QED
  BY <1>1, <1>2, <1>3, <1>4 DEF Identity!Move

(* Nothing else touches keys, slots or announcements.                      *)
LEMMA OthersStutter ==
  ASSUME TypeInv, FaultFree, faults = {}, faults' = {}, [Next]_vars, ~PkSend, ~DcGenkey
  PROVE  UNCHANGED <<Current, key, fresh, issued>>
<1> USE DEF Current, TypeInv, TypeOK, Quiet, FaultFree, Intact, SecData, chip, flags, tlsid, bufs, others, Up, Fault
<1>1. CASE SysInitFails \/ PowerCut
  BY <1>1 DEF SysInitFails, PowerCut, Reset, Window
<1>2. CASE StateUpdate \/ SysInit \/ PollPubkey \/ PollCert
  BY <1>2 DEF StateUpdate, SysInit, PollPubkey, PollCert
<1>3. CASE PkRestore \/ PkRead \/ PkAnnounce
  BY <1>3 DEF PkRestore, PkRead, PkAnnounce
<1>4. CASE PkSave \/ DcSave
  BY <1>4 DEF PkSave, DcSave, Save
<1>5. CASE DcCheck \/ DcBackup \/ DcVerify \/ DcRecheck
  BY <1>5 DEF DcCheck, DcBackup, DcVerify, DcRecheck
<1>6. CASE DcWrite \/ DcRecover
  BY <1>6 DEF DcWrite, DcRecover, WriteCert
<1>7. CASE DcReturn \/ DcSend \/ Leave \/ Connect \/ Drop \/ RecvPubkey
  BY <1>7 DEF DcReturn, DcSend, Leave, Connect, Drop, RecvPubkey
<1>8. ASSUME NEW st \in States, RecvState(st)
      PROVE  UNCHANGED <<Current, key, fresh, issued>>
  BY <1>8 DEF RecvState, Save
<1>9. ASSUME NEW d \in Digits, RecvNoPem(d)
      PROVE  UNCHANGED <<Current, key, fresh, issued>>
  BY <1>9 DEF RecvNoPem
<1>10. ASSUME NEW d \in Digits, NEW c \in issued \union {Foreign, BadPem},
              RecvCert(d, c)
       PROVE  UNCHANGED <<Current, key, fresh, issued>>
  BY <1>10 DEF RecvCert
<1>11. CASE UNCHANGED vars
  BY <1>11 DEF vars
<1>12. QED
  BY <1>1, <1>2, <1>3, <1>4, <1>5, <1>6, <1>7, <1>8, <1>9, <1>10, <1>11
  DEF Next, Main, Websocket

(* Without faults the whole roll, over two boots and with any requests and *)
(* resets in between, is one step of a register that moves only to a key   *)
(* it has announced.                                                       *)
THEOREM IdentityImplements ==
  ASSUME FaultKinds = {}
  PROVE  Spec => ImplementsIdentity
<1> DEFINE Inv == TypeInv /\ ArmedInv /\ FaultFree /\ Announced
           Step == Identity!Announce \/ Identity!Move
           IdVars == <<Current, key[Current], key[1 - Current], fresh, issued>>
<1>1. Init => Inv
  <2> SUFFICES ASSUME Init PROVE Announced
    BY InitInv
  <2>1. QED
    BY DEF Init, Announced, Slots, Foreign
<1>2. Inv /\ [Next]_vars => Inv'
  BY TypeStep, ArmedStep, FaultFreeStep, AnnouncedStep
<1>3. Init => Identity!Init
  BY DEF Init, Identity!Init, Current, Zeroed, Slots
<1>4. Inv /\ Inv' /\ [Next]_vars => [Step]_IdVars
  <2> SUFFICES ASSUME Inv, Inv', [Next]_vars PROVE [Step]_IdVars
    OBVIOUS
  <2>1. faults = {} /\ faults' = {}
    BY FaultKinds = {} DEF TypeInv, TypeOK
  <2>2. CASE PkSend
    BY <2>1, <2>2, SendAnnounces
  <2>3. CASE DcGenkey
    BY <2>1, <2>3, GenkeyMoves
  <2>4. CASE ~PkSend /\ ~DcGenkey
    BY <2>1, <2>4, OthersStutter
  <2>5. QED
    BY <2>2, <2>3, <2>4
<1>5. QED
  BY <1>1, <1>2, <1>3, <1>4, PTL DEF Spec, ImplementsIdentity, Identity!Spec

-----------------------------------------------------------------------------
(* The texts of the messages, of whatever length.  Sequences first.        *)
LEMMA Joined ==
  ASSUME NEW s \in Seq(Int), NEW t \in Seq(Int)
  PROVE  /\ s \o t \in Seq(Int) /\ Len(s) \in Nat /\ Len(t) \in Nat
         /\ Len(s \o t) = Len(s) + Len(t)
         /\ \A i \in 1 .. Len(s) : (s \o t)[i] = s[i]
         /\ \A i \in 1 .. Len(t) : (s \o t)[Len(s) + i] = t[i]
  OBVIOUS

(* It does not matter in which order three texts are joined.               *)
LEMMA JoinedTwice ==
  ASSUME NEW s \in Seq(Int), NEW t \in Seq(Int), NEW u \in Seq(Int)
  PROVE  (s \o t) \o u = s \o (t \o u)
<1>1. /\ Len(s) \in Nat /\ Len(t) \in Nat /\ Len(u) \in Nat /\ s \o t \in Seq(Int)
      /\ t \o u \in Seq(Int) /\ (s \o t) \o u \in Seq(Int) /\ s \o (t \o u) \in Seq(Int)
      /\ Len(s \o t) = Len(s) + Len(t) /\ Len(t \o u) = Len(t) + Len(u)
      /\ Len((s \o t) \o u) = Len(s) + Len(t) + Len(u)
      /\ Len(s \o (t \o u)) = Len(s) + Len(t) + Len(u)
  BY Joined
<1>2. ASSUME NEW i \in 1 .. Len(s) + Len(t) + Len(u)
      PROVE  ((s \o t) \o u)[i] = (s \o (t \o u))[i]
  BY <1>1
<1>3. QED
  BY <1>1, <1>2, SeqEqual

(* A text of one character.                                                *)
LEMMA OneCharacter ==
  ASSUME NEW c \in Int
  PROVE  <<c>> \in Seq(Int) /\ Len(<<c>>) = 1 /\ <<c>>[1] = c
  OBVIOUS

(* Joining nothing changes nothing.                                        *)
LEMMA NoCharacter ==
  /\ <<>> \in Seq(Int) /\ Len(<<>>) = 0
  /\ \A s \in Seq(Int) : s \o <<>> = s /\ <<>> \o s = s
  OBVIOUS

(* The search finds the first place a text begins at, if its first         *)
(* character occurs nowhere before.                                        *)
LEMMA FindFirst ==
  ASSUME NEW text \in Seq(Int), NEW what \in Seq(Int), what # <<>>,
         NEW from \in Nat \ {0}, NEW at \in Nat, from <= at,
         at + Len(what) - 1 <= Len(text),
         SubSeq(text, at, at + Len(what) - 1) = what,
         \A k \in from .. at - 1 : text[k] # what[1]
  PROVE  Find(text, what, from) = at
<1> DEFINE last  == Len(text) - Len(what) + 1
           found == {i \in from .. last : SubSeq(text, i, i + Len(what) - 1) = what}
<1>1. Len(text) \in Nat /\ Len(what) \in Nat \ {0}
  OBVIOUS
<1>2. at \in found
  <2>1. at \in from .. last
    BY <1>1
  <2>2. QED
    BY <2>1
<1>3. ASSUME NEW k \in found PROVE at <= k
  <2>1. SUFFICES ASSUME ~ (at <= k) PROVE FALSE
    OBVIOUS
  <2>2. k \in Nat \ {0} /\ k \in from .. at - 1 /\ SubSeq(text, k, k + Len(what) - 1) = what
    BY <1>1, <2>1
  <2>3. SubSeq(text, k, k + Len(what) - 1)[1] = text[k]
    <3>1. k + Len(what) - 1 <= Len(text) /\ k + Len(what) - 1 >= k
      BY <1>1
    <3> DEFINE z == k + Len(what) - 1
    <3>2. z \in Int /\ k <= z /\ z <= Len(text) /\ k >= 1
      BY <1>1, <2>2, <3>1
    <3> HIDE DEF z
    <3>3. SubSeq(text, k, z)[1] = text[k]
      BY <1>1, <2>2, <3>2
    <3>4. QED
      BY <3>3 DEF z
  <2>4. QED
    BY <2>2, <2>3
<1>4. Find(text, what, from) = CHOOSE i \in found : \A k \in found : i <= k
  <2>1. found # {}
    BY <1>2
  <2>2. QED
    BY <2>1 DEF Find
<1>5. \A i \in found : (\A k \in found : i <= k) => i = at
  <2>1. ASSUME NEW i \in found, \A k \in found : i <= k PROVE i = at
    <3>1. i \in Int /\ i <= at /\ at <= i
      <4>1. i \in from .. last
        OBVIOUS
      <4> HIDE DEF found
      <4>2. QED
        BY <1>1, <1>2, <1>3, <2>1, <4>1
    <3>2. QED
      BY <3>1
  <2>2. QED
    BY <2>1
<1> HIDE DEF found
<1>6. QED
  BY <1>2, <1>3, <1>4, <1>5

(* Without that character nothing is found.                                *)
LEMMA FindNone ==
  ASSUME NEW text \in Seq(Int), NEW what \in Seq(Int), what # <<>>,
         NEW from \in Nat \ {0}, \A k \in from .. Len(text) : text[k] # what[1]
  PROVE  Find(text, what, from) = 0
<1> DEFINE last  == Len(text) - Len(what) + 1
           found == {i \in from .. last : SubSeq(text, i, i + Len(what) - 1) = what}
<1>1. Len(text) \in Nat /\ Len(what) \in Nat \ {0}
  OBVIOUS
<1>2. ASSUME NEW k \in found PROVE FALSE
  <2>1. k \in Nat \ {0} /\ k \in from .. Len(text) /\ SubSeq(text, k, k + Len(what) - 1) = what
    BY <1>1
  <2> DEFINE z == k + Len(what) - 1
  <2>2. z \in Int /\ k <= z /\ z <= Len(text) /\ k >= 1
    BY <1>1, <2>1
  <2>3. SubSeq(text, k, z) = what
    BY <2>1
  <2> HIDE DEF z
  <2>4. SubSeq(text, k, z)[1] = text[k]
    BY <1>1, <2>1, <2>2
  <2>5. QED
    BY <2>1, <2>3, <2>4
<1>3. QED
  BY <1>2 DEF Find

-----------------------------------------------------------------------------
(* What is written for one character of a text.                            *)
Piece(c, char, as) == IF c = char THEN as ELSE <<c>>

(* A piece is a text.                                                      *)
LEMMA PieceType ==
  ASSUME NEW c \in Int, NEW char, NEW as \in Seq(Int)
  PROVE  Piece(c, char, as) \in Seq(Int)
  BY OneCharacter DEF Piece

(* The beginnings of a spelled text.                                       *)
IsSpelled(spelled, text, char, as) ==
  /\ spelled[0] = <<>>
  /\ \A n \in 0 .. Len(text) : spelled[n] \in Seq(Int)
  /\ \A n \in 1 .. Len(text) : spelled[n] = spelled[n - 1] \o Piece(text[n], char, as)

(* SpellUpTo computes the beginnings, piece by piece.                      *)
LEMMA SpellLoop ==
  ASSUME NEW text \in Seq(Int), NEW char, NEW as \in Seq(Int)
  PROVE  IsSpelled(SpellUpTo(text, char, as), text, char, as)
<1> DEFINE N       == Len(text)
           next(t, n) == t \o Piece(text[n], char, as)
           pass    == [n \in 1 .. N |-> [t \in Seq(Int) |-> next(t, n)]]
           body(f) == [n \in 0 .. N |->
                         IF n = 0 THEN <<>>
                         ELSE f[n - 1] \o (IF text[n] = char THEN as ELSE <<text[n]>>)]
           spelled == SpellUpTo(text, char, as)
<1>0. N \in Nat /\ <<>> \in Seq(Int) /\ \A n \in 1 .. N : text[n] \in Int
  OBVIOUS
<1>1. pass \in [1 .. N -> [Seq(Int) -> Seq(Int)]]
  <2>1. ASSUME NEW t \in Seq(Int), NEW n \in 1 .. N PROVE next(t, n) \in Seq(Int)
    <3>1. Piece(text[n], char, as) \in Seq(Int)
      BY <1>0, PieceType
    <3>2. QED
      BY <3>1, Joined
  <2> HIDE DEF next
  <2>2. QED
    BY <2>1
<1>2. PICK f \in [0 .. N -> Seq(Int)] : IsLoop(f, N, <<>>, pass)
  <2> HIDE DEF pass, N
  <2> QED
    BY <1>0, <1>1, LoopExists
<1>3. f = body(f)
  <2>1. ASSUME NEW n \in 0 .. N
        PROVE  f[n] = IF n = 0 THEN <<>>
                      ELSE f[n - 1] \o (IF text[n] = char THEN as ELSE <<text[n]>>)
    <3>1. CASE n = 0
      BY <1>2, <3>1 DEF IsLoop
    <3>2. CASE n # 0
      <4>1. n \in 1 .. N /\ n - 1 \in 0 .. N
        BY <1>0, <3>2
      <4>2. f[n] = pass[n][f[n - 1]] /\ f[n - 1] \in Seq(Int)
        <5> HIDE DEF pass, N
        <5> QED
          BY <1>2, <4>1 DEF IsLoop
      <4>3. pass[n][f[n - 1]] = next(f[n - 1], n)
        <5> HIDE DEF next, N
        <5> QED
          BY <4>1, <4>2
      <4>4. QED
        BY <3>2, <4>2, <4>3 DEF Piece
    <3>3. QED
      BY <3>1, <3>2
  <2> HIDE DEF N
  <2>2. QED
    BY <2>1
<1>4. spelled = CHOOSE g : g = body(g)
  BY DEF SpellUpTo
<1>5. spelled = body(spelled)
  <2> HIDE DEF body, spelled
  <2> QED
    BY <1>3, <1>4
<1> HIDE DEF spelled
<1>6. ASSUME NEW n \in 0 .. N
      PROVE  spelled[n] = IF n = 0 THEN <<>> ELSE next(spelled[n - 1], n)
  <2>1. spelled[n] = body(spelled)[n]
    <3> HIDE DEF body
    <3> QED
      BY <1>5
  <2> HIDE DEF N
  <2>2. QED
    BY <2>1 DEF Piece
<1>7. spelled[0] = <<>>
  BY <1>0, <1>6
<1>8. \A n \in 0 .. N : spelled[n] \in Seq(Int)
  <2> DEFINE S == {n \in 0 .. N : spelled[n] \in Seq(Int)}
  <2> HIDE DEF N
  <2>1. 0 \in S
    <3>1. 0 \in 0 .. N /\ spelled[0] \in Seq(Int)
      BY <1>0, <1>7
    <3>2. QED
      BY <3>1, Zenon
  <2>2. ASSUME NEW n \in 1 .. N, n - 1 \in S PROVE n \in S
    <3>1. n \in 0 .. N /\ n # 0 /\ spelled[n - 1] \in Seq(Int)
      BY <1>0, <2>2
    <3>2. spelled[n] = next(spelled[n - 1], n)
      BY <1>6, <3>1
    <3>3. Piece(text[n], char, as) \in Seq(Int)
      BY <1>0, PieceType
    <3>a. spelled[n - 1] \o Piece(text[n], char, as) \in Seq(Int)
      BY <3>1, <3>3, Joined
    <3>4. spelled[n] \in Seq(Int)
      BY <3>2, <3>a
    <3>5. QED
      BY <3>1, <3>4
  <2>3. 0 .. N \subseteq S
    <3> HIDE DEF S
    <3> QED
      BY <1>0, <2>1, <2>2, InductTo
  <2>4. QED
    BY <2>3
<1>9. ASSUME NEW n \in 1 .. N
      PROVE  spelled[n] = next(spelled[n - 1], n)
  <2>1. n \in 0 .. N /\ n # 0
    BY <1>0
  <2> HIDE DEF next
  <2>2. QED
    BY <1>6, <2>1
<1>10. QED
  BY <1>7, <1>8, <1>9 DEF IsSpelled, spelled

(* What of a spelled text is behind the first characters.                  *)
IsRest(rest, text, char, as) ==
  /\ rest \in [0 .. Len(text) -> Seq(Int)]
  /\ rest[Len(text)] = <<>>
  /\ \A n \in 1 .. Len(text) : rest[n - 1] = Piece(text[n], char, as) \o rest[n]
  /\ \A n \in 0 .. Len(text) : SpellUpTo(text, char, as)[n] \o rest[n] = Spell(text, char, as)

(* Every spelled text has its rests: what is written is both together.     *)
LEMMA RestExists ==
  ASSUME NEW text \in Seq(Int), NEW char, NEW as \in Seq(Int)
  PROVE  \E rest : IsRest(rest, text, char, as)
<1> DEFINE N       == Len(text)
           one(n)  == Piece(text[n], char, as)
           pass    == [n \in 1 .. N |-> [t \in Seq(Int) |-> one(N - n + 1) \o t]]
           spelled == SpellUpTo(text, char, as)
<1>0. N \in Nat /\ <<>> \in Seq(Int) /\ \A n \in 1 .. N : text[n] \in Int
  OBVIOUS
<1>1. \A n \in 1 .. N : one(n) \in Seq(Int)
  BY <1>0, PieceType
<1>2. /\ spelled[0] = <<>> /\ \A n \in 0 .. N : spelled[n] \in Seq(Int)
      /\ \A n \in 1 .. N : spelled[n] = spelled[n - 1] \o one(n)
  BY SpellLoop DEF IsSpelled
<1>a. Spell(text, char, as) = spelled[N]
  BY DEF Spell
<1> HIDE DEF N, one, spelled
<1>3. pass \in [1 .. N -> [Seq(Int) -> Seq(Int)]]
  <2>1. ASSUME NEW t \in Seq(Int), NEW n \in 1 .. N PROVE one(N - n + 1) \o t \in Seq(Int)
    <3>1. N - n + 1 \in 1 .. N
      BY <1>0
    <3>2. one(N - n + 1) \in Seq(Int)
      BY <1>1, <3>1
    <3>3. QED
      BY <3>2
  <2>2. QED
    BY <2>1
<1>4. PICK r \in [0 .. N -> Seq(Int)] : IsLoop(r, N, <<>>, pass)
  <2> HIDE DEF pass
  <2> QED
    BY <1>0, <1>3, LoopExists
<1> DEFINE rest == [n \in 0 .. N |-> r[N - n]]
<1>5. rest \in [0 .. N -> Seq(Int)] /\ rest[N] = <<>>
  <2>1. r[0] = <<>>
    BY <1>4 DEF IsLoop
  <2>2. \A n \in 0 .. N : N - n \in 0 .. N
    BY <1>0
  <2>3. N \in 0 .. N /\ N - N = 0
    BY <1>0
  <2>4. QED
    BY <2>1, <2>2, <2>3
<1>6. ASSUME NEW n \in 1 .. N PROVE rest[n - 1] = one(n) \o rest[n]
  <2>1. /\ n - 1 \in 0 .. N /\ n \in 0 .. N /\ N - (n - 1) \in 1 .. N
        /\ N - (n - 1) - 1 = N - n /\ N - n \in 0 .. N /\ N - (N - (n - 1)) + 1 = n
    BY <1>0
  <2> DEFINE m == N - (n - 1)
  <2>2. r[m] = pass[m][r[m - 1]]
    <3> HIDE DEF pass, m
    <3>1. m \in 1 .. N
      BY <2>1 DEF m
    <3>2. QED
      BY <1>4, <3>1 DEF IsLoop
  <2>3. r[m - 1] = rest[n] /\ r[m - 1] \in Seq(Int) /\ r[m] = rest[n - 1]
    BY <2>1
  <2>4. pass[m][r[m - 1]] = one(n) \o r[m - 1]
    BY <2>1, <2>3
  <2>5. QED
    BY <2>2, <2>3, <2>4
<1> HIDE DEF rest
<1> DEFINE S == {n \in 0 .. N : spelled[n] \o rest[n] = spelled[0] \o rest[0]}
<1>7. 0 \in S
  <2>1. 0 \in 0 .. N
    BY <1>0
  <2>2. QED
    BY <2>1, Zenon
<1>8. ASSUME NEW n \in 1 .. N, n - 1 \in S PROVE n \in S
  <2>a. n \in 0 .. N /\ n - 1 \in 0 .. N
    BY <1>0
  <2>1. /\ n \in 0 .. N /\ n - 1 \in 0 .. N /\ spelled[n - 1] \in Seq(Int) /\ rest[n] \in Seq(Int)
        /\ one(n) \in Seq(Int)
    BY <1>1, <1>2, <1>5, <2>a, Zenon
  <2>2. spelled[n] \o rest[n] = (spelled[n - 1] \o one(n)) \o rest[n]
    BY <1>2
  <2>3. (spelled[n - 1] \o one(n)) \o rest[n] = spelled[n - 1] \o (one(n) \o rest[n])
    BY <2>1, JoinedTwice
  <2>4. spelled[n - 1] \o (one(n) \o rest[n]) = spelled[n - 1] \o rest[n - 1]
    BY <1>6
  <2>5. QED
    BY <1>8, <2>1, <2>2, <2>3, <2>4
<1>9. \A n \in 0 .. N : spelled[n] \o rest[n] = spelled[0] \o rest[0]
  <2>1. 0 .. N \subseteq S
    <3> HIDE DEF S
    <3> QED
      BY <1>0, <1>7, <1>8, InductTo
  <2>2. QED
    BY <2>1
<1>10. spelled[0] \o rest[0] = spelled[N]
  <2>1. N \in 0 .. N /\ spelled[N] \in Seq(Int)
    BY <1>0, <1>2
  <2>2. spelled[N] \o rest[N] = spelled[N]
    BY <1>5, <2>1, ConcatEmptySeq
  <2>3. QED
    BY <1>9, <2>1, <2>2
<1>11. IsRest(rest, text, char, as)
  BY <1>5, <1>6, <1>9, <1>10, <1>a DEF IsRest, N, one, spelled
<1>12. QED
  BY <1>11

(* Beyond characters that are written as themselves, what is replaced so   *)
(* far and what is left make the same text.                                *)
LEMMA Advance ==
  ASSUME NEW text \in Seq(Int), NEW char, NEW what \in Seq(Int), NEW with \in Seq(Int),
         NEW done, IsSpelled(done, text, char, with),
         NEW rest, IsRest(rest, text, char, what),
         NEW i \in 0 .. Len(text), NEW j \in i .. Len(text),
         \A k \in i + 1 .. j : text[k] # char
  PROVE  done[i] \o rest[i] = done[j] \o rest[j] /\ Len(done[i]) <= Len(done[j])
<1> DEFINE N    == Len(text)
           S    == {d \in 0 .. j - i : /\ done[i] \o rest[i] = done[i + d] \o rest[i + d]
                                       /\ Len(done[i]) <= Len(done[i + d])}
<1>0. N \in Nat /\ \A n \in 1 .. N : text[n] \in Int
  OBVIOUS
<1>1. /\ \A n \in 0 .. N : done[n] \in Seq(Int)
      /\ \A n \in 1 .. N : done[n] = done[n - 1] \o Piece(text[n], char, with)
  BY DEF IsSpelled
<1>2. /\ \A n \in 0 .. N : rest[n] \in Seq(Int)
      /\ \A n \in 1 .. N : rest[n - 1] = Piece(text[n], char, what) \o rest[n]
  BY DEF IsRest
<1>a. i \in 0 .. N /\ j \in i .. N
  OBVIOUS
<1> HIDE DEF N
<1>3. 0 \in S
  <2>1. i + 0 = i /\ 0 \in 0 .. j - i /\ i \in 0 .. N
    BY <1>0, <1>a
  <2>2. Len(done[i]) \in Nat
    BY <1>1, <2>1, Joined
  <2>3. /\ done[i] \o rest[i] = done[i + 0] \o rest[i + 0]
        /\ Len(done[i]) <= Len(done[i + 0])
    BY <2>1, <2>2
  <2>4. QED
    BY <2>1, <2>3, Zenon
<1>4. ASSUME NEW d \in 1 .. j - i, d - 1 \in S PROVE d \in S
  <2> DEFINE n == i + d
  <2>1. n \in 1 .. N /\ n \in 0 .. N /\ n - 1 \in 0 .. N /\ i + (d - 1) = n - 1 /\ i \in 0 .. N
        /\ n \in i + 1 .. j /\ d \in 0 .. j - i
    BY <1>0, <1>a
  <2>2. /\ done[i] \o rest[i] = done[n - 1] \o rest[n - 1]
        /\ Len(done[i]) <= Len(done[n - 1])
    BY <1>4, <2>1
  <2> HIDE DEF n
  <2>3. text[n] # char /\ text[n] \in Int
    BY <1>0, <2>1
  <2> DEFINE one == <<text[n]>>
  <2>4. done[n] = done[n - 1] \o one /\ rest[n - 1] = one \o rest[n]
    BY <1>1, <1>2, <2>1, <2>3 DEF Piece
  <2>a. one \in Seq(Int) /\ Len(one) = 1
    BY <2>3, OneCharacter
  <2> HIDE DEF one
  <2>5. done[n - 1] \in Seq(Int) /\ rest[n] \in Seq(Int) /\ done[i] \in Seq(Int)
    BY <1>1, <1>2, <2>1
  <2>6. (done[n - 1] \o one) \o rest[n] = done[n - 1] \o (one \o rest[n])
    <3>1. PICK s \in Seq(Int) : s = done[n - 1]
      BY <2>5
    <3>2. PICK t \in Seq(Int) : t = one
      BY <2>a
    <3>3. PICK u \in Seq(Int) : u = rest[n]
      BY <2>5
    <3>4. (s \o t) \o u = s \o (t \o u)
      BY JoinedTwice
    <3>5. QED
      BY <3>1, <3>2, <3>3, <3>4
  <2>7. /\ Len(done[n - 1] \o one) = Len(done[n - 1]) + Len(one)
        /\ Len(done[n - 1]) \in Nat /\ Len(done[i]) \in Nat
    BY <2>5, <2>a, Joined, Zenon
  <2>8. done[i] \o rest[i] = done[n] \o rest[n] /\ Len(done[i]) <= Len(done[n])
    BY <2>2, <2>4, <2>6, <2>7, <2>a
  <2>9. QED
    BY <2>1, <2>8 DEF n
<1>5. j - i \in S
  <2>1. j - i \in Nat /\ j - i \in 0 .. j - i
    BY <1>0, <1>a
  <2>2. 0 .. j - i \subseteq S
    <3> HIDE DEF S
    <3> QED
      BY <1>3, <1>4, <2>1, InductTo
  <2>3. QED
    BY <2>1, <2>2
<1>6. i + (j - i) = j
  BY <1>0, <1>a
<1>7. QED
  BY <1>5, <1>6

(* A character that is nowhere in what is written is nowhere in the text.  *)
LEMMA SpelledWith ==
  ASSUME NEW text \in Seq(Int), NEW char, NEW as \in Seq(Int), NEW B,
         NEW spelled, IsSpelled(spelled, text, char, as),
         \A n \in 1 .. Len(text) : text[n] # char => text[n] \in B,
         \A k \in 1 .. Len(as) : as[k] \in B
  PROVE  \A n \in 0 .. Len(text) : \A k \in 1 .. Len(spelled[n]) : spelled[n][k] \in B
<1> DEFINE N       == Len(text)
           S == {n \in 0 .. N : \A k \in 1 .. Len(spelled[n]) : spelled[n][k] \in B}
<1>0. N \in Nat /\ \A n \in 1 .. N : text[n] \in Int
  OBVIOUS
<1>1. /\ spelled[0] = <<>> /\ \A n \in 0 .. N : spelled[n] \in Seq(Int)
      /\ \A n \in 1 .. N : spelled[n] = spelled[n - 1] \o Piece(text[n], char, as)
  BY DEF IsSpelled
<1>2. \A n \in 1 .. N : text[n] # char => text[n] \in B
  OBVIOUS
<1> HIDE DEF N
<1>3. 0 \in S
  BY <1>0, <1>1, NoCharacter
<1>4. ASSUME NEW n \in 1 .. N, n - 1 \in S PROVE n \in S
  <2> DEFINE s   == spelled[n - 1]
             one == Piece(text[n], char, as)
  <2>a. n \in 0 .. N /\ n - 1 \in 0 .. N /\ text[n] \in Int
    BY <1>0
  <2>1. /\ n \in 0 .. N /\ s \in Seq(Int) /\ one \in Seq(Int) /\ spelled[n] = s \o one
        /\ \A k \in 1 .. Len(s) : s[k] \in B
    BY <1>1, <1>4, <2>a, PieceType, Zenon
  <2>2. \A k \in 1 .. Len(one) : one[k] \in B
    <3>1. CASE text[n] = char
      BY <3>1 DEF Piece
    <3>2. CASE text[n] # char
      <4>1. one = <<text[n]>> /\ text[n] \in B
        BY <1>2, <3>2 DEF Piece
      <4>2. Len(one) = 1 /\ one[1] = text[n]
        BY <4>1
      <4> HIDE DEF one
      <4>3. QED
        BY <4>1, <4>2
    <3>3. QED
      BY <3>1, <3>2
  <2> HIDE DEF s, one
  <2>3. ASSUME NEW k \in 1 .. Len(spelled[n]) PROVE spelled[n][k] \in B
    <3>1. Len(s) \in Nat /\ Len(one) \in Nat /\ k \in 1 .. Len(s) + Len(one)
      BY <2>1, Joined
    <3>2. CASE k <= Len(s)
      <4>1. k \in 1 .. Len(s) /\ (s \o one)[k] = s[k]
        BY <2>1, <3>1, <3>2, Joined
      <4>2. QED
        BY <2>1, <4>1
    <3>3. CASE ~ (k <= Len(s))
      <4> DEFINE m == k - Len(s)
      <4>1. m \in 1 .. Len(one) /\ k = Len(s) + m
        BY <3>1, <3>3
      <4> HIDE DEF m
      <4>2. (s \o one)[Len(s) + m] = one[m]
        BY <2>1, <4>1, Joined
      <4>3. QED
        BY <2>1, <2>2, <4>1, <4>2
    <3>4. QED
      BY <3>2, <3>3
  <2>4. QED
    BY <2>1, <2>3
<1>5. 0 .. N \subseteq S
  <2> HIDE DEF S
  <2> QED
    BY <1>0, <1>3, <1>4, InductTo
<1>6. QED
  BY <1>5 DEF N

(* A text that agrees with a part of another one is that part.             *)
LEMMA Part ==
  ASSUME NEW t \in Seq(Int), NEW w \in Seq(Int), NEW a \in Nat, a + Len(w) <= Len(t),
         \A i \in 1 .. Len(w) : t[a + i] = w[i]
  PROVE  SubSeq(t, a + 1, a + Len(w)) = w
<1>1. Len(t) \in Nat /\ Len(w) \in Nat /\ \A i \in 1 .. Len(t) : t[i] \in Int
  OBVIOUS
<1> DEFINE b    == Len(w)
           part == SubSeq(t, a + 1, a + b)
<1>2. b \in Nat /\ a + b <= Len(t)
  BY <1>1
<1> HIDE DEF b
<1>3. /\ part \in Seq(Int) /\ Len(part) = b
      /\ \A i \in 1 .. b : part[i] = t[a + i]
  BY <1>1, <1>2
<1> HIDE DEF part
<1>4. Len(part) = Len(w) /\ \A i \in 1 .. Len(part) : part[i] = w[i]
  BY <1>3 DEF b
<1>5. part = w
  BY <1>3, <1>4, SeqEqual
<1>6. QED
  BY <1>5 DEF part, b

(* A text is in another one at a place, between two others.                *)
IsBetween(all, at, s, t, u) ==
  /\ at + Len(t) - 1 <= Len(all)
  /\ SubSeq(all, at, at + Len(t) - 1) = t
  /\ SubSeq(all, 1, at - 1) = s
  /\ SubSeq(all, at + Len(t), Len(all)) = u

(* Joined with two others, it is between them.                             *)
LEMMA TakenOut ==
  ASSUME NEW s \in Seq(Int), NEW t \in Seq(Int), NEW u \in Seq(Int),
         NEW all \in Seq(Int), all = s \o (t \o u), NEW at \in Int, at = Len(s) + 1
  PROVE  IsBetween(all, at, s, t, u)
<1> DEFINE a == Len(s)
           b == Len(t)
           c == Len(u)
<1>1. /\ a \in Nat /\ b \in Nat /\ c \in Nat /\ t \o u \in Seq(Int) /\ all \in Seq(Int)
      /\ Len(t \o u) = b + c /\ Len(all) = a + b + c
  BY Joined
<1>2. /\ \A i \in 1 .. a : all[i] = s[i]
      /\ \A i \in 1 .. b + c : all[a + i] = (t \o u)[i]
      /\ \A i \in 1 .. b : (t \o u)[i] = t[i]
      /\ \A i \in 1 .. c : (t \o u)[b + i] = u[i]
  <2>1. /\ \A i \in 1 .. Len(s) : all[i] = s[i]
        /\ \A i \in 1 .. Len(t \o u) : all[Len(s) + i] = (t \o u)[i]
    <3>1. /\ \A i \in 1 .. Len(s) : (s \o (t \o u))[i] = s[i]
          /\ \A i \in 1 .. Len(t \o u) : (s \o (t \o u))[Len(s) + i] = (t \o u)[i]
      BY <1>1, Joined, Zenon
    <3>2. QED
      BY <3>1, Zenon
  <2>2. /\ \A i \in 1 .. Len(t) : (t \o u)[i] = t[i]
        /\ \A i \in 1 .. Len(u) : (t \o u)[Len(t) + i] = u[i]
    BY <1>1, Joined, Zenon
  <2>3. QED
    BY <1>1, <2>1, <2>2, Zenon
<1>3. /\ \A i \in 1 .. b : all[a + i] = t[i]
      /\ \A i \in 1 .. c : all[a + b + i] = u[i]
  <2>1. ASSUME NEW i \in 1 .. b PROVE all[a + i] = t[i]
    <3>1. i \in 1 .. b + c
      BY <1>1
    <3>2. QED
      BY <1>2, <3>1
  <2>2. ASSUME NEW i \in 1 .. c PROVE all[a + b + i] = u[i]
    <3>1. b + i \in 1 .. b + c /\ a + (b + i) = a + b + i
      BY <1>1
    <3>2. all[a + (b + i)] = (t \o u)[b + i]
      BY <1>2, <3>1
    <3>3. QED
      BY <1>2, <3>1, <3>2
  <2>3. QED
    BY <2>1, <2>2
<1>a. /\ s \in Seq(Int) /\ t \in Seq(Int) /\ u \in Seq(Int) /\ all \in Seq(Int)
      /\ \A i \in 1 .. a + b + c : all[i] \in Int
  BY <1>1
<1>b. Len(s) = a /\ Len(t) = b /\ Len(u) = c
  OBVIOUS
<1> HIDE DEF a, b, c
<1>4. SubSeq(all, a + 1, a + b) = t
  <2>1. a + b <= Len(all)
    BY <1>1
  <2>2. QED
    BY <1>1, <1>3, <1>a, <1>b, <2>1, Part
<1>5. SubSeq(all, 1, a) = s
  <2>1. 0 + a <= Len(all) /\ 0 \in Nat
    BY <1>1
  <2>2. \A i \in 1 .. a : all[0 + i] = s[i]
    BY <1>1, <1>2
  <2>3. SubSeq(all, 0 + 1, 0 + a) = s
    BY <1>1, <1>a, <1>b, <2>1, <2>2, Part
  <2>4. 0 + 1 = 1 /\ 0 + a = a
    BY <1>1
  <2>5. QED
    BY <2>3, <2>4
<1>6. SubSeq(all, a + b + 1, a + b + c) = u
  <2>1. a + b \in Nat /\ a + b + c <= Len(all)
    BY <1>1
  <2>2. QED
    BY <1>1, <1>3, <1>a, <1>b, <2>1, Part
<1>7. /\ a + 1 + b - 1 = a + b /\ a + 1 - 1 = a /\ a + 1 + b = a + b + 1
      /\ a + 1 + b - 1 <= a + b + c
  BY <1>1
<1>8. QED
  BY <1>1, <1>4, <1>5, <1>6, <1>7, <1>b DEF IsBetween

(* A text of which the first i characters have been replaced.              *)
ReplacedTo(state, done, rest, i) ==
  state.text = done[i] \o rest[i] /\ state.from \in 1 .. Len(done[i]) + 1

(* A pass keeps the text a text and the place a place.                     *)
LEMMA ReplaceType ==
  ASSUME NEW state \in [text : Seq(Int), from : Nat \ {0}],
         NEW what \in Seq(Int), NEW with \in Seq(Int)
  PROVE  Replace(state, what, with) \in [text : Seq(Int), from : Nat \ {0}]
<1> DEFINE text == state.text
           at   == Find(text, what, state.from)
           left == SubSeq(text, 1, at - 1)
           right == SubSeq(text, at + Len(what), Len(text))
<1>1. CASE at = 0
  BY <1>1 DEF Replace
<1>2. CASE at # 0
  <2>1. text \in Seq(Int) /\ state.from \in Nat \ {0} /\ Len(text) \in Nat
        /\ Len(what) \in Nat
    OBVIOUS
  <2>2. at \in Nat \ {0} /\ at - 1 <= Len(text) - Len(what)
    <3> DEFINE last  == Len(text) - Len(what) + 1
               found == {i \in state.from .. last : SubSeq(text, i, i + Len(what) - 1) = what}
    <3>1. found \subseteq Nat
      BY <2>1
    <3>2. found # {} /\ at = CHOOSE i \in found : \A k \in found : i <= k
      BY <1>2 DEF Find
    <3>3. PICK m \in found : \A k \in found : m <= k
      <4> HIDE DEF found
      <4>1. QED
        BY <3>1, <3>2, Least
    <3>4. at \in found
      <4> HIDE DEF found, at
      <4>1. QED
        BY <3>2, <3>3
    <3>5. at \in state.from .. last
      BY <3>4
    <3>6. QED
      BY <2>1, <3>5
  <2> HIDE DEF at
  <2>3. left \in Seq(Int) /\ right \in Seq(Int)
    <3>1. PICK t \in Seq(Int) : t = text
      BY <2>1
    <3>2. \A i \in 1 .. at - 1 : t[i] \in Int
      BY <2>1, <2>2, <3>1
    <3>3. \A i \in at + Len(what) .. Len(t) : t[i] \in Int
      BY <2>1, <2>2, <3>1
    <3>4. SubSeq(t, 1, at - 1) \in Seq(Int)
      BY <2>2, <3>2, SubSeqProperties
    <3>5. SubSeq(t, at + Len(what), Len(t)) \in Seq(Int)
      BY <2>1, <2>2, <3>1, <3>3, SubSeqProperties
    <3>6. QED
      BY <3>1, <3>4, <3>5
  <2>4. Replace(state, what, with) = [text |-> left \o with \o right, from |-> at]
    BY <1>2 DEF Replace, at
  <2> HIDE DEF left, right, text
  <2>5. left \o with \o right \in Seq(Int)
    BY <2>3
  <2>6. QED
    BY <2>2, <2>4, <2>5
<1>3. QED
  BY <1>1, <1>2

(* One pass replaces the first character left that is to be replaced, or   *)
(* there is none.                                                          *)
LEMMA PassRight ==
  ASSUME NEW text \in Seq(Int), NEW char, NEW what \in Seq(Int), NEW with \in Seq(Int),
         what # <<>>,
         \A n \in 1 .. Len(text) : text[n] # char => text[n] # what[1],
         \A k \in 1 .. Len(with) : with[k] # what[1],
         NEW done, IsSpelled(done, text, char, with),
         NEW rest, IsRest(rest, text, char, what),
         NEW state \in [text : Seq(Int), from : Nat \ {0}], NEW i \in 0 .. Len(text),
         ReplacedTo(state, done, rest, i)
  PROVE  \E j \in 0 .. Len(text) :
            /\ j > i \/ j = Len(text)
            /\ ReplacedTo(Replace(state, what, with), done, rest, j)
<1> DEFINE N    == Len(text)
           left == {k \in i + 1 .. N : text[k] = char}
<1>0. N \in Nat /\ i \in 0 .. N /\ \A n \in 1 .. N : text[n] \in Int
  OBVIOUS
<1>1. /\ \A n \in 0 .. N : done[n] \in Seq(Int)
      /\ \A n \in 1 .. N : done[n] = done[n - 1] \o Piece(text[n], char, with)
  BY DEF IsSpelled
<1>2. /\ \A n \in 0 .. N : rest[n] \in Seq(Int)
      /\ \A n \in 1 .. N : rest[n - 1] = Piece(text[n], char, what) \o rest[n]
      /\ rest[N] = <<>>
  BY DEF IsRest
<1>3. \A n \in 0 .. N : \A k \in 1 .. Len(done[n]) : done[n][k] # what[1]
  <2> DEFINE B == {c \in Int : c # what[1]}
  <2>1. /\ \A n \in 1 .. N : text[n] # char => text[n] \in B
        /\ \A k \in 1 .. Len(with) : with[k] \in B
    <3>1. ASSUME NEW n \in 1 .. N, text[n] # char PROVE text[n] \in B
      <4>1. text[n] \in Int /\ text[n] # what[1]
        BY <1>0, <3>1
      <4>2. QED
        BY <4>1
    <3>2. ASSUME NEW k \in 1 .. Len(with) PROVE with[k] \in B
      <4>1. with[k] \in Int /\ with[k] # what[1]
        OBVIOUS
      <4>2. QED
        BY <4>1
    <3> HIDE DEF B
    <3>3. QED
      BY <3>1, <3>2
  <2> HIDE DEF B
  <2>2. \A n \in 0 .. N : \A k \in 1 .. Len(done[n]) : done[n][k] \in B
    BY <2>1, SpelledWith, Zenon
  <2>3. QED
    BY <2>2 DEF B
<1>4. state.text = done[i] \o rest[i] /\ state.from \in 1 .. Len(done[i]) + 1
  BY DEF ReplacedTo
<1>5. state.from \in Nat \ {0}
  OBVIOUS
<1>6. CASE left = {}
  <2>1. done[i] \o rest[i] = done[N] \o rest[N] /\ Len(done[i]) <= Len(done[N])
    <3>1. \A k \in i + 1 .. N : text[k] # char
      BY <1>6
    <3>2. N \in i .. N
      BY <1>0
    <3>3. QED
      BY <3>1, <3>2, Advance, Zenon
  <2>2. N \in 0 .. N /\ done[N] \in Seq(Int) /\ done[i] \in Seq(Int)
    BY <1>0, <1>1
  <2> HIDE DEF N, left
  <2>3. PICK t \in Seq(Int) : t = done[N]
    BY <2>2
  <2>4. PICK s \in Seq(Int) : s = done[i]
    BY <2>2
  <2>5. state.text = t
    BY <1>2, <1>4, <2>1, <2>3
  <2>6. state.from \in 1 .. Len(t) + 1
    BY <1>4, <2>1, <2>3, <2>4
  <2>7. Find(t, what, state.from) = 0
    <3>1. ASSUME NEW k \in state.from .. Len(t) PROVE t[k] # what[1]
      <4>1. k \in 1 .. Len(t)
        BY <1>5
      <4>2. QED
        BY <1>3, <2>2, <2>3, <4>1, Zenon
    <3>2. QED
      BY <1>5, <3>1, FindNone
  <2>8. Replace(state, what, with) = state
    BY <2>5, <2>7 DEF Replace
  <2>9. ReplacedTo(state, done, rest, N)
    BY <1>4, <2>1, <2>3, <2>6 DEF ReplacedTo
  <2>10. QED
    BY <2>2, <2>8, <2>9 DEF N
<1>7. CASE left # {}
  <2>1. PICK m \in left : \A k \in left : m <= k
    <3>1. left \in SUBSET Nat
      BY <1>0
    <3> HIDE DEF left
    <3>2. QED
      BY <1>7, <3>1, Least
  <2>2. /\ m \in 1 .. N /\ m - 1 \in i .. N /\ m - 1 \in 0 .. N /\ m \in 0 .. N /\ m > i
        /\ text[m] = char
    BY <1>0, <2>1
  <2>3. \A k \in i + 1 .. m - 1 : text[k] # char
    <3>1. ASSUME NEW k \in i + 1 .. m - 1, text[k] = char PROVE FALSE
      <4>1. k \in i + 1 .. N /\ ~ (m <= k)
        BY <1>0, <2>2
      <4>2. k \in left
        BY <3>1, <4>1
      <4>3. QED
        BY <2>1, <4>1, <4>2
    <3>2. QED
      BY <3>1
  <2>4. /\ done[i] \o rest[i] = done[m - 1] \o rest[m - 1]
        /\ Len(done[i]) <= Len(done[m - 1])
    BY <2>2, <2>3, Advance, Zenon
  <2> HIDE DEF N, left
  <2>5. PICK s \in Seq(Int) : s = done[m - 1]
    BY <1>1, <2>2
  <2>6. PICK u \in Seq(Int) : u = rest[m]
    BY <1>2, <2>2
  <2>7. PICK t \in Seq(Int) : t = s \o (what \o u)
    BY Joined
  <2>8. rest[m - 1] = what \o u /\ done[m] = s \o with
    BY <1>1, <1>2, <2>2, <2>5, <2>6 DEF Piece
  <2>9. state.text = t
    BY <1>4, <2>4, <2>5, <2>7, <2>8
  <2>b. Len(s) \in Nat
    BY Joined
  <2>a. PICK at \in Int : at = Len(s) + 1
    BY <2>b
  <2>c. IsBetween(t, at, s, what, u)
    BY <2>7, <2>a, TakenOut
  <2>10. /\ at + Len(what) - 1 <= Len(t)
         /\ SubSeq(t, at, at + Len(what) - 1) = what
         /\ SubSeq(t, 1, at - 1) = s
         /\ SubSeq(t, at + Len(what), Len(t)) = u
    BY <2>c DEF IsBetween
  <2>11. /\ at \in Nat /\ state.from <= at /\ Len(s) \in Nat
    <3>1. PICK d \in Seq(Int) : d = done[i]
      BY <1>0, <1>1
    <3>2. Len(d) \in Nat /\ Len(s) \in Nat
      OBVIOUS
    <3>3. state.from \in 1 .. Len(d) + 1 /\ Len(d) <= Len(s)
      BY <1>4, <2>4, <2>5, <3>1, Zenon
    <3> DEFINE a == Len(s)
               b == Len(d)
               c == state.from
    <3>4. a \in Nat /\ b \in Nat /\ c \in 1 .. b + 1 /\ b <= a
      BY <3>2, <3>3
    <3> HIDE DEF a, b, c
    <3>5. a + 1 \in Nat /\ c <= a + 1
      BY <3>4
    <3>6. QED
      BY <2>a, <3>2, <3>5 DEF a, c
  <2>12. \A k \in state.from .. at - 1 : t[k] # what[1]
    <3>1. ASSUME NEW k \in state.from .. at - 1 PROVE t[k] # what[1]
      <4>1. k \in 1 .. Len(s)
        BY <1>5, <2>11, <2>a
      <4>2. what \o u \in Seq(Int)
        BY Joined
      <4>3. t[k] = s[k]
        BY <2>7, <4>1, <4>2, Joined
      <4>4. QED
        BY <1>3, <2>2, <2>5, <4>1, <4>3
    <3>2. QED
      BY <3>1
  <2>13. Find(t, what, state.from) = at
    BY <1>5, <2>10, <2>11, <2>12, FindFirst
  <2>14. Replace(state, what, with) = [text |-> s \o with \o u, from |-> at]
    <3>1. at # 0
      BY <2>11
    <3>2. QED
      BY <2>9, <2>10, <2>13, <3>1 DEF Replace
  <2>15. Len(s \o with) = Len(s) + Len(with) /\ Len(with) \in Nat
    BY Joined
  <2>16. at \in 1 .. Len(done[m]) + 1
    <3> DEFINE l == Len(s \o with)
    <3>1. l \in Nat /\ at \in 1 .. l + 1
      BY <2>11, <2>15, <2>a
    <3>2. QED
      BY <2>8, <3>1
  <2>17. ReplacedTo([text |-> s \o with \o u, from |-> at], done, rest, m)
    BY <2>6, <2>8, <2>16 DEF ReplacedTo
  <2>18. QED
    BY <2>2, <2>14, <2>17 DEF N
<1>8. QED
  BY <1>6, <1>7

(* The passes of the loop of replace_str_all.                              *)
IsReplacing(after, text, what, with) ==
  /\ after[0] = [text |-> text, from |-> 1]
  /\ \A n \in 0 .. Len(text) : after[n] \in [text : Seq(Int), from : Nat \ {0}]
  /\ \A n \in 1 .. Len(text) : after[n] = Replace(after[n - 1], what, with)

(* ReplaceUpTo computes the passes.                                        *)
LEMMA ReplaceLoop ==
  ASSUME NEW text \in Seq(Int), NEW what \in Seq(Int), NEW with \in Seq(Int)
  PROVE  IsReplacing(ReplaceUpTo(text, what, with), text, what, with)
<1> DEFINE N       == Len(text)
           State   == [text : Seq(Int), from : Nat \ {0}]
           next(s) == Replace(s, what, with)
           base    == [text |-> text, from |-> 1]
           pass    == [n \in 1 .. N |-> [s \in State |-> next(s)]]
           body(f) == [n \in 0 .. N |->
                         IF n = 0 THEN [text |-> text, from |-> 1]
                         ELSE Replace(f[n - 1], what, with)]
           after   == ReplaceUpTo(text, what, with)
<1>0. N \in Nat /\ base \in State
  OBVIOUS
<1>a. \A s \in State : next(s) \in State
  BY ReplaceType
<1>1. pass \in [1 .. N -> [State -> State]]
  <2> HIDE DEF next, State
  <2>1. QED
    BY <1>a
<1>2. PICK f \in [0 .. N -> State] : IsLoop(f, N, base, pass)
  <2> HIDE DEF pass, N, State, base
  <2> QED
    BY <1>0, <1>1, LoopExists
<1>3. f = body(f)
  <2>1. ASSUME NEW n \in 0 .. N
        PROVE  f[n] = IF n = 0 THEN base ELSE next(f[n - 1])
    <3>1. CASE n = 0
      BY <1>2, <3>1 DEF IsLoop
    <3>2. CASE n # 0
      <4>1. n \in 1 .. N /\ n - 1 \in 0 .. N
        BY <1>0, <3>2
      <4>2. f[n] = pass[n][f[n - 1]] /\ f[n - 1] \in State
        <5> HIDE DEF pass, N, State, base
        <5> QED
          BY <1>2, <4>1 DEF IsLoop
      <4>3. pass[n][f[n - 1]] = next(f[n - 1])
        <5> HIDE DEF next, N, State
        <5> QED
          BY <4>1, <4>2
      <4> HIDE DEF pass, next
      <4>4. QED
        BY <3>2, <4>2, <4>3
    <3>3. QED
      BY <3>1, <3>2
  <2> HIDE DEF N
  <2>2. QED
    BY <2>1
<1>4. after = CHOOSE g : g = body(g)
  BY DEF ReplaceUpTo
<1>5. after = body(after)
  <2> HIDE DEF body, after
  <2> QED
    BY <1>3, <1>4
<1> HIDE DEF after
<1>6. ASSUME NEW n \in 0 .. N
      PROVE  after[n] = IF n = 0 THEN base ELSE next(after[n - 1])
  <2>1. after[n] = body(after)[n]
    <3> HIDE DEF body
    <3> QED
      BY <1>5
  <2> HIDE DEF N
  <2>2. QED
    BY <2>1
<1>7. after[0] = base
  <2>1. 0 \in 0 .. N
    BY <1>0
  <2> HIDE DEF base, next, N
  <2>2. QED
    BY <1>6, <2>1
<1> HIDE DEF base, State, next, N
<1>8. ASSUME NEW n \in 1 .. N
      PROVE  after[n] = next(after[n - 1]) /\ n \in 0 .. N /\ n - 1 \in 0 .. N
  <2>1. n \in 0 .. N /\ n # 0 /\ n - 1 \in 0 .. N
    BY <1>0
  <2>2. QED
    BY <1>6, <2>1
<1>9. \A n \in 0 .. N : after[n] \in State
  <2> DEFINE S == {n \in 0 .. N : after[n] \in State}
  <2>1. 0 \in S
    <3>1. 0 \in 0 .. N /\ after[0] \in State
      BY <1>0, <1>7
    <3>2. QED
      BY <3>1, Zenon
  <2>2. ASSUME NEW n \in 1 .. N, n - 1 \in S PROVE n \in S
    <3>1. after[n - 1] \in State
      BY <2>2
    <3>2. QED
      BY <1>8, <1>a, <3>1
  <2>3. 0 .. N \subseteq S
    <3> HIDE DEF S
    <3> QED
      BY <1>0, <2>1, <2>2, InductTo
  <2>4. QED
    BY <2>3
<1>10. QED
  BY <1>7, <1>8, <1>9 DEF IsReplacing, base, State, next, N, after

(* A text that is not empty has a first character.                         *)
LEMMA NotEmpty ==
  ASSUME NEW s \in Seq(Int), s # <<>>
  PROVE  Len(s) \in Nat \ {0} /\ s[1] \in Int
  OBVIOUS

(* A text is at least as long as before, if nothing in it is removed.      *)
LEMMA SpelledLong ==
  ASSUME NEW text \in Seq(Int), NEW char, NEW as \in Seq(Int), as # <<>>,
         NEW spelled, IsSpelled(spelled, text, char, as)
  PROVE  \A n \in 0 .. Len(text) : n <= Len(spelled[n])
<1> DEFINE N == Len(text)
           S == {n \in 0 .. N : n <= Len(spelled[n])}
<1>0. N \in Nat /\ \A n \in 1 .. N : text[n] \in Int
  OBVIOUS
<1>a. Len(as) \in Nat \ {0}
  BY NotEmpty
<1>1. /\ spelled[0] = <<>> /\ \A n \in 0 .. N : spelled[n] \in Seq(Int)
      /\ \A n \in 1 .. N : spelled[n] = spelled[n - 1] \o Piece(text[n], char, as)
  BY DEF IsSpelled
<1> HIDE DEF N
<1>2. 0 \in S
  <2>1. 0 \in 0 .. N /\ Len(spelled[0]) = 0
    BY <1>0, <1>1, NoCharacter
  <2>2. QED
    BY <2>1
<1>3. ASSUME NEW n \in 1 .. N, n - 1 \in S PROVE n \in S
  <2>1. n \in 0 .. N /\ n - 1 \in 0 .. N /\ text[n] \in Int
    BY <1>0
  <2>2. PICK s \in Seq(Int) : s = spelled[n - 1]
    BY <1>1, <2>1
  <2>3. PICK one \in Seq(Int) : one = Piece(text[n], char, as)
    BY <2>1, PieceType
  <2>4. Len(one) \in Nat \ {0}
    <3>1. CASE text[n] = char
      BY <1>a, <2>3, <3>1 DEF Piece
    <3>2. CASE text[n] # char
      BY <2>1, <2>3, <3>2, OneCharacter DEF Piece
    <3>3. QED
      BY <3>1, <3>2
  <2>5. Len(s) \in Nat /\ Len(s \o one) = Len(s) + Len(one)
    BY Joined
  <2>6. n - 1 <= Len(s)
    BY <1>3, <2>2
  <2>7. spelled[n] = s \o one
    BY <1>1, <2>2, <2>3
  <2>8. n <= Len(spelled[n])
    BY <2>4, <2>5, <2>6, <2>7
  <2>9. QED
    BY <2>1, <2>8
<1>4. 0 .. N \subseteq S
  <2> HIDE DEF S
  <2> QED
    BY <1>0, <1>2, <1>3, InductTo
<1>5. QED
  BY <1>4 DEF N

(* Replacing what a text is spelled with, everywhere, spells it with what  *)
(* is put there: a character is only found where it was meant.             *)
LEMMA ReplaceSpelled ==
  ASSUME NEW text \in Seq(Int), NEW char, NEW what \in Seq(Int), NEW with \in Seq(Int),
         what # <<>>,
         \A n \in 1 .. Len(text) : text[n] # char => text[n] # what[1],
         \A k \in 1 .. Len(with) : with[k] # what[1]
  PROVE  ReplaceStrAll(Spell(text, char, what), what, with) = Spell(text, char, with)
<1> DEFINE N == Len(text)
<1>0. N \in Nat
  OBVIOUS
<1>1. PICK done : done = SpellUpTo(text, char, with)
  OBVIOUS
<1>2. IsSpelled(done, text, char, with)
  BY <1>1, SpellLoop
<1>3. PICK rest : IsRest(rest, text, char, what)
  BY RestExists
<1>4. PICK first : first = SpellUpTo(text, char, what)
  OBVIOUS
<1>5. IsSpelled(first, text, char, what)
  BY <1>4, SpellLoop
<1>6. first[N] \in Seq(Int) /\ N <= Len(first[N]) /\ Spell(text, char, what) = first[N]
  <2>1. N \in 0 .. N
    BY <1>0
  <2>2. N <= Len(first[N])
    BY <1>5, <2>1, SpelledLong, Zenon
  <2>3. first[N] \in Seq(Int)
    BY <1>5, <2>1 DEF IsSpelled
  <2>4. QED
    BY <1>4, <2>2, <2>3 DEF Spell
<1>7. PICK all \in Seq(Int) : all = first[N]
  BY <1>6
<1>8. PICK after : after = ReplaceUpTo(all, what, with)
  OBVIOUS
<1>9. IsReplacing(after, all, what, with)
  BY <1>8, ReplaceLoop
<1> DEFINE M == Len(all)
           S == {n \in 0 .. M : \E i \in 0 .. N : /\ i >= n \/ i = N
                                                  /\ ReplacedTo(after[n], done, rest, i)}
<1>10. M \in Nat /\ N <= M
  BY <1>6, <1>7
<1>11. 0 \in S
  <2>1. rest[0] = all
    <3>1. first[0] = <<>> /\ 0 \in 0 .. N
      BY <1>0, <1>5 DEF IsSpelled
    <3>2. first[0] \o rest[0] = all /\ rest[0] \in Seq(Int)
      BY <1>3, <1>4, <1>6, <1>7, <3>1 DEF IsRest
    <3>3. QED
      BY <3>1, <3>2, NoCharacter
  <2>2. done[0] = <<>> /\ Len(<<>>) = 0
    BY <1>2 DEF IsSpelled
  <2>3. after[0].text = done[0] \o rest[0]
    <3>1. after[0].text = all
      BY <1>9 DEF IsReplacing
    <3>2. <<>> \o all = all
      BY NoCharacter
    <3>3. QED
      BY <2>1, <2>2, <3>1, <3>2
  <2>4. after[0].from = 1 /\ 1 \in 1 .. Len(done[0]) + 1
    BY <1>9, <2>2 DEF IsReplacing
  <2>5. ReplacedTo(after[0], done, rest, 0)
    BY <2>3, <2>4 DEF ReplacedTo
  <2>6. 0 \in 0 .. N /\ 0 \in 0 .. M /\ 0 >= 0
    BY <1>0, <1>10
  <2>7. QED
    BY <2>5, <2>6
<1>12. ASSUME NEW n \in 1 .. M, n - 1 \in S PROVE n \in S
  <2>1. PICK i \in 0 .. N : (i >= n - 1 \/ i = N) /\ ReplacedTo(after[n - 1], done, rest, i)
    BY <1>12
  <2>2. n - 1 \in 0 .. M /\ n \in 0 .. M
    BY <1>10
  <2>3. PICK state \in [text : Seq(Int), from : Nat \ {0}] : state = after[n - 1]
    BY <1>9, <2>2 DEF IsReplacing
  <2>4. PICK j \in 0 .. N : /\ j > i \/ j = N
                            /\ ReplacedTo(Replace(state, what, with), done, rest, j)
    BY <1>2, <1>3, <2>1, <2>3, PassRight, Zenon
  <2>5. after[n] = Replace(state, what, with)
    BY <1>9, <2>3 DEF IsReplacing
  <2>6. j >= n \/ j = N
    BY <1>0, <1>10, <2>1, <2>4
  <2>7. QED
    BY <2>2, <2>4, <2>5, <2>6
<1>13. 0 .. M \subseteq S
  <2> HIDE DEF S, M
  <2> QED
    BY <1>10, <1>11, <1>12, InductTo
<1>14. PICK i \in 0 .. N : (i >= M \/ i = N) /\ ReplacedTo(after[M], done, rest, i)
  <2>1. M \in 0 .. M
    BY <1>10
  <2>2. QED
    BY <1>13, <2>1
<1>15. i = N
  BY <1>0, <1>10, <1>14
<1>16. after[M].text = done[N]
  <2>1. after[M].text = done[N] \o rest[N]
    BY <1>14, <1>15 DEF ReplacedTo
  <2>2. rest[N] = <<>>
    BY <1>3 DEF IsRest
  <2>3. done[N] \in Seq(Int)
    BY <1>0, <1>2 DEF IsSpelled
  <2>4. QED
    BY <2>1, <2>2, <2>3, NoCharacter
<1>17. QED
  BY <1>1, <1>6, <1>7, <1>8, <1>16 DEF ReplaceStrAll, Spell

(* A character spelled as itself changes nothing.                          *)
LEMMA SpellSame ==
  ASSUME NEW text \in Seq(Int), NEW char \in Int
  PROVE  Spell(text, char, <<char>>) = text
<1> DEFINE N == Len(text)
<1>0. N \in Nat /\ \A n \in 1 .. N : text[n] \in Int
  OBVIOUS
<1>1. PICK done : done = SpellUpTo(text, char, <<char>>)
  OBVIOUS
<1>2. IsSpelled(done, text, char, <<char>>)
  BY <1>1, SpellLoop, OneCharacter
<1> DEFINE S == {n \in 0 .. N : /\ Len(done[n]) = n
                                /\ \A k \in 1 .. n : done[n][k] = text[k]}
<1>3. 0 \in S
  <2>1. done[0] = <<>> /\ 0 \in 0 .. N /\ Len(<<>>) = 0
    BY <1>0, <1>2 DEF IsSpelled
  <2>2. QED
    BY <2>1
<1>4. ASSUME NEW n \in 1 .. N, n - 1 \in S PROVE n \in S
  <2>1. n \in 0 .. N /\ n - 1 \in 0 .. N /\ text[n] \in Int
    BY <1>0
  <2>2. PICK s \in Seq(Int) : s = done[n - 1]
    BY <1>2, <2>1 DEF IsSpelled
  <2>3. PICK one \in Seq(Int) : one = <<text[n]>>
    BY <2>1, OneCharacter
  <2>4. Len(one) = 1 /\ one[1] = text[n] /\ Piece(text[n], char, <<char>>) = one
    BY <2>1, <2>3, OneCharacter DEF Piece
  <2>5. PICK t \in Seq(Int) : t = s \o one
    BY Joined
  <2>6. done[n] = t
    BY <1>2, <2>2, <2>4, <2>5 DEF IsSpelled
  <2>7. Len(s) = n - 1 /\ \A k \in 1 .. n - 1 : s[k] = text[k]
    BY <1>4, <2>2
  <2>8. /\ Len(t) = Len(s) + 1 /\ \A k \in 1 .. Len(s) : t[k] = s[k]
        /\ t[Len(s) + 1] = text[n]
    <3>1. /\ Len(t) = Len(s) + Len(one) /\ \A k \in 1 .. Len(s) : t[k] = s[k]
          /\ \A k \in 1 .. Len(one) : t[Len(s) + k] = one[k]
      <4>1. /\ Len(s \o one) = Len(s) + Len(one)
            /\ \A k \in 1 .. Len(s) : (s \o one)[k] = s[k]
            /\ \A k \in 1 .. Len(one) : (s \o one)[Len(s) + k] = one[k]
        BY Joined, Zenon
      <4>2. QED
        BY <2>5, <4>1, Zenon
    <3>2. 1 \in 1 .. Len(one)
      BY <2>4
    <3>3. QED
      BY <2>4, <3>1, <3>2
  <2>9. Len(t) = n /\ \A k \in 1 .. n : t[k] = text[k]
    <3>1. Len(t) = n /\ t[n] = text[n] /\ \A k \in 1 .. n - 1 : t[k] = text[k]
      <4>1. (n - 1) + 1 = n
        BY <1>0
      <4>2. QED
        BY <2>7, <2>8, <4>1
    <3>2. ASSUME NEW k \in 1 .. n PROVE t[k] = text[k]
      <4>1. k = n \/ k \in 1 .. n - 1
        BY <1>0
      <4>2. QED
        BY <3>1, <4>1
    <3>3. QED
      BY <3>1, <3>2
  <2>10. QED
    BY <2>1, <2>6, <2>9
<1>5. N \in S
  <2>1. 0 .. N \subseteq S
    <3> HIDE DEF S, N
    <3> QED
      BY <1>0, <1>3, <1>4, InductTo
  <2>2. N \in 0 .. N
    BY <1>0
  <2>3. QED
    BY <2>1, <2>2
<1>6. PICK all \in Seq(Int) : all = done[N]
  BY <1>0, <1>2 DEF IsSpelled
<1>7. Len(all) = Len(text) /\ \A k \in 1 .. Len(all) : all[k] = text[k]
  BY <1>5, <1>6
<1>8. all = text
  BY <1>7, SeqEqual
<1>9. QED
  BY <1>1, <1>6, <1>8 DEF Spell

(* A text is spelled part by part.                                         *)
SpelledApart(x, s, t, char, as) ==
  Spell(x, char, as) = Spell(s, char, as) \o Spell(t, char, as)

(* Joined texts are.                                                       *)
LEMMA SpellJoined ==
  ASSUME NEW s \in Seq(Int), NEW t \in Seq(Int), NEW char, NEW as \in Seq(Int)
  PROVE  SpelledApart(s \o t, s, t, char, as)
<1> DEFINE a == Len(s)
           b == Len(t)
<1>0. a \in Nat /\ b \in Nat
  OBVIOUS
<1>1. PICK x \in Seq(Int) : x = s \o t
  BY Joined
<1>2. /\ Len(x) = a + b /\ \A n \in 1 .. a : x[n] = s[n]
      /\ \A n \in 1 .. b : x[a + n] = t[n]
  BY <1>1, Joined
<1>3. PICK f : f = SpellUpTo(s, char, as)
  OBVIOUS
<1>4. PICK g : g = SpellUpTo(t, char, as)
  OBVIOUS
<1>5. PICK h : h = SpellUpTo(x, char, as)
  OBVIOUS
<1>6. /\ f[0] = <<>> /\ \A n \in 0 .. a : f[n] \in Seq(Int)
      /\ \A n \in 1 .. a : f[n] = f[n - 1] \o Piece(s[n], char, as)
  BY <1>3, SpellLoop DEF IsSpelled
<1>7. /\ g[0] = <<>> /\ \A n \in 0 .. b : g[n] \in Seq(Int)
      /\ \A n \in 1 .. b : g[n] = g[n - 1] \o Piece(t[n], char, as)
  BY <1>4, SpellLoop DEF IsSpelled
<1>8. /\ h[0] = <<>> /\ \A n \in 1 .. a + b : h[n] = h[n - 1] \o Piece(x[n], char, as)
  <2>1. IsSpelled(h, x, char, as)
    BY <1>5, SpellLoop
  <2>2. QED
    BY <1>2, <2>1 DEF IsSpelled
<1>t. \A n \in 1 .. b : t[n] \in Int
  OBVIOUS
<1> HIDE DEF a, b
<1> DEFINE S == {n \in 0 .. a : h[n] = f[n]}
           T == {n \in 0 .. b : h[a + n] = f[a] \o g[n]}
<1>9. 0 .. a \subseteq S
  <2>1. 0 \in S
    BY <1>0, <1>6, <1>8
  <2>2. ASSUME NEW n \in 1 .. a, n - 1 \in S PROVE n \in S
    <3>1. n \in 0 .. a /\ n \in 1 .. a + b
      BY <1>0
    <3>2. h[n] = h[n - 1] \o Piece(x[n], char, as)
      BY <1>8, <3>1
    <3>3. h[n - 1] = f[n - 1]
      BY <2>2
    <3>4. QED
      BY <1>2, <1>6, <3>1, <3>2, <3>3
  <2> HIDE DEF S
  <2>3. QED
    BY <1>0, <2>1, <2>2, InductTo
<1>10. a \in 0 .. a /\ b \in 0 .. b
  BY <1>0
<1>11. PICK p \in Seq(Int) : p = f[a]
  BY <1>6, <1>10
<1>j. \A v, w \in Seq(Int) : (p \o v) \o w = p \o (v \o w)
  BY JoinedTwice
<1>12. 0 .. b \subseteq T
  <2>1. 0 \in T
    <3>1. h[a] = p
      BY <1>9, <1>10, <1>11
    <3>2. p \o <<>> = p
      BY NoCharacter
    <3>3. a + 0 = a /\ 0 \in 0 .. b
      BY <1>0
    <3>4. QED
      BY <1>7, <1>11, <3>1, <3>2, <3>3
  <2>2. ASSUME NEW n \in 1 .. b, n - 1 \in T PROVE n \in T
    <3>1. n \in 0 .. b /\ n - 1 \in 0 .. b /\ a + n \in 1 .. a + b /\ (a + n) - 1 = a + (n - 1)
      BY <1>0
    <3>2. h[a + n] = h[a + (n - 1)] \o Piece(t[n], char, as)
      <4>1. h[a + n] = h[(a + n) - 1] \o Piece(x[a + n], char, as)
        BY <1>8, <3>1
      <4>2. x[a + n] = t[n]
        BY <1>2
      <4>3. QED
        BY <3>1, <4>1, <4>2
    <3>3. h[a + (n - 1)] = p \o g[n - 1]
      BY <1>11, <2>2
    <3>4. PICK q \in Seq(Int) : q = g[n - 1]
      BY <1>7, <3>1
    <3>5. PICK one \in Seq(Int) : one = Piece(t[n], char, as)
      BY <1>t, PieceType
    <3>6. (p \o q) \o one = p \o (q \o one)
      BY <1>j
    <3>7. h[a + n] = (p \o q) \o one
      BY <3>2, <3>3, <3>4, <3>5
    <3>8. g[n] = q \o one
      BY <1>7, <3>4, <3>5
    <3>9. QED
      BY <1>11, <3>1, <3>6, <3>7, <3>8
  <2> HIDE DEF T
  <2>3. QED
    BY <1>0, <2>1, <2>2, InductTo
<1>13. h[a + b] = f[a] \o g[b]
  BY <1>10, <1>12
<1>14. QED
  BY <1>1, <1>2, <1>3, <1>4, <1>5, <1>13 DEF SpelledApart, Spell, a, b

(* One character is spelled as its piece.                                  *)
LEMMA SpellOne ==
  ASSUME NEW c \in Int, NEW char, NEW as \in Seq(Int)
  PROVE  Spell(<<c>>, char, as) = Piece(c, char, as)
<1>1. PICK s \in Seq(Int) : s = <<c>>
  BY OneCharacter
<1>2. Len(s) = 1 /\ s[1] = c
  BY <1>1, OneCharacter
<1>3. PICK f : f = SpellUpTo(s, char, as)
  OBVIOUS
<1>4. /\ f[0] = <<>> /\ \A n \in 1 .. 1 : f[n] = f[n - 1] \o Piece(s[n], char, as)
  <2>1. IsSpelled(f, s, char, as)
    BY <1>3, SpellLoop
  <2>2. QED
    BY <1>2, <2>1 DEF IsSpelled
<1>5. f[1] = <<>> \o Piece(c, char, as)
  <2>1. 1 \in 1 .. 1 /\ 1 - 1 = 0
    OBVIOUS
  <2>2. QED
    BY <1>2, <1>4, <2>1
<1>6. QED
  BY <1>1, <1>2, <1>3, <1>5, PieceType, NoCharacter DEF Spell

(* The characters of the second of three texts that are joined.            *)
LEMMA InTheMiddle ==
  ASSUME NEW p \in Seq(Int), NEW q \in Seq(Int), NEW r \in Seq(Int)
  PROVE  /\ Len(p) \in Nat /\ Len(q) \in Nat /\ Len(p \o q) = Len(p) + Len(q)
         /\ Len(p) + Len(q) <= Len(p \o (q \o r))
         /\ \A k \in 1 .. Len(q) : (p \o (q \o r))[Len(p) + k] = q[k]
<1>1. /\ Len(p) \in Nat /\ Len(q) \in Nat /\ Len(r) \in Nat /\ Len(p \o q) = Len(p) + Len(q)
      /\ q \o r \in Seq(Int) /\ Len(q \o r) = Len(q) + Len(r)
      /\ \A k \in 1 .. Len(q) : (q \o r)[k] = q[k]
  BY Joined
<1>2. PICK t \in Seq(Int) : t = q \o r
  BY <1>1
<1>3. /\ Len(p \o t) = Len(p) + Len(t)
      /\ \A k \in 1 .. Len(t) : (p \o t)[Len(p) + k] = t[k]
  BY Joined
<1>4. Len(t) = Len(q) + Len(r) /\ \A k \in 1 .. Len(q) : t[k] = q[k]
  BY <1>1, <1>2
<1>5. ASSUME NEW k \in 1 .. Len(q) PROVE (p \o t)[Len(p) + k] = q[k]
  <2>1. k \in 1 .. Len(t)
    BY <1>1, <1>4
  <2>2. QED
    BY <1>3, <1>4, <2>1
<1>6. QED
  BY <1>1, <1>2, <1>3, <1>4, <1>5

(* What reads a JSON string, character by character.                       *)
IsReading(reader, text) ==
  /\ reader[0] = [read |-> <<>>, escape |-> FALSE]
  /\ \A n \in 0 .. Len(text) : reader[n] \in [read : Seq(Int), escape : BOOLEAN]
  /\ \A n \in 1 .. Len(text) : reader[n] = Unescape(reader[n - 1], text[n])

(* The reader has read a text and may be behind a backslash.               *)
LEMMA UnescapeType ==
  ASSUME NEW before \in [read : Seq(Int), escape : BOOLEAN], NEW char \in Int
  PROVE  Unescape(before, char) \in [read : Seq(Int), escape : BOOLEAN]
<1>1. /\ before.read \in Seq(Int) /\ Append(before.read, char) \in Seq(Int)
      /\ Append(before.read, Newline) \in Seq(Int)
  BY DEF Newline
<1>2. QED
  BY <1>1 DEF Unescape

(* What it does on a backslash, behind one, and otherwise.                 *)
LEMMA UnescapeSteps ==
  ASSUME NEW w \in Seq(Int), NEW char \in Int
  PROVE  /\ Unescape([read |-> w, escape |-> FALSE], Backslash) = [read |-> w, escape |-> TRUE]
         /\ Unescape([read |-> w, escape |-> TRUE], LetterN)
              = [read |-> Append(w, Newline), escape |-> FALSE]
         /\ char # Backslash => Unescape([read |-> w, escape |-> FALSE], char)
                                  = [read |-> Append(w, char), escape |-> FALSE]
  BY DEF Unescape

(* UnescapeUpTo computes what it has read.                                 *)
LEMMA UnescapeLoop ==
  ASSUME NEW text \in Seq(Int)
  PROVE  IsReading(UnescapeUpTo(text), text)
<1> DEFINE N       == Len(text)
           State   == [read : Seq(Int), escape : BOOLEAN]
           next(s, n) == Unescape(s, text[n])
           base    == [read |-> <<>>, escape |-> FALSE]
           pass    == [n \in 1 .. N |-> [s \in State |-> next(s, n)]]
           body(f) == [n \in 0 .. N |->
                         IF n = 0 THEN [read |-> <<>>, escape |-> FALSE]
                         ELSE Unescape(f[n - 1], text[n])]
           reader  == UnescapeUpTo(text)
<1>0. N \in Nat /\ base \in State /\ \A n \in 1 .. N : text[n] \in Int
  OBVIOUS
<1>a. \A s \in State, n \in 1 .. N : next(s, n) \in State
  BY <1>0, UnescapeType
<1>1. pass \in [1 .. N -> [State -> State]]
  <2> HIDE DEF next, State
  <2>1. QED
    BY <1>a
<1>2. PICK f \in [0 .. N -> State] : IsLoop(f, N, base, pass)
  <2> HIDE DEF pass, N, State, base
  <2> QED
    BY <1>0, <1>1, LoopExists
<1>3. f = body(f)
  <2>1. ASSUME NEW n \in 0 .. N
        PROVE  f[n] = IF n = 0 THEN base ELSE next(f[n - 1], n)
    <3>1. CASE n = 0
      BY <1>2, <3>1 DEF IsLoop
    <3>2. CASE n # 0
      <4>1. n \in 1 .. N /\ n - 1 \in 0 .. N
        BY <1>0, <3>2
      <4>2. f[n] = pass[n][f[n - 1]] /\ f[n - 1] \in State
        <5> HIDE DEF pass, N, State, base
        <5> QED
          BY <1>2, <4>1 DEF IsLoop
      <4>3. pass[n][f[n - 1]] = next(f[n - 1], n)
        <5> HIDE DEF next, N, State
        <5> QED
          BY <4>1, <4>2
      <4> HIDE DEF pass, next
      <4>4. QED
        BY <3>2, <4>2, <4>3
    <3>3. QED
      BY <3>1, <3>2
  <2> HIDE DEF N
  <2>2. QED
    BY <2>1
<1>4. reader = CHOOSE g : g = body(g)
  BY DEF UnescapeUpTo
<1>5. reader = body(reader)
  <2> HIDE DEF body, reader
  <2> QED
    BY <1>3, <1>4
<1> HIDE DEF reader
<1>6. ASSUME NEW n \in 0 .. N
      PROVE  reader[n] = IF n = 0 THEN base ELSE next(reader[n - 1], n)
  <2>1. reader[n] = body(reader)[n]
    <3> HIDE DEF body
    <3> QED
      BY <1>5
  <2> HIDE DEF N
  <2>2. QED
    BY <2>1
<1>7. reader[0] = base
  <2>1. 0 \in 0 .. N
    BY <1>0
  <2> HIDE DEF base, next, N
  <2>2. QED
    BY <1>6, <2>1
<1> HIDE DEF base, State, next, N
<1>8. ASSUME NEW n \in 1 .. N
      PROVE  reader[n] = next(reader[n - 1], n) /\ n \in 0 .. N /\ n - 1 \in 0 .. N
  <2>1. n \in 0 .. N /\ n # 0 /\ n - 1 \in 0 .. N
    BY <1>0
  <2>2. QED
    BY <1>6, <2>1
<1>9. \A n \in 0 .. N : reader[n] \in State
  <2> DEFINE S == {n \in 0 .. N : reader[n] \in State}
  <2>1. 0 \in S
    <3>1. 0 \in 0 .. N /\ reader[0] \in State
      BY <1>0, <1>7
    <3>2. QED
      BY <3>1, Zenon
  <2>2. ASSUME NEW n \in 1 .. N, n - 1 \in S PROVE n \in S
    <3>1. reader[n - 1] \in State
      BY <2>2
    <3>2. QED
      BY <1>8, <1>a, <3>1
  <2>3. 0 .. N \subseteq S
    <3> HIDE DEF S
    <3> QED
      BY <1>0, <2>1, <2>2, InductTo
  <2>4. QED
    BY <2>3
<1>10. QED
  BY <1>7, <1>8, <1>9 DEF IsReading, base, State, next, N, reader

(* What is spelled is a text.                                              *)
LEMMA SpellType ==
  ASSUME NEW text \in Seq(Int), NEW char, NEW as \in Seq(Int)
  PROVE  Spell(text, char, as) \in Seq(Int)
<1>1. Len(text) \in 0 .. Len(text)
  OBVIOUS
<1>2. IsSpelled(SpellUpTo(text, char, as), text, char, as)
  BY SpellLoop
<1>3. QED
  BY <1>1, <1>2 DEF IsSpelled, Spell

Escape == <<Backslash, LetterN>>

(* The escape of a newline in the public key.                              *)
LEMMA EscapeType ==
  Escape \in Seq(Int) /\ Len(Escape) = 2 /\ Escape[1] = Backslash /\ Escape[2] = LetterN
  BY DEF Escape, Backslash, LetterN

(* The escape of newlines is read back as newlines.                        *)
LEMMA NewlinesReadBack ==
  ASSUME NEW text \in Seq(Int), \A n \in 1 .. Len(text) : text[n] # Backslash
  PROVE  Unescaped(Spell(text, Newline, Escape)) = text
<1> DEFINE N == Len(text)
<1>0. N \in Nat /\ \A n \in 1 .. N : text[n] \in Int
  OBVIOUS
<1>1. PICK spelled : spelled = SpellUpTo(text, Newline, Escape)
  OBVIOUS
<1>2. IsSpelled(spelled, text, Newline, Escape)
  BY <1>1, SpellLoop, EscapeType
<1>3. PICK rest : IsRest(rest, text, Newline, Escape)
  BY RestExists, EscapeType
<1>4. PICK all \in Seq(Int) : all = Spell(text, Newline, Escape)
  BY SpellType, EscapeType
<1>5. PICK reader : reader = UnescapeUpTo(all)
  OBVIOUS
<1>6. IsReading(reader, all)
  BY <1>5, UnescapeLoop
<1>7. PICK same : same = SpellUpTo(text, Newline, <<Newline>>)
  OBVIOUS
<1>8. IsSpelled(same, text, Newline, <<Newline>>) /\ same[N] = text
  <2>1. Newline \in Int /\ <<Newline>> \in Seq(Int)
    BY OneCharacter DEF Newline
  <2>2. IsSpelled(same, text, Newline, <<Newline>>)
    BY <1>7, <2>1, SpellLoop
  <2>3. same[N] = text
    BY <1>7, <2>1, SpellSame DEF Spell
  <2>4. QED
    BY <2>2, <2>3
<1> DEFINE Here(n) == [read |-> same[n], escape |-> FALSE]
           S == {n \in 0 .. N : reader[Len(spelled[n])] = Here(n)}
<1>9. 0 \in S
  <2>1. 0 \in 0 .. N /\ spelled[0] = <<>> /\ same[0] = <<>> /\ Len(<<>>) = 0
    BY <1>0, <1>2, <1>8 DEF IsSpelled
  <2>2. reader[0] = [read |-> <<>>, escape |-> FALSE]
    BY <1>6 DEF IsReading
  <2>3. QED
    BY <2>1, <2>2
<1>10. ASSUME NEW n \in 1 .. N, n - 1 \in S PROVE n \in S
  <2>1. n \in 0 .. N /\ n - 1 \in 0 .. N /\ text[n] \in Int
    BY <1>0
  <2>2. PICK p \in Seq(Int) : p = spelled[n - 1]
    BY <1>2, <2>1 DEF IsSpelled
  <2>3. PICK q \in Seq(Int) : q = Piece(text[n], Newline, Escape)
    BY <2>1, PieceType, EscapeType
  <2>4. PICK r \in Seq(Int) : r = rest[n]
    BY <1>3, <2>1 DEF IsRest
  <2>5. all = p \o (q \o r)
    BY <1>1, <1>3, <1>4, <2>1, <2>2, <2>3, <2>4 DEF IsRest
  <2>6. spelled[n] = p \o q
    BY <1>2, <2>2, <2>3 DEF IsSpelled
  <2>7. /\ Len(p) \in Nat /\ Len(q) \in Nat /\ Len(p \o q) = Len(p) + Len(q)
        /\ Len(p) + Len(q) <= Len(all)
        /\ \A k \in 1 .. Len(q) : all[Len(p) + k] = q[k]
    <3>1. /\ Len(p) \in Nat /\ Len(q) \in Nat /\ Len(p \o q) = Len(p) + Len(q)
          /\ Len(p) + Len(q) <= Len(p \o (q \o r))
          /\ \A k \in 1 .. Len(q) : (p \o (q \o r))[Len(p) + k] = q[k]
      BY InTheMiddle, Zenon
    <3>2. QED
      BY <2>5, <3>1, Zenon
  <2>8. reader[Len(p)] = Here(n - 1)
    BY <1>10, <2>2
  <2>9. PICK w \in Seq(Int) : w = same[n - 1]
    BY <1>8, <2>1 DEF IsSpelled
  <2>10. same[n] = Append(w, text[n])
    <3>1. same[n] = w \o Piece(text[n], Newline, <<Newline>>)
      BY <1>8, <2>9 DEF IsSpelled
    <3>2. Piece(text[n], Newline, <<Newline>>) = <<text[n]>>
      BY DEF Piece
    <3>3. w \o <<text[n]>> = Append(w, text[n])
      BY <2>1
    <3>4. QED
      BY <3>1, <3>2, <3>3
  <2>11. reader[Len(p)] = [read |-> w, escape |-> FALSE]
    BY <2>8, <2>9
  <2>a. \A k \in 1 .. Len(q) :
          reader[Len(p) + k] = Unescape(reader[Len(p) + k - 1], q[k])
    <3>1. ASSUME NEW k \in 1 .. Len(q)
          PROVE  reader[Len(p) + k] = Unescape(reader[Len(p) + k - 1], q[k])
      <4> DEFINE a == Len(p)
                 b == Len(q)
                 c == Len(all)
      <4>a. a \in Nat /\ b \in Nat /\ c \in Nat /\ a + b <= c /\ k \in 1 .. b
        BY <2>7
      <4> HIDE DEF a, b, c
      <4>b. a + k \in 1 .. c
        BY <4>a
      <4>1. Len(p) + k \in 1 .. Len(all)
        BY <4>b DEF a, c
      <4>2. QED
        BY <1>6, <2>7, <4>1 DEF IsReading
    <3>2. QED
      BY <3>1
  <2>b. /\ Unescape([read |-> w, escape |-> FALSE], Backslash) = [read |-> w, escape |-> TRUE]
        /\ Unescape([read |-> w, escape |-> TRUE], LetterN)
             = [read |-> Append(w, Newline), escape |-> FALSE]
        /\ text[n] # Backslash => Unescape([read |-> w, escape |-> FALSE], text[n])
                                    = [read |-> Append(w, text[n]), escape |-> FALSE]
    BY <2>1, UnescapeSteps, Zenon
  <2>12. reader[Len(p) + Len(q)] = [read |-> Append(w, text[n]), escape |-> FALSE]
    <3>1. CASE text[n] = Newline
      <4>1. Len(q) = 2 /\ q[1] = Backslash /\ q[2] = LetterN
        BY <2>3, <3>1, EscapeType DEF Piece
      <4>2. reader[Len(p) + 1] = Unescape(reader[Len(p)], Backslash)
        <5>1. 1 \in 1 .. Len(q) /\ Len(p) + 1 - 1 = Len(p)
          BY <2>7, <4>1
        <5>2. QED
          BY <2>a, <4>1, <5>1
      <4>3. reader[Len(p) + 1] = [read |-> w, escape |-> TRUE]
        BY <2>11, <4>2, <2>b
      <4>4. reader[Len(p) + 2] = Unescape(reader[Len(p) + 1], LetterN)
        <5>1. 2 \in 1 .. Len(q) /\ Len(p) + 2 - 1 = Len(p) + 1
          BY <2>7, <4>1
        <5>2. QED
          BY <2>a, <4>1, <5>1
      <4>5. QED
        BY <3>1, <4>1, <4>3, <4>4, <2>b
    <3>2. CASE text[n] # Newline
      <4>1. Len(q) = 1 /\ q[1] = text[n]
        BY <2>1, <2>3, <3>2, OneCharacter DEF Piece
      <4>2. reader[Len(p) + 1] = Unescape(reader[Len(p)], text[n])
        <5>1. 1 \in 1 .. Len(q) /\ Len(p) + 1 - 1 = Len(p)
          BY <2>7, <4>1
        <5>2. QED
          BY <2>a, <4>1, <5>1
      <4>3. text[n] # Backslash
        OBVIOUS
      <4>4. QED
        BY <2>1, <2>11, <4>1, <4>2, <4>3, <2>b
    <3>3. QED
      BY <3>1, <3>2
  <2>13. QED
    BY <2>1, <2>6, <2>7, <2>10, <2>12
<1>11. N \in S
  <2>1. 0 .. N \subseteq S
    <3> HIDE DEF S, N
    <3> QED
      BY <1>0, <1>9, <1>10, InductTo
  <2>2. N \in 0 .. N
    BY <1>0
  <2>3. QED
    BY <2>1, <2>2
<1>12. spelled[N] = all
  BY <1>1, <1>4 DEF Spell
<1>13. reader[Len(all)].read = text
  BY <1>8, <1>11, <1>12
<1>14. QED
  BY <1>4, <1>5, <1>13 DEF Unescaped

(* replace_chr spells the text with what it is given for the character.    *)
LEMMA ReplaceChrRight ==
  ASSUME NEW text \in Seq(Int), NEW char \in Int, NEW with \in Seq(Int),
         \A k \in 1 .. Len(with) : with[k] # char
  PROVE  ReplaceChr(text, char, with) = Spell(text, char, with)
<1>1. PICK what \in Seq(Int) : what = <<char>>
  BY OneCharacter
<1>2. what # <<>> /\ what[1] = char
  BY <1>1, OneCharacter
<1>3. Spell(text, char, what) = text
  BY <1>1, SpellSame
<1>4. /\ \A n \in 1 .. Len(text) : text[n] # char => text[n] # what[1]
      /\ \A k \in 1 .. Len(with) : with[k] # what[1]
  BY <1>2
<1>5. ReplaceStrAll(Spell(text, char, what), what, with) = Spell(text, char, with)
  BY <1>2, <1>4, ReplaceSpelled
<1>6. QED
  BY <1>1, <1>3, <1>5 DEF ReplaceChr

(* The characters a line of a PEM text may have.                           *)
Printable == 32 .. 126 \ {Backslash}

(* A public key arrives as it was sent, however long it is: main.c takes   *)
(* the line ends out and writes "\n" for the newlines, and what the other  *)
(* side reads is the text without the returns.                             *)
THEOREM PublicKeyArrives ==
  ASSUME NEW lines \in Seq(Int),
         \A n \in 1 .. Len(lines) : lines[n] \in Printable \union {Return, Newline}
  PROVE  Delivered(lines)
<1>1. Return \in Int /\ Newline \in Int /\ Return # Newline /\ <<>> \in Seq(Int)
  BY DEF Return, Newline
<1>2. PICK plain \in Seq(Int) : plain = Spell(lines, Return, <<>>)
  BY <1>1, SpellType
<1>3. PICK sent \in Seq(Int) : sent = Spell(plain, Newline, Escape)
  BY SpellType, EscapeType
<1>4. PublicKeyText(lines) = sent
  <2>1. ReplaceChr(lines, Return, <<>>) = plain
    <3>1. \A k \in 1 .. Len(<<>>) : <<>>[k] # Return
      OBVIOUS
    <3>2. QED
      BY <1>1, <1>2, <3>1, ReplaceChrRight
  <2>2. ReplaceChr(plain, Newline, Escape) = sent
    <3>1. \A k \in 1 .. Len(Escape) : Escape[k] # Newline
      BY DEF Escape, Newline, Backslash, LetterN
    <3>2. QED
      BY <1>1, <1>3, <3>1, EscapeType, ReplaceChrRight
  <2>3. QED
    BY <2>1, <2>2 DEF PublicKeyText, Escape
<1>5. \A n \in 1 .. Len(plain) : plain[n] \in Printable \union {Newline}
  <2> DEFINE B == Printable \union {Newline}
  <2>1. PICK spelled : spelled = SpellUpTo(lines, Return, <<>>)
    OBVIOUS
  <2>2. IsSpelled(spelled, lines, Return, <<>>)
    BY <1>1, <2>1, SpellLoop
  <2>3. /\ \A n \in 1 .. Len(lines) : lines[n] # Return => lines[n] \in B
        /\ \A k \in 1 .. Len(<<>>) : <<>>[k] \in B
    OBVIOUS
  <2> HIDE DEF B
  <2>4. \A n \in 0 .. Len(lines) : \A k \in 1 .. Len(spelled[n]) : spelled[n][k] \in B
    BY <1>1, <2>2, <2>3, SpelledWith
  <2>5. Len(lines) \in 0 .. Len(lines) /\ plain = spelled[Len(lines)]
    BY <1>2, <2>1 DEF Spell
  <2>6. QED
    BY <2>4, <2>5 DEF B
<1>6. \A n \in 1 .. Len(sent) : sent[n] >= 32
  <2> DEFINE B == {c \in Int : c >= 32}
  <2>1. PICK spelled : spelled = SpellUpTo(plain, Newline, Escape)
    OBVIOUS
  <2>2. IsSpelled(spelled, plain, Newline, Escape)
    BY <2>1, SpellLoop, EscapeType
  <2>3. \A n \in 1 .. Len(plain) : plain[n] # Newline => plain[n] \in B
    <3>1. \A c \in Printable : c \in B
      BY DEF Printable
    <3> HIDE DEF B
    <3>2. QED
      BY <1>5, <3>1
  <2>4. \A k \in 1 .. Len(Escape) : Escape[k] \in B
    <3>1. Escape[1] \in B /\ Escape[2] \in B
      BY EscapeType DEF Backslash, LetterN
    <3>2. \A k \in 1 .. 2 : k = 1 \/ k = 2
      OBVIOUS
    <3> HIDE DEF B
    <3>3. QED
      BY <3>1, <3>2, EscapeType
  <2> HIDE DEF B
  <2>5. \A n \in 0 .. Len(plain) : \A k \in 1 .. Len(spelled[n]) : spelled[n][k] \in B
    BY <2>2, <2>3, <2>4, EscapeType, SpelledWith
  <2>6. Len(plain) \in 0 .. Len(plain) /\ sent = spelled[Len(plain)]
    BY <1>3, <2>1 DEF Spell
  <2>7. QED
    BY <2>5, <2>6 DEF B
<1>7. Unescaped(sent) = plain
  <2>1. \A n \in 1 .. Len(plain) : plain[n] # Backslash
    BY <1>5 DEF Printable, Newline, Backslash
  <2>2. QED
    BY <1>3, <2>1, NewlinesReadBack
<1>8. QED
  BY <1>2, <1>4, <1>6, <1>7 DEF Delivered

(* A character in neither of two texts is not in both together.            *)
LEMMA NowhereIn ==
  ASSUME NEW s \in Seq(Int), NEW t \in Seq(Int), NEW c,
         \A n \in 1 .. Len(s) : s[n] # c, \A n \in 1 .. Len(t) : t[n] # c
  PROVE  \A n \in 1 .. Len(s \o t) : (s \o t)[n] # c
<1>1. /\ Len(s) \in Nat /\ Len(t) \in Nat /\ Len(s \o t) = Len(s) + Len(t)
      /\ \A i \in 1 .. Len(s) : (s \o t)[i] = s[i]
      /\ \A i \in 1 .. Len(t) : (s \o t)[Len(s) + i] = t[i]
  BY Joined
<1>2. ASSUME NEW n \in 1 .. Len(s) + Len(t) PROVE (s \o t)[n] # c
  <2>1. CASE n <= Len(s)
    BY <1>1, <2>1
  <2>2. CASE ~ (n <= Len(s))
    <3> DEFINE m == n - Len(s)
    <3>1. m \in 1 .. Len(t) /\ Len(s) + m = n
      BY <1>1, <2>2
    <3> HIDE DEF m
    <3>2. QED
      BY <1>1, <3>1
  <2>3. QED
    BY <2>1, <2>2
<1>3. QED
  BY <1>1, <1>2

(* strstr finds the first place of a marker.                               *)
LEMMA FindCharacter ==
  ASSUME NEW text \in Seq(Int), NEW c \in Int, NEW at \in 1 .. Len(text), text[at] = c,
         \A k \in 1 .. at - 1 : text[k] # c
  PROVE  Find(text, <<c>>, 1) = at
<1>1. PICK what \in Seq(Int) : what = <<c>>
  BY OneCharacter
<1>2. Len(what) = 1 /\ what[1] = c /\ what # <<>>
  BY <1>1, OneCharacter
<1>3. at \in Nat /\ at - 1 \in Nat /\ Len(text) \in Nat /\ 1 <= at /\ at <= Len(text)
  OBVIOUS
<1>4. SubSeq(text, at, at + Len(what) - 1) = what
  <2>1. (at - 1) + 1 = at /\ (at - 1) + Len(what) = at /\ at + Len(what) - 1 = at
    BY <1>2, <1>3
  <2>2. \A i \in 1 .. Len(what) : text[(at - 1) + i] = what[i]
    <3>1. \A i \in 1 .. Len(what) : i = 1
      BY <1>2
    <3>2. QED
      BY <1>2, <2>1, <3>1
  <2>3. SubSeq(text, (at - 1) + 1, (at - 1) + Len(what)) = what
    BY <1>3, <2>1, <2>2, Part
  <2>4. QED
    BY <2>1, <2>3
<1>5. at + Len(what) - 1 <= Len(text)
  BY <1>2, <1>3
<1>6. \A k \in 1 .. at - 1 : text[k] # what[1]
  BY <1>2
<1>7. 1 \in Nat \ {0}
  OBVIOUS
<1>8. Find(text, what, 1) = at
  BY <1>2, <1>3, <1>4, <1>5, <1>6, <1>7, FindFirst
<1>9. QED
  BY <1>1, <1>8

Slashes == <<Backslash, Backslash, LetterN>>

(* How a newline travels in a certificate.                                 *)
LEMMA SlashesType ==
  /\ Slashes \in Seq(Int) /\ Slashes # <<>> /\ Len(Slashes) = 3
  /\ Slashes[1] = Backslash /\ Slashes[2] = Backslash /\ Slashes[3] = LetterN
  BY DEF Slashes, Backslash, LetterN

(* A certificate on its way is a text.                                     *)
LEMMA DoubledType ==
  ASSUME NEW lines \in Seq(Int)
  PROVE  Doubled(lines) \in Seq(Int)
  BY SpellType, SlashesType DEF Doubled, Slashes

(* The markers and the newline are characters.                             *)
LEMMA Markers ==
  /\ Begin \in Int /\ Finish \in Int /\ Newline \in Int
  /\ <<Begin>> \in Seq(Int) /\ <<Finish>> \in Seq(Int) /\ <<Newline>> \in Seq(Int)
<1>1. Begin \in Int /\ Finish \in Int /\ Newline \in Int
  BY DEF Begin, Finish, Newline
<1>2. QED
  BY <1>1, OneCharacter

(* A text between two characters.                                          *)
Framed(text) == (<<Begin>> \o text) \o <<Finish>>

(* Where the characters and the markers are.                               *)
LEMMA FramedRight ==
  ASSUME NEW text \in Seq(Int)
  PROVE  /\ Framed(text) \in Seq(Int) /\ Len(text) \in Nat
         /\ Len(Framed(text)) = Len(text) + 2
         /\ Framed(text)[1] = Begin /\ Framed(text)[Len(text) + 2] = Finish
         /\ \A k \in 1 .. Len(text) : Framed(text)[k + 1] = text[k]
<1>1. PICK a \in Seq(Int) : a = <<Begin>>
  BY Markers
<1>2. PICK z \in Seq(Int) : z = <<Finish>>
  BY Markers
<1>3. Len(a) = 1 /\ a[1] = Begin /\ Len(z) = 1 /\ z[1] = Finish
  BY <1>1, <1>2, OneCharacter DEF Begin, Finish
<1>4. /\ a \o text \in Seq(Int) /\ Len(text) \in Nat /\ Len(a \o text) = Len(a) + Len(text)
      /\ \A i \in 1 .. Len(a) : (a \o text)[i] = a[i]
      /\ \A i \in 1 .. Len(text) : (a \o text)[Len(a) + i] = text[i]
  BY Joined
<1>5. PICK f \in Seq(Int) : f = a \o text
  BY <1>4
<1>6. /\ f \o z \in Seq(Int) /\ Len(f \o z) = Len(f) + Len(z)
      /\ \A i \in 1 .. Len(f) : (f \o z)[i] = f[i]
      /\ \A i \in 1 .. Len(z) : (f \o z)[Len(f) + i] = z[i]
  BY Joined
<1>7. Framed(text) = f \o z
  BY <1>1, <1>2, <1>5 DEF Framed
<1>8. /\ Len(f) = Len(text) + 1 /\ Len(f \o z) = Len(text) + 2
      /\ f[1] = Begin /\ \A i \in 1 .. Len(text) : f[1 + i] = text[i]
  BY <1>3, <1>4, <1>5, <1>6
<1>9. (f \o z)[1] = Begin /\ (f \o z)[Len(text) + 2] = Finish
  <2>1. 1 \in 1 .. Len(f) /\ 1 \in 1 .. Len(z) /\ Len(f) + 1 = Len(text) + 2
    BY <1>3, <1>4, <1>8
  <2>2. QED
    BY <1>3, <1>6, <1>8, <2>1
<1>10. ASSUME NEW k \in 1 .. Len(text) PROVE (f \o z)[k + 1] = text[k]
  <2>1. k + 1 \in 1 .. Len(f) /\ 1 + k = k + 1
    BY <1>4, <1>8
  <2>2. QED
    BY <1>6, <1>8, <2>1
<1>11. QED
  BY <1>4, <1>6, <1>7, <1>8, <1>9, <1>10

(* What is doubled for the wire is read back as the newlines.              *)
LEMMA FramedSpelled ==
  ASSUME NEW lines \in Seq(Int)
  PROVE  Spell(Framed(lines), Newline, Slashes) = Framed(Doubled(lines))
<1>m. Slashes \in Seq(Int)
  BY SlashesType
<1>1. PICK a \in Seq(Int) : a = <<Begin>>
  BY Markers
<1>2. PICK z \in Seq(Int) : z = <<Finish>>
  BY Markers
<1>3. Spell(a, Newline, Slashes) = a /\ Spell(z, Newline, Slashes) = z
  BY <1>1, <1>2, SpellOne, SlashesType DEF Piece, Begin, Finish, Newline
<1>4. Spell(lines, Newline, Slashes) = Doubled(lines)
  BY DEF Doubled, Slashes
<1>5. PICK f \in Seq(Int) : f = a \o lines
  BY Joined
<1>6. SpelledApart(a \o lines, a, lines, Newline, Slashes)
  BY <1>m, SpellJoined
<1>7. SpelledApart(f \o z, f, z, Newline, Slashes)
  BY <1>m, SpellJoined
<1>8. QED
  BY <1>1, <1>2, <1>3, <1>4, <1>5, <1>6, <1>7 DEF Framed, SpelledApart

(* replace_str_all makes the text of it again.                             *)
LEMMA DoubledReadBack ==
  ASSUME NEW plain \in Seq(Int), \A n \in 1 .. Len(plain) : plain[n] # Backslash
  PROVE  ReplaceStrAll(Doubled(plain), Slashes, <<Newline>>) = plain
<1>1. PICK newline \in Seq(Int) : newline = <<Newline>>
  BY Markers
<1>2. \A k \in 1 .. Len(newline) : newline[k] # Slashes[1]
  <2>1. Len(newline) = 1 /\ newline[1] = Newline
    BY <1>1, OneCharacter DEF Newline
  <2>2. QED
    BY <2>1, SlashesType DEF Newline, Backslash
<1>3. \A n \in 1 .. Len(plain) : plain[n] # Slashes[1]
  BY SlashesType
<1>4. ReplaceStrAll(Spell(plain, Newline, Slashes), Slashes, newline)
        = Spell(plain, Newline, newline)
  BY <1>2, <1>3, SlashesType, ReplaceSpelled
<1>5. Spell(plain, Newline, newline) = plain
  BY <1>1, SpellSame DEF Newline
<1>6. Spell(plain, Newline, Slashes) = Doubled(plain)
  BY DEF Doubled, Slashes
<1>7. QED
  BY <1>1, <1>4, <1>5, <1>6

(* No backslash is in a certificate.                                       *)
LEMMA FramedClear ==
  ASSUME NEW lines \in Seq(Int), \A n \in 1 .. Len(lines) : lines[n] # Backslash
  PROVE  \A n \in 1 .. Len(Framed(lines)) : Framed(lines)[n] # Backslash
<1>1. PICK plain \in Seq(Int) : plain = Framed(lines)
  BY FramedRight
<1>2. /\ Len(lines) \in Nat /\ Len(plain) = Len(lines) + 2
      /\ plain[1] = Begin /\ plain[Len(lines) + 2] = Finish
      /\ \A k \in 1 .. Len(lines) : plain[k + 1] = lines[k]
  BY <1>1, FramedRight
<1>3. ASSUME NEW n \in 1 .. Len(plain) PROVE plain[n] # Backslash
  <2>1. CASE n = 1
    BY <1>2, <2>1 DEF Begin, Backslash
  <2>2. CASE n = Len(lines) + 2
    BY <1>2, <2>2 DEF Finish, Backslash
  <2>3. CASE n # 1 /\ n # Len(lines) + 2
    <3>1. n - 1 \in 1 .. Len(lines) /\ (n - 1) + 1 = n
      BY <1>2, <2>3
    <3>2. plain[n] = lines[n - 1]
      BY <1>2, <3>1
    <3>3. QED
      BY <3>1, <3>2
  <2>4. QED
    BY <2>1, <2>2, <2>3
<1>4. QED
  BY <1>1, <1>3

(* A certificate is read back, ...                                         *)
LEMMA FramedReadBack ==
  ASSUME NEW lines \in Seq(Int), \A n \in 1 .. Len(lines) : lines[n] # Backslash
  PROVE  ReplaceStrAll(Framed(Doubled(lines)), Slashes, <<Newline>>) = Framed(lines)
<1>1. PICK plain \in Seq(Int) : plain = Framed(lines)
  BY FramedRight
<1>2. \A n \in 1 .. Len(plain) : plain[n] # Backslash
  BY <1>1, FramedClear
<1>3. ReplaceStrAll(Doubled(plain), Slashes, <<Newline>>) = plain
  BY <1>2, DoubledReadBack
<1>4. Doubled(plain) = Framed(Doubled(lines))
  BY <1>1, FramedSpelled DEF Doubled, Slashes
<1>5. QED
  BY <1>1, <1>3, <1>4

(* ... and one that is followed by another text, with that text.           *)
LEMMA FollowedReadBack ==
  ASSUME NEW lines \in Seq(Int), NEW rest \in Seq(Int),
         \A n \in 1 .. Len(lines) : lines[n] # Backslash,
         \A n \in 1 .. Len(rest) : rest[n] # Backslash
  PROVE  ReplaceStrAll(Framed(Doubled(lines)) \o Doubled(rest), Slashes, <<Newline>>)
           = Framed(lines) \o rest
<1>1. PICK f \in Seq(Int) : f = Framed(lines)
  BY FramedRight
<1>2. /\ f \o rest \in Seq(Int) /\ Len(f) \in Nat /\ Len(rest) \in Nat
      /\ Len(f \o rest) = Len(f) + Len(rest)
      /\ \A i \in 1 .. Len(f) : (f \o rest)[i] = f[i]
      /\ \A i \in 1 .. Len(rest) : (f \o rest)[Len(f) + i] = rest[i]
  BY Joined
<1>3. PICK plain \in Seq(Int) : plain = f \o rest
  BY <1>2
<1>4. \A n \in 1 .. Len(f) : f[n] # Backslash
  BY <1>1, FramedClear
<1>5. ASSUME NEW n \in 1 .. Len(plain) PROVE plain[n] # Backslash
  <2>1. CASE n \in 1 .. Len(f)
    BY <1>2, <1>3, <1>4, <2>1
  <2>2. CASE n \notin 1 .. Len(f)
    <3>1. n - Len(f) \in 1 .. Len(rest) /\ Len(f) + (n - Len(f)) = n
      BY <1>2, <1>3, <2>2
    <3>2. QED
      BY <1>2, <1>3, <3>1
  <2>3. QED
    BY <2>1, <2>2
<1>6. ReplaceStrAll(Doubled(plain), Slashes, <<Newline>>) = plain
  BY <1>5, DoubledReadBack
<1>7. Doubled(f) = Framed(Doubled(lines))
  BY <1>1, FramedSpelled DEF Doubled, Slashes
<1>8. SpelledApart(f \o rest, f, rest, Newline, Slashes)
  BY SlashesType, SpellJoined
<1>9. Doubled(plain) = Doubled(f) \o Doubled(rest)
  BY <1>3, <1>8 DEF SpelledApart, Doubled, Slashes
<1>10. QED
  BY <1>1, <1>3, <1>6, <1>7, <1>9

(* No marker is in what is doubled, if none is in the lines.               *)
LEMMA DoubledUnmarked ==
  ASSUME NEW lines \in Seq(Int), \A n \in 1 .. Len(lines) : lines[n] \notin {Begin, Finish}
  PROVE  \A k \in 1 .. Len(Doubled(lines)) : Doubled(lines)[k] \notin {Begin, Finish}
<1> DEFINE B == {c \in Int : c \notin {Begin, Finish}}
<1>1. PICK spelled : spelled = SpellUpTo(lines, Newline, Slashes)
  OBVIOUS
<1>2. IsSpelled(spelled, lines, Newline, Slashes)
  BY <1>1, SpellLoop, SlashesType
<1>3. \A n \in 1 .. Len(lines) : lines[n] # Newline => lines[n] \in B
  OBVIOUS
<1>4. \A k \in 1 .. Len(Slashes) : Slashes[k] \in B
  <2>1. Slashes[1] \in B /\ Slashes[2] \in B /\ Slashes[3] \in B
    BY SlashesType DEF Backslash, LetterN, Begin, Finish
  <2>2. \A k \in 1 .. 3 : k = 1 \/ k = 2 \/ k = 3
    OBVIOUS
  <2> HIDE DEF B
  <2>3. QED
    BY <2>1, <2>2, SlashesType
<1> HIDE DEF B
<1>5. \A n \in 0 .. Len(lines) : \A k \in 1 .. Len(spelled[n]) : spelled[n][k] \in B
  BY <1>2, <1>3, <1>4, SlashesType, SpelledWith
<1>6. Len(lines) \in 0 .. Len(lines) /\ Doubled(lines) = spelled[Len(lines)]
  BY <1>1 DEF Spell, Doubled, Slashes
<1>7. QED
  BY <1>5, <1>6 DEF B

(* A text between two others.                                              *)
IsAround(all, p, q) ==
  /\ all \in Seq(Int) /\ Len(p) \in Nat /\ Len(q) \in Nat /\ Len(all) \in Nat
  /\ Len(p) + Len(q) <= Len(all)
  /\ \A k \in 1 .. Len(p) : all[k] = p[k]
  /\ \A k \in 1 .. Len(q) : all[Len(p) + k] = q[k]
  /\ SubSeq(all, Len(p) + 1, Len(p) + Len(q)) = q

(* It is there, joined between them.                                       *)
LEMMA Surrounded ==
  ASSUME NEW p \in Seq(Int), NEW q \in Seq(Int), NEW r \in Seq(Int)
  PROVE  IsAround((p \o q) \o r, p, q)
<1>a. (p \o q) \o r = p \o (q \o r)
  BY JoinedTwice
<1>1. PICK t \in Seq(Int) : t = q \o r
  BY Joined
<1>2. PICK all \in Seq(Int) : all = p \o t
  BY Joined
<1>3. all = (p \o q) \o r
  BY <1>1, <1>2, <1>a
<1>4. /\ Len(p) \in Nat /\ Len(q) \in Nat /\ Len(p) + Len(q) <= Len(all)
      /\ \A k \in 1 .. Len(q) : all[Len(p) + k] = q[k]
  <2>1. /\ Len(p) \in Nat /\ Len(q) \in Nat
        /\ Len(p) + Len(q) <= Len(p \o (q \o r))
        /\ \A k \in 1 .. Len(q) : (p \o (q \o r))[Len(p) + k] = q[k]
    BY InTheMiddle
  <2>2. QED
    BY <1>1, <1>2, <2>1
<1>5. \A k \in 1 .. Len(p) : all[k] = p[k]
  <2>1. \A k \in 1 .. Len(p) : (p \o t)[k] = p[k]
    BY Joined
  <2>2. QED
    BY <1>2, <2>1
<1>6. SubSeq(all, Len(p) + 1, Len(p) + Len(q)) = q
  BY <1>4, Part
<1>7. Len(all) \in Nat
  OBVIOUS
<1>8. QED
  BY <1>3, <1>4, <1>5, <1>6, <1>7 DEF IsAround

(* The certificate a text contains is picked, from marker to marker.       *)
LEMMA PickedBetween ==
  ASSUME NEW p \in Seq(Int), NEW text \in Seq(Int), NEW r \in Seq(Int),
         \A k \in 1 .. Len(p) : p[k] \notin {Begin, Finish},
         \A k \in 1 .. Len(text) : text[k] \notin {Begin, Finish}
  PROVE  PickPemCert((p \o Framed(text)) \o r)
           = IF Len(Framed(text)) > MaxPem THEN Refused ELSE Framed(text)
<1>1. PICK q \in Seq(Int) : q = Framed(text)
  BY FramedRight
<1>2. /\ Len(text) \in Nat /\ Len(q) = Len(text) + 2
      /\ q[1] = Begin /\ q[Len(text) + 2] = Finish
      /\ \A k \in 1 .. Len(text) : q[k + 1] = text[k]
  BY <1>1, FramedRight
<1>3. PICK all : all = (p \o q) \o r
  OBVIOUS
<1>4. IsAround(all, p, q)
  BY <1>3, Surrounded
<1>5. /\ all \in Seq(Int) /\ Len(p) \in Nat /\ Len(q) \in Nat /\ Len(all) \in Nat
      /\ Len(p) + Len(q) <= Len(all)
      /\ \A k \in 1 .. Len(p) : all[k] = p[k]
      /\ \A k \in 1 .. Len(q) : all[Len(p) + k] = q[k]
      /\ SubSeq(all, Len(p) + 1, Len(p) + Len(q)) = q
  BY <1>4 DEF IsAround
<1> DEFINE a == Len(p)
           b == Len(text)
           c == Len(all)
<1>6. /\ a \in Nat /\ b \in Nat /\ c \in Nat /\ a + b + 2 <= c /\ Len(q) = b + 2
      /\ \A k \in 1 .. a : all[k] = p[k]
      /\ \A k \in 1 .. b + 2 : all[a + k] = q[k]
      /\ SubSeq(all, a + 1, a + (b + 2)) = q
  BY <1>2, <1>5
<1>7. /\ \A k \in 1 .. a : p[k] \notin {Begin, Finish}
      /\ \A k \in 1 .. b : text[k] \notin {Begin, Finish}
      /\ \A k \in 1 .. b : q[k + 1] = text[k]
      /\ q[1] = Begin /\ q[b + 2] = Finish
  BY <1>2
<1>8. a + 1 \in 1 .. Len(all) /\ a + (b + 2) \in 1 .. Len(all)
  BY <1>6
<1> HIDE DEF a, b, c
<1>9. Find(all, <<Begin>>, 1) = a + 1
  <2>1. all[a + 1] = Begin
    <3>1. 1 \in 1 .. b + 2
      BY <1>6
    <3>2. QED
      BY <1>6, <1>7, <3>1
  <2>2. \A k \in 1 .. (a + 1) - 1 : all[k] # Begin
    <3>1. (a + 1) - 1 = a
      BY <1>6
    <3>2. QED
      BY <1>6, <1>7, <3>1
  <2>3. QED
    BY <1>5, <1>8, <2>1, <2>2, FindCharacter DEF Begin
<1>10. Find(all, <<Finish>>, 1) = a + (b + 2)
  <2>1. all[a + (b + 2)] = Finish
    <3>1. b + 2 \in 1 .. b + 2
      BY <1>6
    <3>2. QED
      BY <1>6, <1>7, <3>1
  <2>2. ASSUME NEW k \in 1 .. (a + (b + 2)) - 1 PROVE all[k] # Finish
    <3>1. k \in Nat /\ k >= 1 /\ k < a + b + 2
      BY <1>6
    <3>2. CASE k <= a
      <4>1. k \in 1 .. a
        BY <1>6, <3>1, <3>2
      <4>2. QED
        BY <1>6, <1>7, <4>1
    <3>3. CASE k = a + 1
      <4>1. 1 \in 1 .. b + 2
        BY <1>6
      <4>2. all[k] = Begin
        BY <1>6, <1>7, <3>3, <4>1
      <4>3. QED
        BY <4>2 DEF Begin, Finish
    <3>4. CASE k > a + 1
      <4> DEFINE m == k - a - 1
      <4>1. m \in 1 .. b /\ m + 1 \in 1 .. b + 2 /\ a + (m + 1) = k
        BY <1>6, <3>1, <3>4
      <4> HIDE DEF m
      <4>2. all[k] = q[m + 1] /\ q[m + 1] = text[m]
        BY <1>6, <1>7, <4>1
      <4>3. QED
        BY <1>7, <4>1, <4>2
    <3>5. QED
      BY <1>6, <3>1, <3>2, <3>3, <3>4
  <2>3. QED
    <3>1. PICK at \in 1 .. Len(all) : at = a + (b + 2)
      BY <1>8
    <3>2. QED
      BY <1>5, <2>1, <2>2, <3>1, FindCharacter, Markers
<1>11. a + 1 # 0 /\ a + (b + 2) # 0 /\ (a + (b + 2)) - (a + 1) + 1 = b + 2
  BY <1>6
<1>12. PickPemCert(all) = IF Len(q) > MaxPem THEN Refused ELSE q
  <2>1. ~(b + 2 < 0)
    BY <1>6
  <2>2. QED
    BY <1>6, <1>9, <1>10, <1>11, <2>1 DEF PickPemCert
<1>13. QED
  BY <1>1, <1>3, <1>12

(* A certificate in the text of a message is what setdevicecert is given,  *)
(* with its newlines, if it is shorter than the buffer; nothing is if it   *)
(* is longer; and one of the size of the buffer is given together with     *)
(* what stands behind the buffer.  For any text after it, but only for     *)
(* texts without a marker before it.                                       *)
THEOREM CertificateArrives ==
  ASSUME NEW lines \in Seq(Int), NEW before \in Seq(Int), NEW after \in Seq(Int),
         NEW rest \in Seq(Int),
         \A n \in 1 .. Len(lines) : lines[n] \notin {Begin, Finish, Backslash},
         \A n \in 1 .. Len(before) : before[n] \notin {Begin, Finish},
         \A n \in 1 .. Len(rest) : rest[n] # Backslash
  PROVE  PickedRight(lines, before, after, rest)
<1>1. /\ \A n \in 1 .. Len(lines) : lines[n] \notin {Begin, Finish}
      /\ \A n \in 1 .. Len(lines) : lines[n] # Backslash
  OBVIOUS
<1> DEFINE middle == Doubled(lines)
           wire   == Framed(middle)
           buffer == (before \o wire) \o after
           behind == Doubled(rest)
<1>2. middle \in Seq(Int)
  BY DoubledType
<1>3. \A k \in 1 .. Len(middle) : middle[k] \notin {Begin, Finish}
  BY <1>1, DoubledUnmarked
<1>4. PickPemCert(buffer) = IF Len(wire) > MaxPem THEN Refused ELSE wire
  <2> HIDE DEF middle
  <2>1. QED
    BY <1>2, <1>3, PickedBetween
<1>5. Len(wire) \in Nat /\ wire \notin {Refused, Overrun}
  <2>1. Len(wire) = Len(middle) + 2 /\ Len(middle) \in Nat
    <3> HIDE DEF middle
    <3>1. QED
      BY <1>2, FramedRight
  <2>2. Len(Refused) = 1 /\ Len(Overrun) = 1
    BY DEF Refused, Overrun
  <2> HIDE DEF wire, middle
  <2>3. Len(wire) # 1 /\ Len(wire) \in Nat
    BY <2>1
  <2>4. QED
    BY <2>2, <2>3
<1>6. ReplaceStrAll(wire, Slashes, <<Newline>>) = Framed(lines)
  BY <1>1, FramedReadBack
<1>7. ReplaceStrAll(wire \o behind, Slashes, <<Newline>>) = Framed(lines) \o rest
  BY <1>1, FollowedReadBack
<1> HIDE DEF wire, buffer, behind
<1>8. CASE Len(wire) > MaxPem
  <2>1. NewDeviceCert(buffer, behind) = Refused
    BY <1>4, <1>8 DEF NewDeviceCert
  <2>2. ~(Len(wire) < MaxPem) /\ ~(Len(wire) = MaxPem)
    BY <1>5, <1>8, PemAssumption
  <2>3. QED
    BY <1>8, <2>1, <2>2 DEF PickedRight, Framed, wire, buffer, behind, middle
<1>9. CASE Len(wire) < MaxPem
  <2>1. ~(Len(wire) > MaxPem) /\ ~(Len(wire) = MaxPem)
    BY <1>5, <1>9, PemAssumption
  <2>2. NewDeviceCert(buffer, behind) = Framed(lines)
    BY <1>4, <1>5, <1>6, <2>1 DEF NewDeviceCert, InBuffer, Slashes
  <2>3. QED
    BY <1>9, <2>1, <2>2 DEF PickedRight, Framed, wire, buffer, behind, middle
<1>10. CASE Len(wire) = MaxPem
  <2>1. ~(Len(wire) > MaxPem) /\ ~(Len(wire) < MaxPem)
    BY <1>5, <1>10, PemAssumption
  <2>2. NewDeviceCert(buffer, behind) = Framed(lines) \o rest
    BY <1>4, <1>5, <1>7, <1>10, <2>1 DEF NewDeviceCert, InBuffer, Slashes
  <2>3. QED
    BY <1>10, <2>1, <2>2 DEF PickedRight, Framed, wire, buffer, behind, middle
<1>11. QED
  BY <1>5, <1>8, <1>9, <1>10, PemAssumption

(* What the model assumes of the messages is true of the texts: the public *)
(* key and the certificate arrive as they were sent (main.c:416, 444).     *)
THEOREM TextsAlwaysArrive == Spec => []TextsArrive
<1>1. Misdelivered = {}
  <2>1. ASSUME NEW lines \in SampleLines PROVE Delivered(lines)
    <3>1. PICK n \in 0 .. 4 : lines \in [1 .. n -> {65, LetterN, Return, Newline}]
      BY DEF SampleLines
    <3>2. /\ lines \in Seq(Int) /\ Len(lines) = n
          /\ \A k \in 1 .. n : lines[k] \in {65, LetterN, Return, Newline}
      BY <3>1 DEF LetterN, Return, Newline
    <3>3. \A c \in {65, LetterN, Return, Newline} : c \in Printable \union {Return, Newline}
      BY DEF Printable, LetterN, Return, Newline, Backslash
    <3>4. QED
      BY <3>2, <3>3, PublicKeyArrives
  <2>2. QED
    BY <2>1 DEF Misdelivered
<1>2. Misread = {}
  <2>1. ASSUME NEW lines \in SampleLines, NEW before \in Befores, NEW after \in Afters,
               NEW rest \in Rests
        PROVE  PickedRight(lines, before, after, rest)
    <3>1. PICK n \in 0 .. 4 : lines \in [1 .. n -> {65, LetterN, Return, Newline}]
      BY DEF SampleLines
    <3>2. /\ lines \in Seq(Int) /\ Len(lines) = n
          /\ \A k \in 1 .. n : lines[k] \in {65, LetterN, Return, Newline}
      BY <3>1 DEF LetterN, Return, Newline
    <3>3. \A c \in {65, LetterN, Return, Newline} : c \notin {Begin, Finish, Backslash}
      BY DEF LetterN, Return, Newline, Backslash, Begin, Finish
    <3>4. before \in Seq(Int) /\ after \in Seq(Int) /\ rest \in Seq(Int)
      <4>1. /\ <<>> \in Seq(Int) /\ <<LetterN>> \in Seq(Int)
            /\ <<Backslash, LetterN, 65>> \in Seq(Int)
            /\ <<Begin, 65, Finish>> \in Seq(Int) /\ <<Finish>> \in Seq(Int)
            /\ <<LetterN, Newline>> \in Seq(Int)
        BY DEF LetterN, Backslash, Begin, Finish, Newline
      <4>2. QED
        BY <4>1, Zenon DEF Befores, Afters, Rests
    <3>5. \A k \in 1 .. Len(before) : before[k] \notin {Begin, Finish}
      BY DEF Befores, LetterN, Backslash, Begin, Finish
    <3>6. \A k \in 1 .. Len(rest) : rest[k] # Backslash
      BY DEF Rests, LetterN, Newline, Backslash
    <3>7. QED
      BY <3>2, <3>3, <3>4, <3>5, <3>6, CertificateArrives
  <2>2. QED
    BY <2>1 DEF Misread
<1>3. TextsArrive
  BY <1>1, <1>2 DEF TextsArrive
<1>4. QED
  BY <1>3, PTL
=============================================================================
