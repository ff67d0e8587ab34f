------------------------ MODULE AtcaTransportProofs ------------------------
(***************************************************************************)
(* Proofs about AtcaTransport, for any number of polls, retries and        *)
(* faults, responses of any size the buffer has room for, those of four    *)
(* bytes included, and any length byte.                                    *)
(***************************************************************************)
EXTENDS AtcaTransport, TLAPS

(* The type invariant in the parts the provers can take one by one.        *)
Words   == /\ pc \in Phases /\ ret \in {"none", "ok", "error"}
           /\ caller \in {"wake", "poll"} /\ buf \in Contents \union {"torn"}
           /\ chip \in {"asleep", "awake"} /\ out \in Contents
           /\ ptr \in {"start", "body", "past"}
Counts  == /\ tries \in 0 .. Retries /\ polls \in 0 .. MaxPolls
           /\ busy \in 0 .. MaxBusy /\ executed \in Nat /\ faults \in 0 .. MaxFaults
Lengths == len \in Nat /\ wrote \in Nat /\ outlen \in {4} \union Responses
Flag    == status \in BOOLEAN

(* What the variables with a few values are given.                        *)
LEMMA WordsStep == Words /\ [Next]_vars => Words'
<1> SUFFICES ASSUME Words, [Next]_vars PROVE Words'
  OBVIOUS
<1> USE DEF interface, receiver, element, output,
        Words, Phases, Contents
<1>1. CASE Open
  BY <1>1 DEF Open
<1>2. CASE Close
  BY <1>2 DEF Close
<1>3. CASE Call
  BY <1>3 DEF Call
<1>4. CASE WakePulse
  BY <1>4 DEF WakePulse, StartReceive, Put
<1>5. CASE Poll
  BY <1>5 DEF Poll, StartReceive
<1>6. CASE AddressSkipped
  BY <1>6 DEF AddressSkipped
<1>7. CASE AddressSent
  BY <1>7 DEF AddressSent, AddressTry
<1>8. CASE AddressGivenUp
  BY <1>8 DEF AddressGivenUp, Received
<1>9. CASE ReadLength
  BY <1>9 DEF ReadLength, Length, Received
<1>10. CASE ReadLengthFails
  BY <1>10 DEF ReadLengthFails, Received
<1>11. CASE ReadBody
  BY <1>11 DEF ReadBody, Received
<1>12. CASE Send
  BY <1>12 DEF Send, Accept, Garble, Put
<1>13. CASE SendFails
  BY <1>13 DEF SendFails, Accept, Put
<1>14. CASE Verify
  BY <1>14 DEF Verify
<1>15. CASE Idle
  BY <1>15 DEF Idle, Asleep, Put
<1>16. CASE ChipWorks
  BY <1>16 DEF ChipWorks
<1>17. CASE Watchdog
  BY <1>17 DEF Watchdog, Asleep, Put
<1>18. CASE UNCHANGED vars
  BY <1>18 DEF vars
<1>19. QED
  BY <1>1, <1>2, <1>3, <1>4, <1>5, <1>6, <1>7, <1>8, <1>9, <1>10,
     <1>11, <1>12, <1>13, <1>14, <1>15, <1>16, <1>17, <1>18 DEF Next, Execute, Element

LEMMA CountsStep == Counts /\ [Next]_vars => Counts'
<1> SUFFICES ASSUME Counts, [Next]_vars PROVE Counts'
  OBVIOUS
<1> USE DEF interface, receiver, element, output,
        Counts, Fault, Sound
<1>1. CASE Open
  BY <1>1, CountAssumption DEF Open
<1>2. CASE Close
  BY <1>2, CountAssumption DEF Close
<1>3. CASE Call
  BY <1>3, CountAssumption DEF Call
<1>4. CASE WakePulse
  BY <1>4, CountAssumption DEF WakePulse, StartReceive, Put
<1>5. CASE Poll
  BY <1>5, CountAssumption DEF Poll, StartReceive
<1>6. CASE AddressSkipped
  BY <1>6, CountAssumption DEF AddressSkipped
<1>7. CASE AddressSent
  BY <1>7, CountAssumption DEF AddressSent, AddressTry
<1>8. CASE AddressGivenUp
  BY <1>8, CountAssumption DEF AddressGivenUp, Received
<1>9. CASE ReadLength
  BY <1>9, CountAssumption DEF ReadLength, Length, Received
<1>10. CASE ReadLengthFails
  BY <1>10, CountAssumption DEF ReadLengthFails, Received
<1>11. CASE ReadBody
  BY <1>11, CountAssumption DEF ReadBody, Received
<1>12. CASE Send
  BY <1>12, CountAssumption DEF Send, Accept, Garble, Put
<1>13. CASE SendFails
  BY <1>13, CountAssumption DEF SendFails, Accept, Put
<1>14. CASE Verify
  BY <1>14, CountAssumption DEF Verify
<1>15. CASE Idle
  BY <1>15, CountAssumption DEF Idle, Asleep, Put
<1>16. CASE ChipWorks
  BY <1>16, CountAssumption DEF ChipWorks
<1>17. CASE Watchdog
  BY <1>17, CountAssumption DEF Watchdog, Asleep, Put
<1>18. CASE UNCHANGED vars
  BY <1>18 DEF vars
<1>19. QED
  BY <1>1, <1>2, <1>3, <1>4, <1>5, <1>6, <1>7, <1>8, <1>9, <1>10,
     <1>11, <1>12, <1>13, <1>14, <1>15, <1>16, <1>17, <1>18 DEF Next, Execute, Element

LEMMA LengthsStep == Lengths /\ [Next]_vars => Lengths'
<1> SUFFICES ASSUME Lengths, [Next]_vars PROVE Lengths'
  OBVIOUS
<1> USE DEF interface, receiver, element, output
<1>1. CASE ReadLength
  <2>1. LengthBytes \subseteq Nat /\ LengthAt(ptr) \subseteq Nat
    BY LengthAssumption DEF LengthAt, Lengths
  <2>2. CASE \E n \in LengthAt(ptr) : Length(n)
    BY <1>1, <2>1, <2>2 DEF ReadLength, Length, Lengths
  <2>3. CASE \E n \in LengthBytes : Length(n)
    BY <1>1, <2>1, <2>3 DEF ReadLength, Length, Lengths
  <2>4. QED
    BY <1>1, <2>2, <2>3 DEF ReadLength
<1>2. CASE Poll
  BY <1>2 DEF Poll, StartReceive, Lengths
<1>3. CASE ReadBody
  BY <1>3 DEF ReadBody, Lengths
<1>4. CASE UNCHANGED <<len, wrote, outlen>>
  BY <1>4 DEF Lengths
<1>5. CASE AddressSkipped \/ AddressSent \/ AddressGivenUp
  BY <1>4, <1>5 DEF AddressSkipped, AddressSent, AddressTry, AddressGivenUp
<1>6. CASE ReadLengthFails
  BY <1>6 DEF ReadLengthFails, Lengths
<1>7. CASE WakePulse
  BY <1>7 DEF WakePulse, StartReceive, Put, Lengths
<1>8. CASE UNCHANGED <<len, wrote>> /\ outlen' \in {4, outlen} \union Responses
  BY <1>8 DEF Lengths
<1>9. CASE Send \/ SendFails \/ Verify \/ Idle
  BY <1>8, <1>9 DEF Send, SendFails, Accept, Garble, Verify, Idle, Asleep, Put
<1>10. CASE Open \/ Close \/ Call \/ Element \/ UNCHANGED vars
  BY <1>8, <1>10
  DEF Open, Close, Call, Element, ChipWorks, Watchdog, Asleep, Put, vars
<1>11. QED
  BY <1>1, <1>2, <1>3, <1>5, <1>6, <1>7, <1>9, <1>10 DEF Next, Execute

LEMMA FlagStep == Flag /\ [Next]_vars => Flag'
<1> SUFFICES ASSUME Flag, [Next]_vars PROVE Flag'
  OBVIOUS
<1> USE DEF interface, receiver, element, output, Flag
<1>1. CASE AddressSent \/ AddressGivenUp
  BY <1>1, Zenon DEF AddressSent, AddressTry, AddressGivenUp, Received
<1>2. CASE ReadLength \/ ReadLengthFails
  BY <1>2, Zenon DEF ReadLength, ReadLengthFails, Length, Received
<1>3. CASE ReadBody
  BY <1>3, Zenon DEF ReadBody, Received
<1>4. CASE WakePulse \/ Poll \/ AddressSkipped \/ Send \/ SendFails \/ Verify \/ Idle
  BY <1>4, Zenon DEF WakePulse, Poll, AddressSkipped, Send, SendFails, Verify, Idle
<1>5. CASE Open \/ Close \/ Call \/ Element \/ UNCHANGED vars
  BY <1>5, Zenon DEF Open, Close, Call, Element, ChipWorks, Watchdog, vars
<1>6. QED
  BY <1>1, <1>2, <1>3, <1>4, <1>5 DEF Next, Execute

-----------------------------------------------------------------------------
(* The references to the bus, which follow the device.                     *)
Bound     == [refs |-> 1, held |-> 1, installed |-> TRUE]
Unbound   == [refs |-> 0, held |-> 0, installed |-> FALSE]
Interface == device \in BOOLEAN /\ bus = IF device THEN Bound ELSE Unbound

LEMMA ReleaseBound == HalRelease(Bound) = Unbound
<1>1. Bound.refs - 1 = 0 /\ Bound.held <= 1 /\ ~(Bound.held > 1)
  BY DEF Bound
<1>2. (Bound.installed /\ Bound.held > 1) = FALSE
  BY <1>1
<1>3. QED
  BY <1>1, <1>2 DEF HalRelease, Unbound

LEMMA InitUnbound == HalInit(Unbound) = Bound
<1>1. Unbound.refs = 0 /\ Unbound.refs + 1 = 1
  BY DEF Unbound
<1>2. (Unbound.installed \/ Unbound.refs = 0 \/ Unbound.held = 0) = TRUE
  BY <1>1
<1>3. QED
  BY <1>1, <1>2 DEF HalInit, Bound

LEMMA InterfaceStep == Interface /\ [Next]_vars => Interface'
<1> SUFFICES ASSUME Interface, [Next]_vars PROVE Interface'
  OBVIOUS
<1>1. CASE UNCHANGED interface
  BY <1>1 DEF Interface, interface
<1>2. CASE Open
  BY <1>2, ReleaseBound, InitUnbound DEF Open, Interface
<1>3. CASE Close
  BY <1>3, ReleaseBound DEF Close, Interface
<1>4. CASE Execute
  BY <1>1, <1>4
  DEF Execute, WakePulse, Poll, AddressSkipped, AddressSent, AddressTry,
      AddressGivenUp, ReadLength, ReadLengthFails, ReadBody, Send, SendFails,
      Verify, Idle
<1>5. CASE Call \/ Element \/ UNCHANGED vars
  BY <1>1, <1>5 DEF Call, Element, ChipWorks, Watchdog, vars
<1>6. QED
  BY <1>2, <1>3, <1>4, <1>5 DEF Next

(* The parts make the type invariant.                                      *)
Types == Words /\ Counts /\ Lengths /\ Flag /\ Interface

LEMMA TypesInit == Init => Types
<1> SUFFICES ASSUME Init PROVE Types
  OBVIOUS
<1>1. Words /\ Counts /\ Lengths
  BY CountAssumption DEF Init, Words, Phases, Contents, Counts, Lengths
<1>2. Flag /\ Interface
  BY Zenon DEF Init, Flag, Interface, Unbound
<1>3. QED
  BY <1>1, <1>2 DEF Types

LEMMA TypesInvariant == Spec => []Types
<1>1. Types /\ [Next]_vars => Types'
  BY WordsStep, CountsStep, LengthsStep, FlagStep, InterfaceStep DEF Types
<1>2. QED
  BY TypesInit, <1>1, PTL DEF Spec

(* Every variable keeps its type, under all faults.                        *)
THEOREM TypeCorrect == Spec => []TypeOK
<1>1. Interface => bus \in [refs : Int, held : Int, installed : BOOLEAN]
  <2>1. Bound \in [refs : Int, held : Int, installed : BOOLEAN]
    BY DEF Bound
  <2>2. Unbound \in [refs : Int, held : Int, installed : BOOLEAN]
    BY DEF Unbound
  <2>3. QED
    BY <2>1, <2>2 DEF Interface
<1>2. Types => TypeOK
  BY <1>1 DEF Types, Words, Counts, Lengths, Flag, Interface, TypeOK
<1>3. QED
  BY TypesInvariant, <1>2, PTL

(* The driver is installed while there is a device, and only then,         *)
(* whatever order atcab_init and atcab_release are called in.              *)
THEOREM DriverCorrect == Spec => []DriverHeld
<1>1. Interface => DriverHeld
  <2>1. CASE device
    BY <2>1, Zenon DEF Interface, DriverHeld, Bound
  <2>2. CASE ~device
    BY <2>2, Zenon DEF Interface, DriverHeld, Unbound
  <2>3. QED
    BY <2>1, <2>2
<1>2. Types => DriverHeld
  BY <1>1 DEF Types
<1>3. QED
  BY TypesInvariant, <1>2, PTL

-----------------------------------------------------------------------------
(* Where a read starts.  From the moment the command is sent, a status     *)
(* without an error means that the read pointer is at the start: Send puts *)
(* it there, and whatever moves it and does not end the polling leaves an  *)
(* error behind, which makes the next receive send the word address.       *)
Rewound ==
  (\/ caller = "poll" /\ pc = "address" /\ status
   \/ caller = "poll" /\ pc = "length"
   \/ pc = "poll" /\ status) => ptr = "start"

LEMMA RewoundStep == Rewound /\ [Next]_vars => Rewound'
<1> SUFFICES ASSUME Rewound, [Next]_vars PROVE Rewound'
  OBVIOUS
<1> USE DEF interface, receiver, element, output,
        Rewound, Phases
<1>1. CASE Open
  BY <1>1 DEF Open
<1>2. CASE Close
  BY <1>2 DEF Close
<1>3. CASE Call
  BY <1>3 DEF Call
<1>4. CASE WakePulse
  BY <1>4 DEF WakePulse, StartReceive, Put
<1>5. CASE Poll
  BY <1>5 DEF Poll, StartReceive
<1>6. CASE AddressSkipped
  BY <1>6 DEF AddressSkipped
<1>7. CASE AddressSent
  BY <1>7 DEF AddressSent, AddressTry
<1>8. CASE AddressGivenUp
  BY <1>8 DEF AddressGivenUp, Received
<1>9. CASE ReadLength
  <2>1. CASE status' = FALSE /\ pc' # "length"
    BY <2>1 DEF Rewound
  <2>2. CASE pc' \notin {"address", "length", "poll"}
    BY <2>2 DEF Rewound
  <2>3. QED
    BY <1>9, <2>1, <2>2 DEF ReadLength, Length, Received
<1>10. CASE ReadLengthFails
  BY <1>10 DEF ReadLengthFails, Received
<1>11. CASE ReadBody
  <2>1. CASE status' = FALSE /\ pc' # "length"
    BY <2>1 DEF Rewound
  <2>2. CASE pc' \notin {"address", "length", "poll"}
    BY <2>2 DEF Rewound
  <2>3. QED
    BY <1>11, <2>1, <2>2 DEF ReadBody, Received
<1>12. CASE Send
  BY <1>12 DEF Send, Accept, Garble, Put
<1>13. CASE SendFails
  BY <1>13 DEF SendFails, Accept, Put
<1>14. CASE Verify
  BY <1>14 DEF Verify
<1>15. CASE Idle
  BY <1>15 DEF Idle, Asleep, Put
<1>16. CASE ChipWorks
  BY <1>16 DEF ChipWorks
<1>17. CASE Watchdog
  BY <1>17 DEF Watchdog, Asleep, Put
<1>18. CASE UNCHANGED vars
  BY <1>18 DEF vars
<1>19. QED
  BY <1>1, <1>2, <1>3, <1>4, <1>5, <1>6, <1>7, <1>8, <1>9, <1>10,
     <1>11, <1>12, <1>13, <1>14, <1>15, <1>16, <1>17, <1>18 DEF Next, Execute, Element

(* A poll reads the response from its beginning, however many reads before *)
(* it were torn.                                                           *)
THEOREM StartCorrect == Spec => []ReadsFromStart
<1>1. Init => Rewound
  BY DEF Init, Rewound
<1>2. Rewound => ReadsFromStart
  BY DEF Rewound, ReadsFromStart
<1>3. QED
  BY <1>1, <1>2, RewoundStep, PTL DEF Spec

-----------------------------------------------------------------------------
(* A receive writes two bytes, and then as many as the length byte says,   *)
(* which has been compared with the size of the buffer.                    *)
Within == caller \in {"wake", "poll"} /\ Lengths /\ WithinBuffer

LEMMA WithinStep == Types /\ Within /\ [Next]_vars => Within'
<1> SUFFICES ASSUME Types, Within, [Next]_vars PROVE Within'
  OBVIOUS
<1> USE DEF interface, receiver, element, output
<1>1. caller' \in {"wake", "poll"} /\ Lengths'
  BY WordsStep, LengthsStep DEF Types, Words
<1>2. Size \in Nat /\ Size' \in Nat /\ 4 <= Size /\ 4 <= Size'
  BY LengthAssumption, <1>1 DEF Size, Within
<1>3. CASE \E n \in Int : Length(n) /\ caller' = caller
  <2>1. PICK n \in Int : Length(n) /\ caller' = caller
    BY <1>3
  <2>2. wrote' = 2 /\ len' = n /\ Size' = Size
    BY <2>1 DEF Length, Size
  <2>3. pc' = "body" => n <= Size
    BY <2>1 DEF Length, Fits, Received
  <2>4. QED
    BY <1>1, <1>2, <2>2, <2>3 DEF Within, WithinBuffer
<1>4. CASE ReadLength
  <2>1. LengthBytes \subseteq Int /\ LengthAt(ptr) \subseteq Int
    BY LengthAssumption DEF LengthAt, Lengths, Within
  <2>2. caller' = caller
    BY <1>4 DEF ReadLength
  <2>3. CASE \E n \in LengthAt(ptr) : Length(n)
    BY <1>3, <2>1, <2>2, <2>3
  <2>4. CASE \E n \in LengthBytes : Length(n)
    BY <1>3, <2>1, <2>2, <2>4
  <2>5. QED
    BY <1>4, <2>3, <2>4 DEF ReadLength
<1>5. CASE WakePulse \/ Poll
  <2>1. pc' = "address" /\ wrote' = 0
    BY <1>5 DEF WakePulse, Poll, StartReceive
  <2>2. QED
    BY <1>1, <1>2, <2>1 DEF Within, WithinBuffer
<1>6. CASE ReadBody
  <2>1. wrote' = len /\ pc' # "body" /\ len <= Size /\ Size' = Size
    BY <1>6 DEF ReadBody, Received, Within, WithinBuffer, Size
  <2>2. QED
    BY <1>1, <2>1 DEF Within, WithinBuffer
<1>7. CASE UNCHANGED <<caller, len, wrote>> /\ (pc' = pc \/ pc' # "body")
  BY <1>1, <1>7 DEF Within, WithinBuffer, Size
<1>8. CASE AddressSkipped \/ AddressSent \/ AddressGivenUp \/ ReadLengthFails
  BY <1>7, <1>8
  DEF AddressSkipped, AddressSent, AddressTry, AddressGivenUp, ReadLengthFails,
      Received
<1>9. CASE Send \/ SendFails \/ Verify \/ Idle
  BY <1>7, <1>9 DEF Send, SendFails, Verify, Idle
<1>10. CASE Open \/ Close \/ Call \/ Element \/ UNCHANGED vars
  BY <1>7, <1>10 DEF Open, Close, Call, Element, ChipWorks, Watchdog, vars
<1>11. QED
  BY <1>4, <1>5, <1>6, <1>8, <1>9, <1>10 DEF Next, Execute

(* No receive writes past its buffer, whatever the chip calls the length.  *)
THEOREM BufferCorrect == Spec => []WithinBuffer
<1>1. Init => Within
  BY LengthAssumption DEF Init, Within, Lengths, WithinBuffer, Size
<1>2. Within => WithinBuffer
  BY DEF Within
<1>3. QED
  BY TypesInvariant, <1>1, <1>2, WithinStep, PTL DEF Spec

-----------------------------------------------------------------------------
(* What the chip has done and still says, by how far the command is.       *)
Receiving(who) == caller = who /\ pc \in {"address", "length", "body"}
Before == pc \in {"wake", "send"} \/ Receiving("wake")
After  == pc = "poll" \/ Receiving("poll")

(* Nothing has been carried out before the command is sent, and the chip's *)
(* response, if there still is one, is an earlier command's.               *)
Untouched == Before => executed = 0 /\ out # "mine"

(* While the device polls, the chip no longer has an earlier response, and *)
(* one of this command shows that it was carried out.                      *)
Answering == After => /\ out # "old" /\ (out = "mine" => executed = 1)
                      /\ executed \in {0, 1}

(* So what has been read is a response of this command or no response.     *)
Reading == pc = "verify" => buf # "old" /\ (buf = "mine" => executed = 1)

(* A result is given at the end of a command.                              *)
Running == /\ pc \notin {"idle", "ready"} => ret = "none"
           /\ pc = "idle" => ret # "none"

Own == Untouched /\ Answering /\ Reading /\ Running /\ OwnResponse

LEMMA OwnStep == Own /\ [Next]_vars => Own'
<1> SUFFICES ASSUME Own, [Next]_vars PROVE Own'
  OBVIOUS
<1> USE DEF interface, receiver, element, output,
        Own, Untouched, Answering, Reading, Running, OwnResponse, Before, After, Receiving
<1>1. CASE Open
  BY <1>1 DEF Open
<1>2. CASE Close
  BY <1>2 DEF Close
<1>3. CASE Call
  BY <1>3 DEF Call
<1>4. CASE WakePulse
  BY <1>4 DEF WakePulse, StartReceive, Put
<1>5. CASE Poll
  BY <1>5 DEF Poll, StartReceive
<1>6. CASE AddressSkipped
  BY <1>6 DEF AddressSkipped
<1>7. CASE AddressSent
  BY <1>7 DEF AddressSent, AddressTry
<1>8. CASE AddressGivenUp
  BY <1>8 DEF AddressGivenUp, Received
<1>9. CASE ReadLength
  BY <1>9 DEF ReadLength, Length, Received
<1>10. CASE ReadLengthFails
  BY <1>10 DEF ReadLengthFails, Received
<1>11. CASE ReadBody
  BY <1>11 DEF ReadBody, Received
<1>12. CASE Send
  BY <1>12 DEF Send, Accept, Garble, Put
<1>13. CASE SendFails
  BY <1>13 DEF SendFails, Accept, Put
<1>14. CASE Verify
  BY <1>14 DEF Verify
<1>15. CASE Idle
  BY <1>15 DEF Idle, Asleep, Put
<1>16. CASE ChipWorks
  BY <1>16 DEF ChipWorks
<1>17. CASE Watchdog
  BY <1>17 DEF Watchdog, Asleep, Put
<1>18. CASE UNCHANGED vars
  BY <1>18 DEF vars
<1>19. QED
  BY <1>1, <1>2, <1>3, <1>4, <1>5, <1>6, <1>7, <1>8, <1>9, <1>10,
     <1>11, <1>12, <1>13, <1>14, <1>15, <1>16, <1>17, <1>18 DEF Next, Execute, Element

LEMMA OwnInvariant == Spec => []Own
<1>1. Init => Own
  BY DEF Init, Own, Untouched, Answering, Reading, Running, OwnResponse, Before,
     After, Receiving
<1>2. QED
  BY <1>1, OwnStep, PTL DEF Spec

(* A command answers for itself, whatever goes wrong on the bus.           *)
THEOREM OwnCorrect == Spec => []OwnResponse
<1>1. Own => OwnResponse
  BY DEF Own
<1>2. QED
  BY OwnInvariant, <1>1, PTL

-----------------------------------------------------------------------------
(* The steps of the abstract command, and the steps that are none of it.   *)
CommandStep == \/ Command!Begin \/ Command!Execute \/ Command!Succeed
               \/ Command!Refuse
callOf == IF pc = "ready" THEN ret ELSE "pending"

LEMMA CommandSteps ==
  Types /\ Own /\ Own' /\ [Next]_vars => CommandStep \/ UNCHANGED <<callOf, executed>>
<1> SUFFICES ASSUME Types, Own, Own', [Next]_vars
             PROVE  CommandStep \/ UNCHANGED <<callOf, executed>>
  OBVIOUS
<1> USE DEF interface, receiver, element, output, callOf
<1>1. CASE Call
  BY <1>1 DEF Call, CommandStep, Command!Begin, Types, Words
<1>2. CASE Send \/ SendFails
  <2>1. pc = "send" /\ pc' # "ready" /\ executed = 0
    BY <1>2 DEF Send, SendFails, Own, Untouched, Before
  <2>2. executed' \in {executed, executed + 1}
    BY <1>2 DEF Send, SendFails, Accept, Garble, Put
  <2>3. QED
    BY <2>1, <2>2 DEF CommandStep, Command!Execute
<1>3. CASE Idle
  <2>1. pc = "idle" /\ pc' = "ready" /\ ret' = ret /\ executed' = executed
    BY <1>3 DEF Idle, Asleep, Put
  <2>2. CASE ret = "ok"
    BY <2>1, <2>2 DEF CommandStep, Command!Succeed, Own, OwnResponse
  <2>3. CASE ret # "ok"
    <3>1. ret = "error"
      BY <2>1, <2>3 DEF Own, Running, Types, Words
    <3>2. QED
      BY <2>1, <3>1 DEF CommandStep, Command!Refuse
  <2>4. QED
    BY <2>2, <2>3
<1>4. CASE Open \/ Close \/ Element \/ UNCHANGED vars
  BY <1>4 DEF Open, Close, Element, ChipWorks, Watchdog, vars
<1>5. CASE pc # "ready" /\ pc' # "ready" /\ executed' = executed
  BY <1>5
<1>6. CASE WakePulse \/ Poll \/ AddressSkipped \/ AddressSent \/ Verify
  BY <1>5, <1>6
  DEF WakePulse, Poll, StartReceive, AddressSkipped, AddressSent, AddressTry, Verify
<1>7. CASE AddressGivenUp \/ ReadLength \/ ReadLengthFails \/ ReadBody
  BY <1>5, <1>7
  DEF AddressGivenUp, ReadLength, Length, ReadLengthFails, ReadBody, Received
<1>8. QED
  BY <1>1, <1>2, <1>3, <1>4, <1>6, <1>7 DEF Next, Execute

(* calib_execute_command, with everything below it, implements what its    *)
(* callers rely on: carried out at most once, "ok" only when it was.       *)
THEOREM Implements == Spec => ImplementsCommand
<1>1. Init => Command!Init
  BY DEF Init, Command!Init
<1>2. Types /\ Own /\ Own' /\ [Next]_vars
        => [Command!Begin \/ Command!Execute \/ Command!Succeed
              \/ Command!Refuse]_<<IF pc = "ready" THEN ret ELSE "pending", executed>>
  BY CommandSteps DEF CommandStep, callOf
<1>3. QED
  BY TypesInvariant, OwnInvariant, <1>1, <1>2, PTL
  DEF Spec, ImplementsCommand, Command!Spec
=============================================================================
