--------------------------- MODULE AtcaTransport ---------------------------
(***************************************************************************)
(* One command to the secure element: calib_execute_command                *)
(* (components/cryptoauthlib/calib_execution.c) wakes the chip, sends the  *)
(* command, polls for the response and puts the chip to idle, through      *)
(* atca_iface.c and the I2C driver hal_esp32_i2c.c, whose functions share  *)
(* one global `status`.                                                    *)
(*                                                                         *)
(* Abstractions.  Commands and responses are told apart only by whether a  *)
(* response is the present command's, an earlier one's, a refusal or the   *)
(* wake token; the length of a response depends on the command, and those  *)
(* of writes, locks and nonces are as short as a refusal or the token.     *)
(* Bytes read from the middle of the output buffer, or spoiled on the bus, *)
(* do not have a valid CRC and do not equal the wake token.  Time is the   *)
(* number of polls a command takes.  `faults` counts what goes wrong on    *)
(* the bus and in the chip.                                                *)
(*                                                                         *)
(* The chip (external, as the code uses it): asleep it acknowledges        *)
(* nothing, and neither does it while it executes a command.  A pulse      *)
(* wakes it and puts the wake token into the output buffer; an accepted    *)
(* command replaces the contents by its response.  Word address 0x00       *)
(* resets the read pointer, 0x03 without data changes nothing.  Its        *)
(* watchdog puts it to sleep.                                              *)
(***************************************************************************)
EXTENDS Integers

CONSTANTS
  MaxPolls,     \* max_delay_count
  Retries,      \* rx_retries
  MaxBusy,      \* polls that find the chip executing a command
  Responses,    \* lengths of the responses of the commands that succeed
  Packet,       \* size of packet->data
  LengthBytes,  \* what may be read for a length byte out of place
  MaxFaults     \* bound: faults of bus and chip

ASSUME CountAssumption ==
  /\ MaxPolls \in Nat /\ Retries \in Nat /\ MaxBusy \in Nat /\ MaxFaults \in Nat
ASSUME LengthAssumption ==
  /\ Packet \in Nat /\ 4 <= Packet
  /\ Responses \subseteq 4 .. Packet /\ Responses # {}
  /\ LengthBytes \subseteq 0 .. 255

Contents == {"none", "wake", "mine", "old", "refusal"}
Phases   == {"ready", "wake", "address", "length", "body", "send", "poll",
             "verify", "idle"}

VARIABLES
  device,    \* has atcab_init made a device?
  bus,       \* hal_esp32_i2c.c: i2c_bus_ref_ct, ref_ct, is the driver installed
  pc,        \* how far the command is
  status,    \* hal_esp32_i2c.c: is the global `status` ATCA_SUCCESS?
  ret,       \* what the last command returned
  caller,    \* who receives: "wake" or "poll"
  tries,     \* word addresses sent by the present receive
  polls,     \* polls after the first
  len,       \* read_length
  wrote,     \* bytes the present receive has put into its buffer
  buf,       \* what these bytes are
  chip,      \* "asleep" or "awake"
  busy,      \* polls the command will still take
  out,       \* the output buffer of the chip
  outlen,    \* and its length byte
  ptr,       \* where the next read of it starts: "start", "body" or "past"
  executed,  \* how often the chip has carried out the present command
  faults

interface == <<device, bus>>
receiver  == <<caller, tries, polls, len, wrote, buf>>
output    == <<out, outlen, ptr>>
element   == <<chip, busy, output, executed>>
vars      == <<interface, pc, status, ret, receiver, element, faults>>

TypeOK ==
  /\ device \in BOOLEAN /\ bus \in [refs : Int, held : Int, installed : BOOLEAN]
  /\ pc \in Phases /\ status \in BOOLEAN /\ ret \in {"none", "ok", "error"}
  /\ caller \in {"wake", "poll"} /\ tries \in 0 .. Retries
  /\ polls \in 0 .. MaxPolls /\ len \in Nat /\ wrote \in Nat
  /\ buf \in Contents \union {"torn"}
  /\ chip \in {"asleep", "awake"} /\ busy \in 0 .. MaxBusy /\ out \in Contents
  /\ outlen \in {4} \union Responses /\ ptr \in {"start", "body", "past"} /\ executed \in Nat
  /\ faults \in 0 .. MaxFaults

Init ==
  /\ device = FALSE /\ bus = [refs |-> 0, held |-> 0, installed |-> FALSE]
  /\ pc = "ready" /\ status = TRUE /\ ret = "none"
  /\ caller = "wake" /\ tries = 0 /\ polls = 0 /\ len = 0 /\ wrote = 0
  /\ buf = "none"
  /\ chip = "asleep" /\ busy = 0 /\ out = "none" /\ outlen = 4 /\ ptr = "start"
  /\ executed = 0 /\ faults = 0

Fault == faults < MaxFaults /\ faults' = faults + 1
Sound == UNCHANGED faults

-----------------------------------------------------------------------------
(* Mutant: the driver is removed only below zero references.               *)
HalRelease_OffByOne(b) ==
  [refs |-> b.refs - 1,
   held |-> IF b.held < 1 THEN 0 ELSE b.held - 1,
   installed |-> b.installed /\ b.held >= 1]

(* hal_i2c_release and hal_i2c_init: the driver is removed with the last   *)
(* reference to the bus, and the table of buses is cleared whenever no     *)
(* interface is counted.                                                   *)
HalRelease(b) ==
  [refs |-> b.refs - 1,
   held |-> IF b.held <= 1 THEN 0 ELSE b.held - 1,
   installed |-> b.installed /\ b.held > 1]

HalInit(b) ==
  [refs |-> b.refs + 1,
   held |-> IF b.refs = 0 THEN 1 ELSE b.held + 1,
   installed |-> b.installed \/ b.refs = 0 \/ b.held = 0]

(* atcab_init releases the device there is and makes a new one.            *)
Open ==
  /\ pc = "ready" /\ device' = TRUE
  /\ bus' = HalInit(IF device THEN HalRelease(bus) ELSE bus)
  /\ UNCHANGED <<pc, status, ret, receiver, element, faults>>

Close ==
  /\ pc = "ready" /\ device /\ device' = FALSE /\ bus' = HalRelease(bus)
  /\ UNCHANGED <<pc, status, ret, receiver, element, faults>>

-----------------------------------------------------------------------------
Listening == chip = "awake" /\ busy = 0

(* The output buffer gets new contents, to be read from the beginning.     *)
Put(content, length) == out' = content /\ outlen' = length /\ ptr' = "start"
Asleep == chip' = "asleep" /\ Put("none", 4)

(* A response left in the chip is now an earlier one's.                    *)
Call ==
  /\ pc = "ready" /\ device
  /\ pc' = "wake" /\ ret' = "none" /\ polls' = 0 /\ executed' = 0
  /\ out' = IF out = "mine" THEN "old" ELSE out
  /\ UNCHANGED <<interface, status, caller, tries, len, wrote, buf, chip, busy,
                 outlen, ptr, faults>>

(* A receive begins with an empty buffer.                                  *)
StartReceive(who) ==
  /\ caller' = who /\ tries' = 0 /\ wrote' = 0 /\ buf' = "none" /\ len' = 2
  /\ pc' = "address"

(* hal_i2c_wake: a pulse; what becomes of it is not looked at.             *)
WakePulse ==
  /\ pc = "wake"
  /\ \/ chip = "asleep" /\ Sound /\ chip' = "awake" /\ Put("wake", 4) /\ busy' = 0
     \/ chip = "awake" /\ Sound /\ UNCHANGED <<chip, busy, output>>
     \/ chip = "asleep" /\ Fault /\ UNCHANGED <<chip, busy, output>>
  /\ StartReceive("wake")
  /\ UNCHANGED <<interface, status, ret, polls, executed>>

(* Mutant: a poll repeats the command.                                     *)
Poll_Resends ==
  /\ pc = "poll" /\ StartReceive("poll")
  /\ IF polls > 0 /\ Listening THEN executed' = executed + 1 ELSE UNCHANGED executed
  /\ busy' = IF busy > 0 THEN busy - 1 ELSE 0
  /\ UNCHANGED <<interface, status, ret, polls, chip, output, faults>>

(* The loop of calib_execute_command that waits for the response.          *)
Poll ==
  /\ pc = "poll" /\ StartReceive("poll")
  /\ busy' = IF busy > 0 THEN busy - 1 ELSE 0
  /\ UNCHANGED <<interface, status, ret, polls, chip, output, executed, faults>>

Size == IF caller = "wake" THEN 4 ELSE Packet

(* Mutant: polls are not counted.                                          *)
Received_Uncounted(ok, data) ==
  /\ status' = ok /\ buf' = data /\ UNCHANGED polls
  /\ \/ caller = "wake" /\ data = "wake" /\ pc' = "send" /\ UNCHANGED ret
     \/ caller = "wake" /\ data # "wake" /\ pc' = "idle" /\ ret' = "error"
     \/ caller = "poll" /\ ok /\ pc' = "verify" /\ UNCHANGED ret
     \/ caller = "poll" /\ ~ok /\ pc' = "poll" /\ UNCHANGED ret

(* hal_i2c_receive returns with the given status and buffer: hal_i2c_wake  *)
(* looks at the buffer only, calib_execute_command at the status.          *)
Received(ok, data) ==
  /\ status' = ok /\ buf' = data
  /\ \/ /\ caller = "wake" /\ data = "wake"
        /\ pc' = "send" /\ UNCHANGED <<ret, polls>>
     \/ /\ caller = "wake" /\ data # "wake"
        /\ pc' = "idle" /\ ret' = "error" /\ UNCHANGED polls
     \/ /\ caller = "poll" /\ ok
        /\ pc' = "verify" /\ UNCHANGED <<ret, polls>>
     \/ /\ caller = "poll" /\ ~ok /\ polls < MaxPolls
        /\ pc' = "poll" /\ polls' = polls + 1 /\ UNCHANGED ret
     \/ /\ caller = "poll" /\ ~ok /\ polls = MaxPolls
        /\ pc' = "idle" /\ ret' = "error" /\ UNCHANGED polls

-----------------------------------------------------------------------------
(* The word address is sent only after an error, until it is acknowledged: *)
(* 0x03 from hal_i2c_wake, 0x00 from the polling loop.                     *)
AddressSkipped ==
  /\ pc = "address" /\ status /\ pc' = "length"
  /\ UNCHANGED <<interface, status, ret, receiver, element, faults>>

(* Mutants: every receive starts with a clean status; one try too many.    *)
AddressSent_Skipped ==
  /\ pc = "address" /\ ~status /\ status' = TRUE /\ pc' = "length"
  /\ UNCHANGED <<interface, ret, receiver, element, faults>>

AddressTry(more) ==
  /\ pc = "address" /\ ~status /\ more
  /\ \/ /\ Listening /\ Sound /\ status' = TRUE /\ pc' = "length"
        /\ ptr' = IF caller = "poll" THEN "start" ELSE ptr
        /\ UNCHANGED tries
     \/ /\ Listening /\ Fault /\ ptr' \in {ptr, "start"}
        /\ tries' = tries + 1 /\ UNCHANGED <<status, pc>>
     \/ /\ ~Listening /\ Sound
        /\ tries' = tries + 1 /\ UNCHANGED <<status, pc, ptr>>
  /\ UNCHANGED <<interface, ret, caller, polls, len, wrote, buf, chip, busy, out,
                 outlen, executed>>

AddressSent_OneMore == AddressTry(tries <= Retries)
AddressSent == AddressTry(tries < Retries)

AddressGivenUp ==
  /\ pc = "address" /\ ~status /\ tries = Retries
  /\ Received(FALSE, buf)
  /\ UNCHANGED <<interface, caller, tries, len, wrote, element, faults>>

(* Mutant: a response longer by one byte than the buffer is accepted.      *)
Fits_OffByOne(n) == 4 <= n /\ n <= Size + 1

(* ATCA_SMALL_BUFFER, ATCA_RX_FAIL.                                        *)
Fits(n) == 4 <= n /\ n <= Size

(* The first two bytes; the length byte is what is at the read pointer.    *)
LengthAt(p) == IF p = "start" THEN {outlen} ELSE LengthBytes

Length(n) ==
  /\ len' = n /\ wrote' = 2
  /\ \/ Fits(n) /\ pc' = "body" /\ buf' = "torn" /\ UNCHANGED <<status, ret, polls>>
     \/ ~Fits(n) /\ Received(FALSE, "torn")

ReadLength ==
  /\ pc = "length" /\ Listening
  /\ \/ /\ Sound /\ ptr' = IF ptr = "start" THEN "body" ELSE "past"
        /\ \E n \in LengthAt(ptr) : Length(n)
     \/ /\ Fault /\ ptr' = "past"
        /\ \E n \in LengthBytes : Length(n)
  /\ UNCHANGED <<interface, caller, tries, chip, busy, out, outlen,
                 executed>>

ReadLengthFails ==
  /\ pc = "length"
  /\ \/ ~Listening /\ Sound /\ UNCHANGED ptr
     \/ Listening /\ Fault /\ ptr' \in {ptr, "body", "past"}
  /\ Received(FALSE, buf)
  /\ UNCHANGED <<interface, caller, tries, len, wrote, chip, busy, out, outlen,
                 executed>>

(* The other len - 2 bytes, without a new start condition.                 *)
ReadBody ==
  /\ pc = "body"
  /\ \/ Listening /\ Sound /\ Received(TRUE, IF ptr = "body" THEN out ELSE "torn")
     \/ Listening /\ Fault /\ Received(TRUE, "torn")
     \/ Listening /\ Fault
        /\ \E data \in {"torn", IF ptr = "body" THEN out ELSE "torn"} : Received(FALSE, data)
     \/ ~Listening /\ Sound /\ Received(FALSE, "torn")
  /\ ptr' = "past" /\ wrote' = len
  /\ UNCHANGED <<interface, caller, tries, len, chip, busy, out, outlen,
                 executed>>

-----------------------------------------------------------------------------
(* The chip takes the command, or finds it garbled and refuses it.         *)
Accept ==
  /\ executed' = executed + 1 /\ busy' \in 0 .. MaxBusy
  /\ \E n \in Responses : Put("mine", n)
Garble == Put("refusal", 4) /\ UNCHANGED <<executed, busy>>

(* hal_i2c_send leaves the global status alone; a command that is not      *)
(* acknowledged is not sent again.                                         *)
Send ==
  /\ pc = "send" /\ Listening
  /\ \/ Sound /\ Accept
     \/ Fault /\ Garble
  /\ pc' = "poll"
  /\ UNCHANGED <<interface, status, ret, receiver, chip>>

SendFails ==
  /\ pc = "send"
  /\ \/ ~Listening /\ Sound /\ UNCHANGED <<executed, output, busy>>
     \/ Listening /\ Fault /\ UNCHANGED <<executed, output, busy>>
     \/ Listening /\ Fault /\ Accept
  /\ ret' = "error" /\ pc' = "idle"
  /\ UNCHANGED <<interface, status, receiver, chip>>

(* Mutant: the CRC is not looked at.                                       *)
Verify_NoCrc ==
  /\ pc = "verify"
  /\ ret' = IF buf = "refusal" THEN "error" ELSE "ok"
  /\ pc' = "idle"
  /\ UNCHANGED <<interface, status, receiver, element, faults>>

(* atCheckCrc and isATCAError, which go by the contents: of four bytes,    *)
(* those of a success have the status 0; the wake token is an error, too.  *)
Verify ==
  /\ pc = "verify"
  /\ ret' = IF buf \in {"mine", "old"} THEN "ok" ELSE "error"
  /\ pc' = "idle"
  /\ UNCHANGED <<interface, status, receiver, element, faults>>

(* Mutant: only a command that succeeded puts the chip to idle.            *)
Idle_OnSuccess ==
  /\ pc = "idle" /\ pc' = "ready"
  /\ IF ret = "ok" /\ Listening THEN Asleep ELSE UNCHANGED <<chip, output>>
  /\ UNCHANGED <<interface, status, ret, receiver, busy, executed, faults>>

(* atidle ends every command; whether the chip heard it is not looked at.  *)
Idle ==
  /\ pc = "idle" /\ pc' = "ready"
  /\ \/ Listening /\ Sound /\ Asleep
     \/ Listening /\ Fault /\ UNCHANGED <<chip, output>>
     \/ ~Listening /\ Sound /\ UNCHANGED <<chip, output>>
  /\ UNCHANGED <<interface, status, ret, receiver, busy, executed>>

Execute ==
  \/ WakePulse \/ Poll \/ AddressSkipped \/ AddressSent \/ AddressGivenUp
  \/ ReadLength \/ ReadLengthFails \/ ReadBody \/ Send \/ SendFails
  \/ Verify \/ Idle

-----------------------------------------------------------------------------
(* The chip gets on with the command while the device does other things.   *)
ChipWorks ==
  /\ busy > 0 /\ busy' = busy - 1
  /\ UNCHANGED <<interface, pc, status, ret, receiver, chip, output, executed,
                 faults>>

(* The watchdog, 1.3 s after waking: only by a fault within a command.     *)
Watchdog ==
  /\ chip = "awake"
  /\ Asleep /\ busy' = 0
  /\ IF pc = "ready" THEN Sound ELSE Fault
  /\ UNCHANGED <<interface, pc, status, ret, receiver, executed>>

Element == ChipWorks \/ Watchdog

Next == Open \/ Close \/ Call \/ Execute \/ Element

Spec == Init /\ [][Next]_vars

-----------------------------------------------------------------------------
(* The driver is installed exactly while there is a device, by one         *)
(* reference, however often the callers of atcab_init forget to release.   *)
DriverHeld ==
  bus = [refs |-> IF device THEN 1 ELSE 0, held |-> IF device THEN 1 ELSE 0,
         installed |-> device]

(* However reads fail in the middle, a poll reads the response from its    *)
(* beginning: an error of an earlier transaction, kept in `status`, makes  *)
(* the next receive send the word address first, and no error is left by   *)
(* one that succeeded.                                                     *)
ReadsFromStart == (pc = "length" /\ caller = "poll") => ptr = "start"

(* No receive writes past its buffer: four bytes in hal_i2c_wake, whatever *)
(* the chip still had to say, and packet->data otherwise.                  *)
WithinBuffer == wrote <= Size /\ (pc = "body" => len <= Size)

(* A command answers for itself: "ok" comes with this command's own, whole *)
(* response (the chip may have kept an earlier one), and no command is     *)
(* carried out twice.                                                      *)
OwnResponse == ret = "ok" => buf = "mine" /\ executed = 1

(* calib_execute_command implements SecureCommand.                         *)
Command == INSTANCE SecureCommand
           WITH call <- IF pc = "ready" THEN ret ELSE "pending"
ImplementsCommand == Command!Spec
=============================================================================
