# Verification of rainbowtype-bootloader

rainbowtype-bootloader is the factory image of an ESP32 device. It obtains WiFi
credentials from a user, connects to a server over a mutually authenticated TLS
websocket, and does what the server asks: renew the device certificate, store a
firmware URL, download firmware, start the application. The keys, the
certificate, the credentials and the boot state live in an ATECC608 secure
element that survives resets; everything else is RAM that does not.

This directory holds TLA+ models of the program, configurations that TLC checks,
and theorems with proofs that TLAPS checks. All paths below are relative to the
root of the source (`src/src/main.c` is written `main.c`). Contents:

1. Inventory of the system
2. Modules, and how they correspond to the code
3. What the runs check and show, with their bounds
4. Fairness
5. What is proved, and how
6. What the checks found in the code
7. What is not modelled, and the plan


## 1. Inventory

| Component | Source | State | Operations |
|---|---|---|---|
| Device identity rolling | `configure.c`, the `getnextkey` and `certificate` branches of `websocket_app_start` in `main.c` | Secure element: two private keys, the compressed certificate, slot 8 block 4 (current slot, registered slot, accept mode, boot state). RAM: `secdata`, `g_cert_def_2_device`, `keynum`, `nextkey`, `newdevicecert`, `backupdevicecertder` | `sysinit`, `restoredevstatus`, `savedevstatus`, `getpubkey`, `setdevicecert` |
| Boot control and server protocol | `main.c`, `ota.c` | boot state (chip and two RAM copies), selected partition, image in `ota_0`, request flags, `rebootflag`, `CONNECTED_BIT`, websocket client | `app_main`, `stateupdate`, `websocket_app_start`, `websocket_event_handler`, `actiontask`, `ota_start` |
| WiFi provisioning | `wifitask.c`, `wifimgr/wifi_manager.c`, `wifimgr/http_server.c`, `wifimgr/code.js` | `wifi_manager_config_sta`, `ip_info_json`, its mutex, an event group, `ssidresult`/`passresult`, `connected` | `wifiinit`, the HTTP handlers, `wifi_manager`, `wifi_manager_event_handler` |
| Message parsing | `main.c` (`actiontask`), `configure.c` (`pickpemcert`, `replace_*`) | receive buffer | substring searches |
| URL and credential storage | `configure.c`, `wifitask.c` | slot 8 blocks 0–2 and 5–12 | `savemiscdata`, `restoremiscdata`, `savecredentials`, `restorecredentials` |
| Access point list, JSON escaping | `wifi_manager.c`, `json.c` | list of scanned points | `wifi_manager_filter_unique`, `json_print_string` |
| I2C transport | `components/cryptoauthlib` (`calib_execution.c`, `atca_iface.c`, `hal_esp32_i2c.c`) | HAL status, two reference counts, wake state and output buffer of the chip | `atcab_init`, `atcab_release`, `calib_execute_command` with wake, send, receive, idle |
| TLS connection | `components/esp-tls/esp_tls.c`, `esp_tls_mbedtls.c` | connection state, descriptors, contexts, loaded identity | `esp_tls_conn_new_sync`, `_async`, `esp_tls_low_level_conn`, `set_pki_context`, `esp_tls_conn_delete` |
| wolfSSL backend | `components/esp-tls/esp_tls_wolfssl.c` | – | not built: the configuration selects mbedTLS |
| Web page | `wifimgr/index.html`, `style.css` | – | layout |
| Build | `platformio.ini`, CMake files, `partition.csv` | – | – |

### How the components interact

- **Tasks.** The main task runs `app_main`. In provisioning it starts the HTTP
  task, the WiFi manager task and the SDK's event task; afterwards the websocket
  client owns a task that calls `websocket_event_handler` and, through it,
  `actiontask`. Tasks communicate through globals (`getnextkey`, `nextkey`,
  `secdata`, `currentstate`, `connected`, `wifi_manager_config_sta`), nearly
  always without a lock, and through event groups.
- **Secure element.** The main task and the websocket task both save block 4 of
  slot 8, each time as a whole, from one RAM copy.
- **Server.** On a connection the device says `bootup`, unless `rebootflag` says
  the connection belongs to a request; the server sets the state and sends a
  request; the loop of `websocket_app_start` serves exactly one request per boot
  and reports on it. A certificate renewal therefore spans at least two boots.
- **Application.** Started through the ROM loader when `ota_0` is selected and
  valid. It hands control back by selecting the factory partition.

### What is hard about it

- a roll of the identity changes a certificate, a key, a block on the chip and
  three RAM variables one after the other, and power may be cut, or a command may
  fail, between any two of them;
- requests arrive in any order, repeated, out of sequence, or while another one
  is being served, in a task of their own;
- connections are lost, and with them reports that nobody repeats;
- four tasks share the provisioning state, with one mutex that not all of them
  take; the main task deletes two of them wherever they are;
- waits without a timeout, on WiFi, on a request, on a disconnection.

`PROJECT.json` lists these hazards one by one, each at its line, with the
properties that would show it going wrong.

### What makes each component correct

- *Identity rolling.* The certificate, the key it certifies and the block that
  names the slot agree at every boot; a key is destroyed only when it is no
  longer needed; an open connection never speaks for a changed identity; a roll
  that stopped half way is never reported as finished; no sequence of
  requests locks the device out.
- *Boot control.* The application is selected only when the state allows it;
  device and server never wait for each other; every boot ends.
- *Provisioning.* Only credentials that have led to a connection are saved; what
  the user is shown is about his last attempt; every attempt is answered and a
  success is saved.
- *Storage.* A value read back is one that was written.
- *I2C transport.* A command reported as executed was, once, and the answer is its
  own; an error is neither lost nor carried into the next command.
- *TLS connection.* No data is exchanged before the handshake has succeeded; a
  failed connection releases everything.


## 2. Modules

| Module | Role |
|---|---|
| `CertRoll` | the identity roll |
| `IdentityRegister` | abstract: what a device promises whose identity is renewed |
| `PemText` | the texts of public key and certificate in the messages |
| `MCCertRoll` | sets for the configurations of `CertRoll`; the texts along with it |
| `CertRollProofs` | its inductive invariants, six properties and the refinement; the texts arrive |
| `Bootloader` | boot states, requests, partitions |
| `BootPolicy` | abstract: who decides what a device runs |
| `MCBootloader` | sets for its configurations |
| `BootloaderProofs` | its inductive invariants, three properties and the refinement |
| `WifiProvision` | the four tasks of the provisioning session |
| `MCWifiProvision` | up to three credentials, of which two work |
| `WifiProvisionProofs` | its inductive invariants and four properties |
| `JsonText` | `json_print_string`, and a reader of JSON as reference |
| `AccessPoints` | the list of access points and the sizes of the pages (extends `JsonText`) |
| `MCProvisionPages` | the session together with what its pages show |
| `Induction` | induction over numbers and the existence of what a loop computes |
| `JsonTextProofs` | every string is printed so that a reader gets it back |
| `ProvisionPagesProofs` | what is on the pages means the names, and fits; the list of points has the networks found |
| `SecureCommand` | abstract: what one command to the secure element promises |
| `AtcaTransport` | the transport of one command: wake, send, poll, idle, over I2C |
| `AtcaTransportProofs` | its inductive invariants, five invariants and the refinement |
| `EspTls` | one TLS connection: socket, contexts, handshake, deletion |
| `SecureConnect` | `EspTls` with its commands carried out by `AtcaTransport` |
| `MCSecureConnect` | the connections the program and the interface allow |
| `SecureConnectProofs` | the composition, its inductive invariants and six properties |

A module keeps, in this order: constants and their assumptions, variables, the
type invariant, `Init`, the actions in the order of the code, `Next` and the
specifications, the safety properties, what makes them inductive, the liveness
properties, and claims of the source that its behaviour contradicts. An operator
`X_Variant` placed before `X` is `X` with a plausible mistake; it belongs to no
specification, and replacing `X` by it makes the property it is listed with in
`PROJECT.json` fail. This is how it is known that each property can fail.

### CertRoll

The block `blk` is slot 8 block 4 as a record: `cur`, `reg`, `accept`, `st` are
bytes 0 to 3. `key`, `fresh`, `cert` are the rest of the chip: the key in each of
the two slots, the next key it will generate, and the certificate, represented by
the key it certifies (0 if it was damaged or is somebody else's). `secdata` is
the RAM copy, `defslot` is `g_cert_def_2_device.public_key_dev_loc.slot`,
`keynum` the slot that signs handshakes.

| Code | Actions |
|---|---|
| `stateupdate`, `sysinit`, the restart when the chip does not answer | `StateUpdate`, `SysInit`, `SysInitFails` |
| polling loop | `PollPubkey`, `PollCert`, `Leave` |
| `getpubkey` and what surrounds it in `main.c` | `PkRestore`, `PkRead`, `PkSave`, `PkAnnounce`, `PkSend` |
| `setdevicecert`: checks, backup and decoding, write, read back and compare, recovery, genkey, save | `DcCheck`, `DcBackup`, `DcWrite`, `DcVerify`, `DcRecover`, `DcRecheck`, `DcGenkey`, `DcSave` |
| what `main.c` does after it, whatever it returned | `DcReturn`, `DcSend` |
| websocket task | `Connect`, `Drop`, `RecvState`, `RecvPubkey`, `RecvCert`, `RecvNoPem` |
| reset | `PowerCut` |

Each command to the chip is a step that may fail. `faults` records *which kinds*
of fault have happened – a failed restore, a failed save, a failure of any other
command, a power cut between the first write of a certificate and the save of the
block – and not how many, so that runs cover any number of them. Properties say
which kinds they tolerate. `"trusted"` is a link on which the server has checked
the device's certificate; `Authentic` says what that check sees: the certificate
is rebuilt around the key in `defslot`, and `keynum` signs.

`IdentityRegister` is what all this is for: a device with one certified key and a
spare one announces the spare key (`Announce`) and moves to it in one step
(`Move`), after which the key it left is gone. `CertRoll!Identity` maps its slot
to `Current`, the slot the block names, or the RAM copy between genkey and the
save; genkey is the step that moves.

### Bootloader

The state of the boot: `st` on the chip, `ram` and `currentstate` in RAM, the
selected partition and the image in it, pending requests, `rebootflag`, WiFi and
websocket. `Restart` is a reset: the ROM loader (external) starts `ota_0` if it
is selected and valid and the factory image otherwise. `Rank` is the order in
which the loop looks at the flags. The module does not repeat what `CertRoll`
says about keys: a `pubkey` or `cert` request restores and perhaps saves the
block, in `Work` and `WorkSave`. The two modules share the loop of
`websocket_app_start` and block 4, seen once from the keys and once from the
boot state.

`BootPolicy` is what a device promises its server about that: five variables and
six actions, without tasks, flags, RAM copies or connections. The server sets the
state and asks for things; the application is selected only in `offlineboot`, or
in `onlineboot` after the server has asked for something, and only if the image is
whole; a download has been asked for or forced; and what is selected runs at the
next start. `Bootloader!Policy` maps `st`, `bootpart`, `ota0`, whether the
application runs, and what has been asked for (`pending` with `serving`). The
policy is about devices whose commands to the chip do not fail; it does not say
that a selection is taken back when the state changes, because the code does not
(`BootProhibited`).

### WifiProvision

Every task is a control variable: `mpc` (main), `hpc` (HTTP), `gpc` (manager), `epc`
(event task). One step is what a task does between two points where another task can
notice: an access to the event group, to the configuration that is not locked, a
region under the mutex. The sending of the status page is two steps with the mutex
held, so that a change of the page in between is visible; it is looked at once more
after the mutex has been released (`StatusTest`), as in the code. For the same
reason the manager's region of a result is two: `ConnJson` writes the page,
`ConnCopy` copies the credentials (`wifi_manager.c:504-537`). The HTTP task may post
in between, and be deleted in between. The manager itself may not: from the moment
`connected` is seen the main task waits twice 50 ms (`wifitask.c:150-154`) before it
deletes it, and `KillManager` assumes that this is enough for two `memcpy`. Nothing
else in the code ensures it, and without it `SuccessSaved` fails. The manager keeps
the bits it has read at the top of its loop in `seen`, and decides with them, stale
or not. Each credential has a size because the result is copied by `memcpy` of
`strlen` bytes over the previous one (`Overlay`).

`Patient` is a user who waits for answers, as `code.js` (196, 280, 299) makes him:
the button that leads back to the list is disabled until the status shows a result
(`MayPost`). He may enter credentials while the page scans, which it does all the
time. With `"rejoin"` in `Ops` he may also join another network from a page that
shows a success, without disconnecting (`code.js:63`). With `Patient = FALSE` a second
browser or a reloaded page is possible.

The driver is external. It is modelled by what the code relies on: an attempt
ends with GOT_IP or DISCONNECTED, and `esp_wifi_disconnect` is followed by an
event only if there was a connection or an attempt to give up.

### AtcaTransport and SecureCommand

`calib_execute_command` as it runs: wake pulse and token, word address and packet,
polls for the length byte and then the rest, the checks of length and CRC, idle.
`status` is the one global of `hal_esp32_i2c.c` through which a failed
transaction reaches the next: a receive sends the word address only while
`status` is an error. The chip is a reader of its own output buffer, with a read
pointer that stays where an interrupted read left it; this is what makes a
wrong `status` matter. `Open` and `Close` are `atcab_init` (which releases the
device it finds, and ends with a command) and `atcab_release`, with the two
reference counts of the HAL.

| Code | Actions |
|---|---|
| `atcab_init`, `atcab_release`, `hal_i2c_init`, `hal_i2c_release` | `Open`, `Close`, with `HalInit`, `HalRelease` |
| `hal_i2c_wake`, `atwake` | `Call`, `WakePulse` and the receive it starts |
| `hal_i2c_receive` | `AddressSkipped`, `AddressTry`, `AddressGivenUp`, `ReadLength`, `ReadBody`, `Received` |
| `hal_i2c_send`, `atsend` | `Send`, `SendFails` |
| loop and checks of `calib_execute_command` | `Poll`, `Verify` |
| `hal_i2c_idle` | `Idle` |
| the chip (external) | `ChipWorks`, `Watchdog` |

`SecureCommand` is what the callers rely on: a command is carried out at most
once; "ok" is reported only of one that was; one reported as failed may have been
carried out all the same. `CertRoll` and `Bootloader` model every access with
exactly these outcomes, so that `ImplementsCommand` is the justification of
theirs: a save that "fails" may have changed the block.

Assumed of the chip, because the code relies on it: spoiled bytes have no valid
CRC and do not equal the wake token; writing word address 0x03 alone leaves the
read pointer; 0x00 resets it; the watchdog puts the chip to sleep. `outlen` is the
length of what is in its output buffer: four bytes for the wake token and for a
refusal, a member of `Responses` for what a command returns. The responses of writes,
locks and nonces have four bytes, too, so that `Responses` is any set of lengths from
four on, and such a response is told from the others by what is in it and not by its
length.

### EspTls and SecureConnect

`EspTls` is the state machine of `esp_tls_low_level_conn` with the function that
repeats it (`esp_tls_conn_new_sync`) or is called again by the user
(`_async`), the contexts of mbedTLS, and `esp_tls_conn_delete`. A socket is a
descriptor number with an owner, so that a number closed twice can hit another
task's socket. `EspTls` stops in its `ChipPhases`; `SecureConnect` lets
`AtcaTransport` carry out the commands of `set_pki_context` and of the signature
(`asked` is how far this has got), and hands the answer back. A phase takes one
command where the code may send several in a row: each of them fails in the same
way, and a failure of any ends the phase. Every connection has a CA certificate,
the server asks for the client's, both as the program configures it.

What the code does and the model repeats without a property against it: a failed
handle is cleaned up twice; `esp_tls_conn_delete` closes the descriptor a second
time (`esp_tls.c:98`); a timeout of `select` clears the sets it would use the next
time, so that a non-blocking connection that has timed out once never completes
(`esp_tls.c:263`); a `select` that fails is not told from one that finds the socket
ready, and the handshake begins on a socket that still connects
(`SelectInterrupted`); `atwake` repeats on a status the HAL never returns.

### JsonText, AccessPoints, PemText

Pure algorithms, as operators in the order of the code, against reference
definitions: what a JSON reader makes of the text, the networks of a scan, what
the other side sent. A loop whose result is proved something about is the function
of what it has computed after each pass (`Counted`, `WrittenUpTo`, `AbsorbUpTo`,
`RemoveUpTo`, `CloseUpTo`, `PointsUpTo`, `ReplaceUpTo`, and the readers). The
loop of `replace_chr` and `replace_str_all` is the same but for what is searched, a
pass of it is `Replace`; it is given as many passes as the text has characters, and
`ReplaceSpelled` shows that this is enough for what is searched here: nothing is left
to be replaced. The pages' sizes are the sums of what
the formats write. The wire form of a certificate (newlines as two
backslashes and an `n`) is taken from what `main.c:444` replaces.

Two boundaries are kept as they are in the code. `pickpemcert` lets a text of exactly
the size of `newdevicecert` (1000) pass, and the string that is searched afterwards
goes on with what lies behind it in memory (`InBuffer`); an end marker before the
begin marker gives a length that may be negative, of which `memcpy` makes nothing
defined: the result is called `Overrun`, and no property is stated of it. A name of 32
characters fills `sta.ssid` (`http_server.c:194`), and `json_print_string` goes on into
`sta.password` (`Printed`).

The modules
have no variables; `MCProvisionPages` and `MCCertRoll` state that, where a session
runs one of them, it is right for every sample. `MCProvisionPages` takes every
scan of up to four points, `JsonText` every text of three characters out of ten
that differ in how they are written.


## 3. Runs

Seven configurations whose properties hold, and five claims that are refuted.

| Run | Checks | Instance | States |
|---|---|---|---|
| `CertRollSafe` | `TypeOK`, `IdentityIntact`, `WindowArmed`, `LinkAuthentic`, `TextsArrive`, `NoHalfRollReported`, `RetireVerified` | `MaxKey` 4, all faults, power cut everywhere | 1.8 million |
| `CertRollLive` | `EveryBootConnects`, `RequestServed`, `GoodCertInstalled`, `ImplementsIdentity` | `MaxKey` 4, no faults, power cut while idle | 8.3 thousand |
| `CertRollSuccess` | refutes `SuccessIsDurable` | failed saves only | – |
| `BootSafe` | `TypeOK`, `NoMutualWait`, `SelectionPermitted` | all requests and states, 2 failed accesses, power cut everywhere | 769 thousand |
| `BootLive` | `BootEnds`, `OnlineBoots`, `ImplementsPolicy` | all requests, no faults | 52 thousand |
| `BootProhibited` | refutes `ProhibitedNeverRuns` | one request, one state | – |
| `ProvSafe` | `TypeOK`, `SavedVerified`, `StatusTruthful`, `EscapeCorrect`, `FilterCorrect`, `PagesFit`, `PageStable` | three credentials of one length, patient user who does not rejoin, scans, disconnect requests, lost connections | 252 thousand |
| `ProvLive` | `ConnectServed`, `SuccessSaved` | the same credentials and user, scans | 2.2 thousand |
| `ProvOverwrite` | refutes `SavedVerified` for an impatient user | scans | – |
| `ProvTail` | refutes `ResultIsConfig` for a patient user | two working credentials of different length, disconnect requests | – |
| `ProvHang` | refutes `DisconnectEnds` under fairness | impatient user | – |
| `SecureConnect` | `TypeOK`, `DriverHeld`, `ReadsFromStart`, `WithinBuffer`, `OwnResponse`, `ConnectTypeOK`, `SocketReleased`, `EstablishedIsReal`, `HandshakeReady`, `ImplementsCommand`, `ClosesOnlyOwn`, `IdentityFromChip`, `ConnectEnds`, `Reconnects` | two polls, two tries of a receive, responses of four and six bytes, two faults, four kinds of connection | 172 thousand |

### What they show

*CertRollSafe.* Requests for the two slots and for one that does not exist, with
certificates for any key ever announced, for a foreign key and undecodable, in
any order and at any time the client runs. `IdentityIntact`: without faults the
block names the slot whose key the certificate certifies, except while a
certificate is being written. It depends on the two checks of `setdevicecert`, on
the comparison after the write, on the recovery and on genkey hitting the slot
`g_cert_def_2_device` still names, not "next slot" as its comment says
(`configure.c:448`). `WindowArmed`: under *all* faults the certificate is only
touched while the block on the chip – not just the RAM copy that is checked – is
armed for the slot being certified. `LinkAuthentic`: a link that was
authenticated stays truthful while it is up, because `main.c` stops the client
before it works on the chip. `NoHalfRollReported`: `main.c` moves `keynum` and sends
`finishcertrefresh` whatever `setdevicecert` returned (`main.c:456`). A server that
checks certificates hears of it in two cases: after the roll of this boot, with the
requested certificate installed and the success message printed; and for a request
whose slot was the current one already, one delivered twice for instance, which is
refused and changes nothing. The second report is not about a roll of this boot, and
the code makes no difference. What does not happen, as long as no restore fails, is the
report of a roll that stopped half way: `keynum` then signs for the new slot while the
certificate is still rebuilt around the key of the old one (`defslot`), and the
handshake fails. (That a finished roll is also durable is another question, see
`CertRollSuccess`.) The number in
`publickeyissued` (`main.c:423`, `nextkey` read once more) is not part of the model.
`RetireVerified`: as long as no *restore* has failed, a key is
destroyed only when the certificate is for the key in the other slot. The
hypothesis is needed: a failed restore leaves `defslot` at a stale value, and
genkey goes there.

*CertRollLive.* Every boot gets an authenticated connection, so that no sequence
of requests locks the device out; a request is served and the loop ends; and a
good certificate, once taken up while the block is armed for it, is installed.
`ImplementsIdentity`: without faults the roll is a step of `IdentityRegister`. A
device never moves to a key it has not announced, however the requests are mixed
and repeated, and no reset outside the write window undoes or repeats a move.

*BootSafe.* `NoMutualWait`: while the device waits for a request on an open
connection, it has said `bootup` on it. A connection that belongs to a request
(`rebootflag`) is lost and reopened, and still nobody waits. `SelectionPermitted`:
apart from a complete download, `ota_0` is selected only when the state on the
chip is `offlineboot`, or `onlineboot` with a request served in this boot. It
needs the three copies of the state to agree although two tasks restore and save
the whole block.

*BootLive.* Whatever requests arrive in whatever order, a boot that waits for
WiFi ends. `OnlineBoots`: a start in `onlineboot` with a valid image leads to the
application, through lost WiFi and lost connections and whatever the server asks for
first, unless it asks for a download or changes the state. A request that has not
been accepted may be lost with its connection; the device must then say `bootup`
again, which it would not do if `rebootflag` were set too early (`main.c:292`).
`ImplementsPolicy`: every step is one of `BootPolicy` or changes nothing of what it
sees. This needs that a request that arrives while the loop is being left finds
the client stopped: otherwise it would decide about a download that was not asked
for when the loop ended.

*ProvSafe, ProvLive.* The user waits for answers, and does not join another network
while a success is shown (`AllOps` has no `"rejoin"`). For him, saved credentials have
led to a connection, success or failure is shown about the credentials last
entered and really tried, the page does not change while it is sent; every
request is answered; a success is saved although the main task deletes the HTTP
task wherever it is. The refuted claims are in section 6, with what happens if the
user does rejoin.

*The texts.* `FilterCorrect`: after a scan the list is the networks found, each
once, with the best signal, in the order of the scan, also with hidden networks,
which look like removed ones. `EscapeCorrect`: the closing quote, whose place is
computed in a pass of its own, is where the text ends. `PagesFit`: the pages fit
the memory set aside if up to 23 characters of each name need an escape; 23 is the
largest number for which this holds. For the status page this is so where the name
alone is printed: a name of up to 31 characters with any password, or one of 32
without. One of 32 characters is printed together with the password, and the page
can then exceed `JSON_IP_INFO_SIZE`; the code checks neither, so that the property
says for which names no check is needed. `TextsArrive`: public key and certificate
survive being searched and rewritten in place, in buffers shorter and longer than
the text, and of exactly its size, where the text is followed by what lies behind the
buffer.

*SecureConnect.* Faults at any point of a command: a lost or spoiled wake, send,
word address, length byte or body, a chip that falls asleep. `OwnResponse` and
`ImplementsCommand`: "ok" comes with the present command's own response, although
the chip may have kept an earlier one and `hal_i2c_wake` does not look at the
result of its receive. `ReadsFromStart` shows that the global `status` does no harm
although one function's error is found by another, `WithinBuffer` that no length
byte overruns a buffer, `DriverHeld` that the two reference counts agree with the
device however often `atcab_init` is called without a release. For connections:
`SocketReleased` and `ClosesOnlyOwn` (the double close is the one exception, and
only between the two closes), `HandshakeReady`, `EstablishedIsReal` and
`IdentityFromChip` (a non-blocking connection goes on without a look at
`SO_ERROR`, and the chip is released and reopened between the certificates).
`ConnectEnds` and `Reconnects`: no fault locks the transport, and a device whose
network recovers is connected again and again.

### Bounds

- *`MaxKey`* limits how many keys are generated: certificates are accepted while
  `fresh <= MaxKey`. A device starts with keys 1 and 2. With 4, two complete rolls
  fit, from slot 0 to 1 and back, so both directions and the state in which the
  keys of both slots have been replaced occur. The theorems hold for every value.
- *`States`* has two members in `CertRoll`: the boot state is stored and restored
  with the block but never read there; two are enough to see a message change it.
- *Faults* in `CertRoll` are unlimited in number. In `Bootloader`, `MaxFaults` is
  2: enough for a failed restore and a failed save in one behaviour. The theorems
  hold for every value.
- *`Digits`* is both slots and one digit that names none; other digits fail the
  same check.
- *`MaxEvents`* is 2: a driver event that has not been handled when the next one
  arrives. It bounds only spontaneous events.
- *Three credentials*, two of which work: success after failure, failure after
  success, another success after a success. Before every attempt the page and the
  configuration are rewritten, so that a fourth adds no new relation between old
  and new. In `ProvSafe` and `ProvLive` all have one length: what happens with
  different lengths is the subject of `ProvTail`, and would hide everything else
  that could be wrong with what is saved.
- *Transport*: two polls and two tries of a receive are the least for which "not yet
  ready", "ready later" and "given up" all occur; the code's 20 (`I2C` retries) and
  its poll count only repeat them. Responses have four bytes, as those of writes,
  or six, longer than any other; `Packet` is one
  more, and the length bytes are one below the least allowed, the token's, and one
  above `Packet`. Two faults are one that leaves a trace and one that meets it. The
  theorems hold for every value.
- *Connections*: the blocking call with a timeout, as the program makes it, the
  asynchronous call, and the non-blocking ones without a timeout and with none
  that ever runs out: every branch of the code is taken. One connection and one
  other task that takes a freed descriptor number.
- *Texts*: four points are two duplicates around another one and a gap before a
  move; strings have length three (an escape between, before and after others) and
  codes of every class. `MaxPem` 8 stands for 1000: texts are accepted and refused.
- The boot and provisioning liveness runs have no faults and cut power only while
  idle: with faults that may always recur no progress can be promised, and a power
  cut is a way out of every wait.


## 4. Fairness

- `CertRoll`: `WF(Main)`: the main task polls with delays and is never starved;
  a command of the chip returns. `WF(Connect)`: `esp_websocket_client`
  reconnects as long as it is started.
- `Bootloader`: the same, and strong fairness of WiFi coming up, of `Connect` and
  of the main task noticing WiFi: outages end again and again, and each is long
  enough to be noticed. The server answers `bootup` with a request, if it is told
  so often enough; nothing is assumed about a server that was not told, which is
  why `NoMutualWait` matters.
- `WifiProvision`: every task runs. For the two that wait for the mutex this is
  strong fairness, since FreeRTOS queues the waiters of a mutex. An attempt of
  the driver ends. The page polls the status.
- `SecureConnect`: device, chip and bus run; the network answers or a timer runs
  out. Network, server and memory may fail for as long as they like but not for
  ever (`calm`, weakly fair). A call that failed is given up some time (strong
  fairness of leaving `tpc` for "free"), and the program connects again and again
  with a blocking socket, which is what `esp_websocket_client` and
  `esp_https_ota` do; other connections are the user's choice and not fair.

No fairness is assumed of requests, lost connections, power cuts or faults.


## 5. Proofs

`tlapm` proves every theorem of `CertRollProofs` (2805 obligations),
`BootloaderProofs` (440), `WifiProvisionProofs` (739), `AtcaTransportProofs` (539),
`SecureConnectProofs` (511), `Induction` (71), `JsonTextProofs` (766) and
`ProvisionPagesProofs` (1634) for all values of the constants that satisfy the named
assumptions: `StateAssumption`, `FaultAssumption`, `BoundAssumption` of `CertRoll`
(boot states, kinds of fault and control points are what the module defines;
`MaxKey` is a natural number) and `ServerAssumption`, `InitialAssumption`,
`BoundAssumption` of `Bootloader` (likewise), and `CredAssumption` of
`WifiProvision` (working credentials are credentials, zeroed memory is not),
`PemAssumption` of `PemText` (`MaxPem` is a natural number), and `PointAssumption`
of `AccessPoints` (no name is the empty name, signal strengths are integers), and
`CountAssumption` and `LengthAssumption` of `AtcaTransport` (bounds are naturals;
there are responses, each has at least the four bytes that the code demands and fits
the packet; a length byte is a byte). They say nothing about behaviour. TLC
evaluates them in every run.

| Theorem | States |
|---|---|
| `CertRollProofs!TypeCorrect` | `Spec => []TypeOK` |
| `ArmedCorrect` | `Spec => []WindowArmed`, under all faults |
| `LinkCorrect` | `Spec => []LinkAuthentic`, under all faults |
| `FinishCorrect` | `Spec => NoHalfRollReported`; the half on refused requests without failed restores |
| `RetireCorrect` | `Spec => RetireVerified`, without failed restores |
| `IdentityCorrect` | `Spec => []IdentityIntact`, for any number of rolls |
| `IdentityImplements` | `Spec => ImplementsIdentity` if `FaultKinds = {}`, the refinement of `IdentityRegister` |
| `PublicKeyArrives` | `Delivered(lines)` for lines of any length, of printable characters but backslashes, returns and newlines |
| `CertificateArrives` | `PickedRight(lines, before, after, rest)` for texts of any length without markers before or in the certificate, whatever is behind the buffer, and any `MaxPem` |
| `TextsAlwaysArrive` | `Spec => []TextsArrive` |
| `BootloaderProofs!TypeCorrect` | `Spec => []TypeOK` |
| `WaitCorrect` | `Spec => []NoMutualWait` |
| `SelectionCorrect` | `Spec => SelectionPermitted`, without faults |
| `BootImplements` | `Spec => ImplementsPolicy` if `MaxFaults = 0`, the refinement of `BootPolicy` |
| `WifiProvisionProofs!TypeCorrect` | `Spec => []TypeOK` |
| `PageCorrect` | `Spec => PageStable` |
| `StatusCorrect` | `Spec => []StatusTruthful` for a patient user who does not rejoin |
| `SavedCorrect` | `Spec => []SavedVerified` for the same user and working credentials of one length |
| `JsonTextProofs!NothingStale` | text and closing quote meet, for every string |
| `EscapeInverts` | `Read(JsonPrintString(s)) = s` for every string |
| `ProvisionPagesProofs!NamesAlwaysMeant` | `Spec => []EscapeCorrect` |
| `StatusPageFits`, `PointsPageFits` | the pages fit if what is printed as a name has up to 55 characters when escaped |
| `PagesAlwaysFit` | `Spec => []PagesFit` |
| `FilterFindsNetworks` | the filtered list is the networks found, for a scan of every length |
| `ListAlwaysRight` | `Spec => []FilterCorrect` |
| `AtcaTransportProofs!TypeCorrect` | `Spec => []TypeOK` |
| `DriverCorrect` | `Spec => []DriverHeld` |
| `StartCorrect` | `Spec => []ReadsFromStart`, under all faults |
| `BufferCorrect` | `Spec => []WithinBuffer`, under all faults |
| `OwnCorrect` | `Spec => []OwnResponse`, under all faults, for responses from four bytes on |
| `Implements` | `Spec => ImplementsCommand`, the refinement of `SecureCommand`, for the same responses |
| `SecureConnectProofs!Composes` | `ConnectSpec => Spec` of `AtcaTransport` |
| `ConnectTypeCorrect` | `ConnectSpec => []ConnectTypeOK` |
| `SocketsCorrect` | `ConnectSpec => []SocketReleased` |
| `HandshakeCorrect` | `ConnectSpec => []HandshakeReady` |
| `EstablishedCorrect` | `ConnectSpec => []EstablishedIsReal` |
| `ClosesCorrect` | `ConnectSpec => ClosesOnlyOwn` |
| `IdentityCorrect` | `ConnectSpec => IdentityFromChip` |

### The identity roll

`TypeInv` is `TypeOK` with `Quiet` (the client is stopped whenever the main task
works on the chip) and `Served` (the request being served does not change under
it). Neither can be left out of the type: `nextkey` is a digit chosen by the
server, and `cur`, which is set from it, is a slot only because the checks have
been passed and no message arrives in between. This is also why the refusal of a
current slot other than 0 and 1 in `getpubkey` is not modelled: there is none.

`WindowArmed` is not inductive: at the check, the block on the chip matters and
only the RAM copy is looked at. What closes the gap is `Agrees`: before the roll,
a RAM copy *in accept mode* agrees with the chip, even if its restore failed. A
failed restore keeps the previous copy. That is either a copy of the block, or the
zeroes of a reset, which are not armed. `Armed` extends `WindowArmed` back to the
moment of acceptance, and `Agrees /\ Armed` is inductive.

`LinkAuthentic` is inductive with `TypeInv`: where chip, `defslot` or `keynum`
change, `Quiet` says that the client is stopped. `NoHalfRollReported` follows
from it with `Served`, `Follows` and `Told`: the link on which the report goes out shows
that the key in `defslot` is the certified one, `Served` that the one in `nextkey` is,
and `Told` that the keys of the two slots differ; so `defslot` is `nextkey`. Either
success has been printed, and `Told` says what is installed then; or not, and by
`Follows` the slot was current before.

`RetireVerified` needs that genkey's slot is not the certified one. `Served` gives
`cert = key[nextkey]` at genkey, `Armed` gives `blk.cur = 1 - nextkey`, and
`Follows` says that without failed restores `defslot = blk.cur`.

`IdentityIntact` is about behaviours without faults. `Intact` strengthens it: who
replaces the certificate while it is not there. During the write and the
comparison the backup certifies the current key; after genkey the new slot is
certified and only the save is missing.

The refinement adds `Announced`: without faults what is being sent is the spare
key, a certificate that was received names a key that was announced (or none of
this device), and so does the key at genkey. The last needs the comparison of
`setdevicecert` and that no key is 0. Three lemmas then map `PkSend` to `Announce`,
`DcGenkey` to `Move` and every other step to a stutter. That no fault happens is a
hypothesis: after a failed save genkey has moved and the block has not
(`CertRollSuccess`).

### Boot control

`LoopInv` is `TypeOK` with `Fresh` (before the loop there is neither client nor
request), `Asked` and `Serving`. `NoMutualWait` alone is not inductive: a lost
connection is reopened with `bootup` only if `rebootflag` is off. `Asked` says
that in the loop without a pending request it is off, because it is set only
together with a request, and no flag is reset inside the loop. `Mirrored` says
that without faults the copies in RAM are the state on the chip;
`SelectionPermitted` follows.

The refinement of `BootPolicy` needs three more facts, in `PolicyInv`. `Stopped`:
after the loop has been left the client is stopped, so that nothing the decision
was taken from changes any more. `Decided`: at the download, one was asked for or
the state forces it. `Unasked`: a new start begins with nothing asked for; the
application has not been given a request of the loader's. Then `PolicyStep` goes
through the actions: receiving a message is `ServerSets` or `ServerAsks`, the
selection in `stateupdate` is `Select`, the end of the loop is
`Restart` with or without a selection, and every step of polling, working, saving
and reporting is a stutter (`Hidden`). `MaxFaults = 0` is a hypothesis because a
failed restore reads as `offlineboot`, which no server has set.

### Provisioning

The types need one fact about control, `Handling`: the event task takes from the
queue the DISCONNECTED event it is handling, so the queue is not empty. `PageStable`
rests on `Held`: a page that is being sent is locked. The step that matters is the
deletion of the HTTP task, after which the mutex stays taken and the page is
not being sent any more.

`StatusTruthful` and `SavedVerified` are about four tasks, a driver and events that
arrive late. What had to be found is which events may still be on their way when
something is read. `Pending` is the queue without the event that is being handled,
and a session is at any time in one of three situations: nothing is left of any
attempt (`Over`), the last attempt has succeeded and may have been lost since
(`Won`), or its outcome is not known yet (`Underway`). `Attempt` says which of
them are possible in each phase of the manager, together with what its copy of
the bits, `seen`, may say. `Requested` adds that from a request to its answer the
configuration is what the user has entered; this is where his patience is used.
`Shown` says that a page with a result is about that configuration. The three are
inductive together (`AttemptStep`, `RequestedStep`, `ShownStep`), and
`StatusTruthful` follows. `Kept` adds that what has been copied for saving is what
was tried; `memcpy` over an older result gives this only if the lengths agree.

The copying is a step after the page (`ConnCopy`): `Requested` has to say until then
that the configuration is what was tried.

All three hypotheses are necessary. Without `Patient` the run `ProvOverwrite`
refutes `SavedVerified`; without `OneLength` the run `ProvTail` shows the tail of an
older result; with `"rejoin"` in `Ops` TLC refutes `StatusTruthful` and
`SavedVerified` by the behaviour described in section 6. Nothing is assumed about
the number of credentials, of spontaneous events, or about scans and disconnect
requests.

### Strings and pages

A string has any length, so that these theorems are by induction over data. The
library's induction theorems take an operator, which the installed provers do not
instantiate; `Induction` states them for sets, from the well-foundedness of `<` on
the naturals (`Least`, `Induct`, `InductTo`). `LoopExists` then says that there is a
function that is what a loop computes, which is what a recursive function
definition needs before it can be unfolded (`CountedLoop`, `WrittenLoop`,
`ReaderLoop`, `PointsLoop`, `AbsorbLoop`, `RemoveLoop`, `CloseLoop`).

`PassesAgree` relates the two passes of `json_print_string` after every character,
and with it `NothingStale` says that what the first pass computes is where the
second ends. `TextPieces` says where each escape stands in the finished text, and
`ReadsPiece` that a reader who is at its beginning takes it for the character it
was written for: as it is, as a letter, or as four hexadecimal digits.
`EscapeInverts` is the induction over the characters: after `n` passes the reader
has got the first `n`, and is where the escape of the next begins. It is stated for
all strings over 1 to 255, whatever their length, where the run takes strings of up
to three characters.

The theorems on the pages are stated for what is printed as a name, by its escaped
length, up to 55, which is 32 characters with 23 in need of one more, or fewer that
need five more; and for numbers of any size that occur (a channel of two digits, a
signal strength of one byte). `PagesAlwaysFit` and `NamesAlwaysMeant` are what
follows for the session and its runs.

`FilterFindsNetworks` is about nested loops over one array. Its first half is the
loop that removes duplicates, with one invariant for each of the two loops.
`AbsorbsAll`: when the inner loop has reached `j`, the record at `i` has the best
signal among the first `j` records of its network, and the others of them behind
it are cleared. `Removed`: of the first `i` records, those that are the first of
their network are finished, and every other record is cleared if it is of one of
these networks, and otherwise as it was scanned. A hidden network and a cleared
record look alike to the loop; the invariant holds for both. The outer loop ends
one record early, which `RemovesIdentical` settles. The second half is the loop
that closes the gaps, with the invariant `Closed`: the networks found so far are at
the front in their order, then there are only free slots up to `i`, and what
follows is untouched; `free` is the slot right behind the front, or nothing if there
is no gap, and `unique` has counted the gaps. `CloseRight` is its step: after a move
the search finds the next free slot, which is the one behind the moved record
(`FirstFreeRight`). `ListAlwaysRight` follows for scans of up to any `MaxPoints`.

The texts of the messages are rewritten in place while they are searched. What the
loop has in front of it is, after every pass, what the text becomes up to some
character and what it was behind (`ReplacedTo`): `Spell(text, char, as)` is a text
with `as` for every `char`, its beginnings are `IsSpelled`, its rests `IsRest`. A
pass finds the next character that is spelled otherwise (`PassRight`), for two
reasons: nothing that was put in begins with the character searched for, and neither
does anything that stays. `Advance` lets it skip what stays, since beginnings and
rests make the same text there. So `replace_str_all` turns `Spell(text, char, what)`
into `Spell(text, char, with)` (`ReplaceSpelled`), and since every text spells
itself, `replace_chr` is `Spell` (`ReplaceChrRight`). The reader of JSON undoes the
escape (`NewlinesReadBack`) because no backslash is in the key itself; base64 and
the marker lines have none. `PickedBetween` is `pickpemcert`: the first marker of
each kind is the certificate's own, if none stands in front; what follows it does
not matter. At the size of the buffer what lies behind it is one text with the
certificate: the rewriting of both is `ReplaceSpelled` once more.

### Transport

`Types` holds the types (`Words`, `Counts`, `Lengths`, `Flag`) and `Interface`, that
counts and driver follow from `device`; `DriverHeld` is this. `Rewound` is why
`ReadsFromStart` holds: it follows the read pointer through a poll, and says of
every point at which `status` is good that the word address has been sent or that
nothing has been read since. `Within` closes `WithinBuffer` under the receive: the
length that admits a body has been compared with the size of the caller's buffer.
`Own` follows the present response from the command to its check: `Untouched` before
the command has been accepted, `Answering` in the chip, `Reading` in the buffer,
`Running` while nothing has been returned. `Reading` says what the bytes are and not
how many, since a response of four bytes has the length of a refusal and of the wake
token. The refinement is by `Own`: the step that answers ok happens with
`executed = 1`.

### Connections

`Composes` says that `SecureConnect` uses the transport only through its own
actions: every theorem about `AtcaTransport` holds of it, with which
`IdentityCorrect` takes `OwnResponse` from below. `Connection` is the
conjunction of `Sockets` (which descriptor is held in which phase), `Configured`
(what has been loaded when a phase of the configuration is reached), `Handshaking`
and `Closing`. None is a property by itself: `SocketReleased` needs to know, at the
close, that the descriptor was the connection's own all along. `ConnectTypeOK`
is the type of the connection with that of the dealings between it and the
transport (`Dealings`), which `Connection` does not need.

### Only model-checked

All liveness properties: `EveryBootConnects`, `RequestServed`, `GoodCertInstalled`,
`BootEnds`, `OnlineBoots`, `ConnectServed`, `SuccessSaved`, `ConnectEnds` and
`Reconnects`. The prover has no rule for fairness and `ENABLED` here. Every invariant
and every action property of a run is also a theorem.
The refuted claims are counterexamples and need no proof.


## 6. Findings

- `CertRollSuccess`: "Device certificate rolling Successful!" (`configure.c:452`)
  is printed before the block is saved, and a failed save is only printed. With
  this one write failed the private key of the slot the block names has been
  regenerated, and the next boot signs with a key the certificate does not
  certify.
- `BootProhibited`: `main.c:187` reports "set state to bootprohobited". A device
  in `offlineboot` selects the application before it connects (`main.c:330`), and
  nothing selects the factory image again: the next reset starts the application.
- `ProvOverwrite`: "only save the config if the connection was successful!"
  (`wifi_manager.c:512`). A second POST overwrites the configuration without the
  mutex (`http_server.c:195`) while the first attempt succeeds; the credentials
  copied and saved were never tried.
- `ProvTail`: the same comment. The result is copied by `memcpy` of `strlen` bytes,
  without the terminator (`wifi_manager.c:518`). A user who connects, disconnects
  before the main task has noticed, and connects to a network with shorter
  credentials leaves the tail of the longer ones behind, and this is saved.
- `ProvHang`: "wait until wifi disconnects. From experiments, it seems to take
  about 150ms" (`wifi_manager.c:487`). The bits read at the top of the loop still
  say CONNECTED although the connection is gone: no event follows, and the wait
  has no timeout. The run uses a second POST during a lost connection. The same
  wait is reached after a disconnect request, with the bits reused at line 482.

A related race is not a run of its own, and bounds what `StatusTruthful` and
`SavedVerified` promise. A user who is shown a success joins another network without
disconnecting, before the main task, which has just seen `connected`, deletes the
tasks (100 ms). The manager disconnects the first network and waits for the bit
DISCONNECT, which the event handler sets before it clears CONNECTED
(`wifi_manager.c:213`); running in between, the manager finds CONNECTED when it
looks for the outcome of the new attempt, shows a success for a network that was never
tried, and copies it to be saved.

Three more behaviours are documented rather than counted as findings: "failed to
recover previous certificate. unknown error." (`configure.c:439`) stands after the
comparison and not inside it, and is printed also when the previous certificate is
back; a failed restore reads as `offlineboot` (zeroed RAM), which selects the
application; and a failed restore before genkey can make the chip regenerate the
certified key (the hypothesis of `RetireVerified`).

Further behaviours of the texts are documented: a certificate of exactly 1000
characters leaves `newdevicecert` unterminated, and an end marker before the begin
marker gives `memcpy` a length of zero or less (`configure.c:266-276`); a name of 32
characters is shown together with the password, and can make the status page longer
than its memory, since `snprintf` is told the whole size and not what remains
(`http_server.c:194`, `wifi_manager.c:95, 108`); a scan without named networks
writes the page `[` without its closing bracket (`wifi_manager.c:137`, the bracket
comes with the last point); the constant `JSON_ONE_APP_SIZE` is 10 less than the sum
its comment works out (77 + 32, `wifi_manager.h:93`), and `JSON_IP_INFO_SIZE` allows
for 23 escapes and not for "all characters" (`wifi_manager.h:101`); the five
oddities of connection and wake named in section 2.


## 7. Not modelled, and the plan

Left out for good, with the reason:

- the wolfSSL backend (not built); build files; style and layout of the page;
  start-up of the access point and of the SDK; console output except where a
  property is about it;
- of `esp-tls`: reading and writing, the server role, PSK, plain TCP and the
  global CA store, which the program does not use; of `cryptoauthlib`: sleep,
  discovery, other interfaces and the host side of encrypted reads and writes;
- credentials and URL block by block: the code copies a fixed number of blocks and
  neither repeats nor checks a write, so that a power cut leaves a mixture by
  design; no source promises otherwise, and the URL is read back only into a buffer
  nobody uses;
- the receive buffer with its stale tail: it shows only with two URL messages before
  one poll, and no source says what may be sent then;
- events after the event group is deleted: it depends on 50 ms delays that the
  model does not time;
- the key number in `publickeyissued`: the report is one step without contents, since
  what a server does with the number is not in the sources;
- what `memcpy` does with a negative length: it has no defined outcome;
- what a failed restore of the block selects: a design question. The theorems name
  the faults they tolerate instead.

Left for later, in this order:

1. The certificate's DER and compressed forms, as far as `setdevicecert` compares
   them.
