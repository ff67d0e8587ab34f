------------------------------ MODULE CertRoll ------------------------------
(***************************************************************************)
(* The rolling of the device identity: src/configure.c together with the   *)
(* two branches of websocket_app_start in src/main.c that call it.         *)
(*                                                                         *)
(* The secure element (an ATECC608) holds two private keys, one compressed *)
(* device certificate and an encrypted 32 byte block (slot 8, block 4)     *)
(* that says which of the two keys is current.  A roll takes two boots:    *)
(*   - a "pubkey" request makes the device announce the public key of the  *)
(*     slot that is not current and arms the block (secdata[2] = 1);       *)
(*   - a "cert" request makes it write the new certificate, read it back,  *)
(*     regenerate the key it retires and move the block to the new slot.   *)
(* The main task runs these step by step; the websocket task runs between  *)
(* the steps whenever the client is started; power may be cut anywhere.    *)
(*                                                                         *)
(* Abstractions.  A key is the natural number of its generation; the       *)
(* certificate is the key it certifies (Foreign: no key of this device).   *)
(* Every command to the chip is one step that may fail, any number of      *)
(* times: `faults` records which kinds of fault have happened.  Writing    *)
(* the 32 byte block is atomic; writing the certificate, which spans       *)
(* blocks, is not.  The requests that do not concern keys ("none", "url",  *)
(* "ota") only end the boot here: they are a power cut in the loop.        *)
(* getpubkey's refusal of a current slot other than 0 and 1                *)
(* (configure.c:172) is left out: TypeCorrect proves that there is none.   *)
(***************************************************************************)
EXTENDS Integers, FiniteSets

CONSTANTS
  States,      \* the boot states the server sets
  MaxKey,      \* bound: certificates are only accepted while fresh <= MaxKey
  FaultKinds,  \* the kinds of fault that may happen
  CutAt        \* the control points at which power may be cut

Slots      == {0, 1}
Foreign    == 0                     \* what a damaged certificate certifies
BadPem     == -1                    \* PEM text that does not decode
BootStates == {"offlineboot", "onlineboot", "forcefwdownload", "bootprohibited"}

(* secdata: byte 0 current slot, byte 1 registered slot, byte 2 accept     *)
(* mode, byte 3 boot state.                                                *)
SecData == [cur: Slots, reg: Slots, accept: {0, 1}, st: BootStates]
Zeroed  == [cur |-> 0, reg |-> 0, accept |-> 0, st |-> "offlineboot"]

PubkeyPhases == {"pk_restore", "pk_read", "pk_save", "pk_announce", "pk_send"}
(* From the first write of a certificate to the save of the block.         *)
Window       == {"dc_verify", "dc_recover", "dc_recheck", "dc_genkey", "dc_save"}
CertPhases   == {"dc_check", "dc_backup", "dc_write", "dc_return", "dc_send"}
                  \union Window
Phases       == {"boot", "sysinit", "poll", "leave", "idle"}
                  \union PubkeyPhases \union CertPhases

(* Failed reads and writes of the block, failure of any other command, and *)
(* power cuts inside the window.                                           *)
Kinds == {"restore", "save", "command", "cut"}

ASSUME StateAssumption == States \subseteq BootStates
ASSUME BoundAssumption == MaxKey \in Nat
ASSUME FaultAssumption == FaultKinds \subseteq Kinds /\ CutAt \subseteq Phases

VARIABLES
  key,          \* ATECC608: the key in each slot
  fresh,        \* ATECC608: the next key it will generate
  cert,         \* ATECC608: the key the stored certificate certifies
  blk,          \* ATECC608: slot 8 block 4
  secdata,      \* RAM copy of the block, configure.c
  defslot,      \* g_cert_def_2_device.public_key_dev_loc.slot
  keynum,       \* slot whose private key signs TLS handshakes
  nextkey,      \* slot of the roll in progress, main.c
  getnextkey,   \* request flag, main.c
  certificate,  \* request flag, main.c
  newcert,      \* newdevicecert: the key certified by the received PEM
  backup,       \* backupdevicecertder
  pem,          \* pubkeypem (Foreign: still empty)
  ws,           \* websocket client: "stopped", "down", "up"; "trusted" if
                \* the device proved its identity when the link came up
  pc,           \* where the main task is
  said,         \* has setdevicecert printed its success message?
  issued,       \* keys the server may hold certificates for
  faults        \* the kinds of fault that have happened

chip   == <<key, fresh, cert, blk>>
flags  == <<getnextkey, certificate>>
tlsid  == <<defslot, keynum>>
bufs   == <<newcert, backup, pem>>
vars   == <<chip, secdata, tlsid, nextkey, flags, bufs, ws, pc, said,
            issued, faults>>

Certs == Nat \union {BadPem}

TypeOK ==
  /\ key \in [Slots -> Nat] /\ fresh \in Nat /\ cert \in Nat
  /\ blk \in SecData /\ secdata \in SecData
  /\ defslot \in Slots /\ keynum \in Nat /\ nextkey \in Nat
  /\ getnextkey \in BOOLEAN /\ certificate \in BOOLEAN
  /\ newcert \in Certs /\ backup \in Nat /\ pem \in Nat
  /\ ws \in {"stopped", "down", "up", "trusted"}
  /\ pc \in Phases
  /\ said \in {"nothing", "success"}
  /\ issued \subseteq Nat
  /\ faults \subseteq FaultKinds

(* A provisioned device: slot 0 certified by key 1, no roll in progress.   *)
Init ==
  /\ key = [s \in Slots |-> s + 1] /\ fresh = 3 /\ cert = 1
  /\ \E st \in States : blk = [Zeroed EXCEPT !.st = st]
  /\ secdata = Zeroed /\ defslot = 0 /\ keynum = 0 /\ nextkey = 0
  /\ getnextkey = FALSE /\ certificate = FALSE
  /\ newcert = BadPem /\ backup = Foreign /\ pem = Foreign
  /\ ws = "stopped" /\ pc = "boot" /\ said = "nothing"
  /\ issued = {1} /\ faults = {}

-----------------------------------------------------------------------------
(* A fault of a given kind happens.                                        *)
Fault(kind) == kind \in FaultKinds /\ faults' = faults \union {kind}

(* restoredevstatus: a failed read is only printed and leaves RAM as it was. *)
Restoring(copy) ==
  \/ copy = blk /\ UNCHANGED faults
  \/ copy = secdata /\ Fault("restore")

(* savedevstatus: a failed write is only printed; the block may or may not *)
(* have been written.                                                      *)
Save(data) ==
  \/ blk' = data /\ UNCHANGED faults
  \/ blk' \in {blk, data} /\ Fault("save")

(* What a reset does to RAM.                                               *)
Reset ==
  /\ secdata' = Zeroed /\ defslot' = 0 /\ keynum' = 0 /\ nextkey' = 0
  /\ getnextkey' = FALSE /\ certificate' = FALSE
  /\ newcert' = BadPem /\ backup' = Foreign /\ pem' = Foreign
  /\ ws' = "stopped" /\ pc' = "boot" /\ said' = "nothing"

(* The device can prove to the server that it owns the stored certificate: *)
(* the certificate is rebuilt for the key in defslot, keynum signs.        *)
Authentic == keynum \in Slots /\ key[keynum] = cert /\ key[defslot] = cert

Up == ws \in {"up", "trusted"}

-----------------------------------------------------------------------------
(* stateupdate: the first restore of a boot.                               *)
StateUpdate ==
  /\ pc = "boot"
  /\ \E copy \in {blk, secdata} : Restoring(copy) /\ secdata' = copy
  /\ pc' = "sysinit"
  /\ UNCHANGED <<chip, tlsid, nextkey, flags, bufs, ws, said, issued>>

(* Mutant: the result of sysinit is not kept.                              *)
SysInit_KeynumLost ==
  /\ pc = "sysinit"
  /\ \E copy \in {blk, secdata} :
       Restoring(copy) /\ secdata' = copy /\ defslot' = copy.cur
  /\ ws' = "down" /\ pc' = "poll"
  /\ UNCHANGED <<chip, keynum, nextkey, flags, bufs, said, issued>>

(* websocket_app_start down to the start of the client: sysinit takes the  *)
(* current slot from the block.                                            *)
SysInit ==
  /\ pc = "sysinit"
  /\ \E copy \in {blk, secdata} :
       /\ Restoring(copy)
       /\ secdata' = copy /\ defslot' = copy.cur /\ keynum' = copy.cur
  /\ ws' = "down" /\ pc' = "poll"
  /\ UNCHANGED <<chip, nextkey, flags, bufs, said, issued>>

(* atcab_init or atcab_read_serial_number failed: esp_restart.             *)
SysInitFails ==
  /\ pc = "sysinit" /\ Fault("command")
  /\ Reset /\ UNCHANGED <<chip, issued>>

(* The polling loop takes the first pending request; one per boot.         *)
PollPubkey ==
  /\ pc = "poll" /\ getnextkey
  /\ ws' = "stopped" /\ pc' = "pk_restore"
  /\ UNCHANGED <<chip, secdata, tlsid, nextkey, flags, bufs, said, issued,
                 faults>>

(* Mutant: the client keeps running while the certificate is replaced.     *)
PollCert_ClientRuns ==
  /\ pc = "poll" /\ ~getnextkey /\ certificate
  /\ pc' = "dc_check"
  /\ UNCHANGED <<chip, secdata, tlsid, nextkey, flags, bufs, ws, said, issued,
                 faults>>


PollCert ==
  /\ pc = "poll" /\ ~getnextkey /\ certificate
  /\ ws' = "stopped" /\ pc' = "dc_check"
  /\ UNCHANGED <<chip, secdata, tlsid, nextkey, flags, bufs, said, issued,
                 faults>>

-----------------------------------------------------------------------------
(* Mutant: the next slot, counting up.                                     *)
PkRestore_CountsUp ==
  /\ pc = "pk_restore"
  /\ \E copy \in {blk, secdata} :
       /\ Restoring(copy)
       /\ secdata' = [copy EXCEPT !.reg = copy.cur + 1]
       /\ nextkey' = copy.cur + 1
  /\ pc' = "pk_read"
  /\ UNCHANGED <<chip, tlsid, flags, bufs, ws, said, issued>>

(* getpubkey: pick the other slot, read its public key, arm the block.     *)
PkRestore ==
  /\ pc = "pk_restore"
  /\ \E copy \in {blk, secdata} :
       /\ Restoring(copy)
       /\ secdata' = [copy EXCEPT !.reg = 1 - copy.cur]
       /\ nextkey' = 1 - copy.cur
  /\ pc' = "pk_read"
  /\ UNCHANGED <<chip, tlsid, flags, bufs, ws, said, issued>>

PkRead ==
  /\ pc = "pk_read"
  /\ \/ /\ pem' = key[nextkey]
        /\ secdata' = [secdata EXCEPT !.accept = 1]
        /\ pc' = "pk_save" /\ UNCHANGED faults
     \/ Fault("command") /\ pc' = "pk_announce" /\ UNCHANGED <<pem, secdata>>
  /\ UNCHANGED <<chip, tlsid, nextkey, flags, newcert, backup, ws, said,
                 issued>>

PkSave ==
  /\ pc = "pk_save"
  /\ Save(secdata)
  /\ pc' = "pk_announce"
  /\ UNCHANGED <<key, fresh, cert, secdata, tlsid, nextkey, flags, bufs, ws,
                 said, issued>>

(* main.c restarts the client whatever getpubkey returned ...              *)
PkAnnounce ==
  /\ pc = "pk_announce"
  /\ ws' = "down" /\ pc' = "pk_send"
  /\ UNCHANGED <<chip, secdata, tlsid, nextkey, flags, bufs, said, issued,
                 faults>>

(* ... and sends "publickeyissued"; without a connection the message is    *)
(* lost and nobody notices.  The key number in it (main.c:426) is what     *)
(* nextkey is by then, which a request that came in since the key was read *)
(* may have changed.  The model need not keep it: RecvCert lets the server *)
(* name any slot with any certificate it holds.                            *)
PkSend ==
  /\ pc = "pk_send"
  /\ \/ Up /\ issued' = issued \union ({pem} \ {Foreign})
     \/ UNCHANGED issued
  /\ getnextkey' = FALSE /\ pc' = "leave"
  /\ UNCHANGED <<chip, secdata, tlsid, nextkey, certificate, bufs, ws, said,
                 faults>>

-----------------------------------------------------------------------------
(* Mutant: "cert accept mode" is not asked for.                            *)
Acceptable_Unarmed(data) == data.cur # nextkey /\ data.reg = nextkey

(* setdevicecert: refused unless the block is armed for exactly this slot. *)
Acceptable(data) ==
  data.accept = 1 /\ data.cur # nextkey /\ data.reg = nextkey

DcCheck ==
  /\ pc = "dc_check"
  /\ \E copy \in {blk, secdata} :
       /\ Restoring(copy) /\ secdata' = copy
       /\ pc' = IF Acceptable(copy) THEN "dc_backup" ELSE "dc_return"
  /\ UNCHANGED <<chip, tlsid, nextkey, flags, bufs, ws, said, issued>>

(* Back up the stored certificate, decode the received one.                *)
DcBackup ==
  /\ pc = "dc_backup"
  /\ \/ /\ backup' = cert /\ UNCHANGED faults
        /\ pc' = IF newcert = BadPem THEN "dc_return" ELSE "dc_write"
     \/ Fault("command") /\ pc' = "dc_return" /\ UNCHANGED backup
  /\ UNCHANGED <<chip, secdata, tlsid, nextkey, flags, newcert, pem, ws, said,
                 issued>>

(* A write of the certificate either completes or returns an error having  *)
(* written nothing, part or all of it.                                     *)
WriteCert(c, next, failed) ==
  \/ cert' = c /\ UNCHANGED faults /\ pc' = next
  \/ cert' \in {cert, Foreign, c} /\ Fault("command") /\ pc' = failed

(* Mutant: the slot is set in g_cert_def_2_device itself, not in the copy. *)
DcWrite_GlobalDef ==
  /\ pc = "dc_write"
  /\ WriteCert(newcert, "dc_verify", "dc_return")
  /\ defslot' = nextkey
  /\ UNCHANGED <<key, fresh, blk, secdata, keynum, nextkey, flags, bufs, ws,
                 said, issued>>

(* Writing and comparing use a copy of the certificate definition in which *)
(* the new slot is set (configure.c:353): defslot stays.                   *)
DcWrite ==
  /\ pc = "dc_write"
  /\ WriteCert(newcert, "dc_verify", "dc_return")
  /\ UNCHANGED <<key, fresh, blk, secdata, tlsid, nextkey, flags, bufs, ws,
                 said, issued>>

(* Mutant: the certificate read back is rebuilt around its own key.        *)
Matches_BytesOnly == cert = newcert

(* The certificate read back is rebuilt around the key in slot nextkey, so *)
(* it equals the one received exactly when that one certifies this key.    *)
Matches == cert = newcert /\ newcert = key[nextkey]

(* A failed read ends the roll; a failed read of the signer's public key   *)
(* goes unnoticed until now and spoils the comparison.                     *)
DcVerify ==
  /\ pc = "dc_verify"
  /\ \/ UNCHANGED faults
        /\ pc' = IF Matches THEN "dc_genkey" ELSE "dc_recover"
     \/ Fault("command") /\ pc' \in {"dc_return", "dc_recover"}
  /\ UNCHANGED <<chip, secdata, tlsid, nextkey, flags, bufs, ws, said, issued>>

DcRecover ==
  /\ pc = "dc_recover"
  /\ WriteCert(backup, "dc_recheck", "dc_return")
  /\ UNCHANGED <<key, fresh, blk, secdata, tlsid, nextkey, flags, bufs, ws,
                 said, issued>>

(* Whatever this comparison finds, setdevicecert reports a failure.        *)
DcRecheck ==
  /\ pc = "dc_recheck"
  /\ UNCHANGED faults \/ Fault("command")
  /\ pc' = "dc_return"
  /\ UNCHANGED <<chip, secdata, tlsid, nextkey, flags, bufs, ws, said, issued>>

(* Mutant: "Genkey on next slot" (configure.c:448) taken at its word.      *)
NewKey_NextSlot == key' = [key EXCEPT ![nextkey] = fresh] /\ fresh' = fresh + 1

(* A new private key replaces the one in the slot g_cert_def_2_device still *)
(* names; on success RAM moves to the new slot.                            *)
NewKey == key' = [key EXCEPT ![defslot] = fresh] /\ fresh' = fresh + 1

(* Mutant: accept mode stays on.                                           *)
Rolled_StillArmed(data) == [data EXCEPT !.cur = nextkey]

(* The block after the roll: another current slot, accept mode over.       *)
Rolled(data) == [data EXCEPT !.cur = nextkey, !.accept = 0]

DcGenkey ==
  /\ pc = "dc_genkey"
  /\ \/ /\ NewKey
        /\ said' = "success"
        /\ secdata' = Rolled(secdata)
        /\ defslot' = nextkey
        /\ pc' = "dc_save" /\ UNCHANGED faults
     \/ /\ Fault("command")
        /\ \/ UNCHANGED <<key, fresh>>
           \/ NewKey
        /\ pc' = "dc_return" /\ UNCHANGED <<said, secdata, defslot>>
  /\ UNCHANGED <<cert, blk, keynum, nextkey, flags, bufs, ws, issued>>

DcSave ==
  /\ pc = "dc_save"
  /\ Save(secdata)
  /\ pc' = "dc_return"
  /\ UNCHANGED <<key, fresh, cert, secdata, tlsid, nextkey, flags, bufs, ws,
                 said, issued>>

(* main.c switches keynum whatever setdevicecert returned, and restarts    *)
(* the client.                                                             *)
DcReturn ==
  /\ pc = "dc_return"
  /\ keynum' = nextkey /\ ws' = "down" /\ pc' = "dc_send"
  /\ UNCHANGED <<chip, secdata, defslot, nextkey, flags, bufs, said, issued,
                 faults>>

(* Mutant: the send waits until the server has accepted the identity.      *)
DcSend_Waits ==
  /\ pc = "dc_send" /\ ws = "trusted"
  /\ certificate' = FALSE /\ pc' = "leave"
  /\ UNCHANGED <<chip, secdata, tlsid, nextkey, getnextkey, bufs, ws, said,
                 issued, faults>>

(* "finishcertrefresh" is sent, if there is a connection.  A server that   *)
(* checks certificates only gets it on a trusted one.                      *)
DcSend ==
  /\ pc = "dc_send"
  /\ certificate' = FALSE /\ pc' = "leave"
  /\ UNCHANGED <<chip, secdata, tlsid, nextkey, getnextkey, bufs, ws, said,
                 issued, faults>>

FinishDelivered == DcSend /\ ws = "trusted"

(* The client is stopped and destroyed; main idles or restarts.            *)
Leave ==
  /\ pc = "leave"
  /\ ws' = "stopped" /\ pc' = "idle"
  /\ UNCHANGED <<chip, secdata, tlsid, nextkey, flags, bufs, said, issued,
                 faults>>

(* Power cut, button or esp_restart: RAM is lost, the chip is not.         *)
PowerCut ==
  /\ pc \in CutAt
  /\ IF pc \in Window THEN Fault("cut") ELSE UNCHANGED faults
  /\ Reset /\ UNCHANGED <<chip, issued>>

Main ==
  \/ StateUpdate \/ SysInit \/ SysInitFails \/ PollPubkey \/ PollCert
  \/ PkRestore \/ PkRead \/ PkSave \/ PkAnnounce \/ PkSend
  \/ DcCheck \/ DcBackup \/ DcWrite \/ DcVerify \/ DcRecover \/ DcRecheck
  \/ DcGenkey \/ DcSave \/ DcReturn \/ DcSend \/ Leave

-----------------------------------------------------------------------------
(* The websocket task: esp_websocket_client keeps reconnecting while it is *)
(* started and calls websocket_event_handler for each message.             *)
others == <<key, fresh, cert, tlsid, backup, pem, pc, said, issued>>

Connect ==
  /\ ws = "down"
  /\ ws' = IF Authentic THEN "trusted" ELSE "up"
  /\ UNCHANGED <<others, blk, secdata, nextkey, flags, newcert, faults>>

Drop ==
  /\ Up /\ ws' = "down"
  /\ UNCHANGED <<others, blk, secdata, nextkey, flags, newcert, faults>>

(* "state": the new boot state is saved with the rest of the RAM copy.     *)
RecvState(st) ==
  /\ Up
  /\ secdata' = [secdata EXCEPT !.st = st]
  /\ Save(secdata')
  /\ UNCHANGED <<others, ws, nextkey, flags, newcert>>

(* "request": "pubkey".                                                    *)
RecvPubkey ==
  /\ Up /\ getnextkey' = TRUE
  /\ UNCHANGED <<others, ws, blk, secdata, nextkey, certificate, newcert,
                 faults>>

(* "request": "cert": the digit after "keynum" is taken before the PEM is  *)
(* looked for; a request without one changes nothing else.                 *)
RecvCert(digit, c) ==
  /\ Up /\ ~certificate /\ fresh <= MaxKey
  /\ nextkey' = digit /\ certificate' = TRUE /\ newcert' = c
  /\ UNCHANGED <<others, ws, blk, secdata, getnextkey, faults>>

RecvNoPem(digit) ==
  /\ Up /\ ~certificate
  /\ nextkey' = digit
  /\ UNCHANGED <<others, ws, blk, secdata, flags, newcert, faults>>

Digits == 0 .. 2        \* two slots and a digit that names none

Websocket ==
  \/ Connect \/ Drop \/ RecvPubkey
  \/ \E st \in States : RecvState(st)
  \/ \E d \in Digits : RecvNoPem(d)
  \/ \E d \in Digits, c \in issued \union {Foreign, BadPem} : RecvCert(d, c)

Next == Main \/ Websocket \/ PowerCut

Spec == Init /\ [][Next]_vars

(* The main task is never starved and the client keeps trying to connect.  *)
FairSpec == Spec /\ WF_vars(Main) /\ WF_vars(Connect)

-----------------------------------------------------------------------------
(* Safety.                                                                 *)

(* Without faults the block names, whenever no certificate is being        *)
(* written, the slot whose key the stored certificate certifies: the       *)
(* checks, the order of the writes and the recovery of setdevicecert add   *)
(* up, whatever requests arrive and wherever else power is cut.            *)
IdentityIntact ==
  (faults = {} /\ pc \notin Window) => cert = key[blk.cur]

(* The certificate is only ever touched while the block on the chip is     *)
(* armed for exactly the slot being certified, and this is not the current *)
(* one ("check if device state is cert accept mode", configure.c:289): in  *)
(* spite of failed saves and restores of the RAM copy that is checked.     *)
WindowArmed ==
  pc \in Window =>
    blk.accept = 1 /\ blk.reg = nextkey /\ blk.cur = 1 - nextkey

(* What the device proved when the link came up stays true while it is up: *)
(* the chip is never changed under a running client (main.c stops it).     *)
LinkAuthentic == ws = "trusted" => Authentic

(* A private key is destroyed only when the certificate on the chip        *)
(* certifies the key in the other slot, which stays: as long as no restore *)
(* fails, no failure of another command makes genkey hit the wrong slot.   *)
RetireVerified ==
  [][\A s \in Slots :
       key'[s] # key[s] /\ "restore" \notin faults => cert = key[1 - s]]_vars

(* main.c sends "finishcertrefresh" whatever setdevicecert returned.  It   *)
(* reaches a server that checks certificates after a roll of this boot,    *)
(* whose certificate is the one of the request, or after a request that    *)
(* was refused because its slot was the current one already (a request     *)
(* delivered twice, say: nothing was touched).  A roll that stopped half   *)
(* way, with the certificate written and the old key still there or gone,  *)
(* is never reported as finished, as long as no restore fails.             *)
NoHalfRollReported ==
  [][FinishDelivered =>
       /\ keynum = nextkey /\ nextkey \in Slots /\ cert = key[nextkey]
       /\ \/ said = "success" /\ cert = newcert
          \/ said = "nothing" /\ ("restore" \notin faults => blk.cur = nextkey)]_vars

(* The slot the device uses: between genkey and the save the block still   *)
(* names the old one.                                                      *)
Current == IF pc = "dc_save" THEN secdata.cur ELSE blk.cur

(* Without faults a roll of a dozen steps, with messages and resets in     *)
(* between, is the one step of IdentityRegister: the device announces no   *)
(* key but its spare, and moves to no key it has not announced ("check if  *)
(* device state is cert accept mode", configure.c:289, and the comparison  *)
(* after the write).                                                       *)
Identity == INSTANCE IdentityRegister
            WITH slot <- Current, certified <- key[Current], spare <- key[1 - Current]
ImplementsIdentity == Identity!Spec

-----------------------------------------------------------------------------
(* What makes the safety properties inductive (proved in CertRollProofs).  *)

(* The client is stopped whenever main works on the chip.                  *)
Quiet == ws # "stopped" => pc \in {"poll", "pk_send", "dc_send", "leave"}

(* The request being served does not change under the main task.           *)
Served ==
  /\ pc \in CertPhases => certificate
  /\ pc = "dc_send" => keynum = nextkey
  /\ pc \in {"pk_read", "pk_save", "dc_backup", "dc_write"} \union Window =>
       nextkey \in Slots
  /\ pc \in {"dc_write"} \union Window => newcert \in Nat
  /\ pc = "dc_genkey" => cert = key[nextkey]

(* A RAM copy in accept mode agrees with the block until it is changed.    *)
Agrees ==
  (pc \in {"boot", "sysinit", "poll", "dc_check"} /\ secdata.accept = 1) =>
    blk.accept = 1 /\ blk.cur = secdata.cur /\ blk.reg = secdata.reg

(* WindowArmed, from the moment the request has been accepted.             *)
Armed ==
  pc \in {"dc_backup", "dc_write"} \union Window =>
    blk.accept = 1 /\ blk.reg = nextkey /\ blk.cur = 1 - nextkey

(* From sysinit until genkey succeeds, if it does.                         *)
Before ==
  \/ pc \in {"poll", "dc_check", "dc_backup", "dc_write", "dc_verify",
            "dc_genkey"}
  \/ /\ pc \in {"dc_recover", "dc_recheck", "dc_return", "dc_send"}
     /\ said = "nothing"

(* Without failed restores RAM and certificate definition then follow the  *)
(* block.                                                                  *)
Follows ==
  ("restore" \notin faults /\ Before) =>
    secdata.cur = blk.cur /\ defslot = blk.cur

(* What the success message says; no key is ever generated twice.          *)
Told ==
  /\ key[0] # key[1] /\ \A s \in Slots : key[s] < fresh
  /\ pc \notin {"dc_save", "dc_return", "dc_send", "leave", "idle"} =>
       said = "nothing"
  /\ pc = "dc_save" => said = "success"
  /\ pc = "dc_genkey" => cert = newcert
  /\ pc \in {"dc_save", "dc_return", "dc_send"} /\ said = "success" =>
       cert = newcert

(* Without faults: where the certificate is, or what replaces it.          *)
Intact ==
  /\ pc \notin Window => cert = key[blk.cur]
  /\ pc \notin {"boot", "sysinit", "dc_save"} =>
       secdata.cur = blk.cur /\ defslot = blk.cur
  /\ pc \in {"dc_write", "dc_verify", "dc_recover"} => backup = key[blk.cur]
  /\ pc = "dc_recheck" => cert = key[blk.cur]
  /\ pc = "dc_save" => secdata.cur = nextkey /\ defslot = nextkey
                        /\ cert = key[nextkey]

(* Key 0 stands for no key; a certificate for a key was asked for with it; *)
(* without faults the key on its way to the server is the spare one, and a *)
(* key that is about to retire the other was announced.                    *)
Announced ==
  /\ fresh # Foreign /\ \A s \in Slots : key[s] # Foreign
  /\ newcert \in issued \union {Foreign, BadPem}
  /\ faults = {} =>
       /\ pc = "pk_read" => nextkey = 1 - blk.cur
       /\ pc \in {"pk_save", "pk_announce", "pk_send"} => pem = key[1 - blk.cur]
       /\ pc = "dc_genkey" => key[nextkey] \in issued

-----------------------------------------------------------------------------
(* Liveness, under FairSpec, without faults, power cut only while idle.    *)

(* Every boot connects with a proof of identity: no sequence of requests   *)
(* locks the device out.                                                   *)
EveryBootConnects == pc = "boot" ~> ws = "trusted"

(* The polling loop serves a request of the server and ends.               *)
RequestServed == (getnextkey \/ certificate) ~> pc \in {"idle", "boot"}

(* A certificate for the announced key, once the main task has taken it up *)
(* with the block armed for it, becomes the current one.                   *)
GoodCertInstalled ==
  \A c \in 1 .. MaxKey + 1 :
    (/\ pc = "dc_check" /\ newcert = c
     /\ Acceptable(blk) /\ c = key[nextkey])
      ~> (cert = c /\ key[blk.cur] = c /\ blk.accept = 0)

-----------------------------------------------------------------------------
(* A claim of the source that its behaviour contradicts.                   *)

(* "Device certificate rolling Successful!" (configure.c:452): once it is  *)
(* printed and setdevicecert has returned, the chip names the new slot.    *)
SuccessIsDurable == (said = "success" /\ pc = "idle") => cert = key[blk.cur]
=============================================================================
