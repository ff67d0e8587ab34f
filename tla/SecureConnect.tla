--------------------------- MODULE SecureConnect ---------------------------
(***************************************************************************)
(* A TLS connection that takes its identity from the secure element: the   *)
(* composition of EspTls and AtcaTransport.  set_pki_context and the       *)
(* handshake (esp_tls_mbedtls.c) wait for the commands the chip phases of  *)
(* EspTls stand for; atcab_init and atcab_release open and close the       *)
(* device.  One task at a time uses the chip: CertRoll shows that the      *)
(* others do not while a connection is opened (Quiet).                     *)
(***************************************************************************)
EXTENDS AtcaTransport

CONSTANT Configs  \* see EspTls

VARIABLES
  cfg, tpc, connstate, sockfd, serverfd, owner, fdset, contexts, loaded, r, tcp,
  asked,  \* the connection's dealings with the chip in the present phase:
          \* "no", "released", "opened", "called"
  calm    \* network, server and memory have stopped failing

Tls == INSTANCE EspTls WITH pc <- tpc

tlsVars == <<cfg, tpc, connstate, sockfd, serverfd, owner, fdset, contexts,
             loaded, r, tcp>>
allVars == <<vars, tlsVars, asked, calm>>

ConnectInit == Init /\ Tls!Init /\ asked = "no" /\ calm = FALSE

-----------------------------------------------------------------------------
Opening == {"open", "reopen"}

(* atcab_release, before the device is opened for the second time.         *)
ChipRelease ==
  /\ tpc = "reopen" /\ asked = "no" /\ asked' = "released"
  /\ Close /\ UNCHANGED <<tlsVars, calm>>

ChipOpen ==
  /\ \/ tpc = "open" /\ asked = "no"
     \/ tpc = "reopen" /\ asked = "released"
  /\ asked' = "opened" /\ Open /\ UNCHANGED <<tlsVars, calm>>

ChipCall ==
  /\ tpc \in Tls!ChipPhases
  /\ asked = IF tpc \in Opening THEN "opened" ELSE "no"
  /\ asked' = "called" /\ Call /\ UNCHANGED <<tlsVars, calm>>

(* What a command reports is what the phase goes by; what it read may      *)
(* still be unusable, and the peer may refuse the signature.               *)
ChipSucceeds ==
  /\ asked = "called" /\ pc = "ready" /\ ret = "ok" /\ asked' = "no"
  /\ Tls!ChipAnswers \/ Tls!HandshakeDone
  /\ UNCHANGED <<vars, calm>>

(* Mutant: an error while the certificates are read is not looked at.      *)
ChipFails_Ignored ==
  /\ asked = "called" /\ pc = "ready" /\ ret = "error" /\ asked' = "no"
  /\ Tls!ChipAnswers \/ Tls!HandshakeFails
  /\ UNCHANGED <<vars, calm>>

ChipFails ==
  /\ asked = "called" /\ pc = "ready" /\ asked' = "no"
  /\ ret = "error" \/ ~calm
  /\ Tls!HandleFails \/ Tls!HandshakeFails
  /\ UNCHANGED <<vars, calm>>

TlsAlone ==
  /\ asked = "no" /\ (Tls!Progress \/ (~calm /\ Tls!Mishap))
  /\ UNCHANGED <<vars, asked, calm>>

NetworkAnswers ==
  /\ Tls!TcpAnswers("up") \/ (~calm /\ Tls!TcpAnswers("refused"))
  /\ UNCHANGED <<vars, asked, calm>>

OtherSockets ==
  /\ Tls!OtherOpens \/ Tls!OtherCloses
  /\ UNCHANGED <<vars, asked, calm>>

UserConnects(c) == Tls!Connect(c) /\ UNCHANGED <<vars, asked, calm>>
UserCloses      == Tls!UserCloses /\ UNCHANGED <<vars, asked, calm>>

Transport   == Execute /\ UNCHANGED <<tlsVars, asked, calm>>
ElementRuns == Element /\ UNCHANGED <<tlsVars, asked, calm>>

CalmsDown == ~calm /\ calm' = TRUE /\ UNCHANGED <<vars, tlsVars, asked>>

ConnectNext ==
  \/ ChipRelease \/ ChipOpen \/ ChipCall \/ ChipSucceeds \/ ChipFails
  \/ TlsAlone \/ NetworkAnswers \/ OtherSockets
  \/ (\E c \in Configs : UserConnects(c)) \/ UserCloses
  \/ Transport \/ ElementRuns \/ CalmsDown

ConnectSpec == ConnectInit /\ [][ConnectNext]_allVars

(* Device, chip and bus run; the network answers or a timer runs out, and  *)
(* one day it stops failing; a call that failed is given up some time; and *)
(* the program connects again and again with a blocking socket, as the     *)
(* websocket client and esp_https_ota do.                                  *)
FairSpec ==
  /\ ConnectSpec /\ WF_allVars(Transport)
  /\ WF_allVars(ChipWorks /\ UNCHANGED <<tlsVars, asked, calm>>)
  /\ WF_allVars(ChipRelease \/ ChipOpen \/ ChipCall)
  /\ WF_allVars(ChipSucceeds \/ ChipFails)
  /\ WF_allVars(TlsAlone) /\ WF_allVars(NetworkAnswers) /\ WF_allVars(CalmsDown)
  /\ SF_allVars(TlsAlone /\ tpc' = "free")
  /\ SF_allVars(\E c \in Configs : ~c.nonblock /\ UserConnects(c))

-----------------------------------------------------------------------------
ConnectTypeOK ==
  /\ Tls!TypeOK /\ calm \in BOOLEAN
  /\ asked \in {"no", "released", "opened", "called"}

(* When the connection has been deleted, its socket is closed: whether it  *)
(* failed while it was made, while it was configured, in the handshake or  *)
(* in a call that was to be repeated.                                      *)
SocketReleased == tpc = "none" => owner # "tls"

(* A descriptor of another task is closed in one situation only: between   *)
(* the two closes of esp_tls_conn_delete, when the handle has been made.   *)
(* Every other error path closes a number once.                            *)
ClosesOnlyOwn ==
  [][(owner = "other" /\ owner' = "free" /\ tpc' # tpc)
       => tpc = "close" /\ connstate \in {"HANDSHAKE", "DONE", "FAIL"}]_allVars

(* An open connection is connected (although the socket of a non-blocking  *)
(* one is used without a look at SO_ERROR) and completely configured.      *)
EstablishedIsReal ==
  (tpc \in {"returned", "user"} /\ connstate = "DONE") =>
    /\ tcp = "up" /\ contexts = "ready"
    /\ loaded = {"ca", "key", "device", "signer"}

(* Key and certificates are those the chip gave in answer to the present   *)
(* command, whatever it was asked before and whichever command failed.     *)
IdentityFromChip ==
  [][\A part \in loaded' \ loaded :
       part = "ca" \/ (ret = "ok" /\ buf = "mine" /\ executed = 1)]_allVars

(* A handshake uses contexts that are set up and the connection's own      *)
(* socket, also when the function is called again after it failed.         *)
HandshakeReady ==
  tpc \in {"handshake", "sign"} =>
    contexts = "ready" /\ serverfd = "fd" /\ owner = "tls"

(* A connection attempt with a timeout ends, however often chip and bus    *)
(* fail during it.                                                         *)
ConnectEnds ==
  (tpc = "low" /\ cfg.timeout # "never") ~> tpc \in {"user", "none"}

(* Neither a kept error status nor a chip that was left awake locks the    *)
(* transport: after faults the device connects again.                      *)
Reconnects == []<>(connstate = "DONE")
=============================================================================
