------------------------------- MODULE EspTls -------------------------------
(***************************************************************************)
(* One TLS connection: components/esp-tls/esp_tls.c (the states of a       *)
(* connection, its socket, the blocking and the non-blocking interface)    *)
(* and esp_tls_mbedtls.c (the contexts, the identity taken from the secure *)
(* element, the handshake).  The websocket client and esp_https_ota        *)
(* connect through it; they delete a connection that could not be opened.  *)
(*                                                                         *)
(* Abstractions.  A socket is one descriptor number, which may be taken by *)
(* another task once it is closed; the contexts of mbedTLS are one value.  *)
(* A phase named in ChipPhases waits for commands of the secure element,   *)
(* which SecureConnect lets AtcaTransport carry out.  The network and      *)
(* mbedTLS are external.  Every connection has a configuration with a CA   *)
(* certificate, as main.c:380 and ota.c:75 give it.                        *)
(***************************************************************************)
CONSTANTS
  Configs    \* [api, nonblock, timeout] the callers use

ChipPhases == {"open", "key", "device", "reopen", "signer", "sign"}
Phases == ChipPhases \union {"none", "low", "connect", "select", "config",
            "setup", "handshake", "returned", "user", "free", "close"}

VARIABLES
  cfg,        \* the configuration of the present connection
  pc,         \* where its owner is; "none": there is no connection
  connstate,  \* conn_state
  sockfd, serverfd,  \* "none" (-1) or "fd"
  owner,      \* who has the descriptor: "free", "tls", "other"
  fdset,      \* rset and wset: "armed", or "cleared" by a select timeout
  contexts,   \* mbedTLS contexts: "raw" (zeroed), "set", "ready", "freed"
  loaded,     \* what the configuration has been given
  r,          \* esp_tls_low_level_conn: -1 "failed", 0 "again", 1 "done"
  tcp         \* the connection itself: "none", "pending", "up", "refused"

socket == <<sockfd, serverfd, owner>>
ssl    == <<contexts, loaded>>
vars   == <<cfg, pc, connstate, socket, fdset, ssl, r, tcp>>

TypeOK ==
  /\ cfg \in Configs /\ pc \in Phases
  /\ connstate \in {"INIT", "CONNECTING", "HANDSHAKE", "DONE", "FAIL"}
  /\ sockfd \in {"none", "fd"} /\ serverfd \in {"none", "fd"}
  /\ owner \in {"free", "tls", "other"} /\ fdset \in {"armed", "cleared"}
  /\ contexts \in {"raw", "set", "ready", "freed"}
  /\ loaded \subseteq {"ca", "key", "device", "signer"}
  /\ r \in {"failed", "again", "done"} /\ tcp \in {"none", "pending", "up", "refused"}

Init ==
  /\ cfg \in Configs /\ pc = "none" /\ connstate = "INIT"
  /\ sockfd = "none" /\ serverfd = "none" /\ owner = "free"
  /\ fdset = "armed" /\ contexts = "raw" /\ loaded = {}
  /\ r = "again" /\ tcp = "none"

-----------------------------------------------------------------------------
Go(from, to) == pc = from /\ pc' = to

(* esp_tls_init, and the first call of a connection function.              *)
Connect(c) ==
  /\ Go("none", "low")
  /\ cfg' = c /\ connstate' = "INIT" /\ sockfd' = "none" /\ serverfd' = "none"
  /\ fdset' = "armed" /\ contexts' = "raw" /\ loaded' = {} /\ r' = "again"
  /\ tcp' = "none" /\ UNCHANGED owner

Return(result) == pc' = "returned" /\ r' = result

(* Mutant: no case for FAIL.                                               *)
Resume_NoFailCase ==
  /\ pc = "low"
  /\ \/ connstate = "CONNECTING" /\ pc' = "select" /\ UNCHANGED r
     \/ connstate \in {"HANDSHAKE", "FAIL"} /\ pc' = "handshake" /\ UNCHANGED r
     \/ connstate = "DONE" /\ Return("failed")
  /\ UNCHANGED <<cfg, connstate, socket, fdset, ssl, tcp>>

(* esp_tls_low_level_conn continues in the state it was left in.           *)
Resume ==
  /\ pc = "low"
  /\ \/ connstate = "CONNECTING" /\ pc' = "select" /\ UNCHANGED r
     \/ connstate = "HANDSHAKE" /\ pc' = "handshake" /\ UNCHANGED r
     \/ connstate \in {"FAIL", "DONE"} /\ Return("failed")
  /\ UNCHANGED <<cfg, connstate, socket, fdset, ssl, tcp>>

(* INIT: esp_tcp_connect resolves the name and makes a socket ...          *)
Socket ==
  /\ Go("low", "connect") /\ connstate = "INIT" /\ owner' = "tls"
  /\ sockfd' = "none" /\ serverfd' = "none"
  /\ UNCHANGED <<cfg, connstate, fdset, ssl, r, tcp>>

SocketFails ==
  /\ pc = "low" /\ connstate = "INIT" /\ Return("failed")
  /\ sockfd' = "none" /\ serverfd' = "none"
  /\ UNCHANGED <<cfg, connstate, owner, fdset, ssl, tcp>>

(* Mutants: the socket is left open; its number is kept.                   *)
TcpFails_Leaks ==
  /\ pc = "connect" /\ Return("failed")
  /\ UNCHANGED <<cfg, connstate, socket, fdset, ssl, tcp>>

TcpFails_KeepsNumber ==
  /\ pc = "connect" /\ owner' = "free" /\ Return("failed") /\ sockfd' = "fd"
  /\ UNCHANGED <<cfg, connstate, serverfd, fdset, ssl, tcp>>

(* ... closes it when it cannot be configured or connected, ...            *)
TcpFails ==
  /\ pc = "connect" /\ owner' = "free" /\ Return("failed")
  /\ UNCHANGED <<cfg, connstate, sockfd, serverfd, fdset, ssl, tcp>>

(* ... and otherwise hands it out; a non-blocking one still connects.      *)
TcpConnects ==
  /\ pc = "connect" /\ sockfd' = "fd" /\ connstate' = "CONNECTING"
  /\ \/ cfg.nonblock /\ pc' = "select" /\ tcp' \in {"pending", "up"} /\ fdset' = "armed"
     \/ ~cfg.nonblock /\ pc' = "config" /\ tcp' = "up" /\ UNCHANGED fdset
  /\ UNCHANGED <<cfg, serverfd, owner, ssl, r>>

(* select with a timeout clears the sets it was given.                     *)
SelectTimesOut ==
  /\ pc = "select" /\ cfg.timeout = "some"
  /\ tcp = "pending" \/ fdset = "cleared"
  /\ fdset' = "cleared" /\ Return("again")
  /\ UNCHANGED <<cfg, connstate, socket, ssl, tcp>>

(* The socket is writable, connected or not: SO_ERROR is fetched, but only *)
(* a failure to fetch it is looked at.                                     *)
SelectReady ==
  /\ Go("select", "config") /\ fdset = "armed" /\ tcp # "pending"
  /\ UNCHANGED <<cfg, connstate, socket, fdset, ssl, r, tcp>>

(* A select that fails (-1) is not told from one that finds the socket     *)
(* ready, and leaves the sets as they are.                                 *)
SelectInterrupted ==
  /\ Go("select", "config")
  /\ UNCHANGED <<cfg, connstate, socket, fdset, ssl, r, tcp>>

SelectError ==
  /\ pc = "select" /\ fdset = "armed"
  /\ connstate' = "FAIL" /\ Return("failed")
  /\ UNCHANGED <<cfg, socket, fdset, ssl, tcp>>

-----------------------------------------------------------------------------
(* esp_create_mbedtls_handle, set_client_config: host name, defaults and   *)
(* CA certificate, then the identity.                                      *)
Configure ==
  /\ Go("config", "open") /\ serverfd' = sockfd
  /\ contexts' = "set" /\ loaded' = {"ca"}
  /\ UNCHANGED <<cfg, connstate, sockfd, owner, fdset, r, tcp>>

(* Any step of it may fail: everything is freed.                           *)
HandleFails ==
  /\ pc \in {"config", "setup"} \union (ChipPhases \ {"sign"})
  /\ serverfd' = sockfd /\ contexts' = "freed" /\ loaded' = {}
  /\ connstate' = "FAIL" /\ Return("failed")
  /\ UNCHANGED <<cfg, sockfd, owner, fdset, tcp>>

(* Mutant: the chain ends with the device certificate.                     *)
AfterChip_NoSigner == [open |-> "key", key |-> "device", device |-> "reopen",
                       reopen |-> "setup", signer |-> "setup"]

(* set_pki_context: the key and the device certificate, the device opened  *)
(* once more, the signer certificate.                                      *)
AfterChip == [open |-> "key", key |-> "device", device |-> "reopen",
              reopen |-> "signer", signer |-> "setup"]

ChipAnswers ==
  /\ pc \in ChipPhases \ {"sign"} /\ pc' = AfterChip[pc]
  /\ loaded' = loaded \union ({pc} \ {"open", "reopen"})
  /\ UNCHANGED <<cfg, connstate, socket, fdset, contexts, r, tcp>>

(* The generator is seeded, the context is set up: HANDSHAKE.              *)
Setup ==
  /\ Go("setup", "handshake") /\ contexts' = "ready" /\ connstate' = "HANDSHAKE"
  /\ UNCHANGED <<cfg, socket, fdset, loaded, r, tcp>>

(* Mutant: the error code of mbedTLS is handed on.                         *)
HandshakeWants_Code ==
  /\ pc = "handshake" /\ cfg.nonblock /\ tcp # "refused" /\ Return("wants")
  /\ UNCHANGED <<cfg, connstate, socket, fdset, ssl, tcp>>

(* esp_mbedtls_handshake: to be called again, ...                          *)
HandshakeWants ==
  /\ pc = "handshake" /\ cfg.nonblock /\ tcp # "refused" /\ Return("again")
  /\ UNCHANGED <<cfg, connstate, socket, fdset, ssl, tcp>>

(* ... over when the peer wants our signature and accepts it, ...          *)
HandshakeSigns ==
  /\ Go("handshake", "sign") /\ tcp = "up"
  /\ UNCHANGED <<cfg, connstate, socket, fdset, ssl, r, tcp>>

HandshakeDone ==
  /\ pc = "sign" /\ connstate' = "DONE" /\ Return("done")
  /\ UNCHANGED <<cfg, socket, fdset, ssl, tcp>>

(* ... or failed.                                                          *)
HandshakeFails ==
  /\ pc \in {"handshake", "sign"} /\ connstate' = "FAIL" /\ Return("failed")
  /\ UNCHANGED <<cfg, socket, fdset, ssl, tcp>>

-----------------------------------------------------------------------------
(* esp_tls_conn_new and esp_tls_conn_new_sync call again until the time is *)
(* up; the caller of esp_tls_conn_new_async decides.                       *)
Again ==
  /\ Go("returned", "low")
  /\ \/ cfg.api = "sync" /\ r = "again" /\ cfg.timeout # "zero" /\ fdset = "armed"
     \/ cfg.api = "async" /\ r # "done"
  /\ UNCHANGED <<cfg, connstate, socket, fdset, ssl, r, tcp>>

Opened ==
  /\ Go("returned", "user") /\ r = "done"
  /\ UNCHANGED <<cfg, connstate, socket, fdset, ssl, r, tcp>>

GiveUp ==
  /\ Go("returned", "free") /\ r # "done"
  /\ (cfg.api = "sync" /\ r = "again") => cfg.timeout # "never"
  /\ UNCHANGED <<cfg, connstate, socket, fdset, ssl, r, tcp>>

UserCloses ==
  /\ Go("user", "free")
  /\ UNCHANGED <<cfg, connstate, socket, fdset, ssl, r, tcp>>

(* esp_tls_conn_delete: mbedtls_net_free closes server_fd, ...             *)
Free ==
  /\ Go("free", "close") /\ contexts' = "freed" /\ loaded' = {}
  /\ serverfd' = "none"
  /\ owner' = IF serverfd = "fd" THEN "free" ELSE owner
  /\ UNCHANGED <<cfg, connstate, sockfd, fdset, r, tcp>>

(* ... and then sockfd, which is the same number, is closed.               *)
Close ==
  /\ Go("close", "none") /\ sockfd' = "none"
  /\ owner' = IF sockfd = "fd" THEN "free" ELSE owner
  /\ UNCHANGED <<cfg, connstate, serverfd, fdset, ssl, r, tcp>>

-----------------------------------------------------------------------------
(* The network answers a connection attempt; other tasks use sockets.      *)
TcpAnswers(answer) ==
  /\ tcp = "pending" /\ tcp' = answer
  /\ UNCHANGED <<cfg, pc, connstate, socket, fdset, ssl, r>>

OtherOpens ==
  /\ owner = "free" /\ owner' = "other"
  /\ UNCHANGED <<cfg, pc, connstate, sockfd, serverfd, fdset, ssl, r, tcp>>

OtherCloses ==
  /\ owner = "other" /\ owner' = "free"
  /\ UNCHANGED <<cfg, pc, connstate, sockfd, serverfd, fdset, ssl, r, tcp>>

(* What does not involve the secure element: the steps towards an open or  *)
(* a deleted connection, ...                                               *)
Progress ==
  \/ Resume \/ Socket \/ TcpConnects \/ SelectTimesOut \/ SelectReady
  \/ Configure \/ Setup \/ HandshakeSigns
  \/ (pc = "handshake" /\ tcp = "refused" /\ HandshakeFails)
  \/ Again \/ Opened \/ GiveUp \/ Free \/ Close

(* ... and those for which network, server or memory are to blame.         *)
Mishap ==
  \/ SocketFails \/ TcpFails \/ SelectInterrupted \/ SelectError
  \/ HandshakeWants
  \/ (pc \notin ChipPhases /\ HandleFails)
  \/ (pc \notin ChipPhases /\ HandshakeFails)
=============================================================================
