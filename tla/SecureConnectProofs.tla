------------------------ MODULE SecureConnectProofs ------------------------
(***************************************************************************)
(* Proofs about SecureConnect, for connections of every configuration and  *)
(* any faults of bus, chip, network and server.  The composition is a      *)
(* behaviour of AtcaTransport, whose theorems hold in it; the rest is an   *)
(* invariant of the connection, phase by phase.                            *)
(***************************************************************************)
EXTENDS SecureConnect, AtcaTransportProofs

(* Every step of the composition is one of the transport or leaves it.     *)
LEMMA TransportSteps == [ConnectNext]_allVars => [Next]_vars
<1> SUFFICES ASSUME [ConnectNext]_allVars PROVE [Next]_vars
  OBVIOUS
<1>1. CASE ChipRelease \/ ChipOpen \/ ChipCall
  BY <1>1 DEF ChipRelease, ChipOpen, ChipCall, Next
<1>2. CASE Transport \/ ElementRuns
  BY <1>2 DEF Transport, ElementRuns, Next
<1>3. CASE ChipSucceeds \/ ChipFails \/ TlsAlone \/ NetworkAnswers \/ OtherSockets
  BY <1>3 DEF ChipSucceeds, ChipFails, TlsAlone, NetworkAnswers, OtherSockets
<1>4. CASE (\E c \in Configs : UserConnects(c)) \/ UserCloses \/ CalmsDown
  BY <1>4 DEF UserConnects, UserCloses, CalmsDown
<1>5. CASE UNCHANGED allVars
  BY <1>5 DEF allVars
<1>6. QED
  BY <1>1, <1>2, <1>3, <1>4, <1>5 DEF ConnectNext

(* What is proved of a command holds while connections use the chip.       *)
THEOREM Composes == ConnectSpec => Spec
<1>1. ConnectInit => Init
  BY DEF ConnectInit
<1>2. QED
  BY <1>1, TransportSteps, PTL DEF ConnectSpec, Spec

-----------------------------------------------------------------------------
(* The steps of a connection.                                              *)
Making ==
  \/ (\E c \in Configs : Tls!Connect(c))
  \/ Tls!Resume
  \/ Tls!Socket
  \/ Tls!SocketFails
  \/ Tls!TcpFails
  \/ Tls!TcpConnects

Selecting ==
  \/ Tls!SelectTimesOut
  \/ Tls!SelectReady \/ Tls!SelectInterrupted
  \/ Tls!SelectError
  \/ Tls!Configure
  \/ Tls!HandleFails

Handing ==
  \/ Tls!ChipAnswers
  \/ Tls!Setup
  \/ Tls!HandshakeWants
  \/ Tls!HandshakeSigns
  \/ Tls!HandshakeDone
  \/ Tls!HandshakeFails

Ending ==
  \/ Tls!Again
  \/ Tls!Opened
  \/ Tls!GiveUp
  \/ Tls!UserCloses
  \/ Tls!Free
  \/ Tls!Close

Outside ==
  \/ (\E s \in {"up", "refused"} : Tls!TcpAnswers(s))
  \/ Tls!OtherOpens
  \/ Tls!OtherCloses

LEMMA TlsSteps ==
  [ConnectNext]_allVars =>
    Making \/ Selecting \/ Handing \/ Ending \/ Outside \/ UNCHANGED tlsVars
<1> SUFFICES ASSUME [ConnectNext]_allVars
             PROVE  Making \/ Selecting \/ Handing \/ Ending \/ Outside
                    \/ UNCHANGED tlsVars
  OBVIOUS
<1>1. CASE ChipRelease \/ ChipOpen \/ ChipCall \/ Transport \/ ElementRuns \/ CalmsDown
  BY <1>1 DEF ChipRelease, ChipOpen, ChipCall, Transport, ElementRuns, CalmsDown
<1>2. CASE ChipSucceeds \/ ChipFails
  BY <1>2 DEF ChipSucceeds, ChipFails, Selecting, Handing
<1>3. CASE TlsAlone
  BY <1>3 DEF TlsAlone, Tls!Progress, Tls!Mishap, Making, Selecting, Handing, Ending
<1>4. CASE NetworkAnswers \/ OtherSockets
  BY <1>4 DEF NetworkAnswers, OtherSockets, Outside
<1>5. CASE (\E c \in Configs : UserConnects(c)) \/ UserCloses
  BY <1>5 DEF UserConnects, UserCloses, Making, Ending
<1>6. CASE UNCHANGED allVars
  BY <1>6 DEF allVars
<1>7. QED
  BY <1>1, <1>2, <1>3, <1>4, <1>5, <1>6 DEF ConnectNext

-----------------------------------------------------------------------------
(* How far the dealings with the chip are, and whether others fail, keep   *)
(* their types in every step.                                              *)
Dealings == calm \in BOOLEAN /\ asked \in {"no", "released", "opened", "called"}

LEMMA DealingsStep == Dealings /\ [ConnectNext]_allVars => Dealings'
<1> SUFFICES ASSUME Dealings, [ConnectNext]_allVars PROVE Dealings'
  OBVIOUS
<1>1. CASE ChipRelease \/ ChipOpen \/ ChipCall \/ ChipSucceeds \/ ChipFails
  BY <1>1, Zenon DEF Dealings, ChipRelease, ChipOpen, ChipCall, ChipSucceeds, ChipFails
<1>2. CASE TlsAlone \/ NetworkAnswers \/ OtherSockets \/ Transport \/ ElementRuns
  BY <1>2, Zenon
  DEF Dealings, TlsAlone, NetworkAnswers, OtherSockets, Transport, ElementRuns
<1>3. CASE (\E c \in Configs : UserConnects(c)) \/ UserCloses \/ CalmsDown
  BY <1>3, Zenon DEF Dealings, UserConnects, UserCloses, CalmsDown
<1>4. CASE UNCHANGED allVars
  BY <1>4, Zenon DEF Dealings, allVars
<1>5. QED
  BY <1>1, <1>2, <1>3, <1>4, Zenon DEF ConnectNext

LEMMA TlsTypeStep == Tls!TypeOK /\ [ConnectNext]_allVars => Tls!TypeOK'
<1> SUFFICES ASSUME Tls!TypeOK, [ConnectNext]_allVars PROVE Tls!TypeOK'
  OBVIOUS
<1> USE DEF Tls!socket, Tls!ssl, Tls!TypeOK, Tls!Phases, Tls!ChipPhases
<1>1. CASE \E c \in Configs : Tls!Connect(c)
  BY <1>1 DEF Tls!Connect, Tls!Go
<1>2. CASE Tls!Resume
  BY <1>2 DEF Tls!Resume, Tls!Return
<1>3. CASE Tls!Socket
  BY <1>3 DEF Tls!Socket, Tls!Go
<1>4. CASE Tls!SocketFails
  BY <1>4 DEF Tls!SocketFails, Tls!Return
<1>5. CASE Tls!TcpFails
  BY <1>5 DEF Tls!TcpFails, Tls!Return
<1>6. CASE Tls!TcpConnects
  BY <1>6 DEF Tls!TcpConnects
<1>7. CASE Tls!SelectTimesOut
  BY <1>7 DEF Tls!SelectTimesOut, Tls!Return
<1>8. CASE Tls!SelectReady \/ Tls!SelectInterrupted
  BY <1>8 DEF Tls!SelectReady, Tls!SelectInterrupted, Tls!Go
<1>9. CASE Tls!SelectError
  BY <1>9 DEF Tls!SelectError, Tls!Return
<1>10. CASE Tls!Configure
  BY <1>10 DEF Tls!Configure, Tls!Go
<1>11. CASE Tls!HandleFails
  BY <1>11 DEF Tls!HandleFails, Tls!Return
<1>12. CASE Tls!ChipAnswers
  BY <1>12 DEF Tls!ChipAnswers, Tls!AfterChip
<1>13. CASE Tls!Setup
  BY <1>13 DEF Tls!Setup, Tls!Go
<1>14. CASE Tls!HandshakeWants
  BY <1>14 DEF Tls!HandshakeWants, Tls!Return
<1>15. CASE Tls!HandshakeSigns
  BY <1>15 DEF Tls!HandshakeSigns, Tls!Go
<1>16. CASE Tls!HandshakeDone
  BY <1>16 DEF Tls!HandshakeDone, Tls!Return
<1>17. CASE Tls!HandshakeFails
  BY <1>17 DEF Tls!HandshakeFails, Tls!Return
<1>18. CASE Tls!Again
  BY <1>18 DEF Tls!Again, Tls!Go
<1>19. CASE Tls!Opened
  BY <1>19 DEF Tls!Opened, Tls!Go
<1>20. CASE Tls!GiveUp
  BY <1>20 DEF Tls!GiveUp, Tls!Go
<1>21. CASE Tls!UserCloses
  BY <1>21 DEF Tls!UserCloses, Tls!Go
<1>22. CASE Tls!Free
  BY <1>22 DEF Tls!Free, Tls!Go
<1>23. CASE Tls!Close
  BY <1>23 DEF Tls!Close, Tls!Go
<1>24. CASE \E s \in {"up", "refused"} : Tls!TcpAnswers(s)
  BY <1>24 DEF Tls!TcpAnswers
<1>25. CASE Tls!OtherOpens
  BY <1>25 DEF Tls!OtherOpens
<1>26. CASE Tls!OtherCloses
  BY <1>26 DEF Tls!OtherCloses
<1>27. CASE UNCHANGED tlsVars
  BY <1>27 DEF tlsVars
<1>28. QED
  BY TlsSteps, <1>1, <1>2, <1>3, <1>4, <1>5, <1>6, <1>7, <1>8, <1>9, <1>10, <1>11,
     <1>12, <1>13, <1>14, <1>15, <1>16, <1>17, <1>18, <1>19, <1>20, <1>21, <1>22,
     <1>23, <1>24, <1>25, <1>26, <1>27
  DEF Making, Selecting, Handing, Ending, Outside

(* Types: every variable of the connection keeps its type.                 *)
THEOREM ConnectTypeCorrect == ConnectSpec => []ConnectTypeOK
<1>1. ConnectInit => Tls!TypeOK /\ Dealings
  <2> SUFFICES ASSUME ConnectInit PROVE Tls!TypeOK /\ Dealings
    OBVIOUS
  <2>1. Dealings
    BY Zenon DEF ConnectInit, Dealings
  <2>2. Tls!TypeOK
    BY DEF ConnectInit, Tls!Init, Tls!TypeOK, Tls!Phases
  <2>3. QED
    BY <2>1, <2>2
<1>2. Tls!TypeOK /\ Dealings => ConnectTypeOK
  BY DEF Dealings, ConnectTypeOK
<1>3. QED
  BY <1>1, <1>2, TlsTypeStep, DealingsStep, PTL DEF ConnectSpec

-----------------------------------------------------------------------------
(* Whose the descriptor is, by phase.                                      *)
Handle  == {"select", "config", "setup"} \union (Tls!ChipPhases \ {"sign"})
Working == Handle \union {"handshake", "sign", "user"}

Sockets ==
  /\ tpc \in Working => sockfd = "fd" /\ owner = "tls" /\ connstate # "INIT"
  /\ tpc = "connect" => sockfd = "none" /\ owner = "tls" /\ connstate = "INIT"
  /\ tpc \in {"low", "returned", "free"} =>
       IF connstate = "INIT" THEN sockfd = "none" /\ owner # "tls"
                             ELSE sockfd = "fd" /\ owner = "tls"
  /\ tpc = "returned" /\ r = "done" => connstate = "DONE"
  /\ tpc = "close" => (owner = "tls" => sockfd = "fd")
  /\ tpc = "none" => owner # "tls"

LEMMA SocketsStep ==
  Sockets /\ [ConnectNext]_allVars
    => Sockets'
<1> SUFFICES ASSUME Sockets, [ConnectNext]_allVars
             PROVE  Sockets'
  OBVIOUS
<1> USE DEF Tls!socket, Tls!ssl, Sockets, Working, Handle, Tls!ChipPhases
<1>1. CASE \E c \in Configs : Tls!Connect(c)
  BY <1>1 DEF Tls!Connect, Tls!Go
<1>2. CASE Tls!Resume
  BY <1>2 DEF Tls!Resume, Tls!Return
<1>3. CASE Tls!Socket
  BY <1>3 DEF Tls!Socket, Tls!Go
<1>4. CASE Tls!SocketFails
  BY <1>4 DEF Tls!SocketFails, Tls!Return
<1>5. CASE Tls!TcpFails
  BY <1>5 DEF Tls!TcpFails, Tls!Return
<1>6. CASE Tls!TcpConnects
  BY <1>6 DEF Tls!TcpConnects
<1>7. CASE Tls!SelectTimesOut
  BY <1>7 DEF Tls!SelectTimesOut, Tls!Return
<1>8. CASE Tls!SelectReady \/ Tls!SelectInterrupted
  BY <1>8 DEF Tls!SelectReady, Tls!SelectInterrupted, Tls!Go
<1>9. CASE Tls!SelectError
  BY <1>9 DEF Tls!SelectError, Tls!Return
<1>10. CASE Tls!Configure
  BY <1>10 DEF Tls!Configure, Tls!Go
<1>11. CASE Tls!HandleFails
  BY <1>11 DEF Tls!HandleFails, Tls!Return
<1>12. CASE Tls!ChipAnswers
  BY <1>12 DEF Tls!ChipAnswers, Tls!AfterChip
<1>13. CASE Tls!Setup
  BY <1>13 DEF Tls!Setup, Tls!Go
<1>14. CASE Tls!HandshakeWants
  BY <1>14 DEF Tls!HandshakeWants, Tls!Return
<1>15. CASE Tls!HandshakeSigns
  BY <1>15 DEF Tls!HandshakeSigns, Tls!Go
<1>16. CASE Tls!HandshakeDone
  BY <1>16 DEF Tls!HandshakeDone, Tls!Return
<1>17. CASE Tls!HandshakeFails
  BY <1>17 DEF Tls!HandshakeFails, Tls!Return
<1>18. CASE Tls!Again
  BY <1>18 DEF Tls!Again, Tls!Go
<1>19. CASE Tls!Opened
  BY <1>19 DEF Tls!Opened, Tls!Go
<1>20. CASE Tls!GiveUp
  BY <1>20 DEF Tls!GiveUp, Tls!Go
<1>21. CASE Tls!UserCloses
  BY <1>21 DEF Tls!UserCloses, Tls!Go
<1>22. CASE Tls!Free
  BY <1>22 DEF Tls!Free, Tls!Go
<1>23. CASE Tls!Close
  BY <1>23 DEF Tls!Close, Tls!Go
<1>24. CASE \E s \in {"up", "refused"} : Tls!TcpAnswers(s)
  BY <1>24 DEF Tls!TcpAnswers
<1>25. CASE Tls!OtherOpens
  BY <1>25 DEF Tls!OtherOpens
<1>26. CASE Tls!OtherCloses
  BY <1>26 DEF Tls!OtherCloses
<1>27. CASE UNCHANGED tlsVars
  BY <1>27 DEF tlsVars
<1>28. QED
  BY TlsSteps, <1>1, <1>2, <1>3, <1>4, <1>5, <1>6, <1>7, <1>8, <1>9, <1>10, <1>11,
     <1>12, <1>13, <1>14, <1>15, <1>16, <1>17, <1>18, <1>19, <1>20, <1>21, <1>22,
     <1>23, <1>24, <1>25, <1>26, <1>27
  DEF Making, Selecting, Handing, Ending, Outside

-----------------------------------------------------------------------------
(* What has been made of a connection, by phase.                           *)
Whole == {"ca", "key", "device", "signer"}

Configured ==
  /\ tpc \in {"open", "key"} => loaded = {"ca"}
  /\ tpc = "device" => loaded = {"ca", "key"}
  /\ tpc \in {"reopen", "signer"} => loaded = {"ca", "key", "device"}
  /\ tpc = "setup" => loaded = Whole
  /\ tpc \in Handle \ {"select", "config"} => serverfd = "fd"

Made == contexts = "ready" /\ loaded = Whole /\ serverfd = "fd"

Handshaking ==
  /\ tpc \in {"handshake", "sign"} => Made /\ connstate = "HANDSHAKE"
  /\ tpc \in {"low", "returned", "user"} /\ connstate \in {"HANDSHAKE", "DONE"} => Made
  /\ tpc = "sign" \/ (tpc \in {"low", "returned", "user"} /\ connstate = "DONE")
       => tcp = "up"
  /\ tpc \in Handle \union {"connect"} => connstate \in {"INIT", "CONNECTING"}


LEMMA ConfiguredStep ==
  Configured /\ Handshaking /\ Sockets /\ [ConnectNext]_allVars
    => (Configured /\ Handshaking)'
<1> SUFFICES ASSUME Configured, Handshaking, Sockets, [ConnectNext]_allVars
             PROVE  (Configured /\ Handshaking)'
  OBVIOUS
<1> USE DEF Tls!socket, Tls!ssl, Configured, Handshaking, Made, Whole, Handle, Tls!ChipPhases
<1>1. CASE \E c \in Configs : Tls!Connect(c)
  BY <1>1 DEF Tls!Connect, Tls!Go
<1>2. CASE Tls!Resume
  BY <1>2 DEF Tls!Resume, Tls!Return
<1>3. CASE Tls!Socket
  BY <1>3 DEF Tls!Socket, Tls!Go
<1>4. CASE Tls!SocketFails
  BY <1>4 DEF Tls!SocketFails, Tls!Return
<1>5. CASE Tls!TcpFails
  BY <1>5 DEF Tls!TcpFails, Tls!Return
<1>6. CASE Tls!TcpConnects
  BY <1>6 DEF Tls!TcpConnects
<1>7. CASE Tls!SelectTimesOut
  BY <1>7 DEF Tls!SelectTimesOut, Tls!Return
<1>8. CASE Tls!SelectReady \/ Tls!SelectInterrupted
  BY <1>8 DEF Tls!SelectReady, Tls!SelectInterrupted, Tls!Go
<1>9. CASE Tls!SelectError
  BY <1>9 DEF Tls!SelectError, Tls!Return
<1>10. CASE Tls!Configure
  BY <1>10 DEF Tls!Configure, Tls!Go, Sockets, Working
<1>11. CASE Tls!HandleFails
  BY <1>11 DEF Tls!HandleFails, Tls!Return
<1>12. CASE Tls!ChipAnswers
  BY <1>12 DEF Tls!ChipAnswers, Tls!AfterChip
<1>13. CASE Tls!Setup
  BY <1>13 DEF Tls!Setup, Tls!Go
<1>14. CASE Tls!HandshakeWants
  BY <1>14 DEF Tls!HandshakeWants, Tls!Return
<1>15. CASE Tls!HandshakeSigns
  BY <1>15 DEF Tls!HandshakeSigns, Tls!Go
<1>16. CASE Tls!HandshakeDone
  BY <1>16 DEF Tls!HandshakeDone, Tls!Return
<1>17. CASE Tls!HandshakeFails
  BY <1>17 DEF Tls!HandshakeFails, Tls!Return
<1>18. CASE Tls!Again
  BY <1>18 DEF Tls!Again, Tls!Go
<1>19. CASE Tls!Opened
  BY <1>19 DEF Tls!Opened, Tls!Go
<1>20. CASE Tls!GiveUp
  BY <1>20 DEF Tls!GiveUp, Tls!Go
<1>21. CASE Tls!UserCloses
  BY <1>21 DEF Tls!UserCloses, Tls!Go
<1>22. CASE Tls!Free
  BY <1>22 DEF Tls!Free, Tls!Go
<1>23. CASE Tls!Close
  BY <1>23 DEF Tls!Close, Tls!Go
<1>24. CASE \E s \in {"up", "refused"} : Tls!TcpAnswers(s)
  BY <1>24 DEF Tls!TcpAnswers
<1>25. CASE Tls!OtherOpens
  BY <1>25 DEF Tls!OtherOpens
<1>26. CASE Tls!OtherCloses
  BY <1>26 DEF Tls!OtherCloses
<1>27. CASE UNCHANGED tlsVars
  BY <1>27 DEF tlsVars
<1>28. QED
  BY TlsSteps, <1>1, <1>2, <1>3, <1>4, <1>5, <1>6, <1>7, <1>8, <1>9, <1>10, <1>11,
     <1>12, <1>13, <1>14, <1>15, <1>16, <1>17, <1>18, <1>19, <1>20, <1>21, <1>22,
     <1>23, <1>24, <1>25, <1>26, <1>27
  DEF Making, Selecting, Handing, Ending, Outside

(* The second number a connection keeps is set with its handle only.       *)
Closing ==
  /\ tpc \notin Handle \ {"select", "config"} /\ serverfd = "fd" =>
       connstate \in {"HANDSHAKE", "DONE", "FAIL"}
  /\ tpc = "close" /\ connstate = "INIT" => sockfd = "none"
  /\ tpc = "close" /\ connstate = "CONNECTING" => owner = "tls"
  /\ connstate \in {"INIT", "CONNECTING", "HANDSHAKE", "DONE", "FAIL"}

LEMMA ClosingStep ==
  Closing /\ Sockets /\ [ConnectNext]_allVars
    => Closing'
<1> SUFFICES ASSUME Closing, Sockets, [ConnectNext]_allVars
             PROVE  Closing'
  OBVIOUS
<1> USE DEF Tls!socket, Tls!ssl, Closing, Handle, Tls!ChipPhases
<1>1. CASE \E c \in Configs : Tls!Connect(c)
  BY <1>1 DEF Tls!Connect, Tls!Go, Sockets, Working
<1>2. CASE Tls!Resume
  BY <1>2 DEF Tls!Resume, Tls!Return
<1>3. CASE Tls!Socket
  BY <1>3 DEF Tls!Socket, Tls!Go
<1>4. CASE Tls!SocketFails
  BY <1>4 DEF Tls!SocketFails, Tls!Return
<1>5. CASE Tls!TcpFails
  BY <1>5 DEF Tls!TcpFails, Tls!Return
<1>6. CASE Tls!TcpConnects
  BY <1>6 DEF Tls!TcpConnects, Sockets, Working
<1>7. CASE Tls!SelectTimesOut
  BY <1>7 DEF Tls!SelectTimesOut, Tls!Return
<1>8. CASE Tls!SelectReady \/ Tls!SelectInterrupted
  BY <1>8 DEF Tls!SelectReady, Tls!SelectInterrupted, Tls!Go
<1>9. CASE Tls!SelectError
  BY <1>9 DEF Tls!SelectError, Tls!Return
<1>10. CASE Tls!Configure
  BY <1>10 DEF Tls!Configure, Tls!Go
<1>11. CASE Tls!HandleFails
  BY <1>11 DEF Tls!HandleFails, Tls!Return
<1>12. CASE Tls!ChipAnswers
  BY <1>12 DEF Tls!ChipAnswers, Tls!AfterChip
<1>13. CASE Tls!Setup
  BY <1>13 DEF Tls!Setup, Tls!Go
<1>14. CASE Tls!HandshakeWants
  BY <1>14 DEF Tls!HandshakeWants, Tls!Return
<1>15. CASE Tls!HandshakeSigns
  BY <1>15 DEF Tls!HandshakeSigns, Tls!Go
<1>16. CASE Tls!HandshakeDone
  BY <1>16 DEF Tls!HandshakeDone, Tls!Return
<1>17. CASE Tls!HandshakeFails
  BY <1>17 DEF Tls!HandshakeFails, Tls!Return
<1>18. CASE Tls!Again
  BY <1>18 DEF Tls!Again, Tls!Go
<1>19. CASE Tls!Opened
  BY <1>19 DEF Tls!Opened, Tls!Go
<1>20. CASE Tls!GiveUp
  BY <1>20 DEF Tls!GiveUp, Tls!Go, Sockets, Working
<1>21. CASE Tls!UserCloses
  BY <1>21 DEF Tls!UserCloses, Tls!Go, Sockets, Working
<1>22. CASE Tls!Free
  BY <1>22 DEF Tls!Free, Tls!Go, Sockets, Working
<1>23. CASE Tls!Close
  BY <1>23 DEF Tls!Close, Tls!Go, Sockets, Working
<1>24. CASE \E s \in {"up", "refused"} : Tls!TcpAnswers(s)
  BY <1>24 DEF Tls!TcpAnswers
<1>25. CASE Tls!OtherOpens
  BY <1>25 DEF Tls!OtherOpens
<1>26. CASE Tls!OtherCloses
  BY <1>26 DEF Tls!OtherCloses
<1>27. CASE UNCHANGED tlsVars
  BY <1>27 DEF tlsVars
<1>28. QED
  BY TlsSteps, <1>1, <1>2, <1>3, <1>4, <1>5, <1>6, <1>7, <1>8, <1>9, <1>10, <1>11,
     <1>12, <1>13, <1>14, <1>15, <1>16, <1>17, <1>18, <1>19, <1>20, <1>21, <1>22,
     <1>23, <1>24, <1>25, <1>26, <1>27
  DEF Making, Selecting, Handing, Ending, Outside

Connection == Sockets /\ Configured /\ Handshaking /\ Closing

LEMMA ConnectionInvariant == ConnectSpec => []Connection
<1>1. ConnectInit => Connection
  BY DEF ConnectInit, Tls!Init, Connection, Sockets, Working, Configured,
         Handshaking, Closing, Handle, Tls!ChipPhases
<1>2. Connection /\ [ConnectNext]_allVars => Connection'
  BY SocketsStep, ConfiguredStep, ClosingStep DEF Connection
<1>3. QED
  BY <1>1, <1>2, PTL DEF ConnectSpec

(* No socket is left behind by a connection, however it ended.             *)
THEOREM SocketsCorrect == ConnectSpec => []SocketReleased
<1>1. Connection => SocketReleased
  BY DEF Connection, Sockets, SocketReleased
<1>2. QED
  BY ConnectionInvariant, <1>1, PTL

(* A handshake, a repeated call included, finds a context that is set up   *)
(* and the connection's own socket.                                        *)
THEOREM HandshakeCorrect == ConnectSpec => []HandshakeReady
<1>1. Connection => HandshakeReady
  BY DEF Connection, Sockets, Working, Handshaking, Made, HandshakeReady
<1>2. QED
  BY ConnectionInvariant, <1>1, PTL

(* A connection that is open is connected and wholly configured.           *)
THEOREM EstablishedCorrect == ConnectSpec => []EstablishedIsReal
<1>1. Connection => EstablishedIsReal
  BY DEF Connection, Handshaking, Made, Whole, EstablishedIsReal
<1>2. QED
  BY ConnectionInvariant, <1>1, PTL

(* Only between the two closes of esp_tls_conn_delete can the descriptor   *)
(* of another task be closed.                                              *)
THEOREM ClosesCorrect == ConnectSpec => ClosesOnlyOwn
<1> DEFINE Taken == owner = "other" /\ owner' = "free" /\ tpc' # tpc
<1>1. Connection /\ [ConnectNext]_allVars
        => [Taken => tpc = "close" /\ connstate \in {"HANDSHAKE", "DONE", "FAIL"}]_allVars
  <2> SUFFICES ASSUME Connection, [ConnectNext]_allVars, Taken
               PROVE  tpc = "close" /\ connstate \in {"HANDSHAKE", "DONE", "FAIL"}
    OBVIOUS
  <2> USE DEF Tls!socket, Tls!ssl
  <2>1. CASE Tls!Free
    BY <2>1 DEF Tls!Free, Tls!Go, Connection, Sockets, Closing, Handle, Tls!ChipPhases
  <2>2. CASE Tls!Close
    BY <2>2 DEF Tls!Close, Tls!Go, Connection, Closing
  <2>3. CASE Tls!TcpFails
    BY <2>3 DEF Tls!TcpFails, Connection, Sockets
  <2>4. CASE owner' = owner \/ owner' = "tls" \/ tpc' = tpc
    BY <2>4
  <2>5. CASE (\E c \in Configs : Tls!Connect(c)) \/ Tls!Resume \/ Tls!Socket
             \/ Tls!SocketFails \/ Tls!TcpConnects
    BY <2>4, <2>5 DEF Tls!Connect, Tls!Resume, Tls!Socket, Tls!SocketFails, Tls!TcpConnects
  <2>6. CASE Selecting
    BY <2>4, <2>6
    DEF Selecting, Tls!SelectTimesOut, Tls!SelectReady, Tls!SelectInterrupted,
        Tls!SelectError, Tls!Configure, Tls!HandleFails
  <2>7. CASE Handing
    BY <2>4, <2>7
    DEF Handing, Tls!ChipAnswers, Tls!Setup, Tls!HandshakeWants,
        Tls!HandshakeSigns, Tls!HandshakeDone, Tls!HandshakeFails
  <2>8. CASE Tls!Again \/ Tls!Opened \/ Tls!GiveUp \/ Tls!UserCloses
    BY <2>4, <2>8 DEF Tls!Again, Tls!Opened, Tls!GiveUp, Tls!UserCloses
  <2>9. CASE Outside \/ UNCHANGED tlsVars
    BY <2>4, <2>9
    DEF Outside, Tls!TcpAnswers, Tls!OtherOpens, Tls!OtherCloses, tlsVars
  <2>10. QED
    BY TlsSteps, <2>1, <2>2, <2>3, <2>5, <2>6, <2>7, <2>8, <2>9 DEF Making, Ending
<1>2. QED
  BY ConnectionInvariant, <1>1, PTL DEF ConnectSpec, ClosesOnlyOwn

-----------------------------------------------------------------------------
(* Every part of the identity is the chip's own answer to the command it   *)
(* was asked for.                                                          *)
THEOREM IdentityCorrect == ConnectSpec => IdentityFromChip
<1> DEFINE Given == \A part \in loaded' \ loaded :
                      part = "ca" \/ (ret = "ok" /\ buf = "mine" /\ executed = 1)
<1>1. ConnectSpec => []Own
  BY Composes, OwnInvariant, PTL
<1>2. Own /\ [ConnectNext]_allVars => [Given]_allVars
  <2> SUFFICES ASSUME Own, [ConnectNext]_allVars PROVE Given
    OBVIOUS
  <2> USE DEF Tls!ssl
  <2>1. CASE ChipSucceeds
    BY <2>1 DEF ChipSucceeds, Own, OwnResponse
  <2>2. CASE loaded' \subseteq loaded \union {"ca"}
    BY <2>2
  <2>3. CASE ChipFails
    BY <2>2, <2>3 DEF ChipFails, Tls!HandleFails, Tls!HandshakeFails
  <2>4. CASE TlsAlone
    <3>1. CASE Tls!Progress
      BY <2>2, <3>1
      DEF Tls!Progress, Tls!Resume, Tls!Socket, Tls!TcpConnects, Tls!SelectTimesOut,
          Tls!SelectReady, Tls!Configure, Tls!Setup, Tls!HandshakeSigns,
          Tls!HandshakeFails, Tls!Again, Tls!Opened, Tls!GiveUp, Tls!Free, Tls!Close
    <3>2. CASE Tls!Mishap
      BY <2>2, <3>2
      DEF Tls!Mishap, Tls!SocketFails, Tls!TcpFails, Tls!SelectInterrupted,
          Tls!SelectError, Tls!HandshakeWants, Tls!HandleFails, Tls!HandshakeFails
    <3>3. QED
      BY <2>4, <3>1, <3>2 DEF TlsAlone
  <2>5. CASE NetworkAnswers \/ OtherSockets \/ UserCloses
             \/ \E c \in Configs : UserConnects(c)
    BY <2>2, <2>5
    DEF NetworkAnswers, OtherSockets, UserCloses, UserConnects, Tls!TcpAnswers,
        Tls!OtherOpens, Tls!OtherCloses, Tls!UserCloses, Tls!Connect
  <2>6. CASE ChipRelease \/ ChipOpen \/ ChipCall \/ Transport \/ ElementRuns
             \/ CalmsDown \/ UNCHANGED allVars
    BY <2>2, <2>6
    DEF ChipRelease, ChipOpen, ChipCall, Transport, ElementRuns, CalmsDown, tlsVars,
        allVars
  <2>7. QED
    BY <2>1, <2>3, <2>4, <2>5, <2>6 DEF ConnectNext
<1>3. QED
  BY <1>1, <1>2, PTL DEF ConnectSpec, IdentityFromChip
=============================================================================
