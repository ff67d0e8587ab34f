-------------------------- MODULE MCSecureConnect --------------------------
(* SecureConnect with the configurations the callers of esp_tls use: the   *)
(* websocket client and esp_https_ota block with a timeout; the others are *)
(* the non-blocking socket and the asynchronous function of esp_tls.h.     *)
EXTENDS SecureConnect

Config(a, n, t) == [api |-> a, nonblock |-> n, timeout |-> t]
SomeConfigs == {Config("sync", FALSE, "some"), Config("async", TRUE, "some"),
                Config("sync", TRUE, "zero"), Config("sync", TRUE, "never")}
(* Of a command that only reports a status, and of one with data.          *)
SomeResponses == {4, 6}
(* Invalid, the wake token's, a response's, one byte more than the packet. *)
SomeLengths == {0, 4, 8}
=============================================================================
