-------------------------- MODULE MCWifiProvision --------------------------
(* WifiProvision with up to three credentials: two work, one does not.     *)
EXTENDS WifiProvision

CONSTANTS home, office, typo
AllCreds   == {home, office, typo}
TwoCreds   == {home, typo}
GoodCreds  == {home, office}
OnlyHome   == {home}
(* One length, and the working credentials shorter than the others.        *)
SameSize   == [c \in Creds |-> 1]
HomeShort  == [c \in Creds |-> IF c = home THEN 1 ELSE 2]
AllOps     == {"scan", "delete", "loss"}
DeleteOnly == {"delete"}
ScanOnly   == {"scan"}
NoOps      == {}
=============================================================================
