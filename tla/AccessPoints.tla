---------------------------- MODULE AccessPoints ----------------------------
(***************************************************************************)
(* The list of access points (src/wifimgr/wifi_manager.c): scanned points  *)
(* are deduplicated and compacted in place, then written into a page whose *)
(* size was computed by hand, like that of the status page.                *)
(*                                                                         *)
(* A record is its name, authentication mode and signal strength; the      *)
(* other fields move with it.  Names in a record are model values, since   *)
(* only their equality matters; names on a page are sequences of codes.    *)
(***************************************************************************)
EXTENDS Integers, Sequences, JsonText

CONSTANTS
  Names,      \* names of networks
  NoName,     \* zeroed memory, and the name of a hidden network
  Auths,      \* authentication modes
  Rssis,      \* signal strengths
  MaxPoints   \* bound: scanned points

ASSUME PointAssumption ==
  /\ NoName \notin Names /\ Auths \subseteq Nat
  /\ Rssis \subseteq Int /\ MaxPoints \in Nat

Point   == [ssid : Names \union {NoName}, authmode : Auths, rssi : Rssis]
Cleared == [ssid |-> NoName, authmode |-> 0, rssi |-> 0]

-----------------------------------------------------------------------------
(* wifi_manager_filter_unique.  A loop is the function of what it has      *)
(* left after each of its passes.                                          *)

(* The record at j is removed if it is the same network as the one at i,   *)
(* which keeps the better signal.                                          *)
Absorb(list, i, j) ==
  IF list[i].ssid = list[j].ssid /\ list[i].authmode = list[j].authmode
  THEN [list EXCEPT ![i].rssi = IF list[j].rssi > @ THEN list[j].rssi ELSE @,
                    ![j] = Cleared]
  ELSE list

AbsorbUpTo(list, i) ==
  LET after[j \in 0 .. Len(list)] ==
        IF j <= i THEN list ELSE Absorb(after[j - 1], i, j)
  IN  after

RemovePass(list, i) ==
  IF list[i].ssid = NoName THEN list ELSE AbsorbUpTo(list, i)[Len(list)]

RemoveUpTo(list) ==
  LET after[i \in 0 .. Len(list)] ==
        IF i = 0 THEN list ELSE RemovePass(after[i - 1], i)
  IN  after

RemoveIdentical(list) ==
  RemoveUpTo(list)[IF list = <<>> THEN 0 ELSE Len(list) - 1]

(* The first slot without a name; there is one after a move.               *)
FirstFree(list) ==
  CHOOSE j \in 1 .. Len(list) :
    /\ list[j].ssid = NoName
    /\ \A k \in 1 .. j - 1 : list[k].ssid # NoName

(* One step of the loop that closes the gaps; free = 0 is NULL.            *)
(* Mutant: the free slot is not looked for again.                          *)
CloseGap_KeepsFree(state, i) ==
  IF state.list[i].ssid = NoName
  THEN [state EXCEPT !.free = IF @ = 0 THEN i ELSE @, !.unique = @ - 1]
  ELSE IF state.free = 0 THEN state
  ELSE [state EXCEPT !.list = [@ EXCEPT ![state.free] = state.list[i],
                                        ![i] = Cleared]]

CloseGap(state, i) ==
  IF state.list[i].ssid = NoName
  THEN [state EXCEPT !.free = IF @ = 0 THEN i ELSE @, !.unique = @ - 1]
  ELSE IF state.free = 0 THEN state
  ELSE LET moved == [state.list EXCEPT ![state.free] = state.list[i],
                                       ![i] = Cleared]
       IN  [state EXCEPT !.list = moved, !.free = FirstFree(moved)]

CloseUpTo(list) ==
  LET after[i \in 0 .. Len(list)] ==
        IF i = 0 THEN [list |-> list, free |-> 0, unique |-> Len(list)]
        ELSE CloseGap(after[i - 1], i)
  IN  after

(* The list that is left and its length, which replaces *aps.              *)
FilterUnique(list) == CloseUpTo(RemoveIdentical(list))[Len(list)]

-----------------------------------------------------------------------------
(* Reference: the first record of each named network, in the order of the  *)
(* scan, with the best signal any record of that network has.              *)
Same(p, q) == p.ssid = q.ssid /\ p.authmode = q.authmode

First(list, i) ==
  list[i].ssid # NoName /\ \A k \in 1 .. i - 1 : ~Same(list[k], list[i])

FirstsUpTo(list) ==
  LET firsts[i \in 0 .. Len(list)] ==
        IF i = 0 THEN <<>>
        ELSE IF First(list, i) THEN Append(firsts[i - 1], i) ELSE firsts[i - 1]
  IN  firsts

IsBest(list, i, n, r) ==
  /\ \E k \in 1 .. n : Same(list[k], list[i]) /\ list[k].rssi = r
  /\ \A k \in 1 .. n : Same(list[k], list[i]) => list[k].rssi <= r

Networks(list) ==
  LET firsts  == FirstsUpTo(list)[Len(list)]
      best(i) == CHOOSE r \in {list[k].rssi : k \in 1 .. Len(list)} :
                   IsBest(list, i, Len(list), r)
  IN  [n \in 1 .. Len(firsts) |->
         [list[firsts[n]] EXCEPT !.rssi = best(firsts[n])]]

Scans == UNION {[1 .. n -> Point] : n \in 0 .. MaxPoints}

(* Scans after which the list is not exactly the networks found, or a name *)
(* is left behind its end.                                                 *)
Misfiltered ==
  {scan \in Scans :
    LET found == FilterUnique(scan)
    IN  \/ SubSeq(found.list, 1, found.unique) # Networks(scan)
        \/ \E i \in found.unique + 1 .. Len(scan) : found.list[i].ssid # NoName}

-----------------------------------------------------------------------------
(* Sizes of the pages.                                                     *)
MAX_AP_NUM        == 15
MAX_SSID_SIZE     == 32
MAX_PASSWORD_SIZE == 64
JSON_IP_INFO_SIZE == 150

(* Mutant: what a point takes whose name needs no escaping, as the header  *)
(* counts it without line end and terminator.                              *)
JSON_ONE_APP_SIZE_Plain == 75
JSON_ONE_APP_SIZE       == 99

NameSize(ssid) == Len(JsonPrintString(ssid)) - 1
NumberSize(n)  ==
  LET d == IF n < 0 THEN -n ELSE n
  IN  (IF n < 0 THEN 1 ELSE 0) + (IF d < 10 THEN 1 ELSE IF d < 100 THEN 2 ELSE 3)

(* {"ssid":<name>,"chan":<n>,"rssi":<n>,"auth":<n>}<, or ]> and a line end *)
PointSize(ssid, chan, rssi, auth) ==
  8 + NameSize(ssid) + 8 + NumberSize(chan) + 8 + NumberSize(rssi)
    + 8 + NumberSize(auth) + 3

(* [ and the points, and the terminator, in a buffer for MAX_AP_NUM.       *)
PointsUpTo(ssids, chan, rssi, auth) ==
  LET size[n \in 0 .. Len(ssids)] ==
        IF n = 0 THEN 1
        ELSE size[n - 1] + PointSize(ssids[n], chan, rssi, auth)
  IN  size

PointsPage(ssids, chan, rssi, auth) ==
  PointsUpTo(ssids, chan, rssi, auth)[Len(ssids)] + 1
PointsBuffer == MAX_AP_NUM * JSON_ONE_APP_SIZE + 4

(* What json_print_string finds at config->sta.ssid: a name that fills the *)
(* field has no terminator, and the password behind it is printed with it; *)
(* behind a password that fills its field there are zeros.                 *)
Printed(ssid, password) ==
  IF Len(ssid) < MAX_SSID_SIZE THEN ssid ELSE ssid \o password

(* {"ssid":<name>,"ip":"<ip>","netmask":"<ip>","gw":"<ip>","urc":<n>}, a   *)
(* line end and the terminator; an address takes up to 15 characters.      *)
(* Nothing else bounds it: snprintf is told the size of the whole buffer.  *)
StatusPage(ssid, password, ip, netmask, gw) ==
  8 + NameSize(Printed(ssid, password))
    + 7 + ip + 13 + netmask + 8 + gw + 8 + 1 + 2 + 1

(* A text with some characters that need escaping.                         *)
LongText(length, quotes) ==
  [i \in 1 .. length |-> IF i <= quotes THEN Quote ELSE 97]

(* The longest credentials of which the name alone is printed: a longest   *)
(* password with a name that leaves room for a terminator, none with one   *)
(* that does not.                                                          *)
Longest(quotes) ==
  {[ssid     |-> LongText(MAX_SSID_SIZE - 1, quotes),
    password |-> LongText(MAX_PASSWORD_SIZE, quotes)],
   [ssid |-> LongText(MAX_SSID_SIZE, quotes), password |-> <<>>]}

(* With how many characters of each name in need of an escape a page would *)
(* not fit, for some number of points.                                     *)
Overlong(escapes) ==
  {quotes \in escapes :
    \/ \E c \in Longest(quotes) :
         StatusPage(c.ssid, c.password, 15, 15, 15) > JSON_IP_INFO_SIZE
    \/ \E n \in 0 .. MAX_AP_NUM :
         PointsPage([k \in 1 .. n |-> LongText(MAX_SSID_SIZE, quotes)], 13, -100, 4)
           > PointsBuffer}
=============================================================================
