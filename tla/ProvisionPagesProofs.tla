------------------------ MODULE ProvisionPagesProofs ------------------------
(***************************************************************************)
(* Proofs about the pages of the provisioning session: what is printed on  *)
(* them means the name it was printed for, they fit into the memory set    *)
(* aside for them, and the list of points has the networks found, for      *)
(* names of every kind and scans of any length and not just the samples.   *)
(***************************************************************************)
EXTENDS MCProvisionPages, JsonTextProofs

(* A name on a page takes its escaped length and the two quotes.           *)
LEMMA NameTakes ==
  ASSUME NEW ssid \in Seq(Byte)
  PROVE  NameSize(ssid) = OutputLength(ssid) + 2 /\ OutputLength(ssid) \in Nat
<1> DEFINE w == WrittenUpTo(ssid)[Len(ssid)]
<1>1. Len(ssid) \in Nat /\ Len(ssid) \in 0 .. Len(ssid)
  OBVIOUS
<1>2. /\ Counted(ssid)[Len(ssid)] \in Nat
      /\ Len(w) + Len(ssid) = Len(ssid) + Counted(ssid)[Len(ssid)]
  BY <1>1, PassesAgree
<1>3. Len(w) \in Nat /\ Len(JsonPrintString(ssid)) = Len(w) + 3
  BY PrintedText
<1>4. OutputLength(ssid) = Counted(ssid)[Len(ssid)]
  BY DEF OutputLength
<1> HIDE DEF w
<1>5. QED
  BY <1>1, <1>2, <1>3, <1>4 DEF NameSize

(* The longest name that both pages have room for, when escaped.           *)
LongestName == 55

(* The status page has room for whatever is printed as the name, if it     *)
(* takes up to 55 characters when escaped, and for addresses of up to 15   *)
(* characters (wifi_manager.c:84-130, wifi_manager.h:100).  What is        *)
(* printed is the name alone only if it is shorter than its field.         *)
THEOREM StatusPageFits ==
  ASSUME NEW ssid \in Seq(Byte), NEW password \in Seq(Byte),
         OutputLength(Printed(ssid, password)) <= LongestName,
         NEW ip \in 0 .. 15, NEW netmask \in 0 .. 15, NEW gw \in 0 .. 15
  PROVE  StatusPage(ssid, password, ip, netmask, gw) \in 0 .. JSON_IP_INFO_SIZE
<1>1. PICK printed \in Seq(Byte) : printed = Printed(ssid, password)
  <2>1. ssid \o password \in Seq(Byte)
    OBVIOUS
  <2>2. Printed(ssid, password) \in Seq(Byte)
    BY <2>1, Zenon DEF Printed
  <2>3. QED
    BY <2>2, Zenon
<1>2. NameSize(printed) \in Nat /\ NameSize(printed) <= 57
  <2>1. OutputLength(printed) <= 55
    BY <1>1 DEF LongestName
  <2>2. NameSize(printed) = OutputLength(printed) + 2 /\ OutputLength(printed) \in Nat
    BY NameTakes
  <2>3. QED
    BY <2>1, <2>2
<1>3. 8 + NameSize(printed) + 7 + ip + 13 + netmask + 8 + gw + 8 + 1 + 2 + 1 \in 0 .. 150
  <2> DEFINE name == NameSize(printed)
  <2>1. name \in Nat /\ name <= 57
    BY <1>2
  <2> HIDE DEF name
  <2>2. 8 + name + 7 + ip + 13 + netmask + 8 + gw + 8 + 1 + 2 + 1 \in 0 .. 150
    BY <2>1
  <2>3. QED
    BY <2>2 DEF name
<1>4. QED
  BY <1>1, <1>3 DEF StatusPage, JSON_IP_INFO_SIZE

LEMMA PointTakes ==
  ASSUME NEW ssid \in Seq(Byte), OutputLength(ssid) <= LongestName,
         NEW chan \in 0 .. 99, NEW rssi \in -128 .. 127, NEW auth \in 0 .. 9
  PROVE  PointSize(ssid, chan, rssi, auth) \in 0 .. JSON_ONE_APP_SIZE
<1>1. NameSize(ssid) \in Nat /\ NameSize(ssid) <= 57
  BY NameTakes DEF LongestName
<1>2. NumberSize(chan) \in 0 .. 2 /\ NumberSize(auth) \in 0 .. 1
  BY DEF NumberSize
<1>3. NumberSize(rssi) \in 0 .. 4
  BY DEF NumberSize
<1>4. 8 + NameSize(ssid) + 8 + NumberSize(chan) + 8 + NumberSize(rssi) + 8 + NumberSize(auth) + 3
        \in 0 .. 99
  <2> DEFINE name == NameSize(ssid)
             c    == NumberSize(chan)
             r    == NumberSize(rssi)
             a    == NumberSize(auth)
  <2>1. name \in Nat /\ name <= 57 /\ c \in 0 .. 2 /\ r \in 0 .. 4 /\ a \in 0 .. 1
    BY <1>1, <1>2, <1>3
  <2> HIDE DEF name, c, r, a
  <2>2. 8 + name + 8 + c + 8 + r + 8 + a + 3 \in 0 .. 99
    BY <2>1
  <2>3. QED
    BY <2>2 DEF name, c, r, a
<1>5. QED
  BY <1>4 DEF PointSize, JSON_ONE_APP_SIZE

LEMMA PointsLoop ==
  ASSUME NEW ssids, Len(ssids) \in Nat, NEW chan, NEW rssi, NEW auth,
         \A k \in 1 .. Len(ssids) : PointSize(ssids[k], chan, rssi, auth) \in Nat
  PROVE  LET size == PointsUpTo(ssids, chan, rssi, auth)
         IN  /\ size[0] = 1
             /\ \A n \in 1 .. Len(ssids) :
                  size[n] = size[n - 1] + PointSize(ssids[n], chan, rssi, auth)
<1> DEFINE N       == Len(ssids)
           one(n)  == PointSize(ssids[n], chan, rssi, auth)
           size    == PointsUpTo(ssids, chan, rssi, auth)
           pass    == [n \in 1 .. N |-> [x \in Nat |-> x + one(n)]]
           body(f) == [n \in 0 .. N |-> IF n = 0 THEN 1 ELSE f[n - 1] + one(n)]
<1>1. N \in Nat /\ pass \in [1 .. N -> [Nat -> Nat]]
  <2>1. \A n \in 1 .. N : one(n) \in Nat
    OBVIOUS
  <2> HIDE DEF one
  <2>2. QED
    BY <2>1
<1> HIDE DEF one
<1>2. PICK f \in [0 .. N -> Nat] : IsLoop(f, N, 1, pass)
  <2> HIDE DEF pass, N
  <2> QED
    BY <1>1, LoopExists
<1>3. f = body(f)
  <2>1. ASSUME NEW n \in 0 .. N
        PROVE  f[n] = IF n = 0 THEN 1 ELSE f[n - 1] + one(n)
    <3>1. CASE n = 0
      BY <1>2, <3>1 DEF IsLoop
    <3>2. CASE n # 0
      <4>1. n \in 1 .. N /\ n - 1 \in 0 .. N
        BY <1>1, <3>2
      <4>2. f[n] = pass[n][f[n - 1]] /\ f[n - 1] \in Nat
        BY <1>1, <1>2, <4>1 DEF IsLoop
      <4>3. QED
        BY <3>2, <4>1, <4>2
    <3>3. QED
      BY <3>1, <3>2
  <2>2. QED
    BY <2>1
<1>4. size = CHOOSE g : g = body(g)
  BY DEF PointsUpTo, one
<1>5. size = body(size)
  <2> HIDE DEF body, size
  <2> QED
    BY <1>3, <1>4
<1> HIDE DEF size
<1>6. ASSUME NEW n \in 0 .. N
      PROVE  size[n] = IF n = 0 THEN 1 ELSE size[n - 1] + one(n)
  <2>1. size[n] = body(size)[n]
    <3> HIDE DEF body
    <3> QED
      BY <1>5
  <2>2. QED
    BY <2>1
<1>7. size[0] = 1
  BY <1>1, <1>6
<1>8. ASSUME NEW n \in 1 .. N
      PROVE  size[n] = size[n - 1] + one(n)
  <2>1. n \in 0 .. N /\ n # 0
    BY <1>1
  <2>2. QED
    BY <1>6, <2>1
<1>9. QED
  BY <1>7, <1>8 DEF size, one

(* A loop that adds at most 99 each time.                                  *)
LEMMA Bounded ==
  ASSUME NEW N \in Nat, NEW size, size[0] = 1,
         \A n \in 1 .. N : \E more \in 0 .. 99 : size[n] = size[n - 1] + more
  PROVE  size[N] \in Nat /\ size[N] <= 1 + 99 * N
<1> DEFINE S == {n \in 0 .. N : size[n] \in Nat /\ size[n] <= 1 + 99 * n}
<1>1. 0 \in S
  OBVIOUS
<1>2. ASSUME NEW n \in 1 .. N, n - 1 \in S PROVE n \in S
  <2>1. PICK more \in 0 .. 99 : size[n] = size[n - 1] + more
    OBVIOUS
  <2>2. size[n - 1] \in Nat /\ size[n - 1] <= 1 + 99 * (n - 1) /\ n \in 0 .. N
    BY <1>2
  <2>3. size[n] \in Nat /\ size[n] <= 1 + 99 * n
    BY <2>1, <2>2
  <2>4. QED
    BY <2>2, <2>3
<1>3. 0 .. N \subseteq S
  <2> HIDE DEF S
  <2> QED
    BY <1>1, <1>2, InductTo
<1>4. QED
  BY <1>3

LEMMA BufferSize == ASSUME NEW N \in 0 .. 15, NEW size \in Nat, size <= 1 + 99 * N
                    PROVE  size + 1 \in 0 .. PointsBuffer
  BY DEF PointsBuffer, MAX_AP_NUM, JSON_ONE_APP_SIZE

(* The page with the points has room for as many points as are kept, with  *)
(* names that take up to 55 characters when escaped and numbers of any     *)
(* size the radio gives (wifi_manager.c:135-164, wifi_manager.h:93).       *)
THEOREM PointsPageFits ==
  ASSUME NEW ssids \in Seq(Seq(Byte)), Len(ssids) <= MAX_AP_NUM,
         \A k \in 1 .. Len(ssids) : OutputLength(ssids[k]) <= LongestName,
         NEW chan \in 0 .. 99, NEW rssi \in -128 .. 127, NEW auth \in 0 .. 9
  PROVE  PointsPage(ssids, chan, rssi, auth) \in 0 .. PointsBuffer
<1> DEFINE N      == Len(ssids)
           one(n) == PointSize(ssids[n], chan, rssi, auth)
           size   == PointsUpTo(ssids, chan, rssi, auth)
<1>1. N \in Nat /\ N <= 15
  BY DEF MAX_AP_NUM
<1>2. ASSUME NEW n \in 1 .. N PROVE one(n) \in 0 .. 99
  <2> DEFINE ssid == ssids[n]
  <2>1. ssid \in Seq(Byte) /\ OutputLength(ssid) <= LongestName
    OBVIOUS
  <2> HIDE DEF ssid
  <2>2. PointSize(ssid, chan, rssi, auth) \in 0 .. JSON_ONE_APP_SIZE
    BY <2>1, PointTakes
  <2>3. QED
    BY <2>2 DEF JSON_ONE_APP_SIZE, ssid
<1>3. size[0] = 1 /\ \A n \in 1 .. N : size[n] = size[n - 1] + one(n)
  <2>1. ASSUME NEW n \in 1 .. N PROVE one(n) \in Nat
    <3>1. one(n) \in 0 .. 99
      BY <1>2
    <3>2. \A x \in 0 .. 99 : x \in Nat
      OBVIOUS
    <3>3. QED
      BY <3>1, <3>2, Zenon
  <2>2. QED
    BY <1>1, <2>1, PointsLoop
<1> HIDE DEF N, size, one
<1>4. ASSUME NEW n \in 1 .. N PROVE \E more \in 0 .. 99 : size[n] = size[n - 1] + more
  BY <1>2, <1>3, Zenon
<1>5. size[N] \in Nat /\ size[N] <= 1 + 99 * N
  BY <1>1, <1>3, <1>4, Bounded
<1>6. N \in 0 .. 15
  BY <1>1
<1>7. size[N] + 1 \in 0 .. PointsBuffer
  BY <1>5, <1>6, BufferSize, Zenon
<1>8. QED
  BY <1>7 DEF PointsPage, size, N

-----------------------------------------------------------------------------
(* The texts of the run.                                                   *)
LEMMA LongTextTakes ==
  ASSUME NEW length \in 23 .. 64, NEW quotes \in 0 .. 23
  PROVE  /\ LongText(length, quotes) \in Seq(Byte)
         /\ Len(LongText(length, quotes)) = length
         /\ OutputLength(LongText(length, quotes)) = length + quotes
<1> DEFINE s    == LongText(length, quotes)
           S    == {n \in 0 .. length :
                      Counted(s)[n] = length + (IF n <= quotes THEN n ELSE quotes)}
<1>1. /\ s \in Seq(Byte) /\ Len(s) = length
      /\ \A n \in 1 .. length : s[n] = IF n <= quotes THEN 34 ELSE 97
  BY DEF LongText, Byte, Quote
<1>2. Additional(34) = 1 /\ Additional(97) = 0
  BY LetterFacts DEF Additional
<1> HIDE DEF s
<1>3. /\ Counted(s)[0] = length
      /\ \A n \in 1 .. length : Counted(s)[n] = Counted(s)[n - 1] + Additional(s[n])
  <2>1. /\ Counted(s)[0] = Len(s)
        /\ \A n \in 1 .. Len(s) : Counted(s)[n] = Counted(s)[n - 1] + Additional(s[n])
    BY <1>1, CountedLoop
  <2>2. QED
    BY <1>1, <2>1
<1>4. 0 \in S
  BY <1>3
<1>5. ASSUME NEW n \in 1 .. length, n - 1 \in S PROVE n \in S
  <2>1. /\ Counted(s)[n] = Counted(s)[n - 1] + Additional(s[n])
        /\ Counted(s)[n - 1] = length + (IF n - 1 <= quotes THEN n - 1 ELSE quotes)
    BY <1>3, <1>5
  <2>2. CASE n <= quotes
    <3>1. Additional(s[n]) = 1 /\ n - 1 <= quotes
      <4>1. s[n] = 34 /\ n - 1 <= quotes
        <5>1. s[n] = IF n <= quotes THEN 34 ELSE 97
          BY <1>1
        <5>2. QED
          BY <2>2, <5>1
      <4>2. QED
        BY <1>2, <4>1
    <3>2. QED
      BY <2>1, <2>2, <3>1
  <2>3. CASE ~ (n <= quotes)
    <3>1. Additional(s[n]) = 0
      BY <1>1, <1>2, <2>3
    <3>2. Counted(s)[n - 1] = length + quotes
      BY <2>1, <2>3
    <3>3. QED
      BY <2>1, <2>3, <3>1, <3>2
  <2>4. QED
    BY <2>2, <2>3
<1>6. length \in S
  <2>1. length \in Nat
    OBVIOUS
  <2>2. 0 .. length \subseteq S
    <3> HIDE DEF S
    <3> QED
      BY <1>4, <1>5, <2>1, InductTo
  <2>3. QED
    BY <2>1, <2>2
<1>7. Counted(s)[Len(s)] = length + quotes
  BY <1>1, <1>6
<1>8. QED
  BY <1>1, <1>7 DEF OutputLength, s

(* The status page of the run's credentials.                               *)
LEMMA StatusOfLongest ==
  ASSUME NEW quotes \in 0 .. 23, NEW c \in Longest(quotes)
  PROVE  StatusPage(c.ssid, c.password, 15, 15, 15) \in 0 .. JSON_IP_INFO_SIZE
<1>1. PICK ssid \in Seq(Byte), password \in Seq(Byte) :
        /\ ssid = c.ssid /\ password = c.password
        /\ OutputLength(Printed(ssid, password)) <= 55
  <2>1. 31 \in 23 .. 64 /\ 32 \in 23 .. 64 /\ 64 \in 23 .. 64
    OBVIOUS
  <2>2. CASE c = [ssid |-> LongText(31, quotes), password |-> LongText(64, quotes)]
    <3>1. PICK s \in Seq(Byte) : s = LongText(31, quotes) /\ Len(s) = 31
                                /\ OutputLength(s) = 31 + quotes
      BY <2>1, LongTextTakes, Zenon
    <3>2. PICK t \in Seq(Byte) : t = LongText(64, quotes)
      BY <2>1, LongTextTakes, Zenon
    <3>3. Printed(s, t) = s
      <4>1. 31 < 32
        OBVIOUS
      <4>2. Len(s) < 32
        BY <3>1, <4>1, Zenon
      <4>3. QED
        BY <4>2, Zenon DEF Printed, MAX_SSID_SIZE
    <3>4. s = c.ssid /\ t = c.password
      BY <2>2, <3>1, <3>2
    <3>5. QED
      BY <3>1, <3>3, <3>4
  <2>3. CASE c = [ssid |-> LongText(32, quotes), password |-> <<>>]
    <3>1. PICK s \in Seq(Byte) : s = LongText(32, quotes) /\ Len(s) = 32
                                /\ OutputLength(s) = 32 + quotes
      BY <2>1, LongTextTakes, Zenon
    <3>2. PICK t \in Seq(Byte) : t = <<>>
      <4>1. <<>> \in Seq(Byte)
        OBVIOUS
      <4>2. QED
        BY <4>1, Zenon
    <3>3. Printed(s, t) = s
      BY <3>1, <3>2 DEF Printed, MAX_SSID_SIZE
    <3>4. s = c.ssid /\ t = c.password
      BY <2>3, <3>1, <3>2
    <3>5. QED
      BY <3>1, <3>3, <3>4
  <2>4. QED
    BY <2>2, <2>3 DEF Longest, MAX_SSID_SIZE, MAX_PASSWORD_SIZE
<1>2. 15 \in 0 .. 15 /\ OutputLength(Printed(ssid, password)) <= LongestName
  BY <1>1 DEF LongestName
<1>3. StatusPage(ssid, password, 15, 15, 15) \in 0 .. JSON_IP_INFO_SIZE
  BY <1>2, StatusPageFits
<1>4. QED
  BY <1>1, <1>3

(* The page of access points with the run's names.                         *)
LEMMA PointsOfLongest ==
  ASSUME NEW quotes \in 0 .. 23, NEW n \in 0 .. MAX_AP_NUM
  PROVE  PointsPage([k \in 1 .. n |-> LongText(MAX_SSID_SIZE, quotes)], 13, -100, 4)
           \in 0 .. PointsBuffer
<1> DEFINE s == LongText(MAX_SSID_SIZE, quotes)
           ssids == [k \in 1 .. n |-> s]
<1>1. s \in Seq(Byte) /\ OutputLength(s) <= LongestName
  <2>1. 32 \in 23 .. 64 /\ MAX_SSID_SIZE = 32
    BY DEF MAX_SSID_SIZE
  <2>2. s \in Seq(Byte) /\ OutputLength(s) = 32 + quotes
    BY <2>1, LongTextTakes, Zenon DEF s
  <2> HIDE DEF s
  <2>3. QED
    BY <2>2 DEF LongestName
<1>2. Len(ssids) = n /\ \A k \in 1 .. n : ssids[k] = s
  BY DEF MAX_AP_NUM
<1> HIDE DEF s
<1>3. ssids \in Seq(Seq(Byte)) /\ Len(ssids) <= MAX_AP_NUM
  BY <1>1 DEF MAX_AP_NUM
<1>4. \A k \in 1 .. Len(ssids) : OutputLength(ssids[k]) <= LongestName
  BY <1>1, <1>2
<1>5. 13 \in 0 .. 99 /\ -100 \in -128 .. 127 /\ 4 \in 0 .. 9
  OBVIOUS
<1>6. PointsPage(ssids, 13, -100, 4) \in 0 .. PointsBuffer
  <2> HIDE DEF ssids
  <2> QED
    BY <1>3, <1>4, <1>5, PointsPageFits
<1>7. QED
  BY <1>6 DEF s

(* Whenever a page is written, it fits: the run's property, of every step  *)
(* of every session (wifi_manager.h:93-100).                               *)
THEOREM PagesAlwaysFit == Spec => []PagesFit
<1>1. LongestPages = {}
  <2>1. ASSUME NEW quotes \in SomeEscapes
        PROVE  /\ \A c \in Longest(quotes) :
                    ~ (StatusPage(c.ssid, c.password, 15, 15, 15) > JSON_IP_INFO_SIZE)
               /\ \A n \in 0 .. MAX_AP_NUM :
                    ~ (PointsPage([k \in 1 .. n |-> LongText(MAX_SSID_SIZE, quotes)],
                                  13, -100, 4) > PointsBuffer)
    <3>1. quotes \in 0 .. 23
      BY DEF SomeEscapes
    <3>2. JSON_IP_INFO_SIZE \in Nat /\ PointsBuffer \in Nat
      BY DEF JSON_IP_INFO_SIZE, PointsBuffer, MAX_AP_NUM, JSON_ONE_APP_SIZE
    <3>3. \A x, y \in Nat : x \in 0 .. y => ~ (x > y)
      OBVIOUS
    <3>4. \A x, y : y \in Nat /\ x \in 0 .. y => ~ (x > y)
      BY <3>3
    <3>5. \A c \in Longest(quotes) :
            ~ (StatusPage(c.ssid, c.password, 15, 15, 15) > JSON_IP_INFO_SIZE)
      BY <3>1, <3>2, <3>4, StatusOfLongest, Zenon
    <3>6. \A n \in 0 .. MAX_AP_NUM :
            ~ (PointsPage([k \in 1 .. n |-> LongText(MAX_SSID_SIZE, quotes)],
                          13, -100, 4) > PointsBuffer)
      BY <3>1, <3>2, <3>4, PointsOfLongest, Zenon
    <3>7. QED
      BY <3>5, <3>6
  <2>2. QED
    BY <2>1, Zenon DEF LongestPages, Overlong
<1>2. PagesFit
  BY <1>1 DEF PagesFit
<1>3. QED
  BY <1>2, PTL

(* Whenever a name is put on a page, it is read back from there as it was: *)
(* the run's property for its samples, from EscapeInverts for all names.   *)
THEOREM NamesAlwaysMeant == Spec => []EscapeCorrect
<1>1. SampleTexts \subseteq Seq(Byte)
  <2>1. SampleCodes \subseteq Byte
    BY DEF SampleCodes, Byte, Quote, Backslash
  <2>2. ASSUME NEW n \in 0 .. 3, NEW s \in [1 .. n -> SampleCodes]
        PROVE  s \in Seq(Byte)
    <3>1. n \in Nat /\ s \in [1 .. n -> Byte]
      BY <2>1
    <3>2. QED
      BY <3>1
  <2>3. QED
    BY <2>2 DEF SampleTexts
<1>2. Misread = {}
  BY <1>1, EscapeInverts DEF Misread
<1>3. EscapeCorrect
  BY <1>2 DEF EscapeCorrect
<1>4. QED
  BY <1>3, PTL

-----------------------------------------------------------------------------
(* The list of access points.                                              *)
Slot == [ssid : Names \union {NoName}, authmode : Nat, rssi : Int]

LEMMA AsList ==
  ASSUME NEW N \in Nat, NEW A, NEW f \in [1 .. N -> A]
  PROVE  f \in Seq(A) /\ Len(f) = N /\ (f = <<>> <=> N = 0)
  OBVIOUS

LEMMA ClearedSlot == Cleared \in Slot /\ Cleared.ssid = NoName
  BY DEF Cleared, Slot

(* A list to which something is done in every pass.                        *)
LEMMA AbsorbType ==
  ASSUME NEW N \in Nat, NEW list \in [1 .. N -> Slot], NEW i \in 1 .. N, NEW j \in 1 .. N
  PROVE  Absorb(list, i, j) \in [1 .. N -> Slot]
<1>1. CASE list[i].ssid = list[j].ssid /\ list[i].authmode = list[j].authmode
  <2> DEFINE better == IF list[j].rssi > list[i].rssi THEN list[j].rssi ELSE list[i].rssi
             kept   == [list[i] EXCEPT !.rssi = better]
  <2>1. better \in Int /\ list[i] \in Slot
    BY DEF Slot
  <2>2. kept \in Slot
    <3> HIDE DEF better
    <3> QED
      BY <2>1 DEF Slot
  <2>3. Absorb(list, i, j) = [list EXCEPT ![i] = kept, ![j] = Cleared]
    BY <1>1 DEF Absorb
  <2> HIDE DEF kept
  <2>4. QED
    BY <2>2, <2>3, ClearedSlot
<1>2. CASE ~ (list[i].ssid = list[j].ssid /\ list[i].authmode = list[j].authmode)
  BY <1>2 DEF Absorb
<1>3. QED
  BY <1>1, <1>2

LEMMA AbsorbLoop ==
  ASSUME NEW N \in Nat, NEW list \in [1 .. N -> Slot], NEW i \in 1 .. N
  PROVE  LET after == AbsorbUpTo(list, i)
         IN  /\ after[0] = list
             /\ \A j \in 1 .. N :
                  /\ after[j - 1] \in [1 .. N -> Slot] /\ after[j] \in [1 .. N -> Slot]
                  /\ after[j] = IF j <= i THEN list ELSE Absorb(after[j - 1], i, j)
<1> DEFINE X       == [1 .. N -> Slot]
           next(l, j) == IF j <= i THEN list ELSE Absorb(l, i, j)
           pass    == [j \in 1 .. N |-> [l \in X |-> next(l, j)]]
           body(f) == [j \in 0 .. N |-> IF j <= i THEN list ELSE Absorb(f[j - 1], i, j)]
           after   == AbsorbUpTo(list, i)
<1>0. Len(list) = N
  BY AsList
<1>1. pass \in [1 .. N -> [X -> X]]
  <2>1. ASSUME NEW l \in X, NEW j \in 1 .. N PROVE next(l, j) \in X
    BY AbsorbType
  <2> HIDE DEF next, X
  <2>2. QED
    BY <2>1
<1>2. PICK f \in [0 .. N -> X] : IsLoop(f, N, list, pass)
  <2> HIDE DEF pass
  <2> QED
    BY <1>1, LoopExists
<1>3. f = body(f)
  <2>1. ASSUME NEW j \in 0 .. N
        PROVE  f[j] = IF j <= i THEN list ELSE Absorb(f[j - 1], i, j)
    <3>1. CASE j = 0
      BY <1>2, <3>1 DEF IsLoop
    <3>2. CASE j # 0
      <4>1. j \in 1 .. N /\ j - 1 \in 0 .. N
        BY <3>2
      <4>2. f[j] = pass[j][f[j - 1]] /\ f[j - 1] \in X
        <5> HIDE DEF X, pass
        <5> QED
          BY <1>2, <4>1 DEF IsLoop
      <4> HIDE DEF X
      <4>3. pass[j][f[j - 1]] = next(f[j - 1], j)
        BY <4>1, <4>2
      <4>4. QED
        BY <4>2, <4>3
    <3>3. QED
      BY <3>1, <3>2
  <2> HIDE DEF X
  <2>2. QED
    BY <2>1
<1>4. after = CHOOSE g : g = body(g)
  BY <1>0 DEF AbsorbUpTo
<1>5. after = body(after)
  <2> HIDE DEF body, after
  <2> QED
    BY <1>3, <1>4
<1> HIDE DEF after
<1>6. ASSUME NEW j \in 0 .. N
      PROVE  after[j] = IF j <= i THEN list ELSE Absorb(after[j - 1], i, j)
  <2>1. after[j] = body(after)[j]
    <3> HIDE DEF body
    <3> QED
      BY <1>5
  <2>2. QED
    BY <2>1
<1>7. after[0] = list
  BY <1>6
<1>8. \A j \in 0 .. N : after[j] \in X
  <2> DEFINE S == {j \in 0 .. N : after[j] \in X}
  <2>1. 0 \in S
    BY <1>7
  <2>2. ASSUME NEW j \in 1 .. N, j - 1 \in S PROVE j \in S
    <3>1. j \in 0 .. N /\ after[j - 1] \in X
      BY <2>2
    <3>2. next(after[j - 1], j) \in X
      BY <3>1, AbsorbType
    <3>3. after[j] = next(after[j - 1], j)
      BY <1>6, <3>1
    <3> HIDE DEF next, X
    <3>4. QED
      BY <3>1, <3>2, <3>3
  <2>3. 0 .. N \subseteq S
    <3> HIDE DEF S
    <3> QED
      BY <2>1, <2>2, InductTo
  <2>4. QED
    BY <2>3
<1>9. ASSUME NEW j \in 1 .. N
      PROVE  /\ after[j - 1] \in X /\ after[j] \in X
             /\ after[j] = IF j <= i THEN list ELSE Absorb(after[j - 1], i, j)
  <2>1. j \in 0 .. N /\ j - 1 \in 0 .. N
    OBVIOUS
  <2> HIDE DEF X
  <2>2. QED
    BY <1>6, <1>8, <2>1
<1>10. QED
  BY <1>7, <1>9 DEF after

LEMMA PointSlot == Point \subseteq Slot
  BY PointAssumption DEF Point, Slot

LEMMA SameFacts ==
  ASSUME NEW p, NEW q, NEW r, Same(p, q)
  PROVE  Same(q, p) /\ (Same(q, r) => Same(p, r)) /\ (Same(p, r) => Same(q, r))
  BY DEF Same

(* One pass of the outer loop: the record at i has the best signal of its  *)
(* network, and no other record behind it is of this network.              *)
LEMMA AbsorbsAll ==
  ASSUME NEW N \in Nat, NEW list \in [1 .. N -> Point], NEW i \in 1 .. N, First(list, i),
         NEW l \in [1 .. N -> Slot], l[i] = list[i],
         \A k \in i + 1 .. N : l[k] = list[k] \/ (l[k].ssid = NoName /\ ~ Same(list[i], list[k]))
  PROVE  LET after == AbsorbUpTo(l, i)[N]
         IN  /\ after \in [1 .. N -> Slot]
             /\ Same(after[i], list[i]) /\ IsBest(list, i, N, after[i].rssi)
             /\ \A k \in 1 .. i - 1 : after[k] = l[k]
             /\ \A k \in i + 1 .. N : after[k] = IF Same(list[i], list[k]) THEN Cleared ELSE l[k]
<1> DEFINE up == AbsorbUpTo(l, i)
           Signal(a, j) == Same(a[i], list[i]) /\ IsBest(list, i, j, a[i].rssi)
           Before(a)    == \A k \in 1 .. i - 1 : a[k] = l[k]
           Done(a, j)   == \A k \in i + 1 .. j :
                             a[k] = IF Same(list[i], list[k]) THEN Cleared ELSE l[k]
           Rest(a, j)   == \A k \in j + 1 .. N : a[k] = l[k]
           Right(a, j)  == Signal(a, j) /\ Before(a) /\ Done(a, j) /\ Rest(a, j)
           S == {j \in 0 .. N : j >= i => Right(up[j], j)}
<1>0. /\ up[0] = l
      /\ \A j \in 1 .. N :
           /\ up[j - 1] \in [1 .. N -> Slot] /\ up[j] \in [1 .. N -> Slot]
           /\ up[j] = IF j <= i THEN l ELSE Absorb(up[j - 1], i, j)
  BY AbsorbLoop
<1>1. /\ \A k \in 1 .. N : list[k] \in Point /\ list[k] \in Slot
      /\ \A k \in 1 .. N : list[k].rssi \in Int
  BY PointSlot DEF Slot
<1> HIDE DEF up
<1>2. 0 \in S
  OBVIOUS
<1>3. ASSUME NEW j \in 1 .. N, j - 1 \in S PROVE j \in S
  <2>1. CASE j < i
    BY <2>1
  <2>2. CASE j = i
    <3>1. up[j] = l
      BY <1>0, <2>2
    <3>2. Same(l[i], list[i])
      BY DEF Same
    <3>3. IsBest(list, i, i, l[i].rssi)
      <4>1. Same(list[i], list[i]) /\ i \in 1 .. i /\ list[i].rssi = l[i].rssi
        BY DEF Same
      <4>2. ASSUME NEW k \in 1 .. i, Same(list[k], list[i]) PROVE list[k].rssi <= l[i].rssi
        <5>1. k \notin 1 .. i - 1
          BY <4>2 DEF First
        <5>2. k = i
          BY <5>1
        <5>3. QED
          BY <1>1, <5>2
      <4>3. QED
        BY <4>1, <4>2 DEF IsBest
    <3>4. Before(l) /\ Done(l, i) /\ Rest(l, i)
      OBVIOUS
    <3> HIDE DEF Before, Done, Rest
    <3>5. QED
      BY <2>2, <3>1, <3>2, <3>3, <3>4
  <2>3. CASE j > i
    <3> DEFINE a == up[j - 1]
    <3>1. /\ a \in [1 .. N -> Slot] /\ up[j] = Absorb(a, i, j) /\ j - 1 \in 0 .. N
          /\ j - 1 >= i /\ j \in i + 1 .. N
      BY <1>0, <2>3
    <3>2. Right(a, j - 1)
      <4> HIDE DEF Right
      <4> QED
        BY <1>3, <3>1
    <3> HIDE DEF a
    <3>3. Same(a[i], list[i]) /\ IsBest(list, i, j - 1, a[i].rssi) /\ a[j] = l[j]
      BY <3>1, <3>2
    <3>4. CASE Same(list[i], list[j])
      <4>1. l[j] = list[j] /\ a[j] = list[j]
        BY <3>1, <3>3, <3>4
      <4>2. a[i].ssid = a[j].ssid /\ a[i].authmode = a[j].authmode
        BY <3>3, <3>4, <4>1 DEF Same
      <4> DEFINE better == IF a[j].rssi > a[i].rssi THEN a[j].rssi ELSE a[i].rssi
                 kept   == [a[i] EXCEPT !.rssi = better]
                 b      == [a EXCEPT ![i] = kept, ![j] = Cleared]
      <4>3. up[j] = b
        BY <3>1, <4>2 DEF Absorb
      <4>4. a[i] \in Slot /\ a[i].rssi \in Int /\ a[j].rssi \in Int /\ better \in Int
        BY <3>1 DEF Slot
      <4>5. kept.ssid = a[i].ssid /\ kept.authmode = a[i].authmode /\ kept.rssi = better
        <5> HIDE DEF better
        <5> QED
          BY <4>4 DEF Slot
      <4>6. better >= a[i].rssi /\ better >= a[j].rssi /\ better \in {a[i].rssi, a[j].rssi}
        BY <4>4
      <4> HIDE DEF better, kept
      <4>7. b[i] = kept /\ b[j] = Cleared /\ \A k \in 1 .. N : k # i /\ k # j => b[k] = a[k]
        BY <3>1
      <4> HIDE DEF b
      <4>8. Same(b[i], list[i])
        BY <3>3, <4>5, <4>7 DEF Same
      <4>9. IsBest(list, i, j, better)
        <5>1. PICK k \in 1 .. j - 1 : Same(list[k], list[i]) /\ list[k].rssi = a[i].rssi
          BY <3>3 DEF IsBest
        <5>2. Same(list[j], list[i])
          BY <3>4, SameFacts
        <5>3. \E m \in 1 .. j : Same(list[m], list[i]) /\ list[m].rssi = better
          <6>1. k \in 1 .. j /\ j \in 1 .. j
            BY <3>1
          <6>2. QED
            BY <4>1, <4>6, <5>1, <5>2, <6>1
        <5>4. ASSUME NEW m \in 1 .. j, Same(list[m], list[i]) PROVE list[m].rssi <= better
          <6>1. CASE m = j
            BY <4>1, <4>6, <6>1
          <6>2. CASE m # j
            <7>1. m \in 1 .. j - 1
              BY <6>2
            <7>2. list[m].rssi <= a[i].rssi /\ list[m].rssi \in Int
              <8>1. list[m].rssi <= a[i].rssi
                BY <3>3, <5>4, <7>1 DEF IsBest
              <8>2. m \in 1 .. N
                BY <7>1
              <8>3. QED
                BY <1>1, <8>1, <8>2
            <7>3. QED
              BY <4>4, <4>6, <7>2
          <6>3. QED
            BY <6>1, <6>2
        <5>5. QED
          BY <5>3, <5>4 DEF IsBest
      <4>10. Before(b)
        <5>1. ASSUME NEW k \in 1 .. i - 1 PROVE b[k] = l[k]
          <6>1. k \in 1 .. N /\ k # i /\ k # j
            BY <2>3
          <6>2. QED
            BY <3>2, <4>7, <6>1
        <5>2. QED
          BY <5>1
      <4>11. Done(b, j)
        <5>1. ASSUME NEW k \in i + 1 .. j
              PROVE  b[k] = IF Same(list[i], list[k]) THEN Cleared ELSE l[k]
          <6>1. CASE k = j
            BY <3>4, <4>7, <6>1
          <6>2. CASE k # j
            <7>1. k \in i + 1 .. j - 1 /\ k \in 1 .. N /\ k # i
              BY <6>2
            <7>2. QED
              BY <3>2, <4>7, <6>2, <7>1
          <6>3. QED
            BY <6>1, <6>2
        <5>2. QED
          BY <5>1
      <4>12. Rest(b, j)
        <5>1. ASSUME NEW k \in j + 1 .. N PROVE b[k] = l[k]
          <6>1. k \in j - 1 + 1 .. N /\ k \in 1 .. N /\ k # i /\ k # j
            BY <2>3
          <6>2. QED
            BY <3>2, <4>7, <6>1
        <5>2. QED
          BY <5>1
      <4>13. b[i].rssi = better
        BY <4>5, <4>7
      <4> HIDE DEF Before, Done, Rest
      <4>14. QED
        BY <3>1, <4>3, <4>8, <4>9, <4>10, <4>11, <4>12, <4>13
    <3>5. CASE ~ Same(list[i], list[j])
      <4>1. up[j] = a
        <5>1. ~ (a[i].ssid = a[j].ssid /\ a[i].authmode = a[j].authmode)
          <6>1. CASE l[j] = list[j]
            BY <3>3, <3>5, <6>1 DEF Same
          <6>2. CASE l[j].ssid = NoName
            BY <3>3, <6>2 DEF Same, First
          <6>3. QED
            BY <3>1, <6>1, <6>2
        <5>2. QED
          BY <3>1, <5>1 DEF Absorb
      <4>2. IsBest(list, i, j, a[i].rssi)
        <5>1. ~ Same(list[j], list[i])
          BY <3>5, SameFacts
        <5>2. PICK k \in 1 .. j - 1 : Same(list[k], list[i]) /\ list[k].rssi = a[i].rssi
          BY <3>3 DEF IsBest
        <5>3. k \in 1 .. j
          BY <3>1
        <5>4. ASSUME NEW m \in 1 .. j, Same(list[m], list[i]) PROVE list[m].rssi <= a[i].rssi
          <6>1. m # j
            BY <5>1, <5>4
          <6>2. m \in 1 .. j - 1
            BY <6>1
          <6>3. QED
            BY <3>3, <5>4, <6>2 DEF IsBest
        <5>5. QED
          BY <5>2, <5>3, <5>4 DEF IsBest
      <4>3. Before(a)
        BY <3>2
      <4>4. Done(a, j)
        <5>1. ASSUME NEW k \in i + 1 .. j
              PROVE  a[k] = IF Same(list[i], list[k]) THEN Cleared ELSE l[k]
          <6>1. CASE k = j
            BY <3>3, <3>5, <6>1
          <6>2. CASE k # j
            <7>1. k \in i + 1 .. j - 1
              BY <6>2
            <7>2. QED
              BY <3>2, <7>1
          <6>3. QED
            BY <6>1, <6>2
        <5>2. QED
          BY <5>1
      <4>5. Rest(a, j)
        <5>1. ASSUME NEW k \in j + 1 .. N PROVE a[k] = l[k]
          <6>1. k \in j - 1 + 1 .. N
            BY <2>3
          <6>2. QED
            BY <3>2, <6>1
        <5>2. QED
          BY <5>1
      <4> HIDE DEF Before, Done, Rest
      <4>6. QED
        BY <3>1, <3>3, <4>1, <4>2, <4>3, <4>4, <4>5
    <3>6. QED
      BY <3>4, <3>5
  <2>4. QED
    BY <2>1, <2>2, <2>3
<1>4. Right(up[N], N)
  <2>1. 0 .. N \subseteq S
    <3> HIDE DEF S
    <3> QED
      BY <1>2, <1>3, InductTo
  <2>2. N \in 0 .. N /\ N >= i
    OBVIOUS
  <2> HIDE DEF Right
  <2>3. QED
    BY <2>1, <2>2
<1>5. up[N] \in [1 .. N -> Slot]
  <2>1. N \in 1 .. N
    OBVIOUS
  <2>2. QED
    BY <1>0, <2>1
<1>6. QED
  BY <1>4, <1>5 DEF up

LEMMA RemovePassType ==
  ASSUME NEW N \in Nat, NEW l \in [1 .. N -> Slot], NEW i \in 1 .. N
  PROVE  RemovePass(l, i) \in [1 .. N -> Slot]
<1>1. AbsorbUpTo(l, i)[N] \in [1 .. N -> Slot] /\ Len(l) = N
  <2>1. N \in 1 .. N
    OBVIOUS
  <2>2. QED
    BY <2>1, AbsorbLoop, AsList
<1>2. QED
  BY <1>1 DEF RemovePass

LEMMA RemoveLoop ==
  ASSUME NEW N \in Nat, NEW list \in [1 .. N -> Slot]
  PROVE  LET after == RemoveUpTo(list)
         IN  /\ after[0] = list
             /\ \A i \in 0 .. N : after[i] \in [1 .. N -> Slot]
             /\ \A i \in 1 .. N : after[i] = RemovePass(after[i - 1], i)
<1> DEFINE X       == [1 .. N -> Slot]
           pass    == [i \in 1 .. N |-> [l \in X |-> RemovePass(l, i)]]
           body(f) == [i \in 0 .. N |-> IF i = 0 THEN list ELSE RemovePass(f[i - 1], i)]
           after   == RemoveUpTo(list)
<1>0. Len(list) = N
  BY AsList
<1>1. pass \in [1 .. N -> [X -> X]]
  <2>1. ASSUME NEW l \in X, NEW i \in 1 .. N PROVE RemovePass(l, i) \in X
    BY RemovePassType
  <2> HIDE DEF X
  <2>2. QED
    BY <2>1
<1>2. PICK f \in [0 .. N -> X] : IsLoop(f, N, list, pass)
  <2> HIDE DEF pass
  <2> QED
    BY <1>1, LoopExists
<1>3. f = body(f)
  <2>1. ASSUME NEW i \in 0 .. N
        PROVE  f[i] = IF i = 0 THEN list ELSE RemovePass(f[i - 1], i)
    <3>1. CASE i = 0
      BY <1>2, <3>1 DEF IsLoop
    <3>2. CASE i # 0
      <4>1. i \in 1 .. N /\ i - 1 \in 0 .. N
        BY <3>2
      <4>2. f[i] = pass[i][f[i - 1]] /\ f[i - 1] \in X
        <5> HIDE DEF X, pass
        <5> QED
          BY <1>2, <4>1 DEF IsLoop
      <4> HIDE DEF X
      <4>3. pass[i][f[i - 1]] = RemovePass(f[i - 1], i)
        BY <4>1, <4>2
      <4>4. QED
        BY <3>2, <4>2, <4>3
    <3>3. QED
      BY <3>1, <3>2
  <2> HIDE DEF X
  <2>2. QED
    BY <2>1
<1>4. after = CHOOSE g : g = body(g)
  BY <1>0 DEF RemoveUpTo
<1>5. after = body(after)
  <2> HIDE DEF body, after
  <2> QED
    BY <1>3, <1>4
<1> HIDE DEF after
<1>6. ASSUME NEW i \in 0 .. N
      PROVE  after[i] = IF i = 0 THEN list ELSE RemovePass(after[i - 1], i)
  <2>1. after[i] = body(after)[i]
    <3> HIDE DEF body
    <3> QED
      BY <1>5
  <2>2. QED
    BY <2>1
<1>7. after[0] = list
  BY <1>6
<1>8. \A i \in 0 .. N : after[i] \in X
  <2> DEFINE S == {i \in 0 .. N : after[i] \in X}
  <2>1. 0 \in S
    BY <1>7
  <2>2. ASSUME NEW i \in 1 .. N, i - 1 \in S PROVE i \in S
    <3>1. i \in 0 .. N /\ i # 0 /\ after[i - 1] \in X
      BY <2>2
    <3>2. RemovePass(after[i - 1], i) \in X
      BY <3>1, RemovePassType
    <3>3. after[i] = RemovePass(after[i - 1], i)
      BY <1>6, <3>1
    <3> HIDE DEF X
    <3>4. QED
      BY <3>1, <3>2, <3>3
  <2>3. 0 .. N \subseteq S
    <3> HIDE DEF S
    <3> QED
      BY <2>1, <2>2, InductTo
  <2>4. QED
    BY <2>3
<1>9. ASSUME NEW i \in 1 .. N PROVE after[i] = RemovePass(after[i - 1], i)
  <2>1. i \in 0 .. N /\ i # 0
    OBVIOUS
  <2>2. QED
    BY <1>6, <2>1
<1>10. QED
  BY <1>7, <1>8, <1>9 DEF after

-----------------------------------------------------------------------------
(* The outer loop: what duplicates there are of records it has passed.     *)
Gone(list, k, i) ==
  list[k].ssid # NoName /\ \E m \in 1 .. i : m < k /\ Same(list[m], list[k])

(* After i passes of the outer loop.                                       *)
Removed(list, N, r, i) ==
  /\ \A k \in 1 .. i : First(list, k) => Same(r[k], list[k]) /\ IsBest(list, k, N, r[k].rssi)
  /\ \A k \in 1 .. N : k > i \/ ~ First(list, k) =>
       r[k] = IF Gone(list, k, i) THEN Cleared ELSE list[k]

LEMMA RemovePassRight ==
  ASSUME NEW N \in Nat, NEW list \in [1 .. N -> Point], NEW i \in 1 .. N,
         NEW r \in [1 .. N -> Slot], Removed(list, N, r, i - 1)
  PROVE  Removed(list, N, RemovePass(r, i), i)
<1>0. r[i] = IF Gone(list, i, i - 1) THEN Cleared ELSE list[i]
  BY DEF Removed
<1>a. Len(r) = N
  BY AsList
<1>1. CASE r[i].ssid = NoName
  <2>1. RemovePass(r, i) = r
    BY <1>1 DEF RemovePass
  <2>2. ~ First(list, i)
    <3>1. SUFFICES ASSUME First(list, i) PROVE FALSE
      OBVIOUS
    <3>2. ~ Gone(list, i, i - 1)
      BY <3>1 DEF Gone, First
    <3>3. QED
      BY <1>0, <1>1, <3>1, <3>2 DEF First
  <2>3. ASSUME NEW k \in 1 .. N PROVE Gone(list, k, i) <=> Gone(list, k, i - 1)
    <3>1. ASSUME Gone(list, k, i - 1) PROVE Gone(list, k, i)
      BY <3>1 DEF Gone
    <3>2. ASSUME Gone(list, k, i) PROVE Gone(list, k, i - 1)
      <4>1. PICK m \in 1 .. i : m < k /\ Same(list[m], list[k])
        BY <3>2 DEF Gone
      <4>2. CASE m # i
        <5>1. m \in 1 .. i - 1
          BY <4>2
        <5>2. QED
          BY <3>2, <4>1, <5>1 DEF Gone
      <4>3. CASE m = i
        <5>1. list[i].ssid # NoName
          BY <3>2, <4>1, <4>3 DEF Gone, Same
        <5>2. PICK e \in 1 .. i - 1 : Same(list[e], list[i])
          BY <2>2, <5>1 DEF First
        <5>3. Same(list[e], list[k]) /\ e < k
          BY <4>1, <4>3, <5>2, SameFacts
        <5>4. QED
          BY <3>2, <5>3 DEF Gone
      <4>4. QED
        BY <4>2, <4>3
    <3>3. QED
      BY <3>1, <3>2
  <2>4. ASSUME NEW k \in 1 .. i, First(list, k)
        PROVE  Same(r[k], list[k]) /\ IsBest(list, k, N, r[k].rssi)
    <3>1. k # i
      BY <2>2, <2>4
    <3>2. k \in 1 .. i - 1
      BY <3>1
    <3>3. QED
      BY <2>4, <3>2 DEF Removed
  <2>5. ASSUME NEW k \in 1 .. N, k > i \/ ~ First(list, k)
        PROVE  r[k] = IF Gone(list, k, i) THEN Cleared ELSE list[k]
    <3>1. k > i - 1 \/ ~ First(list, k)
      BY <2>5
    <3>2. QED
      BY <2>3, <3>1 DEF Removed
  <2>6. QED
    BY <2>1, <2>4, <2>5 DEF Removed
<1>2. CASE r[i].ssid # NoName
  <2>1. r[i] = list[i] /\ ~ Gone(list, i, i - 1)
    BY <1>0, <1>2, ClearedSlot
  <2>2. First(list, i)
    <3>1. list[i].ssid # NoName
      BY <1>2, <2>1
    <3>2. \A m \in 1 .. i - 1 : ~ Same(list[m], list[i])
      BY <2>1, <3>1 DEF Gone
    <3>3. QED
      BY <3>1, <3>2 DEF First
  <2>3. ASSUME NEW k \in i + 1 .. N
        PROVE  /\ k \in 1 .. N /\ k > i - 1
               /\ r[k] = IF Gone(list, k, i - 1) THEN Cleared ELSE list[k]
    BY DEF Removed
  <2>4. ASSUME NEW k \in i + 1 .. N
        PROVE  r[k] = list[k] \/ (r[k].ssid = NoName /\ ~ Same(list[i], list[k]))
    <3>1. CASE Gone(list, k, i - 1)
      <4>1. PICK m \in 1 .. i - 1 : Same(list[m], list[k])
        BY <3>1 DEF Gone
      <4>2. ASSUME Same(list[i], list[k]) PROVE FALSE
        <5>1. Same(list[k], list[i])
          BY <4>2, SameFacts
        <5>2. Same(list[m], list[i])
          BY <4>1, <5>1, SameFacts
        <5>3. QED
          BY <2>2, <5>2 DEF First
      <4>3. QED
        BY <2>3, <3>1, <4>2, ClearedSlot
    <3>2. CASE ~ Gone(list, k, i - 1)
      BY <2>3, <3>2
    <3>3. QED
      BY <3>1, <3>2
  <2> DEFINE b == RemovePass(r, i)
  <2>5. /\ Same(b[i], list[i]) /\ IsBest(list, i, N, b[i].rssi)
        /\ \A k \in 1 .. i - 1 : b[k] = r[k]
        /\ \A k \in i + 1 .. N : b[k] = IF Same(list[i], list[k]) THEN Cleared ELSE r[k]
    <3>1. b = AbsorbUpTo(r, i)[N]
      BY <1>2, <1>a DEF RemovePass
    <3>2. r[i] = list[i]
      BY <2>1
    <3>3. \A k \in i + 1 .. N : r[k] = list[k] \/ (r[k].ssid = NoName /\ ~ Same(list[i], list[k]))
      BY <2>4
    <3> DEFINE after == AbsorbUpTo(r, i)[N]
    <3>4. /\ Same(after[i], list[i]) /\ IsBest(list, i, N, after[i].rssi)
          /\ \A k \in 1 .. i - 1 : after[k] = r[k]
          /\ \A k \in i + 1 .. N : after[k] = IF Same(list[i], list[k]) THEN Cleared ELSE r[k]
      BY <2>2, <3>2, <3>3, AbsorbsAll
    <3>5. QED
      BY <3>1, <3>4, Zenon
  <2> HIDE DEF b
  <2>6. ASSUME NEW k \in 1 .. i, First(list, k)
        PROVE  Same(b[k], list[k]) /\ IsBest(list, k, N, b[k].rssi)
    <3>1. CASE k = i
      BY <2>5, <3>1
    <3>2. CASE k # i
      <4>1. k \in 1 .. i - 1
        BY <3>2
      <4>2. QED
        BY <2>5, <2>6, <4>1 DEF Removed
    <3>3. QED
      BY <3>1, <3>2
  <2>7. ASSUME NEW k \in 1 .. N, k > i \/ ~ First(list, k)
        PROVE  b[k] = IF Gone(list, k, i) THEN Cleared ELSE list[k]
    <3>1. CASE k > i
      <4>1. k \in i + 1 .. N
        BY <3>1
      <4>2. b[k] = IF Same(list[i], list[k]) THEN Cleared ELSE r[k]
        BY <2>5, <4>1
      <4>3. r[k] = IF Gone(list, k, i - 1) THEN Cleared ELSE list[k]
        BY <2>3, <4>1
      <4>4. CASE Same(list[i], list[k])
        <5>1. list[k].ssid # NoName
          BY <2>2, <4>4 DEF Same, First
        <5>2. Gone(list, k, i)
          BY <3>1, <4>4, <5>1 DEF Gone
        <5>3. QED
          BY <4>2, <4>4, <5>2
      <4>5. CASE ~ Same(list[i], list[k])
        <5>1. ASSUME Gone(list, k, i - 1) PROVE Gone(list, k, i)
          BY <5>1 DEF Gone
        <5>2. ASSUME Gone(list, k, i) PROVE Gone(list, k, i - 1)
          <6>1. PICK m \in 1 .. i : m < k /\ Same(list[m], list[k])
            BY <5>2 DEF Gone
          <6>2. m \in 1 .. i - 1
            BY <4>5, <6>1
          <6>3. QED
            BY <5>2, <6>1, <6>2 DEF Gone
        <5>3. QED
          BY <4>2, <4>3, <4>5, <5>1, <5>2
      <4>6. QED
        BY <4>4, <4>5
    <3>2. CASE ~ (k > i)
      <4>1. k # i /\ ~ First(list, k)
        BY <2>2, <2>7, <3>2
      <4>2. k \in 1 .. i - 1
        BY <3>2, <4>1
      <4>3. b[k] = r[k] /\ r[k] = IF Gone(list, k, i - 1) THEN Cleared ELSE list[k]
        BY <2>5, <4>1, <4>2 DEF Removed
      <4>4. ASSUME Gone(list, k, i - 1) PROVE Gone(list, k, i)
        BY <4>4 DEF Gone
      <4>5. ASSUME Gone(list, k, i) PROVE Gone(list, k, i - 1)
        <5>1. PICK m \in 1 .. i : m < k /\ Same(list[m], list[k])
          BY <4>5 DEF Gone
        <5>2. m \in 1 .. i - 1
          BY <4>2, <5>1
        <5>3. QED
          BY <4>5, <5>1, <5>2 DEF Gone
      <4>6. QED
        BY <4>3, <4>4, <4>5
    <3>3. QED
      BY <3>1, <3>2
  <2>8. QED
    BY <2>6, <2>7 DEF Removed, b
<1>3. QED
  BY <1>1, <1>2

(* One record of each network is left, the first, with the best signal.    *)
LEMMA RemovesIdentical ==
  ASSUME NEW N \in Nat, NEW list \in [1 .. N -> Point]
  PROVE  LET once == RemoveIdentical(list)
         IN  /\ once \in [1 .. N -> Slot]
             /\ \A k \in 1 .. N :
                  IF First(list, k)
                  THEN Same(once[k], list[k]) /\ IsBest(list, k, N, once[k].rssi)
                  ELSE once[k].ssid = NoName
<1> DEFINE up == RemoveUpTo(list)
           last == IF N = 0 THEN 0 ELSE N - 1
           S == {i \in 0 .. N : Removed(list, N, up[i], i)}
<1>0. list \in [1 .. N -> Slot]
  BY PointSlot
<1>1. /\ up[0] = list /\ \A i \in 0 .. N : up[i] \in [1 .. N -> Slot]
      /\ \A i \in 1 .. N : up[i] = RemovePass(up[i - 1], i)
  BY <1>0, RemoveLoop
<1>2. RemoveIdentical(list) = up[last] /\ last \in 0 .. N
  BY AsList DEF RemoveIdentical
<1> HIDE DEF up
<1>3. 0 \in S
  <2>1. \A k \in 1 .. N : ~ Gone(list, k, 0)
    BY DEF Gone
  <2>2. Removed(list, N, list, 0)
    BY <2>1 DEF Removed
  <2>3. QED
    BY <1>1, <2>2
<1>4. ASSUME NEW i \in 1 .. N, i - 1 \in S PROVE i \in S
  <2>1. i \in 0 .. N /\ i - 1 \in 0 .. N /\ Removed(list, N, up[i - 1], i - 1)
    BY <1>4
  <2>2. Removed(list, N, RemovePass(up[i - 1], i), i)
    BY <1>1, <2>1, RemovePassRight
  <2>3. QED
    BY <1>1, <2>1, <2>2
<1>5. Removed(list, N, up[last], last)
  <2>1. 0 .. N \subseteq S
    <3> HIDE DEF S
    <3> QED
      BY <1>3, <1>4, InductTo
  <2> HIDE DEF last
  <2>2. QED
    BY <1>2, <2>1
<1> DEFINE once == up[last]
<1>6. once \in [1 .. N -> Slot]
  BY <1>1, <1>2
<1>7. ASSUME NEW k \in 1 .. N, First(list, k)
      PROVE  Same(once[k], list[k]) /\ IsBest(list, k, N, once[k].rssi)
  <2>1. CASE k < N
    <3>1. k \in 1 .. last
      BY <2>1
    <3> HIDE DEF last
    <3>2. QED
      BY <1>5, <1>7, <3>1 DEF Removed
  <2>2. CASE k = N
    <3>1. k > last
      BY <2>2
    <3>2. ~ Gone(list, k, last)
      <4>1. last = k - 1
        BY <2>2
      <4> HIDE DEF last
      <4>2. QED
        BY <1>7, <4>1 DEF First, Gone
    <3> HIDE DEF last
    <3>3. once[k] = list[k]
      BY <1>5, <3>1, <3>2 DEF Removed
    <3>4. IsBest(list, k, N, list[k].rssi)
      <4>1. Same(list[k], list[k])
        BY DEF Same
      <4>2. ASSUME NEW m \in 1 .. N, Same(list[m], list[k]) PROVE list[m].rssi <= list[k].rssi
        <5>1. m \notin 1 .. k - 1
          BY <1>7, <4>2 DEF First
        <5>2. m = k
          BY <2>2, <5>1
        <5>3. list[k].rssi \in Int
          BY <1>0 DEF Slot
        <5>4. QED
          BY <5>2, <5>3
      <4>3. QED
        BY <4>1, <4>2 DEF IsBest
    <3>5. QED
      BY <3>3, <3>4 DEF Same
  <2>3. QED
    BY <2>1, <2>2
<1>8. ASSUME NEW k \in 1 .. N, ~ First(list, k)
      PROVE  once[k].ssid = NoName
  <2>1. once[k] = IF Gone(list, k, last) THEN Cleared ELSE list[k]
    <3> HIDE DEF last
    <3> QED
      BY <1>5, <1>8 DEF Removed
  <2>2. CASE list[k].ssid = NoName
    BY <2>1, <2>2, ClearedSlot
  <2>3. CASE list[k].ssid # NoName
    <3>1. PICK m \in 1 .. k - 1 : Same(list[m], list[k])
      BY <1>8, <2>3 DEF First
    <3>2. m \in 1 .. last /\ m < k
      OBVIOUS
    <3>3. Gone(list, k, last)
      <4> HIDE DEF last
      <4> QED
        BY <2>3, <3>1, <3>2 DEF Gone
    <3>4. QED
      BY <2>1, <3>3, ClearedSlot
  <2>4. QED
    BY <2>2, <2>3
<1> HIDE DEF last
<1>9. QED
  BY <1>2, <1>6, <1>7, <1>8

-----------------------------------------------------------------------------
(* The networks of the reference, and the loop that closes the gaps.       *)
LEMMA FirstsLoop ==
  ASSUME NEW N \in Nat, NEW list \in [1 .. N -> Slot]
  PROVE  LET firsts == FirstsUpTo(list)
         IN  /\ firsts[0] = <<>>
             /\ \A i \in 0 .. N : firsts[i] \in Seq(Nat)
             /\ \A i \in 1 .. N :
                  firsts[i] = IF First(list, i) THEN Append(firsts[i - 1], i) ELSE firsts[i - 1]
<1> DEFINE X       == Seq(Nat)
           next(s, i) == IF First(list, i) THEN Append(s, i) ELSE s
           pass    == [i \in 1 .. N |-> [s \in X |-> next(s, i)]]
           body(f) == [i \in 0 .. N |->
                         IF i = 0 THEN <<>>
                         ELSE IF First(list, i) THEN Append(f[i - 1], i) ELSE f[i - 1]]
           firsts  == FirstsUpTo(list)
<1>0. Len(list) = N
  BY AsList
<1>1. pass \in [1 .. N -> [X -> X]]
  <2>1. ASSUME NEW s \in X, NEW i \in 1 .. N PROVE next(s, i) \in X
    OBVIOUS
  <2> HIDE DEF next, X
  <2>2. QED
    BY <2>1
<1>a. <<>> \in X
  OBVIOUS
<1>2. PICK f \in [0 .. N -> X] : IsLoop(f, N, <<>>, pass)
  <2> HIDE DEF pass, X
  <2> QED
    BY <1>1, <1>a, LoopExists
<1>3. f = body(f)
  <2>1. ASSUME NEW i \in 0 .. N
        PROVE  f[i] = IF i = 0 THEN <<>> ELSE next(f[i - 1], i)
    <3>1. CASE i = 0
      BY <1>2, <3>1 DEF IsLoop
    <3>2. CASE i # 0
      <4>1. i \in 1 .. N /\ i - 1 \in 0 .. N
        BY <3>2
      <4>2. f[i] = pass[i][f[i - 1]] /\ f[i - 1] \in X
        <5> HIDE DEF X, pass
        <5> QED
          BY <1>2, <4>1 DEF IsLoop
      <4> HIDE DEF X, next
      <4>3. pass[i][f[i - 1]] = next(f[i - 1], i)
        BY <4>1, <4>2
      <4>4. QED
        BY <3>2, <4>2, <4>3
    <3>3. QED
      BY <3>1, <3>2
  <2> HIDE DEF X
  <2>2. QED
    BY <2>1
<1>4. firsts = CHOOSE g : g = body(g)
  BY <1>0 DEF FirstsUpTo
<1>5. firsts = body(firsts)
  <2> HIDE DEF body, firsts
  <2> QED
    BY <1>3, <1>4
<1> HIDE DEF firsts
<1>6. ASSUME NEW i \in 0 .. N
      PROVE  firsts[i] = IF i = 0 THEN <<>> ELSE next(firsts[i - 1], i)
  <2>1. firsts[i] = body(firsts)[i]
    <3> HIDE DEF body
    <3> QED
      BY <1>5
  <2>2. QED
    BY <2>1
<1>7. firsts[0] = <<>>
  BY <1>6
<1>8. \A i \in 0 .. N : firsts[i] \in X
  <2> DEFINE S == {i \in 0 .. N : firsts[i] \in X}
  <2>1. 0 \in S
    <3> HIDE DEF X
    <3> QED
      BY <1>7, <1>a
  <2>2. ASSUME NEW i \in 1 .. N, i - 1 \in S PROVE i \in S
    <3>1. i \in 0 .. N /\ i # 0 /\ firsts[i - 1] \in X
      BY <2>2
    <3>2. next(firsts[i - 1], i) \in X
      BY <3>1
    <3>3. firsts[i] = next(firsts[i - 1], i)
      BY <1>6, <3>1
    <3> HIDE DEF X, next
    <3>4. QED
      BY <3>1, <3>2, <3>3
  <2>3. 0 .. N \subseteq S
    <3> HIDE DEF S
    <3> QED
      BY <2>1, <2>2, InductTo
  <2>4. QED
    BY <2>3
<1>9. ASSUME NEW i \in 1 .. N
      PROVE  firsts[i] = next(firsts[i - 1], i)
  <2>1. i \in 0 .. N /\ i # 0
    OBVIOUS
  <2> HIDE DEF next
  <2>2. QED
    BY <1>6, <2>1
<1>10. QED
  BY <1>7, <1>8, <1>9 DEF firsts

(* The search for a free slot finds the first one.                         *)
LEMMA FirstFreeRight ==
  ASSUME NEW N \in Nat, NEW l \in [1 .. N -> Slot],
         NEW i \in 1 .. N, l[i].ssid = NoName
  PROVE  /\ FirstFree(l) \in 1 .. N
         /\ l[FirstFree(l)].ssid = NoName
         /\ \A k \in 1 .. FirstFree(l) - 1 : l[k].ssid # NoName
<1> DEFINE Free(j) == l[j].ssid = NoName /\ \A k \in 1 .. j - 1 : l[k].ssid # NoName
           S == {j \in 1 .. N : l[j].ssid = NoName}
<1>1. PICK m \in S : \A n \in S : m <= n
  <2>1. S \in SUBSET Nat /\ S # {}
    OBVIOUS
  <2> HIDE DEF S
  <2>2. QED
    BY <2>1, Least
<1>2. m \in 1 .. N /\ Free(m)
  <2>1. ASSUME NEW k \in 1 .. m - 1 PROVE l[k].ssid # NoName
    <3>1. k \in 1 .. N /\ ~ (m <= k)
      OBVIOUS
    <3>2. QED
      BY <1>1, <3>1
  <2>2. QED
    BY <2>1
<1>3. FirstFree(l) = CHOOSE j \in 1 .. N : Free(j)
  BY AsList DEF FirstFree
<1>4. FirstFree(l) \in 1 .. N /\ Free(FirstFree(l))
  <2> HIDE DEF Free
  <2> QED
    BY <1>2, <1>3
<1>5. QED
  BY <1>4

(* What the loop that closes the gaps works on.                            *)
Closing(N) == [list : [1 .. N -> Slot], free : 0 .. N, unique : Int]

LEMMA CloseType ==
  ASSUME NEW N \in Nat, NEW s \in Closing(N), NEW i \in 1 .. N
  PROVE  CloseGap(s, i) \in Closing(N)
<1>1. s.list \in [1 .. N -> Slot] /\ s.free \in 0 .. N /\ s.unique \in Int
      /\ s = [list |-> s.list, free |-> s.free, unique |-> s.unique]
  BY DEF Closing
<1>2. CASE s.list[i].ssid = NoName
  <2>1. CloseGap(s, i) = [list |-> s.list, free |-> IF s.free = 0 THEN i ELSE s.free,
                          unique |-> s.unique - 1]
    BY <1>1, <1>2 DEF CloseGap, Closing
  <2>2. QED
    BY <1>1, <2>1 DEF Closing
<1>3. CASE s.list[i].ssid # NoName /\ s.free = 0
  BY <1>3 DEF CloseGap
<1>4. CASE s.list[i].ssid # NoName /\ s.free # 0
  <2> DEFINE moved == [s.list EXCEPT ![s.free] = s.list[i], ![i] = Cleared]
  <2>1. CloseGap(s, i) = [list |-> moved, free |-> FirstFree(moved), unique |-> s.unique]
    BY <1>1, <1>4 DEF CloseGap, Closing
  <2>2. moved \in [1 .. N -> Slot] /\ moved[i].ssid = NoName
    BY <1>1, ClearedSlot
  <2> HIDE DEF moved
  <2>3. FirstFree(moved) \in 0 .. N
    <3>1. FirstFree(moved) \in 1 .. N
      BY <2>2, FirstFreeRight
    <3>2. QED
      BY <3>1
  <2>4. QED
    BY <1>1, <2>1, <2>2, <2>3 DEF Closing
<1>5. QED
  BY <1>2, <1>3, <1>4

LEMMA CloseLoop ==
  ASSUME NEW N \in Nat, NEW list \in [1 .. N -> Slot]
  PROVE  LET after == CloseUpTo(list)
         IN  /\ after[0] = [list |-> list, free |-> 0, unique |-> N]
             /\ \A i \in 0 .. N : after[i] \in Closing(N)
             /\ \A i \in 1 .. N : after[i] = CloseGap(after[i - 1], i)
<1> DEFINE X       == Closing(N)
           start   == [list |-> list, free |-> 0, unique |-> N]
           pass    == [i \in 1 .. N |-> [s \in X |-> CloseGap(s, i)]]
           body(f) == [i \in 0 .. N |->
                         IF i = 0 THEN [list |-> list, free |-> 0, unique |-> N]
                         ELSE CloseGap(f[i - 1], i)]
           after   == CloseUpTo(list)
<1>0. Len(list) = N
  BY AsList
<1>1. pass \in [1 .. N -> [X -> X]]
  <2>1. ASSUME NEW s \in X, NEW i \in 1 .. N PROVE CloseGap(s, i) \in X
    BY CloseType
  <2> HIDE DEF X
  <2>2. QED
    BY <2>1
<1>a. start \in X
  BY DEF Closing
<1> HIDE DEF X
<1>2. PICK f \in [0 .. N -> X] : IsLoop(f, N, start, pass)
  <2> HIDE DEF pass, start
  <2> QED
    BY <1>1, <1>a, LoopExists
<1>3. f = body(f)
  <2>1. ASSUME NEW i \in 0 .. N
        PROVE  f[i] = IF i = 0 THEN start ELSE CloseGap(f[i - 1], i)
    <3> HIDE DEF start
    <3>1. CASE i = 0
      BY <1>2, <3>1 DEF IsLoop
    <3>2. CASE i # 0
      <4>1. i \in 1 .. N /\ i - 1 \in 0 .. N
        BY <3>2
      <4>2. f[i] = pass[i][f[i - 1]] /\ f[i - 1] \in X
        <5> HIDE DEF pass
        <5> QED
          BY <1>2, <4>1 DEF IsLoop
      <4>3. pass[i][f[i - 1]] = CloseGap(f[i - 1], i)
        BY <4>1, <4>2
      <4>4. QED
        BY <3>2, <4>2, <4>3
    <3>3. QED
      BY <3>1, <3>2
  <2>2. QED
    BY <2>1
<1>4. after = CHOOSE g : g = body(g)
  BY <1>0 DEF CloseUpTo
<1>5. after = body(after)
  <2> HIDE DEF body, after
  <2> QED
    BY <1>3, <1>4
<1> HIDE DEF after
<1>6. ASSUME NEW i \in 0 .. N
      PROVE  after[i] = IF i = 0 THEN start ELSE CloseGap(after[i - 1], i)
  <2>1. after[i] = body(after)[i]
    <3> HIDE DEF body
    <3> QED
      BY <1>5
  <2>2. QED
    BY <2>1
<1>7. after[0] = start
  <2> HIDE DEF start
  <2> QED
    BY <1>6
<1>8. \A i \in 0 .. N : after[i] \in X
  <2> DEFINE S == {i \in 0 .. N : after[i] \in X}
  <2> HIDE DEF start
  <2>1. 0 \in S
    BY <1>7, <1>a
  <2>2. ASSUME NEW i \in 1 .. N, i - 1 \in S PROVE i \in S
    <3>1. i \in 0 .. N /\ i # 0 /\ after[i - 1] \in X
      BY <2>2
    <3>2. CloseGap(after[i - 1], i) \in X
      BY <3>1, CloseType DEF X
    <3>3. after[i] = CloseGap(after[i - 1], i)
      BY <1>6, <3>1
    <3>4. QED
      BY <3>1, <3>2, <3>3
  <2>3. 0 .. N \subseteq S
    <3> HIDE DEF S
    <3> QED
      BY <2>1, <2>2, InductTo
  <2>4. QED
    BY <2>3
<1>9. ASSUME NEW i \in 1 .. N PROVE after[i] = CloseGap(after[i - 1], i)
  <2>1. i \in 0 .. N /\ i # 0
    OBVIOUS
  <2> HIDE DEF start
  <2>2. QED
    BY <1>6, <2>1
<1>10. QED
  BY <1>7, <1>8, <1>9 DEF after, X

(* After i passes: the records of the networks found so far, at the places *)
(* firsts, are at the front, and the first free slot is right behind them. *)
Closed(N, once, firsts, s, i) ==
  /\ Len(firsts) <= i
  /\ \A m \in 1 .. Len(firsts) : firsts[m] \in 1 .. i /\ s.list[m] = once[firsts[m]]
  /\ \A m \in Len(firsts) + 1 .. i : s.list[m].ssid = NoName
  /\ \A m \in i + 1 .. N : s.list[m] = once[m]
  /\ s.free = IF Len(firsts) = i THEN 0 ELSE Len(firsts) + 1
  /\ s.unique = N - (i - Len(firsts))

LEMMA CloseRight ==
  ASSUME NEW N \in Nat, NEW once \in [1 .. N -> Slot], NEW i \in 1 .. N,
         NEW firsts \in Seq(Nat), NEW s \in Closing(N),
         \A m \in 1 .. Len(firsts) : once[firsts[m]].ssid # NoName,
         Closed(N, once, firsts, s, i - 1)
  PROVE  Closed(N, once, IF once[i].ssid = NoName THEN firsts ELSE Append(firsts, i),
                CloseGap(s, i), i)
<1> DEFINE c == Len(firsts)
<1>1. /\ s.list \in [1 .. N -> Slot] /\ s.free \in 0 .. N /\ s.unique \in Int
      /\ s = [list |-> s.list, free |-> s.free, unique |-> s.unique]
  BY DEF Closing
<1>a. i - 1 + 1 = i /\ i \in i .. N /\ c \in Nat
  OBVIOUS
<1>b. /\ c <= i - 1
      /\ \A m \in 1 .. c : firsts[m] \in 1 .. i - 1 /\ s.list[m] = once[firsts[m]]
      /\ \A m \in c + 1 .. i - 1 : s.list[m].ssid = NoName
      /\ \A m \in i - 1 + 1 .. N : s.list[m] = once[m]
      /\ s.free = IF c = i - 1 THEN 0 ELSE c + 1
      /\ s.unique = N - (i - 1 - c)
  BY DEF Closed
<1>2. /\ c \in Nat /\ c <= i - 1 /\ s.list[i] = once[i] /\ once[i] \in Slot
      /\ \A m \in 1 .. c : firsts[m] \in 1 .. i - 1 /\ s.list[m] = once[firsts[m]]
      /\ \A m \in c + 1 .. i - 1 : s.list[m].ssid = NoName
      /\ \A m \in i .. N : s.list[m] = once[m]
      /\ s.free = IF c = i - 1 THEN 0 ELSE c + 1
      /\ s.unique = N - (i - 1 - c)
  <2> HIDE DEF c
  <2>1. \A m \in i .. N : s.list[m] = once[m]
    BY <1>a, <1>b
  <2>2. s.list[i] = once[i] /\ once[i] \in Slot
    BY <1>a, <2>1
  <2>3. QED
    BY <1>a, <1>b, <2>1, <2>2
<1>c. \A m \in 1 .. c : once[firsts[m]].ssid # NoName
  OBVIOUS
<1> HIDE DEF c
<1>d. c \in Nat /\ c <= i - 1 /\ c <= i /\ c # i /\ i \in Nat
  <2>1. c \in Nat /\ c <= i - 1
    BY <1>2
  <2>2. QED
    BY <2>1
<1>3. CASE once[i].ssid = NoName
  <2> DEFINE t == CloseGap(s, i)
  <2>1. t = [list |-> s.list, free |-> IF s.free = 0 THEN i ELSE s.free,
             unique |-> s.unique - 1]
    BY <1>1, <1>2, <1>3 DEF CloseGap, Closing
  <2> HIDE DEF t
  <2>a. (IF s.free = 0 THEN i ELSE s.free) = c + 1 /\ s.unique - 1 = N - (i - c)
    BY <1>2
  <2>2. t.list = s.list /\ t.free = c + 1 /\ t.unique = N - (i - c)
    BY <2>1, <2>a
  <2>3. \A m \in c + 1 .. i : t.list[m].ssid = NoName
    <3>1. ASSUME NEW m \in c + 1 .. i PROVE s.list[m].ssid = NoName
      <4>1. CASE m = i
        BY <1>2, <1>3, <4>1
      <4>2. CASE m # i
        <5>1. m \in c + 1 .. i - 1
          BY <1>2, <4>2
        <5>2. QED
          BY <1>2, <5>1
      <4>3. QED
        BY <4>1, <4>2
    <3>2. QED
      BY <2>2, <3>1
  <2>4. \A m \in 1 .. c : firsts[m] \in 1 .. i /\ t.list[m] = once[firsts[m]]
    <3>1. ASSUME NEW m \in 1 .. c PROVE firsts[m] \in 1 .. i /\ s.list[m] = once[firsts[m]]
      BY <1>2
    <3>2. QED
      BY <2>2, <3>1
  <2>5. \A m \in i + 1 .. N : t.list[m] = once[m]
    <3>1. \A m \in i + 1 .. N : m \in i .. N
      OBVIOUS
    <3>2. QED
      BY <1>2, <2>2, <3>1
  <2>6. c <= i /\ c # i
    BY <1>d
  <2>7. Closed(N, once, firsts, t, i)
    BY <2>2, <2>3, <2>4, <2>5, <2>6 DEF Closed, c
  <2>8. QED
    BY <1>3, <2>7 DEF t
<1>4. CASE once[i].ssid # NoName
  <2> DEFINE more == Append(firsts, i)
             t    == CloseGap(s, i)
  <2>1. /\ more \in Seq(Nat) /\ Len(more) = c + 1 /\ more[c + 1] = i
        /\ \A m \in 1 .. c : more[m] = firsts[m]
    BY DEF c
  <2> HIDE DEF more
  <2>2. CASE s.free = 0
    <3>1. t = s /\ c = i - 1
      BY <1>2, <1>4, <2>2 DEF CloseGap
    <3> HIDE DEF t
    <3>2. \A m \in 1 .. c + 1 : more[m] \in 1 .. i /\ s.list[m] = once[more[m]]
      <4>1. ASSUME NEW m \in 1 .. c + 1
            PROVE  more[m] \in 1 .. i /\ s.list[m] = once[more[m]]
        <5>1. CASE m = c + 1
          BY <1>2, <2>1, <3>1, <5>1
        <5>2. CASE m # c + 1
          <6>1. m \in 1 .. c
            BY <1>d, <5>2
          <6>2. /\ firsts[m] \in 1 .. i - 1 /\ s.list[m] = once[firsts[m]]
                /\ more[m] = firsts[m]
            BY <1>2, <2>1, <6>1
          <6>3. QED
            BY <6>2
        <5>3. QED
          BY <5>1, <5>2
      <4>2. QED
        BY <4>1
    <3>3. \A m \in c + 1 + 1 .. i : s.list[m].ssid = NoName
      BY <3>1
    <3>4. \A m \in i + 1 .. N : s.list[m] = once[m]
      <4>1. \A m \in i + 1 .. N : m \in i .. N
        OBVIOUS
      <4>2. QED
        BY <1>2, <4>1
    <3>5. c + 1 <= i /\ c + 1 = i /\ s.unique = N - (i - (c + 1))
      BY <1>2, <3>1
    <3>6. Closed(N, once, more, s, i)
      BY <2>1, <2>2, <3>2, <3>3, <3>4, <3>5 DEF Closed
    <3>7. QED
      BY <1>4, <3>1, <3>6 DEF t, more
  <2>3. CASE s.free # 0
    <3> DEFINE moved == [s.list EXCEPT ![s.free] = s.list[i], ![i] = Cleared]
    <3>1. c # i - 1 /\ s.free = c + 1 /\ c + 1 \in 1 .. i - 1 /\ c + 1 \in 1 .. N
      BY <1>2, <2>3
    <3>2. t = [list |-> moved, free |-> FirstFree(moved), unique |-> s.unique]
      BY <1>1, <1>2, <1>4, <2>3 DEF CloseGap, Closing
    <3>3. moved \in [1 .. N -> Slot]
      BY <1>1, ClearedSlot
    <3>4. /\ moved[c + 1] = once[i] /\ moved[i] = Cleared
          /\ \A m \in 1 .. N : m # c + 1 /\ m # i => moved[m] = s.list[m]
      BY <1>1, <1>2, <3>1
    <3> HIDE DEF moved
    <3>5. \A m \in 1 .. c + 1 : more[m] \in 1 .. i /\ moved[m] = once[more[m]]
      <4>1. ASSUME NEW m \in 1 .. c + 1
            PROVE  more[m] \in 1 .. i /\ moved[m] = once[more[m]]
        <5>1. CASE m = c + 1
          BY <2>1, <3>4, <5>1
        <5>2. CASE m # c + 1
          <6>1. m \in 1 .. c /\ m \in 1 .. N /\ m # i
            BY <1>d, <3>1, <5>2
          <6>2. /\ firsts[m] \in 1 .. i - 1 /\ s.list[m] = once[firsts[m]]
                /\ more[m] = firsts[m] /\ moved[m] = s.list[m]
            BY <1>2, <2>1, <3>4, <5>2, <6>1
          <6>3. QED
            BY <6>2
        <5>3. QED
          BY <5>1, <5>2
      <4>2. QED
        BY <4>1
    <3>6. \A m \in c + 1 + 1 .. i : moved[m].ssid = NoName
      <4>1. ASSUME NEW m \in c + 1 + 1 .. i PROVE moved[m].ssid = NoName
        <5>1. CASE m = i
          BY <3>4, <5>1, ClearedSlot
        <5>2. CASE m # i
          <6>1. m \in c + 1 .. i - 1 /\ m # c + 1 /\ m \in 1 .. N
            BY <1>2, <5>2
          <6>2. QED
            BY <1>2, <3>4, <5>2, <6>1
        <5>3. QED
          BY <5>1, <5>2
      <4>2. QED
        BY <4>1
    <3>7. \A m \in i + 1 .. N : moved[m] = once[m]
      <4>1. ASSUME NEW m \in i + 1 .. N PROVE moved[m] = once[m]
        <5>1. m \in i .. N /\ m \in 1 .. N /\ m # i /\ m # c + 1
          BY <3>1
        <5>2. QED
          BY <1>2, <3>4, <5>1
      <4>2. QED
        BY <4>1
    <3>8. FirstFree(moved) = c + 2
      <4> DEFINE g == FirstFree(moved)
      <4>1. /\ g \in 1 .. N /\ moved[g].ssid = NoName
            /\ \A k \in 1 .. g - 1 : moved[k].ssid # NoName
        BY <3>3, <3>4, ClearedSlot, FirstFreeRight
      <4> HIDE DEF g
      <4>2. c + 2 \in c + 1 + 1 .. i
        BY <1>2, <3>1
      <4>3. ~ (c + 2 < g)
        <5>1. moved[c + 2].ssid = NoName
          BY <3>6, <4>2
        <5>2. ASSUME c + 2 < g PROVE c + 2 \in 1 .. g - 1
          BY <1>2, <4>1, <5>2
        <5>3. QED
          BY <4>1, <5>1, <5>2
      <4>4. ~ (g < c + 2)
        <5>1. SUFFICES ASSUME g < c + 2 PROVE FALSE
          OBVIOUS
        <5>2. CASE g = c + 1
          BY <1>4, <3>4, <4>1, <5>2
        <5>3. CASE g # c + 1
          <6>1. g \in 1 .. c /\ g \in 1 .. c + 1
            BY <1>2, <4>1, <5>1, <5>3
          <6>2. moved[g] = once[firsts[g]]
            BY <2>1, <3>5, <6>1
          <6>3. QED
            BY <1>c, <4>1, <6>1, <6>2
        <5>4. QED
          BY <5>2, <5>3
      <4>5. QED
        BY <1>2, <4>1, <4>3, <4>4 DEF g
    <3>9. t.list = moved /\ t.free = c + 2 /\ t.unique = s.unique
      BY <3>2, <3>8
    <3> HIDE DEF t
    <3>10. c + 1 <= i /\ c + 1 # i /\ t.unique = N - (i - (c + 1)) /\ t.free = c + 1 + 1
      BY <1>2, <3>1, <3>9
    <3>11. Closed(N, once, more, t, i)
      BY <2>1, <3>5, <3>6, <3>7, <3>9, <3>10 DEF Closed
    <3>12. QED
      BY <1>4, <3>11 DEF t, more
  <2>4. QED
    BY <2>2, <2>3
<1>5. QED
  BY <1>3, <1>4

-----------------------------------------------------------------------------
(* There is one best signal of a network.                                  *)
LEMMA BestOnce ==
  ASSUME NEW N \in Nat, NEW list \in [1 .. N -> Slot], NEW i \in 1 .. N,
         NEW r, IsBest(list, i, N, r), NEW q, IsBest(list, i, N, q)
  PROVE  r = q
<1>1. PICK k \in 1 .. N : Same(list[k], list[i]) /\ list[k].rssi = r
  BY DEF IsBest
<1>2. PICK m \in 1 .. N : Same(list[m], list[i]) /\ list[m].rssi = q
  BY DEF IsBest
<1>3. r \in Int /\ q \in Int
  BY <1>1, <1>2 DEF Slot
<1>4. r <= q /\ q <= r
  BY <1>1, <1>2 DEF IsBest
<1>5. QED
  BY <1>3, <1>4

(* A record that is left is the one of its network in the reference.       *)
LEMMA LeftIsBest ==
  ASSUME NEW N \in Nat, NEW list \in [1 .. N -> Point], NEW i \in 1 .. N,
         NEW p \in Slot, Same(p, list[i]), IsBest(list, i, N, p.rssi)
  PROVE  p = [list[i] EXCEPT !.rssi =
                CHOOSE r \in {list[k].rssi : k \in 1 .. N} : IsBest(list, i, N, r)]
<1> DEFINE Signals == {list[k].rssi : k \in 1 .. N}
           best    == CHOOSE r \in Signals : IsBest(list, i, N, r)
<1>0. list \in [1 .. N -> Slot]
  BY PointSlot
<1>1. p.rssi \in Signals
  BY DEF IsBest
<1>2. IsBest(list, i, N, best)
  <2> HIDE DEF Signals
  <2> QED
    BY <1>1
<1>3. best = p.rssi
  <2> HIDE DEF best
  <2> QED
    BY <1>0, <1>2, BestOnce
<1> HIDE DEF best
<1>4. list[i] \in Slot /\ p.ssid = list[i].ssid /\ p.authmode = list[i].authmode
  BY <1>0 DEF Same
<1>5. p = [list[i] EXCEPT !.rssi = best]
  BY <1>3, <1>4 DEF Slot
<1>6. QED
  BY <1>5 DEF best

(* A scan of any length is filtered to the networks found, each once, in   *)
(* the order of the scan and with its best signal, and no name is left     *)
(* behind the end of the list (wifi_manager.c:271-324).                    *)
THEOREM FilterFindsNetworks ==
  ASSUME NEW N \in Nat, NEW list \in [1 .. N -> Point]
  PROVE  LET found == FilterUnique(list)
         IN  /\ found.unique \in 0 .. N
             /\ SubSeq(found.list, 1, found.unique) = Networks(list)
             /\ \A i \in found.unique + 1 .. N : found.list[i].ssid = NoName
<1> DEFINE once  == RemoveIdentical(list)
           up    == CloseUpTo(once)
           F     == FirstsUpTo(list)
           found == up[N]
           Found(i) == /\ Closed(N, once, F[i], up[i], i)
                       /\ \A m \in 1 .. Len(F[i]) : First(list, F[i][m])
           S     == {i \in 0 .. N : Found(i)}
<1>0. list \in [1 .. N -> Slot] /\ Len(list) = N
  BY PointSlot, AsList
<1>1. /\ once \in [1 .. N -> Slot]
      /\ \A k \in 1 .. N :
           IF First(list, k)
           THEN Same(once[k], list[k]) /\ IsBest(list, k, N, once[k].rssi)
           ELSE once[k].ssid = NoName
  BY RemovesIdentical
<1> HIDE DEF once
<1>2. \A k \in 1 .. N : First(list, k) <=> once[k].ssid # NoName
  BY <1>1 DEF Same, First
<1>3. /\ up[0] = [list |-> once, free |-> 0, unique |-> N]
      /\ \A i \in 0 .. N : up[i] \in Closing(N)
      /\ \A i \in 1 .. N : up[i] = CloseGap(up[i - 1], i)
  BY <1>1, CloseLoop
<1>4. /\ F[0] = <<>> /\ \A i \in 0 .. N : F[i] \in Seq(Nat)
      /\ \A i \in 1 .. N : F[i] = IF First(list, i) THEN Append(F[i - 1], i) ELSE F[i - 1]
  BY <1>0, FirstsLoop
<1> HIDE DEF up, F
<1>5. 0 \in S
  <2>1. Closed(N, once, <<>>, [list |-> once, free |-> 0, unique |-> N], 0)
    BY <1>1 DEF Closed
  <2>2. \A m \in 1 .. Len(F[0]) : First(list, F[0][m])
    BY <1>4
  <2>3. QED
    BY <1>3, <1>4, <2>1, <2>2
<1>6. ASSUME NEW i \in 1 .. N, i - 1 \in S PROVE i \in S
  <2> DEFINE before == F[i - 1]
             s      == up[i - 1]
  <2>1. /\ i - 1 \in 0 .. N /\ i \in 0 .. N
        /\ Closed(N, once, before, s, i - 1)
        /\ \A m \in 1 .. Len(before) : First(list, before[m])
    BY <1>6
  <2>2. before \in Seq(Nat) /\ s \in Closing(N)
    BY <1>3, <1>4, <2>1
  <2>3. F[i] = IF once[i].ssid = NoName THEN before ELSE Append(before, i)
    BY <1>2, <1>4
  <2>4. up[i] = CloseGap(s, i)
    BY <1>3
  <2> HIDE DEF before, s
  <2>5. \A m \in 1 .. Len(before) : before[m] \in 1 .. N /\ First(list, before[m])
    <3>1. \A m \in 1 .. Len(before) : before[m] \in 1 .. i - 1
      BY <2>1 DEF Closed
    <3>2. \A k \in 1 .. i - 1 : k \in 1 .. N
      OBVIOUS
    <3>3. QED
      BY <2>1, <3>1, <3>2
  <2>6. \A m \in 1 .. Len(before) : once[before[m]].ssid # NoName
    BY <1>2, <2>5
  <2>7. Closed(N, once, F[i], up[i], i)
    BY <1>1, <2>1, <2>2, <2>3, <2>4, <2>6, CloseRight
  <2>8. \A m \in 1 .. Len(F[i]) : First(list, F[i][m])
    <3>1. CASE once[i].ssid = NoName
      BY <2>1, <2>3, <3>1
    <3>2. CASE once[i].ssid # NoName
      <4> DEFINE more == Append(before, i)
      <4>1. /\ Len(more) = Len(before) + 1 /\ more[Len(before) + 1] = i
            /\ \A m \in 1 .. Len(before) : more[m] = before[m]
            /\ Len(before) \in Nat
        BY <2>2
      <4> HIDE DEF more
      <4>2. ASSUME NEW m \in 1 .. Len(more) PROVE First(list, more[m])
        <5>1. CASE m = Len(before) + 1
          BY <1>2, <3>2, <4>1, <5>1
        <5>2. CASE m # Len(before) + 1
          <6>1. m \in 1 .. Len(before)
            BY <4>1, <5>2
          <6>2. QED
            BY <2>1, <4>1, <6>1
        <5>3. QED
          BY <5>1, <5>2
      <4>3. F[i] = more
        BY <2>3, <3>2 DEF more
      <4>4. QED
        BY <4>2, <4>3
    <3>3. QED
      BY <3>1, <3>2
  <2>9. QED
    BY <2>1, <2>7, <2>8
<1>7. Found(N)
  <2>1. 0 .. N \subseteq S
    <3> HIDE DEF S
    <3> QED
      BY <1>5, <1>6, InductTo
  <2> HIDE DEF Found
  <2>2. N \in 0 .. N
    OBVIOUS
  <2>3. QED
    BY <2>1, <2>2
<1> DEFINE firsts == F[N]
           c      == Len(firsts)
<1>8. firsts \in Seq(Nat) /\ c \in Nat
  BY <1>4
<1>9. /\ found.list \in [1 .. N -> Slot] /\ c <= N
      /\ \A m \in 1 .. c : /\ firsts[m] \in 1 .. N /\ found.list[m] = once[firsts[m]]
                           /\ First(list, firsts[m])
      /\ \A m \in c + 1 .. N : found.list[m].ssid = NoName
      /\ found.unique = c
  <2>1. up[N] \in Closing(N)
    BY <1>3
  <2>2. found.list \in [1 .. N -> Slot]
    BY <2>1 DEF Closing
  <2>3. found.unique = N - (N - c)
    BY <1>7 DEF Closed
  <2>4. /\ c <= N
        /\ \A m \in 1 .. c : firsts[m] \in 1 .. N /\ found.list[m] = once[firsts[m]]
        /\ \A m \in c + 1 .. N : found.list[m].ssid = NoName
    BY <1>7 DEF Closed
  <2>5. \A m \in 1 .. c : First(list, firsts[m])
    BY <1>7
  <2> HIDE DEF c
  <2>6. N - (N - c) = c
    BY <1>8
  <2>7. QED
    BY <2>2, <2>3, <2>4, <2>5, <2>6
<1> DEFINE best(i) == CHOOSE r \in {list[k].rssi : k \in 1 .. N} : IsBest(list, i, N, r)
<1>10. Networks(list) = [n \in 1 .. c |-> [list[firsts[n]] EXCEPT !.rssi = best(firsts[n])]]
  BY <1>0 DEF Networks, F
<1> HIDE DEF found, c, firsts
<1>11. ASSUME NEW m \in 1 .. c
       PROVE  found.list[m] = [list[firsts[m]] EXCEPT !.rssi = best(firsts[m])]
  <2> DEFINE i == firsts[m]
             p == once[i]
  <2>1. i \in 1 .. N /\ First(list, i) /\ found.list[m] = p
    BY <1>9
  <2>2. p \in Slot /\ Same(p, list[i]) /\ IsBest(list, i, N, p.rssi)
    BY <1>1, <2>1
  <2> HIDE DEF i, p
  <2>3. p = [list[i] EXCEPT !.rssi = best(i)]
    BY <2>1, <2>2, LeftIsBest
  <2>4. QED
    BY <2>1, <2>3 DEF i
<1>12. SubSeq(found.list, 1, c) = [m \in 1 .. c |-> found.list[m]]
  <2> DEFINE l == found.list
  <2>1. l \in Seq(Slot) /\ Len(l) = N
    BY <1>9, AsList
  <2> HIDE DEF l
  <2>2. SubSeq(l, 1, c) = [m \in 1 .. c |-> l[m]]
    BY <1>8, <1>9, <2>1
  <2>3. QED
    BY <2>2 DEF l
<1>13. SubSeq(found.list, 1, c) = Networks(list)
  <2> HIDE DEF best
  <2> QED
    BY <1>10, <1>11, <1>12
<1>14. FilterUnique(list) = found
  BY <1>0 DEF FilterUnique, found, up, once
<1>15. found.unique \in 0 .. N
  BY <1>8, <1>9
<1>16. QED
  BY <1>9, <1>13, <1>14, <1>15

(* Whenever the session lists the points of a scan, the list is right: the *)
(* run's property, of every step of every session and for scans of up to   *)
(* any number of points.                                                   *)
THEOREM ListAlwaysRight == Spec => []FilterCorrect
<1>1. ASSUME NEW scan \in Scans
      PROVE  /\ SubSeq(FilterUnique(scan).list, 1, FilterUnique(scan).unique) = Networks(scan)
             /\ \A i \in FilterUnique(scan).unique + 1 .. Len(scan) :
                  FilterUnique(scan).list[i].ssid = NoName
  <2>1. PICK n \in 0 .. MaxPoints : scan \in [1 .. n -> Point]
    BY DEF Scans
  <2>2. n \in Nat
    BY PointAssumption
  <2>3. Len(scan) = n
    BY <2>1, <2>2, AsList
  <2>4. QED
    BY <2>1, <2>2, <2>3, FilterFindsNetworks
<1>2. Misfiltered = {}
  BY <1>1, Zenon DEF Misfiltered
<1>3. FilterCorrect
  BY <1>2 DEF FilterCorrect
<1>4. QED
  BY <1>3, PTL
=============================================================================
