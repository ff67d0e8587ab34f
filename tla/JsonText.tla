------------------------------ MODULE JsonText ------------------------------
(***************************************************************************)
(* json_print_string (src/wifimgr/json.c): a string is counted in a first  *)
(* pass and written in a second one; the closing quote goes where the      *)
(* first pass says, whatever the second one has written.  Characters are   *)
(* their codes; a string is a sequence of codes from 1 to 255, without the *)
(* terminator.  The result is the memory at output_buffer, a sequence.     *)
(***************************************************************************)
EXTENDS Integers, Sequences

Quote     == 34
Backslash == 92
End       == 0
Stale     == -1     \* a byte the function has not written

(* Those of \b \t \n \f \r " \ and their letters.                          *)
Letter == [c \in {8, 9, 10, 12, 13, Quote, Backslash} |->
             CASE c = 8 -> 98 [] c = 9 -> 116 [] c = 10 -> 110
               [] c = 12 -> 102 [] c = 13 -> 114 [] OTHER -> c]

(* First pass: how many characters are added by escaping.                  *)
(* Mutant: every escape adds one.                                          *)
Additional_One(c) == IF c \in DOMAIN Letter \/ c < 32 THEN 1 ELSE 0

Additional(c) ==
  IF c \in DOMAIN Letter THEN 1 ELSE IF c < 32 THEN 5 ELSE 0

Counted(s) ==
  LET count[n \in 0 .. Len(s)] ==
        IF n = 0 THEN Len(s) ELSE count[n - 1] + Additional(s[n])
  IN  count

OutputLength(s) == Counted(s)[Len(s)]

(* Second pass: what is written for a character; sprintf("u%04x").         *)
HexDigit(d) == IF d < 10 THEN 48 + d ELSE 87 + d

Written(c) ==
  IF c > 31 /\ c # Quote /\ c # Backslash THEN <<c>>
  ELSE IF c \in DOMAIN Letter THEN <<Backslash, Letter[c]>>
  ELSE <<Backslash, 117, 48, 48, HexDigit(c \div 16), HexDigit(c % 16)>>

WrittenUpTo(s) ==
  LET text[n \in 0 .. Len(s)] ==
        IF n = 0 THEN <<>> ELSE text[n - 1] \o Written(s[n])
  IN  text

(* Quotes and terminator are put at their places last; a byte between the  *)
(* text and the closing quote would stay what it was.                      *)
JsonPrintString(s) ==
  LET text == WrittenUpTo(s)[Len(s)]
      size == OutputLength(s)
      byte == [i \in 1 .. size |-> IF i <= Len(text) THEN text[i] ELSE Stale]
  IN  <<Quote>> \o byte \o <<Quote, End>>

-----------------------------------------------------------------------------
(* Reference: a reader of JSON.  It takes one character or one escape      *)
(* sequence at a time and fails on what no JSON string may contain.        *)
HexValue(c) ==
  IF c \in 48 .. 57 THEN c - 48 ELSE IF c \in 97 .. 102 THEN c - 87 ELSE -1

Hex(t, i) == \A k \in 0 .. 3 : HexValue(t[i + k]) >= 0
HexNumber(t, i) ==
  4096 * HexValue(t[i]) + 256 * HexValue(t[i + 1])
    + 16 * HexValue(t[i + 2]) + HexValue(t[i + 3])

Meaning(letter) == {c \in DOMAIN Letter : Letter[c] = letter}

Reading(at, got)  == [state |-> "reading", at |-> at, got |-> got]
Finished(at, got) == [state |-> "finished", at |-> at, got |-> got]
Failed(at, got)   == [state |-> "failed", at |-> at, got |-> got]

ReadOne(t, at, got) ==
  IF at + 1 > Len(t) \/ t[at] < 32 THEN Failed(at, got)
  ELSE IF t[at] = Quote
       THEN IF at + 1 = Len(t) /\ t[at + 1] = End THEN Finished(at, got)
                                                 ELSE Failed(at, got)
  ELSE IF t[at] # Backslash THEN Reading(at + 1, Append(got, t[at]))
  ELSE IF Meaning(t[at + 1]) # {}
       THEN Reading(at + 2, Append(got, CHOOSE c \in Meaning(t[at + 1]) : TRUE))
  ELSE IF t[at + 1] = 117 /\ at + 5 <= Len(t) /\ Hex(t, at + 2)
       THEN Reading(at + 6, Append(got, HexNumber(t, at + 2)))
  ELSE Failed(at, got)

Reader(t) ==
  LET after[n \in 0 .. Len(t)] ==
        IF n = 0
        THEN IF t[1] = Quote THEN Reading(2, <<>>) ELSE Failed(1, <<>>)
        ELSE LET r == after[n - 1]
             IN  IF r.state = "reading" THEN ReadOne(t, r.at, r.got) ELSE r
  IN  after

(* The string that was printed, or what no string is.                      *)
Read(t) ==
  LET last == Reader(t)[Len(t)]
  IN  IF last.state = "finished" THEN last.got ELSE <<Stale>>

(* Plain and special characters, letters and digits that also occur in     *)
(* escape sequences, the last control character and the first one that is  *)
(* printed as it is, and a byte of UTF-8.                                  *)
SampleCodes == {1, 10, 31, 32, Quote, 48, Backslash, 110, 117, 200}
SampleTexts == UNION {[1 .. n -> SampleCodes] : n \in 0 .. 3}

(* Strings a reader does not get back.                                     *)
Misread == {s \in SampleTexts : Read(JsonPrintString(s)) # s}
=============================================================================
