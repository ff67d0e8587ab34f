--------------------------- MODULE JsonTextProofs ---------------------------
(***************************************************************************)
(* Proofs about JsonText: what is printed for a string, of whatever        *)
(* length, is a JSON string that means it.  Both passes and the reader are *)
(* loops, and everything about them is by induction over their passes.     *)
(***************************************************************************)
EXTENDS JsonText, Induction, SequenceTheorems

Byte == 1 .. 255

-----------------------------------------------------------------------------
(* One character.                                                          *)
LEMMA LetterFacts ==
  /\ DOMAIN Letter = {8, 9, 10, 12, 13, 34, 92}
  /\ Letter[8] = 98 /\ Letter[9] = 116 /\ Letter[10] = 110 /\ Letter[12] = 102
  /\ Letter[13] = 114 /\ Letter[34] = 34 /\ Letter[92] = 92
  BY DEF Letter, Quote, Backslash

LEMMA AdditionalType == ASSUME NEW c \in Byte PROVE Additional(c) \in {0, 1, 5}
  BY DEF Additional

(* Every escape is as long as the first pass says.                         *)
LEMMA WrittenLength ==
  ASSUME NEW c \in Byte
  PROVE  Written(c) \in Seq(Byte) /\ Len(Written(c)) = 1 + Additional(c)
<1> USE DEF Byte, Quote, Backslash
<1>1. CASE c > 31 /\ c # Quote /\ c # Backslash
  BY <1>1, LetterFacts DEF Written, Additional
<1>2. CASE c \in DOMAIN Letter
  <2>1. Letter[c] \in Byte
    BY <1>2, LetterFacts
  <2>2. Written(c) = <<Backslash, Letter[c]>> /\ Additional(c) = 1
    BY <1>2, LetterFacts DEF Written, Additional
  <2>3. QED
    BY <2>1, <2>2
<1>3. CASE c < 32 /\ c \notin DOMAIN Letter
  <2>1. HexDigit(c \div 16) \in Byte /\ HexDigit(c % 16) \in Byte
    BY <1>3 DEF HexDigit
  <2>2. /\ Written(c) = <<Backslash, 117, 48, 48, HexDigit(c \div 16), HexDigit(c % 16)>>
        /\ Additional(c) = 5
    BY <1>3, LetterFacts DEF Written, Additional
  <2> HIDE DEF HexDigit
  <2>3. QED
    BY <2>1, <2>2
<1>4. QED
  BY <1>1, <1>2, <1>3, LetterFacts

-----------------------------------------------------------------------------
(* The two passes are loops.                                               *)
LEMMA CountedLoop ==
  ASSUME NEW s \in Seq(Byte)
  PROVE  /\ Counted(s)[0] = Len(s)
         /\ \A n \in 1 .. Len(s) : Counted(s)[n] = Counted(s)[n - 1] + Additional(s[n])
<1> DEFINE pass == [n \in 1 .. Len(s) |-> [x \in Nat |-> x + Additional(s[n])]]
           body(f) == [n \in 0 .. Len(s) |->
                         IF n = 0 THEN Len(s) ELSE f[n - 1] + Additional(s[n])]
<1>0. Len(s) \in Nat
  OBVIOUS
<1>1. pass \in [1 .. Len(s) -> [Nat -> Nat]]
  <2>1. \A n \in 1 .. Len(s) : Additional(s[n]) \in Nat
    BY AdditionalType
  <2>2. QED
    BY <2>1
<1>2. PICK f \in [0 .. Len(s) -> Nat] : IsLoop(f, Len(s), Len(s), pass)
  <2> HIDE DEF pass
  <2> QED
    BY <1>0, <1>1, LoopExists
<1>3. f = body(f)
  <2>1. ASSUME NEW n \in 0 .. Len(s)
        PROVE  f[n] = IF n = 0 THEN Len(s) ELSE f[n - 1] + Additional(s[n])
    <3>1. CASE n = 0
      BY <1>2, <3>1 DEF IsLoop
    <3>2. CASE n # 0
      <4>1. n \in 1 .. Len(s) /\ n - 1 \in 0 .. Len(s)
        BY <1>0, <3>2
      <4>2. f[n] = pass[n][f[n - 1]] /\ f[n - 1] \in Nat
        BY <1>0, <1>2, <4>1 DEF IsLoop
      <4>3. QED
        BY <3>2, <4>1, <4>2
    <3>3. QED
      BY <3>1, <3>2
  <2>2. QED
    BY <2>1
<1>4. Counted(s) = CHOOSE g : g = body(g)
  BY DEF Counted
<1>5. Counted(s) = body(Counted(s))
  <2> HIDE DEF body
  <2> QED
    BY <1>3, <1>4
<1>6. QED
  BY <1>0, <1>5

LEMMA WrittenLoop ==
  ASSUME NEW s \in Seq(Byte)
  PROVE  /\ WrittenUpTo(s)[0] = <<>>
         /\ \A n \in 1 .. Len(s) : WrittenUpTo(s)[n] = WrittenUpTo(s)[n - 1] \o Written(s[n])
<1> DEFINE pass == [n \in 1 .. Len(s) |-> [t \in Seq(Byte) |-> t \o Written(s[n])]]
           body(f) == [n \in 0 .. Len(s) |->
                         IF n = 0 THEN <<>> ELSE f[n - 1] \o Written(s[n])]
<1>0. Len(s) \in Nat /\ <<>> \in Seq(Byte)
  OBVIOUS
<1>1. pass \in [1 .. Len(s) -> [Seq(Byte) -> Seq(Byte)]]
  <2>1. \A n \in 1 .. Len(s) : Written(s[n]) \in Seq(Byte)
    BY WrittenLength
  <2>2. QED
    BY <2>1
<1>2. PICK f \in [0 .. Len(s) -> Seq(Byte)] : IsLoop(f, Len(s), <<>>, pass)
  <2> HIDE DEF pass
  <2> QED
    BY <1>0, <1>1, LoopExists
<1>3. f = body(f)
  <2>1. ASSUME NEW n \in 0 .. Len(s)
        PROVE  f[n] = IF n = 0 THEN <<>> ELSE f[n - 1] \o Written(s[n])
    <3>1. CASE n = 0
      BY <1>2, <3>1 DEF IsLoop
    <3>2. CASE n # 0
      <4>1. n \in 1 .. Len(s) /\ n - 1 \in 0 .. Len(s)
        BY <1>0, <3>2
      <4>2. f[n] = pass[n][f[n - 1]] /\ f[n - 1] \in Seq(Byte)
        BY <1>0, <1>2, <4>1 DEF IsLoop
      <4>3. QED
        BY <3>2, <4>1, <4>2
    <3>3. QED
      BY <3>1, <3>2
  <2>2. QED
    BY <2>1
<1>4. WrittenUpTo(s) = CHOOSE g : g = body(g)
  BY DEF WrittenUpTo
<1>5. WrittenUpTo(s) = body(WrittenUpTo(s))
  <2> HIDE DEF body
  <2> QED
    BY <1>3, <1>4
<1>6. \A n \in 0 .. Len(s) : WrittenUpTo(s)[n] = body(WrittenUpTo(s))[n]
  <2> HIDE DEF body
  <2> QED
    BY <1>5
<1>7. ASSUME NEW n \in 0 .. Len(s)
      PROVE  WrittenUpTo(s)[n] = IF n = 0 THEN <<>> ELSE WrittenUpTo(s)[n - 1] \o Written(s[n])
  BY <1>6
<1>8. WrittenUpTo(s)[0] = <<>>
  BY <1>0, <1>7
<1>9. ASSUME NEW n \in 1 .. Len(s)
      PROVE  WrittenUpTo(s)[n] = WrittenUpTo(s)[n - 1] \o Written(s[n])
  <2>1. n \in 0 .. Len(s) /\ n # 0
    BY <1>0
  <2>2. QED
    BY <2>1, <1>7
<1>10. QED
  BY <1>8, <1>9

(* The passes agree after every character: what the first has counted is   *)
(* what the second has written and what is left to do.                     *)
LEMMA PassesAgree ==
  ASSUME NEW s \in Seq(Byte)
  PROVE  \A n \in 0 .. Len(s) :
           /\ WrittenUpTo(s)[n] \in Seq(Byte) /\ Counted(s)[n] \in Nat
           /\ Len(WrittenUpTo(s)[n]) + Len(s) = n + Counted(s)[n]
           /\ Len(WrittenUpTo(s)[n]) >= n
<1> DEFINE S == {n \in 0 .. Len(s) :
                   /\ WrittenUpTo(s)[n] \in Seq(Byte) /\ Counted(s)[n] \in Nat
                   /\ Len(WrittenUpTo(s)[n]) + Len(s) = n + Counted(s)[n]
                   /\ Len(WrittenUpTo(s)[n]) >= n}
<1>0. Len(s) \in Nat
  OBVIOUS
<1>1. 0 \in S
  <2>1. WrittenUpTo(s)[0] = <<>> /\ Counted(s)[0] = Len(s)
    BY CountedLoop, WrittenLoop
  <2>2. WrittenUpTo(s)[0] \in Seq(Byte) /\ Len(WrittenUpTo(s)[0]) = 0
    BY <2>1
  <2>3. 0 \in 0 .. Len(s)
    BY <1>0
  <2>4. /\ Len(WrittenUpTo(s)[0]) + Len(s) = 0 + Counted(s)[0]
        /\ Len(WrittenUpTo(s)[0]) >= 0 /\ Counted(s)[0] \in Nat
    BY <1>0, <2>1, <2>2
  <2>5. QED
    BY <2>2, <2>3, <2>4
<1>2. ASSUME NEW n \in 1 .. Len(s), n - 1 \in S PROVE n \in S
  <2> DEFINE text == WrittenUpTo(s)[n - 1]
             piece == Written(s[n])
  <2>1. s[n] \in Byte /\ Additional(s[n]) \in Nat
    BY AdditionalType
  <2>2. piece \in Seq(Byte) /\ Len(piece) = 1 + Additional(s[n])
    BY <2>1, WrittenLength
  <2>3. WrittenUpTo(s)[n] = text \o piece
    BY WrittenLoop
  <2>11. Counted(s)[n] = Counted(s)[n - 1] + Additional(s[n])
    BY CountedLoop
  <2>4. /\ text \in Seq(Byte) /\ Counted(s)[n - 1] \in Nat
        /\ Len(text) + Len(s) = n - 1 + Counted(s)[n - 1] /\ Len(text) >= n - 1
    BY <1>2
  <2>5. text \o piece \in Seq(Byte) /\ Len(text \o piece) = Len(text) + Len(piece)
    <3> HIDE DEF text, piece
    <3> QED
      BY <2>2, <2>4, ConcatProperties
  <2>6. n \in 0 .. Len(s) /\ n - 1 \in Int
    BY <1>0
  <2>7. Counted(s)[n] \in Nat
    BY <2>1, <2>4, <2>11
  <2>8. /\ WrittenUpTo(s)[n] \in Seq(Byte)
        /\ Len(WrittenUpTo(s)[n]) = Len(text) + 1 + Additional(s[n])
    <3> HIDE DEF text, piece
    <3> QED
      BY <2>1, <2>2, <2>3, <2>4, <2>5
  <2>9. /\ Len(WrittenUpTo(s)[n]) + Len(s) = n + Counted(s)[n]
        /\ Len(WrittenUpTo(s)[n]) >= n
    <3>1. Len(text) \in Nat
      BY <2>4
    <3> DEFINE written == Len(text)
               more    == Additional(s[n])
               count   == Counted(s)[n - 1]
               size    == Len(s)
    <3>2. /\ written \in Nat /\ more \in Nat /\ count \in Nat /\ size \in Nat
          /\ written + size = n - 1 + count /\ written >= n - 1
      BY <1>0, <2>1, <2>4, <3>1
    <3>3. Len(WrittenUpTo(s)[n]) = written + 1 + more /\ Counted(s)[n] = count + more
      BY <2>8, <2>11
    <3>4. written + 1 + more + size = n + (count + more) /\ written + 1 + more >= n
      <4> HIDE DEF written, more, count, size
      <4> QED
        BY <2>6, <3>2
    <3>5. QED
      BY <3>3, <3>4
  <2>10. QED
    BY <2>6, <2>7, <2>8, <2>9
<1>3. 0 .. Len(s) \subseteq S
  <2> HIDE DEF S
  <2> QED
    BY <1>0, <1>1, <1>2, InductTo
<1>4. QED
  BY <1>3

(* The place of the closing quote, which the first pass computes, is where *)
(* the second pass ends: nothing stale is left between text and quote.     *)
THEOREM NothingStale ==
  ASSUME NEW s \in Seq(Byte)
  PROVE  JsonPrintString(s) = <<Quote>> \o WrittenUpTo(s)[Len(s)] \o <<Quote, End>>
<1> DEFINE text == WrittenUpTo(s)[Len(s)]
           byte == [i \in 1 .. OutputLength(s) |-> IF i <= Len(text) THEN text[i] ELSE Stale]
<1>1. text \in Seq(Byte) /\ Len(text) = OutputLength(s)
  <2>1. Len(s) \in Nat /\ Len(s) \in 0 .. Len(s)
    OBVIOUS
  <2>2. /\ text \in Seq(Byte) /\ Counted(s)[Len(s)] \in Nat
        /\ Len(text) + Len(s) = Len(s) + Counted(s)[Len(s)]
    BY <2>1, PassesAgree
  <2>3. Len(text) \in Nat
    BY <2>2
  <2>4. QED
    BY <2>1, <2>2, <2>3 DEF OutputLength
<1>2. byte = text
  <2> HIDE DEF text
  <2> QED
    BY <1>1
<1>3. QED
  BY <1>2 DEF JsonPrintString

(* A pass never changes what an earlier one has written.                   *)
LEMMA TextGrows ==
  ASSUME NEW s \in Seq(Byte)
  PROVE  \A m \in 0 .. Len(s) : \A k \in 0 .. m :
           /\ Len(WrittenUpTo(s)[k]) <= Len(WrittenUpTo(s)[m])
           /\ \A i \in 1 .. Len(WrittenUpTo(s)[k]) : WrittenUpTo(s)[m][i] = WrittenUpTo(s)[k][i]
<1> DEFINE Grown(k, m) ==
             /\ Len(WrittenUpTo(s)[k]) <= Len(WrittenUpTo(s)[m])
             /\ \A i \in 1 .. Len(WrittenUpTo(s)[k]) :
                  WrittenUpTo(s)[m][i] = WrittenUpTo(s)[k][i]
           S == {m \in 0 .. Len(s) : \A k \in 0 .. m : Grown(k, m)}
<1>0. Len(s) \in Nat
  OBVIOUS
<1>1. \A n \in 0 .. Len(s) : Len(WrittenUpTo(s)[n]) \in Nat
  BY PassesAgree
<1>2. 0 \in S
  <2>1. 0 \in 0 .. Len(s)
    BY <1>0
  <2>2. \A k \in 0 .. 0 : Grown(k, 0)
    BY <1>1, <2>1
  <2> HIDE DEF Grown
  <2>3. QED
    BY <2>1, <2>2
<1>3. ASSUME NEW m \in 1 .. Len(s), m - 1 \in S PROVE m \in S
  <2> DEFINE text  == WrittenUpTo(s)[m - 1]
             piece == Written(s[m])
  <2>1. /\ m \in 0 .. Len(s) /\ m - 1 \in 0 .. Len(s) /\ s[m] \in Byte
    BY <1>0
  <2>2. text \in Seq(Byte) /\ piece \in Seq(Byte)
    BY <2>1, PassesAgree, WrittenLength
  <2>3. WrittenUpTo(s)[m] = text \o piece
    BY WrittenLoop
  <2>4. /\ Len(text \o piece) = Len(text) + Len(piece)
        /\ \A i \in 1 .. Len(text) : (text \o piece)[i] = text[i]
        /\ Len(text) \in Nat /\ Len(piece) \in Nat
    <3> HIDE DEF text, piece
    <3> QED
      BY <2>2, ConcatProperties
  <2>5. Grown(m - 1, m)
    <3>1. /\ Len(text) <= Len(WrittenUpTo(s)[m])
          /\ \A i \in 1 .. Len(text) : WrittenUpTo(s)[m][i] = text[i]
      <4> HIDE DEF text, piece
      <4> QED
        BY <2>3, <2>4
    <3>2. QED
      BY <3>1
  <2>6. ASSUME NEW k \in 0 .. m PROVE Grown(k, m)
    <3>1. CASE k = m
      BY <1>1, <2>1, <3>1
    <3>2. CASE k # m
      <4>1. k \in 0 .. m - 1 /\ k \in 0 .. Len(s)
        BY <3>2
      <4>2. Grown(k, m - 1)
        <5> HIDE DEF Grown
        <5> QED
          BY <1>3, <4>1
      <4>3. /\ Len(WrittenUpTo(s)[k]) \in Nat /\ Len(WrittenUpTo(s)[m - 1]) \in Nat
            /\ Len(WrittenUpTo(s)[m]) \in Nat
        BY <1>1, <2>1, <4>1
      <4>4. QED
        BY <2>5, <4>2, <4>3
    <3>3. QED
      BY <3>1, <3>2
  <2> HIDE DEF Grown
  <2>7. QED
    BY <2>1, <2>6
<1>4. 0 .. Len(s) \subseteq S
  <2> HIDE DEF S
  <2> QED
    BY <1>0, <1>2, <1>3, InductTo
<1>5. QED
  BY <1>4

(* Where each character's escape stands in the text.                       *)
LEMMA TextPieces ==
  ASSUME NEW s \in Seq(Byte), NEW n \in 1 .. Len(s)
  PROVE  /\ Len(WrittenUpTo(s)[n]) = Len(WrittenUpTo(s)[n - 1]) + Len(Written(s[n]))
         /\ Len(WrittenUpTo(s)[n]) <= Len(WrittenUpTo(s)[Len(s)])
         /\ \A i \in 1 .. Len(Written(s[n])) :
              WrittenUpTo(s)[Len(s)][Len(WrittenUpTo(s)[n - 1]) + i] = Written(s[n])[i]
<1> DEFINE text  == WrittenUpTo(s)[n - 1]
           piece == Written(s[n])
           all   == WrittenUpTo(s)[Len(s)]
<1>1. /\ n \in 0 .. Len(s) /\ n - 1 \in 0 .. Len(s) /\ Len(s) \in 0 .. Len(s)
      /\ s[n] \in Byte /\ n \in 0 .. Len(s)
  OBVIOUS
<1>2. text \in Seq(Byte) /\ piece \in Seq(Byte) /\ all \in Seq(Byte)
  BY <1>1, PassesAgree, WrittenLength
<1>3. WrittenUpTo(s)[n] = text \o piece
  BY WrittenLoop
<1>4. /\ Len(WrittenUpTo(s)[n]) <= Len(all)
      /\ \A i \in 1 .. Len(WrittenUpTo(s)[n]) : all[i] = WrittenUpTo(s)[n][i]
  BY <1>1, TextGrows
<1>5. /\ Len(text \o piece) = Len(text) + Len(piece)
      /\ \A i \in 1 .. Len(piece) : (text \o piece)[Len(text) + i] = piece[i]
      /\ Len(text) \in Nat /\ Len(piece) \in Nat
  <2> HIDE DEF text, piece
  <2>1. /\ Len(text \o piece) = Len(text) + Len(piece) /\ Len(text) \in Nat /\ Len(piece) \in Nat
    BY <1>2, ConcatProperties
  <2>2. \A i \in 1 .. Len(piece) : (text \o piece)[Len(text) + i] = piece[i]
    BY <1>2
  <2>3. QED
    BY <2>1, <2>2
<1>6. \A i \in 1 .. Len(piece) : all[Len(text) + i] = piece[i]
  <2> HIDE DEF text, piece, all
  <2> QED
    BY <1>3, <1>4, <1>5
<1>7. Len(WrittenUpTo(s)[n]) = Len(text) + Len(piece)
  <2> HIDE DEF text, piece, all
  <2> QED
    BY <1>3, <1>5
<1>8. QED
  BY <1>4, <1>6, <1>7

-----------------------------------------------------------------------------
(* The reader.                                                             *)
LEMMA MeaningFacts ==
  /\ Meaning(117) = {}
  /\ \A c \in DOMAIN Letter : Meaning(Letter[c]) = {c}
  BY LetterFacts DEF Meaning

LEMMA HexInverts ==
  ASSUME NEW d \in 0 .. 15
  PROVE  HexValue(HexDigit(d)) = d
<1>1. CASE d < 10
  BY <1>1 DEF HexValue, HexDigit
<1>2. CASE d >= 10
  BY <1>2 DEF HexValue, HexDigit
<1>3. QED
  BY <1>1, <1>2

(* The two digits of a control character.                                  *)
LEMMA Digits ==
  ASSUME NEW c \in 0 .. 31
  PROVE  c \div 16 \in 0 .. 15 /\ c % 16 \in 0 .. 15 /\ 16 * (c \div 16) + (c % 16) = c
  OBVIOUS

LEMMA WrittenForms ==
  ASSUME NEW c \in Byte
  PROVE  \/ c > 31 /\ c # Quote /\ c # Backslash /\ Written(c) = <<c>>
         \/ c \in DOMAIN Letter /\ Written(c) = <<Backslash, Letter[c]>>
         \/ /\ c \in 0 .. 31
            /\ Written(c) = <<Backslash, 117, 48, 48, HexDigit(c \div 16), HexDigit(c % 16)>>
<1> USE DEF Byte, Quote, Backslash
<1>1. CASE c > 31 /\ c # Quote /\ c # Backslash
  BY <1>1 DEF Written
<1>2. CASE c \in DOMAIN Letter
  <2>1. ~ (c > 31 /\ c # Quote /\ c # Backslash)
    BY <1>2, LetterFacts
  <2>2. QED
    BY <1>2, <2>1 DEF Written
<1>3. CASE c < 32 /\ c \notin DOMAIN Letter
  <2>1. ~ (c > 31 /\ c # Quote /\ c # Backslash) /\ c \in 0 .. 31
    BY <1>3
  <2>2. QED
    BY <1>3, <2>1 DEF Written
<1>4. QED
  BY <1>1, <1>2, <1>3, LetterFacts

(* The reader takes the escape of a character for that character.          *)
LEMMA ReadsPiece ==
  ASSUME NEW t \in Seq(Int), NEW at \in Nat \ {0}, NEW got, NEW c \in Byte,
         at + Len(Written(c)) <= Len(t),
         \A i \in 1 .. Len(Written(c)) : t[at + i - 1] = Written(c)[i]
  PROVE  ReadOne(t, at, got) = Reading(at + Len(Written(c)), Append(got, c))
<1> USE DEF Quote, Backslash
<1>0. c \in 1 .. 255 /\ Len(t) \in Nat
  BY DEF Byte
<1>1. CASE c > 31 /\ c # Quote /\ c # Backslash /\ Written(c) = <<c>>
  <2>1. Written(c) = <<c>>
    BY <1>1
  <2>2. Len(Written(c)) = 1 /\ t[at] = c
    BY <2>1
  <2>3. QED
    BY <1>0, <1>1, <2>2 DEF ReadOne
<1>2. CASE c \in DOMAIN Letter /\ Written(c) = <<Backslash, Letter[c]>>
  <2>1. Written(c) = <<Backslash, Letter[c]>>
    BY <1>2
  <2>2. /\ Len(Written(c)) = 2
        /\ t[at + 1 - 1] = Backslash /\ t[at + 2 - 1] = Letter[c]
    BY <2>1
  <2>3. t[at] = Backslash /\ t[at + 1] = Letter[c]
    BY <2>2
  <2>4. Meaning(t[at + 1]) = {c}
    BY <1>2, <2>3, MeaningFacts
  <2>5. Meaning(t[at + 1]) # {} /\ (CHOOSE e \in Meaning(t[at + 1]) : TRUE) = c
    BY <2>4
  <2>6. ~ (at + 1 > Len(t)) /\ ~ (t[at] < 32) /\ t[at] # Quote
    BY <1>0, <2>2, <2>3
  <2> HIDE DEF Quote, Backslash
  <2>7. ReadOne(t, at, got) = Reading(at + 2, Append(got, c))
    BY <2>3, <2>5, <2>6 DEF ReadOne
  <2>8. QED
    BY <2>2, <2>7
<1>3. CASE /\ c \in 0 .. 31
           /\ Written(c) = <<Backslash, 117, 48, 48, HexDigit(c \div 16), HexDigit(c % 16)>>
  <2> DEFINE high == c \div 16
             low  == c % 16
  <2>1. high \in 0 .. 15 /\ low \in 0 .. 15 /\ 16 * high + low = c
    BY <1>3, Digits
  <2>2. Written(c) = <<Backslash, 117, 48, 48, HexDigit(high), HexDigit(low)>>
    BY <1>3
  <2>3. Len(Written(c)) = 6
    <3> HIDE DEF high, low
    <3> QED
      BY <2>2
  <2>4. /\ t[at] = Backslash /\ t[at + 1] = 117 /\ t[at + 2] = 48 /\ t[at + 3] = 48
        /\ t[at + 4] = HexDigit(high) /\ t[at + 5] = HexDigit(low)
    <3> HIDE DEF high, low
    <3>1. \A i \in 1 .. 6 : t[at + i - 1] = Written(c)[i]
      BY <2>3
    <3>2. /\ t[at + 1 - 1] = Written(c)[1] /\ t[at + 2 - 1] = Written(c)[2]
          /\ t[at + 3 - 1] = Written(c)[3] /\ t[at + 4 - 1] = Written(c)[4]
          /\ t[at + 5 - 1] = Written(c)[5] /\ t[at + 6 - 1] = Written(c)[6]
      BY <3>1
    <3>3. /\ at + 1 - 1 = at /\ at + 2 - 1 = at + 1 /\ at + 3 - 1 = at + 2
          /\ at + 4 - 1 = at + 3 /\ at + 5 - 1 = at + 4 /\ at + 6 - 1 = at + 5
      OBVIOUS
    <3>4. /\ Written(c)[1] = Backslash /\ Written(c)[2] = 117 /\ Written(c)[3] = 48
          /\ Written(c)[4] = 48 /\ Written(c)[5] = HexDigit(high)
          /\ Written(c)[6] = HexDigit(low)
      BY <2>2
    <3>5. QED
      BY <3>2, <3>3, <3>4
  <2>5. HexValue(48) = 0 /\ HexValue(HexDigit(high)) = high /\ HexValue(HexDigit(low)) = low
    <3>1. HexValue(48) = 0
      BY DEF HexValue
    <3> HIDE DEF high, low
    <3>2. QED
      BY <2>1, <3>1, HexInverts
  <2>6. /\ at + 2 + 0 = at + 2 /\ at + 2 + 1 = at + 3
        /\ at + 2 + 2 = at + 4 /\ at + 2 + 3 = at + 5
    OBVIOUS
  <2>7. /\ HexValue(t[at + 2 + 0]) = 0 /\ HexValue(t[at + 2 + 1]) = 0
        /\ HexValue(t[at + 2 + 2]) = high /\ HexValue(t[at + 2 + 3]) = low
        /\ HexValue(t[at + 2]) = 0
    <3> HIDE DEF high, low
    <3> QED
      BY <2>4, <2>5, <2>6
  <2>8. Hex(t, at + 2)
    <3> HIDE DEF high, low
    <3>1. ASSUME NEW k \in 0 .. 3 PROVE HexValue(t[at + 2 + k]) >= 0
      <4>1. k = 0 \/ k = 1 \/ k = 2 \/ k = 3
        OBVIOUS
      <4>2. HexValue(t[at + 2 + k]) \in {0, high, low}
        BY <2>7, <4>1
      <4>3. QED
        BY <2>1, <4>2
    <3>2. QED
      BY <3>1 DEF Hex
  <2>9. HexNumber(t, at + 2) = c
    <3> HIDE DEF high, low
    <3>1. HexNumber(t, at + 2) = 4096 * 0 + 256 * 0 + 16 * high + low
      BY <2>7 DEF HexNumber
    <3>2. QED
      BY <2>1, <3>1
  <2>10. /\ ~ (at + 1 > Len(t)) /\ ~ (t[at] < 32) /\ t[at] # Quote
         /\ at + 5 <= Len(t) /\ Meaning(t[at + 1]) = {}
    <3> HIDE DEF high, low
    <3>1. at + 6 <= Len(t)
      BY <2>3
    <3>2. ~ (at + 1 > Len(t)) /\ at + 5 <= Len(t)
      BY <1>0, <3>1
    <3>3. ~ (t[at] < 32) /\ t[at] # Quote
      BY <2>4
    <3>4. Meaning(t[at + 1]) = {}
      BY <2>4, MeaningFacts
    <3>5. QED
      BY <3>2, <3>3, <3>4
  <2> HIDE DEF high, low, Quote, Backslash
  <2>11. ReadOne(t, at, got) = Reading(at + 6, Append(got, c))
    BY <2>4, <2>8, <2>9, <2>10 DEF ReadOne
  <2>12. QED
    BY <2>3, <2>11
<1>4. QED
  BY <1>1, <1>2, <1>3, WrittenForms

(* Where a reader can be, and what it has got by then.                     *)
ReaderStates == [state : {"reading", "finished", "failed"}, at : Nat \ {0}, got : Seq(Int)]

LEMMA ReadOneType ==
  ASSUME NEW t \in Seq(Int), NEW at \in Nat \ {0}, NEW got \in Seq(Int)
  PROVE  ReadOne(t, at, got) \in ReaderStates
<1>0. /\ Failed(at, got) \in ReaderStates /\ Finished(at, got) \in ReaderStates
      /\ \A n \in Nat \ {0} : \A c \in Int : Reading(n, Append(got, c)) \in ReaderStates
  BY DEF Failed, Finished, Reading, ReaderStates
<1>1. Len(t) \in Nat /\ \A i \in 1 .. Len(t) : t[i] \in Int
  OBVIOUS
<1>2. CASE at + 1 > Len(t) \/ t[at] < 32
  BY <1>0, <1>2 DEF ReadOne
<1>3. CASE ~ (at + 1 > Len(t) \/ t[at] < 32)
  <2>1. at \in 1 .. Len(t) /\ t[at] \in Int
    BY <1>1, <1>3
  <2>2. CASE t[at] = Quote
    BY <1>0, <1>3, <2>2 DEF ReadOne
  <2>3. CASE t[at] # Quote /\ t[at] # Backslash
    BY <1>0, <1>3, <2>1, <2>3 DEF ReadOne
  <2>4. CASE t[at] # Quote /\ t[at] = Backslash /\ Meaning(t[at + 1]) # {}
    <3> DEFINE meant == CHOOSE c \in Meaning(t[at + 1]) : TRUE
    <3>1. meant \in Int
      <4>1. meant \in Meaning(t[at + 1])
        BY <2>4
      <4>2. Meaning(t[at + 1]) \subseteq Int
        BY LetterFacts DEF Meaning
      <4>3. QED
        BY <4>1, <4>2
    <3>2. ReadOne(t, at, got) = Reading(at + 2, Append(got, meant))
      BY <1>3, <2>4 DEF ReadOne
    <3> HIDE DEF meant
    <3>3. QED
      BY <1>0, <3>1, <3>2
  <2>5. CASE t[at] # Quote /\ t[at] = Backslash /\ Meaning(t[at + 1]) = {}
    <3>1. CASE t[at + 1] = 117 /\ at + 5 <= Len(t) /\ Hex(t, at + 2)
      <4>1. HexNumber(t, at + 2) \in Int
        <5>1. \A i \in 1 .. Len(t) : HexValue(t[i]) \in Int
          BY <1>1 DEF HexValue
        <5>2. /\ at + 2 \in 1 .. Len(t) /\ at + 2 + 1 \in 1 .. Len(t)
              /\ at + 2 + 2 \in 1 .. Len(t) /\ at + 2 + 3 \in 1 .. Len(t)
          BY <1>1, <3>1
        <5>3. /\ HexValue(t[at + 2]) \in Int /\ HexValue(t[at + 2 + 1]) \in Int
              /\ HexValue(t[at + 2 + 2]) \in Int /\ HexValue(t[at + 2 + 3]) \in Int
          BY <5>1, <5>2
        <5>4. QED
          BY <5>3 DEF HexNumber
      <4>2. ReadOne(t, at, got) = Reading(at + 6, Append(got, HexNumber(t, at + 2)))
        BY <1>3, <2>5, <3>1 DEF ReadOne
      <4>3. QED
        BY <1>0, <4>1, <4>2
    <3>2. CASE ~ (t[at + 1] = 117 /\ at + 5 <= Len(t) /\ Hex(t, at + 2))
      BY <1>0, <1>3, <2>5, <3>2 DEF ReadOne
    <3>3. QED
      BY <3>1, <3>2
  <2>6. QED
    BY <2>2, <2>3, <2>4, <2>5
<1>4. QED
  BY <1>2, <1>3

LEMMA ReaderLoop ==
  ASSUME NEW t \in Seq(Int)
  PROVE  /\ Reader(t)[0] = IF t[1] = Quote THEN Reading(2, <<>>) ELSE Failed(1, <<>>)
         /\ \A n \in 1 .. Len(t) :
              Reader(t)[n] = LET r == Reader(t)[n - 1]
                             IN  IF r.state = "reading" THEN ReadOne(t, r.at, r.got) ELSE r
<1> DEFINE start   == IF t[1] = Quote THEN Reading(2, <<>>) ELSE Failed(1, <<>>)
           next(r) == IF r.state = "reading" THEN ReadOne(t, r.at, r.got) ELSE r
           pass    == [n \in 1 .. Len(t) |-> [r \in ReaderStates |-> next(r)]]
           body(f) == [n \in 0 .. Len(t) |-> IF n = 0 THEN start ELSE next(f[n - 1])]
<1>0. Len(t) \in Nat /\ start \in ReaderStates
  <2>1. Reading(2, <<>>) \in ReaderStates /\ Failed(1, <<>>) \in ReaderStates
    BY DEF Reading, Failed, ReaderStates
  <2>2. QED
    BY <2>1
<1>1. pass \in [1 .. Len(t) -> [ReaderStates -> ReaderStates]]
  <2>1. ASSUME NEW r \in ReaderStates PROVE next(r) \in ReaderStates
    <3>1. r.at \in Nat \ {0} /\ r.got \in Seq(Int)
      BY DEF ReaderStates
    <3>2. ReadOne(t, r.at, r.got) \in ReaderStates
      BY <3>1, ReadOneType
    <3>3. QED
      BY <3>2
  <2> HIDE DEF next
  <2>2. QED
    BY <2>1
<1> HIDE DEF start, next
<1>2. PICK f \in [0 .. Len(t) -> ReaderStates] : IsLoop(f, Len(t), start, pass)
  <2> HIDE DEF pass
  <2> QED
    BY <1>0, <1>1, LoopExists
<1>3. f = body(f)
  <2>1. ASSUME NEW n \in 0 .. Len(t)
        PROVE  f[n] = IF n = 0 THEN start ELSE next(f[n - 1])
    <3>1. CASE n = 0
      BY <1>2, <3>1 DEF IsLoop
    <3>2. CASE n # 0
      <4>1. n \in 1 .. Len(t) /\ n - 1 \in 0 .. Len(t)
        BY <1>0, <3>2
      <4>2. f[n] = pass[n][f[n - 1]] /\ f[n - 1] \in ReaderStates
        BY <1>0, <1>2, <4>1 DEF IsLoop
      <4>3. QED
        BY <3>2, <4>1, <4>2
    <3>3. QED
      BY <3>1, <3>2
  <2>2. QED
    BY <2>1
<1>4. Reader(t) = CHOOSE g : g = body(g)
  BY DEF Reader, start, next
<1>5. Reader(t) = body(Reader(t))
  <2> HIDE DEF body
  <2> QED
    BY <1>3, <1>4
<1>6. \A n \in 0 .. Len(t) : Reader(t)[n] = body(Reader(t))[n]
  <2> HIDE DEF body
  <2> QED
    BY <1>5
<1>7. ASSUME NEW n \in 0 .. Len(t)
      PROVE  Reader(t)[n] = IF n = 0 THEN start ELSE next(Reader(t)[n - 1])
  BY <1>6
<1>8. Reader(t)[0] = start
  BY <1>0, <1>7
<1>9. ASSUME NEW n \in 1 .. Len(t)
      PROVE  Reader(t)[n] = next(Reader(t)[n - 1])
  <2>1. n \in 0 .. Len(t) /\ n # 0
    BY <1>0
  <2>2. QED
    BY <2>1, <1>7
<1>10. QED
  BY <1>8, <1>9 DEF start, next

LEMMA Wider == ASSUME NEW A, NEW B, A \subseteq B, NEW w \in Seq(A) PROVE w \in Seq(B)
<1>1. Len(w) \in Nat /\ w = [i \in 1 .. Len(w) |-> w[i]] /\ \A i \in 1 .. Len(w) : w[i] \in B
  OBVIOUS
<1>2. QED
  BY <1>1

LEMMA Joined ==
  ASSUME NEW A, NEW a \in Seq(A), NEW b \in Seq(A)
  PROVE  /\ a \o b \in Seq(A) /\ Len(a \o b) = Len(a) + Len(b)
         /\ \A i \in 1 .. Len(a) : (a \o b)[i] = a[i]
         /\ \A i \in 1 .. Len(b) : (a \o b)[Len(a) + i] = b[i]
<1>1. a \o b \in Seq(A) /\ Len(a \o b) = Len(a) + Len(b)
  BY ConcatProperties
<1>2. \A i \in 1 .. Len(a) : (a \o b)[i] = a[i]
  BY ConcatProperties
<1>3. \A i \in 1 .. Len(b) : (a \o b)[Len(a) + i] = b[i]
  OBVIOUS
<1>4. QED
  BY <1>1, <1>2, <1>3

(* What is printed is quoted text and the terminator.                      *)
LEMMA PrintedText ==
  ASSUME NEW s \in Seq(Byte), NEW w, w = WrittenUpTo(s)[Len(s)]
  PROVE  /\ w \in Seq(Byte) /\ Len(w) \in Nat /\ Len(w) >= Len(s)
         /\ JsonPrintString(s) \in Seq(Int) /\ Len(JsonPrintString(s)) = Len(w) + 3
         /\ JsonPrintString(s)[1] = Quote
         /\ \A i \in 1 .. Len(w) : JsonPrintString(s)[i + 1] = w[i]
         /\ JsonPrintString(s)[Len(w) + 2] = Quote
         /\ JsonPrintString(s)[Len(w) + 3] = End
<1> DEFINE front == <<Quote>> \o w
           back  == <<Quote, End>>
<1>1. w \in Seq(Byte) /\ Len(w) \in Nat /\ Len(w) >= Len(s)
  <2>1. Len(s) \in 0 .. Len(s)
    OBVIOUS
  <2>2. QED
    BY <2>1, PassesAgree
<1>2. w \in Seq(Int)
  <2>1. Byte \subseteq Int
    BY DEF Byte
  <2>2. QED
    BY <1>1, <2>1, Wider
<1>3. JsonPrintString(s) = front \o back
  BY NothingStale
<1>4. /\ front \in Seq(Int) /\ Len(front) = Len(w) + 1 /\ front[1] = Quote
      /\ \A i \in 1 .. Len(w) : front[i + 1] = w[i]
  BY <1>1, <1>2 DEF Quote
<1>5. back \in Seq(Int) /\ Len(back) = 2 /\ back[1] = Quote /\ back[2] = End
  BY DEF Quote, End
<1> HIDE DEF front, back
<1>6. /\ front \o back \in Seq(Int) /\ Len(front \o back) = Len(w) + 3
      /\ \A i \in 1 .. Len(w) + 1 : (front \o back)[i] = front[i]
      /\ (front \o back)[Len(w) + 2] = back[1] /\ (front \o back)[Len(w) + 3] = back[2]
  <2>1. /\ front \o back \in Seq(Int) /\ Len(front \o back) = Len(front) + Len(back)
        /\ \A i \in 1 .. Len(front) : (front \o back)[i] = front[i]
        /\ \A i \in 1 .. Len(back) : (front \o back)[Len(front) + i] = back[i]
    <3>1. front \in Seq(Int) /\ back \in Seq(Int)
      BY <1>4, <1>5
    <3>2. front \o back \in Seq(Int) /\ Len(front \o back) = Len(front) + Len(back)
      BY <3>1, ConcatProperties
    <3>3. \A i \in 1 .. Len(front) : (front \o back)[i] = front[i]
      BY <3>1, Joined
    <3>4. \A i \in 1 .. Len(back) : (front \o back)[Len(front) + i] = back[i]
      BY <3>1, Joined
    <3>5. QED
      BY <3>2, <3>3, <3>4
  <2>4. /\ 1 \in 1 .. Len(back) /\ 2 \in 1 .. Len(back)
        /\ Len(front) + 1 = Len(w) + 2 /\ Len(front) + 2 = Len(w) + 3
        /\ Len(front) + Len(back) = Len(w) + 3
    BY <1>1, <1>4, <1>5
  <2>5. (front \o back)[Len(w) + 2] = back[1] /\ (front \o back)[Len(w) + 3] = back[2]
    BY <2>1, <2>4
  <2>6. QED
    BY <1>4, <2>1, <2>4, <2>5
<1>7. 1 \in 1 .. Len(w) + 1 /\ \A i \in 1 .. Len(w) : i + 1 \in 1 .. Len(w) + 1
  BY <1>1
<1>8. QED
  BY <1>1, <1>3, <1>4, <1>5, <1>6, <1>7

(* A name on a page means that name: for every string, of whatever length, *)
(* what json_print_string has printed is read as the string it was given   *)
(* (json.c:62-141).                                                        *)
THEOREM EscapeInverts == \A s \in Seq(Byte) : Read(JsonPrintString(s)) = s
<1>1. SUFFICES ASSUME NEW s \in Seq(Byte) PROVE Read(JsonPrintString(s)) = s
  OBVIOUS
<1> DEFINE N      == Len(s)
           w      == WrittenUpTo(s)[N]
           t      == JsonPrintString(s)
           got(n) == SubSeq(s, 1, n)
           S == {n \in 0 .. N : Reader(t)[n] = Reading(2 + Len(WrittenUpTo(s)[n]), got(n))}
<1>2. N \in Nat /\ 0 \in 0 .. N /\ N \in 0 .. N
  OBVIOUS
<1>3. /\ w \in Seq(Byte) /\ Len(w) \in Nat /\ Len(w) >= N
      /\ t \in Seq(Int) /\ Len(t) = Len(w) + 3 /\ t[1] = Quote
      /\ \A i \in 1 .. Len(w) : t[i + 1] = w[i]
      /\ t[Len(w) + 2] = Quote /\ t[Len(w) + 3] = End
  BY PrintedText
<1>4. \A n \in 0 .. N : got(n) \in Seq(Byte) /\ Len(WrittenUpTo(s)[n]) \in Nat
  BY PassesAgree
<1> HIDE DEF t
<1>5. 0 \in S
  <2>1. Reader(t)[0] = Reading(2, <<>>)
    BY <1>3, ReaderLoop
  <2>2. WrittenUpTo(s)[0] = <<>>
    BY WrittenLoop
  <2>3. 2 + Len(WrittenUpTo(s)[0]) = 2
    BY <2>2
  <2>4. got(0) = <<>>
    OBVIOUS
  <2>5. Reader(t)[0] = Reading(2 + Len(WrittenUpTo(s)[0]), got(0))
    <3> HIDE DEF got
    <3> QED
      BY <2>1, <2>3, <2>4
  <2>6. QED
    BY <1>2, <2>5
<1>6. ASSUME NEW n \in 1 .. N, n - 1 \in S PROVE n \in S
  <2> DEFINE at    == 2 + Len(WrittenUpTo(s)[n - 1])
             piece == Written(s[n])
             c     == s[n]
  <2>1. /\ n \in 0 .. N /\ n - 1 \in 0 .. N /\ c \in Byte
        /\ Len(WrittenUpTo(s)[n - 1]) \in Nat /\ at \in Nat \ {0}
    BY <1>2, <1>4
  <2>2. /\ Len(WrittenUpTo(s)[n]) = Len(WrittenUpTo(s)[n - 1]) + Len(piece)
        /\ Len(WrittenUpTo(s)[n]) <= Len(w)
        /\ \A i \in 1 .. Len(piece) : w[Len(WrittenUpTo(s)[n - 1]) + i] = piece[i]
    BY TextPieces
  <2>3. Len(piece) \in Nat
    BY <2>1, WrittenLength
  <2>4. at + Len(piece) <= Len(t)
    <3> HIDE DEF w, piece
    <3> QED
      BY <1>3, <2>1, <2>2, <2>3
  <2>5. ASSUME NEW i \in 1 .. Len(piece)
        PROVE  t[at + i - 1] = piece[i]
    <3> DEFINE j == Len(WrittenUpTo(s)[n - 1]) + i
    <3>1. j \in 1 .. Len(w)
      <4>1. i \in Nat \ {0} /\ i <= Len(piece)
        BY <2>3
      <4>2. /\ Len(WrittenUpTo(s)[n - 1]) + Len(piece) <= Len(w)
            /\ Len(w) \in Nat /\ Len(WrittenUpTo(s)[n - 1]) \in Nat
        BY <1>3, <2>1, <2>2
      <4> HIDE DEF w, piece
      <4>3. QED
        BY <2>3, <4>1, <4>2
    <3>2. at + i - 1 = j + 1
      <4> HIDE DEF piece
      <4> QED
        BY <2>1, <2>3
    <3>3. t[j + 1] = w[j] /\ w[j] = piece[i]
      <4>1. t[j + 1] = w[j]
        <5> HIDE DEF j, w
        <5> QED
          BY <1>3, <3>1
      <4>2. QED
        BY <2>2, <4>1
    <3>4. QED
      BY <3>2, <3>3
  <2>6. ReadOne(t, at, got(n - 1)) = Reading(at + Len(piece), Append(got(n - 1), c))
    <3> HIDE DEF at, got
    <3> QED
      BY <1>3, <2>1, <2>4, <2>5, ReadsPiece
  <2>7. Reader(t)[n - 1] = Reading(at, got(n - 1))
    BY <1>6
  <2>8. n \in 1 .. Len(t)
    <3> HIDE DEF w
    <3> QED
      BY <1>2, <1>3
  <2>9. Reader(t)[n] = ReadOne(t, at, got(n - 1))
    <3> HIDE DEF at, got
    <3>1. Reader(t)[n] = LET r == Reader(t)[n - 1]
                         IN  IF r.state = "reading" THEN ReadOne(t, r.at, r.got) ELSE r
      BY <1>3, <2>8, ReaderLoop
    <3>2. QED
      BY <2>7, <3>1 DEF Reading
  <2>10. Append(got(n - 1), c) = got(n)
    BY <1>2, <2>1
  <2>11. at + Len(piece) = 2 + Len(WrittenUpTo(s)[n])
    <3> HIDE DEF piece
    <3> QED
      BY <2>1, <2>2, <2>3
  <2>12. Reader(t)[n] = Reading(2 + Len(WrittenUpTo(s)[n]), got(n))
    <3> HIDE DEF at, got, piece
    <3> QED
      BY <2>6, <2>9, <2>10, <2>11
  <2>13. QED
    BY <2>1, <2>12
<1>7. Reader(t)[N] = Reading(2 + Len(w), s)
  <2>1. 0 .. N \subseteq S
    <3> HIDE DEF S
    <3> QED
      BY <1>2, <1>5, <1>6, InductTo
  <2>2. Reader(t)[N] = Reading(2 + Len(w), got(N))
    BY <1>2, <2>1
  <2>3. got(N) = s
    OBVIOUS
  <2>4. QED
    BY <2>2, <2>3
<1>8. N + 1 \in 1 .. Len(t) /\ (N + 1) - 1 = N
  <2> HIDE DEF w
  <2> QED
    BY <1>2, <1>3
<1>9. Reader(t)[N + 1] = Finished(2 + Len(w), s)
  <2>1. Reader(t)[N + 1] = ReadOne(t, 2 + Len(w), s)
    <3> HIDE DEF w, N
    <3>1. Reader(t)[N + 1] = LET r == Reader(t)[N]
                             IN  IF r.state = "reading" THEN ReadOne(t, r.at, r.got) ELSE r
      BY <1>3, <1>8, ReaderLoop
    <3>2. QED
      BY <1>7, <3>1 DEF Reading
  <2>2. /\ ~ (2 + Len(w) + 1 > Len(t)) /\ t[2 + Len(w)] = Quote /\ 2 + Len(w) + 1 = Len(t)
        /\ t[2 + Len(w) + 1] = End
    <3>1. 2 + Len(w) = Len(w) + 2 /\ 2 + Len(w) + 1 = Len(w) + 3
      <4> HIDE DEF w
      <4> QED
        BY <1>3
    <3> HIDE DEF w
    <3>2. QED
      BY <1>3, <3>1
  <2>3. ReadOne(t, 2 + Len(w), s) = Finished(2 + Len(w), s)
    <3> HIDE DEF w
    <3>1. ~ (t[2 + Len(w)] < 32)
      BY <2>2 DEF Quote
    <3>2. QED
      BY <2>2, <3>1 DEF ReadOne
  <2>4. QED
    BY <2>1, <2>3
<1>10. Reader(t)[Len(t)] = Finished(2 + Len(w), s)
  <2> DEFINE done == Finished(2 + Len(w), s)
             D == {m \in 0 .. Len(t) : m >= N + 1 => Reader(t)[m] = done}
  <2>1. Len(t) \in Nat
    BY <1>3
  <2>2. 0 \in D
    BY <1>2, <2>1
  <2>3. ASSUME NEW m \in 1 .. Len(t), m - 1 \in D PROVE m \in D
    <3>1. m \in 0 .. Len(t)
      BY <2>1
    <3>2. CASE m < N + 1
      BY <1>2, <3>1, <3>2
    <3>3. CASE m = N + 1
      BY <1>9, <3>1, <3>3
    <3>4. CASE m > N + 1
      <4>1. Reader(t)[m - 1] = done
        BY <1>2, <2>3, <3>4
      <4>2. done.state # "reading"
        BY DEF Finished
      <4> HIDE DEF done
      <4>3. Reader(t)[m] = LET r == Reader(t)[m - 1]
                           IN  IF r.state = "reading" THEN ReadOne(t, r.at, r.got) ELSE r
        BY <1>3, ReaderLoop
      <4>4. Reader(t)[m] = done
        BY <4>1, <4>2, <4>3
      <4>5. QED
        BY <3>1, <4>4
    <3>5. QED
      BY <1>2, <3>1, <3>2, <3>3, <3>4
  <2>4. 0 .. Len(t) \subseteq D
    <3> HIDE DEF D
    <3> QED
      BY <2>1, <2>2, <2>3, InductTo
  <2>5. Len(t) \in 0 .. Len(t) /\ Len(t) >= N + 1
    BY <1>8, <2>1
  <2>6. QED
    BY <2>4, <2>5
<1>11. Read(t) = s
  BY <1>10 DEF Read, Finished
<1>12. QED
  BY <1>11 DEF t
=============================================================================
