------------------------------ MODULE PemText ------------------------------
(***************************************************************************)
(* How a PEM text travels in a message: pickpemcert, replace_chr and       *)
(* replace_str_all (src/configure.c), and their use in src/main.c.  Texts  *)
(* are sequences of character codes, without the terminator; the two       *)
(* marker lines of a certificate are one character each.                   *)
(***************************************************************************)
EXTENDS Integers, Sequences

CONSTANT MaxPem   \* stands for the 1000 bytes of newdevicecert

ASSUME PemAssumption == MaxPem \in Nat

Newline   == 10
Return    == 13
Backslash == 92
LetterN   == 110
Begin     == -1   \* PEM_CERT_BEGIN
Finish    == -2   \* PEM_CERT_END

(* ATCA_BAD_PARAM; memcpy with a negative length, of which anything may    *)
(* come, a reset at best.  No text from a message begins like these.       *)
Refused   == <<0>>
Overrun   == <<1>>

(* strstr from a position; 0 is NULL.                                      *)
Find(text, what, from) ==
  LET found == {i \in from .. Len(text) - Len(what) + 1 :
                  SubSeq(text, i, i + Len(what) - 1) = what}
  IN  IF found = {} THEN 0
      ELSE CHOOSE i \in found : \A k \in found : i <= k

(* A pass of the loop of replace_chr and replace_str_all.  The search goes *)
(* on at the place of the match, in the text that is already shorter or    *)
(* longer; without a match there is nothing left to do.                    *)
(* Mutant: it goes on behind the characters that were replaced.            *)
Replace_SkipsOn(state, what, with) ==
  LET at == Find(state.text, what, state.from)
  IN  IF at = 0 THEN state
      ELSE [text |-> SubSeq(state.text, 1, at - 1) \o with
                       \o SubSeq(state.text, at + Len(what), Len(state.text)),
            from |-> at + Len(what)]

Replace(state, what, with) ==
  LET at == Find(state.text, what, state.from)
  IN  IF at = 0 THEN state
      ELSE [text |-> SubSeq(state.text, 1, at - 1) \o with
                       \o SubSeq(state.text, at + Len(what), Len(state.text)),
            from |-> at]

(* There are at most as many matches as characters: nothing is replaced by *)
(* a text it occurs in.                                                    *)
ReplaceUpTo(text, what, with) ==
  LET after[n \in 0 .. Len(text)] ==
        IF n = 0 THEN [text |-> text, from |-> 1]
        ELSE Replace(after[n - 1], what, with)
  IN  after

ReplaceStrAll(text, what, with) == ReplaceUpTo(text, what, with)[Len(text)].text
ReplaceChr(text, what, with)    == ReplaceStrAll(text, <<what>>, with)

(* The public key in publickeyissued: no line ends, "\n" for newlines.     *)
PublicKeyText(text) ==
  ReplaceChr(ReplaceChr(text, Return, <<>>), Newline, <<Backslash, LetterN>>)

(* pickpemcert: from the first begin marker through the first end marker.  *)
(* An end marker that stands before the begin marker makes the length zero *)
(* or negative, which the check lets pass.                                 *)
PickPemCert(buffer) ==
  LET start  == Find(buffer, <<Begin>>, 1)
      end    == Find(buffer, <<Finish>>, 1)
      length == end - start + 1
  IN  IF start = 0 \/ end = 0 \/ length > MaxPem THEN Refused
      ELSE IF length < 0 THEN Overrun
      ELSE SubSeq(buffer, start, end)

(* newdevicecert as a string.  The buffer is zero at the start of a boot   *)
(* and filled once in it; a text of exactly its size leaves no terminator, *)
(* and the string goes on with what lies behind it in memory.              *)
InBuffer(picked, behind) ==
  IF Len(picked) = MaxPem THEN picked \o behind ELSE picked

(* The certificate setdevicecert is given.                                 *)
NewDeviceCert(buffer, behind) ==
  LET picked == PickPemCert(buffer)
  IN  IF picked \in {Refused, Overrun} THEN picked
      ELSE ReplaceStrAll(InBuffer(picked, behind), <<Backslash, Backslash, LetterN>>,
                         <<Newline>>)

-----------------------------------------------------------------------------
(* Reference: what the other side does (external).  It reads the escape in *)
(* the public key as JSON does, and sends a certificate with each newline  *)
(* as two backslashes and an n.                                            *)

(* The text with another one for every occurrence of one character.        *)
SpellUpTo(text, char, as) ==
  LET spelled[n \in 0 .. Len(text)] ==
        IF n = 0 THEN <<>>
        ELSE spelled[n - 1] \o (IF text[n] = char THEN as ELSE <<text[n]>>)
  IN  spelled

Spell(text, char, as) == SpellUpTo(text, char, as)[Len(text)]

Doubled(text) == Spell(text, Newline, <<Backslash, Backslash, LetterN>>)

Unescape(before, char) ==
  IF before.escape
  THEN [read   |-> Append(before.read, IF char = LetterN THEN Newline ELSE char),
        escape |-> FALSE]
  ELSE IF char = Backslash THEN [before EXCEPT !.escape = TRUE]
  ELSE [before EXCEPT !.read = Append(before.read, char)]

UnescapeUpTo(text) ==
  LET reader[n \in 0 .. Len(text)] ==
        IF n = 0 THEN [read |-> <<>>, escape |-> FALSE]
        ELSE Unescape(reader[n - 1], text[n])
  IN  reader

Unescaped(text) == UnescapeUpTo(text)[Len(text)].read

(* Whether a text arrives as it was sent, but for the line ends, and       *)
(* without control characters, which a JSON string may not contain.        *)
Delivered(lines) ==
  LET sent == PublicKeyText(lines)
  IN  /\ \A i \in 1 .. Len(sent) : sent[i] >= 32
      /\ Unescaped(sent) = Spell(lines, Return, <<>>)

(* Whether setdevicecert is given the certificate the message contains:    *)
(* the whole of it if it is shorter than the buffer, nothing if it is      *)
(* longer.  One of exactly the size of the buffer is followed by `rest`,   *)
(* which stands in memory as the other side would write it.  No marker     *)
(* stands before the certificate: there pickpemcert has other outcomes.    *)
PickedRight(lines, before, after, rest) ==
  LET plain == <<Begin>> \o lines \o <<Finish>>
      wire  == <<Begin>> \o Doubled(lines) \o <<Finish>>
  IN  NewDeviceCert(before \o wire \o after, Doubled(rest))
        = CASE Len(wire) < MaxPem -> plain
            [] Len(wire) = MaxPem -> plain \o rest
            [] Len(wire) > MaxPem -> Refused

(* Lines of a PEM text: an n is also an ordinary character.  Around the    *)
(* certificate and behind the buffer; a second certificate may follow.     *)
SampleLines  == UNION {[1 .. n -> {65, LetterN, Return, Newline}] : n \in 0 .. 4}
Befores      == {<<>>, <<LetterN>>, <<Backslash, LetterN, 65>>}
Afters       == Befores \union {<<Begin, 65, Finish>>, <<Finish>>}
Rests        == {<<>>, <<LetterN, Newline>>}

Misdelivered == {lines \in SampleLines : ~Delivered(lines)}

Misread ==
  {lines \in SampleLines :
    \E before \in Befores, after \in Afters, rest \in Rests :
      ~PickedRight(lines, before, after, rest)}
=============================================================================
