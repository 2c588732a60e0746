----------------------------- MODULE Converter -----------------------------
(***************************************************************************)
(* The conversions between UTF-8 and UTF-16: one iteration of each loop,   *)
(* and the loop.  A string is the sequence of its code units; a mask and   *)
(* the value it is compared with are the interval they select.             *)
(***************************************************************************)
EXTENDS Naturals, Sequences

Uint8 == 0..\hFF
Uint16 == 0..\hFFFF
BmpEnd == \hFFFF
UnicodeMax == \h10FFFF
InvalidCodepoint == \hFFFD
Surrogates == \hD800..\hDFFF
HighSurrogates == \hD800..\hDBFF
LowSurrogates == \hDC00..\hDFFF
Continuations == \h80..\hBF

Decoded(codepoint, size) == [codepoint |-> codepoint, size |-> size]
Invalid(size) == Decoded(InvalidCodepoint, size)

(* The character of UTF-16 that begins at i.                               *)
DecodeUtf16(utf16, i) ==
  IF utf16[i] \notin Surrogates THEN Decoded(utf16[i], 1)
  ELSE IF utf16[i] \in HighSurrogates /\ i # Len(utf16) /\ utf16[i + 1] \in LowSurrogates
       THEN Decoded((utf16[i] % 1024) * 1024 + (utf16[i + 1] % 1024) + \h10000, 2)
       ELSE Invalid(1)

CalculateUtf8Len(codepoint) ==
  IF codepoint <= \h7F THEN 1
  ELSE IF codepoint <= \h7FF THEN 2
  ELSE IF codepoint <= \hFFFF THEN 3
  ELSE 4

(* utf8_leading_bytes: the leading byte tells the length of the encoding.  *)
LeadingBytes == <<\h00..\h7F, \hC0..\hDF, \hE0..\hEF, \hF0..\hF7>>
LeadingValue == <<\h00, \hC0, \hE0, \hF0>>

(* Six bits behind the mark of a continuation byte.                        *)
Continuation(bits) == \h80 + (bits % 64)
EncodeUtf8(codepoint) ==
  LET size == CalculateUtf8Len(codepoint)
      first == LeadingValue[size] IN
  IF size = 1 THEN <<first + codepoint>>
  ELSE IF size = 2 THEN <<first + codepoint \div 64, Continuation(codepoint)>>
  ELSE IF size = 3
       THEN <<first + codepoint \div 4096, Continuation(codepoint \div 64), Continuation(codepoint)>>
  ELSE <<first + codepoint \div 262144, Continuation(codepoint \div 4096),
         Continuation(codepoint \div 64), Continuation(codepoint)>>

(* The character of UTF-8 that begins at i: the continuation bytes that    *)
(* are there are consumed even if there are too few.                       *)
Present(utf8, i, size) ==
  LET ends == {k \in 1..(size - 1) : i + k > Len(utf8) \/ utf8[i + k] \notin Continuations} IN
  IF ends = {} THEN size ELSE CHOOSE k \in ends : \A j \in ends : k <= j
Assembled(utf8, i, size) ==
  LET first == utf8[i] - LeadingValue[size]
      Bits(k) == utf8[i + k] % 64 IN
  IF size = 1 THEN first
  ELSE IF size = 2 THEN first * 64 + Bits(1)
  ELSE IF size = 3 THEN first * 4096 + Bits(1) * 64 + Bits(2)
  ELSE first * 262144 + Bits(1) * 4096 + Bits(2) * 64 + Bits(3)
Acceptable(codepoint, size) ==
  /\ CalculateUtf8Len(codepoint) = size
  /\ codepoint \notin Surrogates
  /\ codepoint <= UnicodeMax
DecodeUtf8(utf8, i) ==
  LET sizes == {n \in 1..4 : utf8[i] \in LeadingBytes[n]}
      size == CHOOSE n \in sizes : TRUE
      codepoint == Assembled(utf8, i, size) IN
  IF sizes = {} THEN Invalid(1)
  ELSE IF Present(utf8, i, size) < size THEN Invalid(Present(utf8, i, size))
  ELSE IF Acceptable(codepoint, size) THEN Decoded(codepoint, size) ELSE Invalid(size)

(* The units of a character: two above the Basic Multilingual Plane.       *)
CalculateUtf16Len(codepoint) == IF codepoint <= BmpEnd THEN 1 ELSE 2

(* The mutant forgets the offset of the pairs.                             *)
EncodeUtf16Unshifted(codepoint) ==
  IF codepoint <= BmpEnd THEN <<codepoint>>
  ELSE <<\hD800 + ((codepoint \div 1024) % 1024), \hDC00 + (codepoint % 1024)>>
EncodeUtf16(codepoint) ==
  IF codepoint <= BmpEnd THEN <<codepoint>>
  ELSE LET shifted == codepoint - \h10000 IN
       <<\hD800 + ((shifted \div 1024) % 1024), \hDC00 + (shifted % 1024)>>

-----------------------------------------------------------------------------
(* A character that does not fit is skipped, and the loop goes on: a       *)
(* shorter one behind it may still be written.                             *)
Put(out, character, room) ==
  IF Len(out) + Len(character) > room THEN out ELSE out \o character

(* What the loop has read, what it has written, and what it would have     *)
(* counted with no buffer.                                                 *)
Start == [read |-> 0, out |-> <<>>, size |-> 0]
ToUtf8Iteration(utf16, room, state) ==
  LET d == DecodeUtf16(utf16, state.read + 1) IN
  [read |-> state.read + d.size,
   out |-> Put(state.out, EncodeUtf8(d.codepoint), room),
   size |-> state.size + CalculateUtf8Len(d.codepoint)]
ToUtf16Iteration(utf8, room, state) ==
  LET d == DecodeUtf8(utf8, state.read + 1) IN
  [read |-> state.read + d.size,
   out |-> Put(state.out, EncodeUtf16(d.codepoint), room),
   size |-> state.size + CalculateUtf16Len(d.codepoint)]

Utf16ToUtf8(utf16, room) ==
  LET loop[k \in 0..Len(utf16)] ==
        IF k = 0 THEN Start
        ELSE IF loop[k - 1].read = Len(utf16) THEN loop[k - 1]
        ELSE ToUtf8Iteration(utf16, room, loop[k - 1])
  IN loop[Len(utf16)]
Utf8ToUtf16(utf8, room) ==
  LET loop[k \in 0..Len(utf8)] ==
        IF k = 0 THEN Start
        ELSE IF loop[k - 1].read = Len(utf8) THEN loop[k - 1]
        ELSE ToUtf16Iteration(utf8, room, loop[k - 1])
  IN loop[Len(utf8)]
-----------------------------------------------------------------------------
(* Well-formedness, from the tables of the Unicode standard.               *)
Utf8Tails(lead) ==
  IF lead \in 0..\h7F THEN <<>>
  ELSE IF lead \in \hC2..\hDF THEN <<\h80..\hBF>>
  ELSE IF lead = \hE0 THEN <<\hA0..\hBF, \h80..\hBF>>
  ELSE IF lead = \hED THEN <<\h80..\h9F, \h80..\hBF>>
  ELSE IF lead \in \hE1..\hEF THEN <<\h80..\hBF, \h80..\hBF>>
  ELSE IF lead = \hF0 THEN <<\h90..\hBF, \h80..\hBF, \h80..\hBF>>
  ELSE IF lead \in \hF1..\hF3 THEN <<\h80..\hBF, \h80..\hBF, \h80..\hBF>>
  ELSE IF lead = \hF4 THEN <<\h80..\h8F, \h80..\hBF, \h80..\hBF>>
  ELSE <<{}>>
Utf16Tails(unit) ==
  IF unit \in \hD800..\hDBFF THEN <<\hDC00..\hDFFF>>
  ELSE IF unit \in \hDC00..\hDFFF THEN <<{}>>
  ELSE <<>>
(* tails is the sequence of what must follow each unit: characters of      *)
(* whole units, one behind the other, fill the string.                     *)
WellFormed(s, tails) ==
  LET whole[i \in 1..(Len(s) + 1)] ==
        IF i = Len(s) + 1 THEN TRUE
        ELSE /\ i + Len(tails[i]) <= Len(s)
             /\ \A k \in 1..Len(tails[i]) : s[i + k] \in tails[i][k]
             /\ whole[i + Len(tails[i]) + 1]
  IN whole[1]
WellFormedUtf8(utf8) == WellFormed(utf8, [i \in 1..Len(utf8) |-> Utf8Tails(utf8[i])])
WellFormedUtf16(utf16) == WellFormed(utf16, [i \in 1..Len(utf16) |-> Utf16Tails(utf16[i])])
=============================================================================
