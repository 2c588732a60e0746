---------------------------- MODULE JavaStrings ----------------------------
(***************************************************************************)
(* One string of FalsoJNI: its UTF-16 array, its UTF-8 array once there is *)
(* one, and the conversions that calls make between them.  An allocation   *)
(* or a reallocation may fail, and its contents are whatever memory held.  *)
(* Lengths are those the descriptors give: jda_realloc leaves them alone.  *)
(***************************************************************************)
EXTENDS Converter, Integers, TLC

CONSTANTS
  NULL,
  Units,           (* the strings of 16-bit units given to NewString       *)
  Bytes,           (* the strings of bytes, without their NUL, given to    *)
                   (* NewStringUTF                                         *)
  JunkUnits, JunkBytes, (* what fresh memory may hold                      *)
  Number           (* starts and lengths of regions                        *)

ASSUME StringAssumption ==
  /\ \A u \in Units : u \in Seq(Uint16)
  /\ \A b \in Bytes : b \in Seq(Uint8 \ {0})
  /\ JunkUnits \subseteq Uint16 /\ JunkBytes \subseteq Uint8 /\ Number \subseteq Nat

VARIABLES
  string,          (* the JavaString: its two arrays; NULL until made      *)
  answer,          (* what the last call answered                          *)
  overrun,         (* a copy has run over its buffer                       *)
  made             (* history: how the string was made, and from what      *)

stringVars == <<string, answer, overrun, made>>

Answer(call, value) == [call |-> call, value |-> value]
Nothing == Answer("none", <<>>)
NotMade == [by |-> "none", text |-> <<>>]

StringInit ==
  /\ string = NULL
  /\ answer = Nothing
  /\ overrun = FALSE
  /\ made = NotMade

Fresh(length, junk) == [i \in 1..length |-> junk]
Jda(len, data) == [len |-> len, data |-> data]
JdaRealloc(jda, length, junk) ==
  Jda(jda.len, [i \in 1..length |-> IF i <= Len(jda.data) THEN jda.data[i] ELSE junk])
(* A conversion writes over the beginning.                                 *)
Overwritten(data, out) == [i \in 1..Len(data) |-> IF i <= Len(out) THEN out[i] ELSE data[i]]
Terminated(data, n) == [data EXCEPT ![n] = 0]

(* jstr_utf16_to_utf8: the outcomes, a string and whether it converted.    *)
Outcome(s, ok) == [string |-> s, ok |-> ok]
Utf8Array(s, junk) ==
  IF s.utf8 = NULL THEN Jda(s.utf16.len + 1, Fresh(s.utf16.len + 1, junk))
  ELSE IF s.utf8.len < s.utf16.len + 1 THEN JdaRealloc(s.utf8, s.utf16.len + 1, junk)
  ELSE s.utf8
Allocates(s) == s.utf8 = NULL \/ s.utf8.len < s.utf16.len + 1
ToUtf8Array(s, utf8) ==
  LET out == Utf16ToUtf8(SubSeq(s.utf16.data, 1, s.utf16.len), utf8.len).out IN
  [utf16 |-> s.utf16, utf8 |-> Jda(utf8.len, Terminated(Overwritten(utf8.data, out), utf8.len))]
JstrUtf16ToUtf8(s) ==
  {Outcome(ToUtf8Array(s, Utf8Array(s, junk)), TRUE) : junk \in JunkBytes}
    \cup (IF Allocates(s) THEN {Outcome(s, FALSE)} ELSE {})

(* jstr_utf8_to_utf16, for a string whose UTF-8 array is there.            *)
Utf16Array(s, junk) ==
  IF s.utf16.len + 1 < s.utf8.len THEN JdaRealloc(s.utf16, s.utf8.len - 1, junk) ELSE s.utf16
ToUtf16Array(s, utf16) ==
  LET out == Utf8ToUtf16(SubSeq(s.utf8.data, 1, s.utf8.len - 1), utf16.len).out IN
  [utf8 |-> s.utf8, utf16 |-> Jda(utf16.len, Overwritten(utf16.data, out))]

-----------------------------------------------------------------------------
(* The constructors.  Either fails when malloc does; then nothing is made. *)
NewString(units) ==
  /\ string = NULL
  /\ \E o \in JstrUtf16ToUtf8([utf16 |-> Jda(Len(units), units), utf8 |-> NULL]) : string' = o.string
  /\ made' = [by |-> "NewString", text |-> units]
  /\ answer' = Nothing
  /\ UNCHANGED overrun

(* One UTF-16 unit for each byte: enough, and more than enough when a      *)
(* character has several bytes.  The mutant forgets the NUL.               *)
Utf16Length(bytes) == Len(bytes)
Utf8LengthBare(bytes) == Len(bytes)
Utf8Length(bytes) == Len(bytes) + 1
NewStringUTF(bytes) ==
  /\ string = NULL
  /\ \E junk \in JunkUnits :
       LET n == Utf16Length(bytes)
           utf8 == Jda(Utf8Length(bytes), SubSeq(Append(bytes, 0), 1, Utf8Length(bytes)))
           new == [utf16 |-> Jda(n, Fresh(n, junk)), utf8 |-> utf8] IN
       string' = ToUtf16Array(new, Utf16Array(new, junk))
  /\ made' = [by |-> "NewStringUTF", text |-> bytes]
  /\ answer' = Nothing
  /\ UNCHANGED overrun

CreationFails == string = NULL /\ answer' = Nothing /\ UNCHANGED <<string, overrun, made>>

-----------------------------------------------------------------------------
(* A call that converts first, to show the string in a message: the macro  *)
(* that says so, FALSOJNI_DEBUGLEVEL, is not defined where it is compared, *)
(* so this is in every build.                                              *)
Shown(call, value) ==
  /\ string # NULL
  /\ \E o \in JstrUtf16ToUtf8(string) : string' = o.string
  /\ answer' = Answer(call, value)
  /\ UNCHANGED <<overrun, made>>

GetStringLength == string # NULL /\ Shown("GetStringLength", string.utf16.len)
GetStringUTFLength == string # NULL /\ Shown("GetStringUTFLength", string.utf16.len)
GetStringChars == string # NULL /\ Shown("GetStringChars", SubSeq(string.utf16.data, 1, string.utf16.len))
ReleaseStringChars == Shown("none", <<>>)

GetStringCritical ==
  /\ string # NULL
  /\ answer' = Answer("GetStringCritical", string.utf16.data)
  /\ UNCHANGED <<string, overrun, made>>

(* The buffer has one byte for each unit and one for the NUL.              *)
GetStringUTFChars ==
  /\ string # NULL
  /\ \E o \in JstrUtf16ToUtf8(string) :
       /\ string' = o.string
       /\ IF o.ok
          THEN /\ answer' = Answer("GetStringUTFChars", SubSeq(o.string.utf8.data, 1, o.string.utf8.len))
               /\ overrun' = (overrun \/ o.string.utf8.len > string.utf16.len + 1)
          ELSE /\ answer' = Nothing
               /\ UNCHANGED overrun
  /\ UNCHANGED made

(* The regions are copied from the descriptors and what lies behind them,  *)
(* not from the characters.                                                *)
GetStringRegion(start, length) ==
  /\ string # NULL
  /\ answer' = IF start + length > string.utf16.len THEN Nothing
                                                    ELSE Answer("GetStringRegion", "descriptor")
  /\ UNCHANGED <<string, overrun, made>>
GetStringUTFRegion(start, length) ==
  /\ string # NULL
  /\ IF start + length > string.utf16.len
     THEN answer' = Nothing /\ UNCHANGED string
     ELSE \E o \in JstrUtf16ToUtf8(string) :
            /\ string' = o.string
            /\ answer' = IF o.ok THEN Answer("GetStringUTFRegion", "descriptor") ELSE Nothing
  /\ UNCHANGED <<overrun, made>>

StringNext ==
  \/ \E units \in Units : NewString(units)
  \/ \E bytes \in Bytes : NewStringUTF(bytes)
  \/ CreationFails
  \/ GetStringLength \/ GetStringUTFLength
  \/ GetStringChars \/ ReleaseStringChars \/ GetStringCritical
  \/ GetStringUTFChars
  \/ \E start, length \in Number : GetStringRegion(start, length) \/ GetStringUTFRegion(start, length)

StringSpec == StringInit /\ [][StringNext]_stringVars

-----------------------------------------------------------------------------
IsJda(jda) ==
  /\ DOMAIN jda = {"len", "data"}
  /\ jda.len \in Nat
  /\ DOMAIN jda.data = 1..Len(jda.data)
  /\ jda.len <= Len(jda.data)

(* The string is two descriptors, each with an array at least as long as   *)
(* it says.                                                                *)
StringTypeOK ==
  /\ string # NULL => /\ IsJda(string.utf16)
                      /\ (string.utf8 # NULL => IsJda(string.utf8))
  /\ overrun \in BOOLEAN

(* The UTF-8 array, when there is one, is exactly one longer than the      *)
(* UTF-16 array, and each array is as long as its descriptor says: no      *)
(* conversion ever meets the reallocation that would make them differ.     *)
StringShape ==
  string # NULL =>
    /\ DOMAIN string.utf16.data = 1..string.utf16.len
    /\ (string.utf8 # NULL => /\ string.utf8.len = string.utf16.len + 1
                              /\ DOMAIN string.utf8.data = 1..string.utf8.len)

(* GetStringUTFChars's copy fits the buffer whose length it computes from  *)
(* the other array.                                                        *)
CopiesFit == ~overrun

UpToNul(bytes) ==
  LET nuls == {i \in DOMAIN bytes : bytes[i] = 0} IN
  IF nuls = {} THEN bytes ELSE SubSeq(bytes, 1, (CHOOSE i \in nuls : \A j \in nuls : i <= j) - 1)
Ascii(text) == \A i \in DOMAIN text : text[i] \in 1..\h7F

(* A string made from well-formed UTF-8 is read back as it was, whatever   *)
(* has been called in between and whatever filled the rest of its arrays;  *)
(* one made from UTF-16 is when it is ASCII.                               *)
TextComesBack ==
  /\ answer.call = "GetStringUTFChars"
  /\ IF made.by = "NewStringUTF" THEN WellFormedUtf8(made.text) ELSE Ascii(made.text)
  => UpToNul(answer.value) = made.text

(* The units given to NewString are read back as they were, and those of   *)
(* NewStringUTF begin with the ones its bytes stand for.                   *)
UnitsComeBack ==
  answer.call \in {"GetStringChars", "GetStringCritical"} =>
    IF made.by = "NewString" THEN answer.value = made.text
    ELSE LET units == Utf8ToUtf16(made.text, Len(made.text)).out IN
         SubSeq(answer.value, 1, Len(units)) = units

(* GetStringUTFLength answers the number of bytes GetStringUTFChars gives  *)
(* for a string that came as bytes.                                        *)
UTFLengthMatches ==
  answer.call = "GetStringUTFLength" /\ made.by = "NewStringUTF" => answer.value = Len(made.text)

(* The two arrays of a string keep their shape, no copy overruns, and      *)
(* every call reads the text that was given.                               *)
StringInv ==
  /\ StringTypeOK
  /\ StringShape
  /\ CopiesFit
  /\ TextComesBack
  /\ UnitsComeBack
  /\ UTFLengthMatches
=============================================================================
