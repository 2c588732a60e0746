----------------------------- MODULE Formatting ------------------------------
(***************************************************************************)
(* android_vformat of src/reimpl/fortify.c: the formatting the bridges for *)
(* __vsnprintf_chk and __vsprintf_chk do by themselves, because a va_list  *)
(* of Bionic is an array of argument words and not newlib's.  A format is  *)
(* a row of items; what the caller passes lies in words, as the procedure  *)
(* call standard has it: anything of two words begins on an even address.  *)
(***************************************************************************)
EXTENDS Integers, SequencesExt

CONSTANTS
  Item,        (* [conv, wide, count]: what converts, whether its argument *)
               (* has two words, and the characters snprintf makes of it   *)
  MaxItems,
  Objects,     (* the sizes of the objects written to                      *)
  MaxRequest,  (* the largest size a caller gives                          *)
  Unknown,     (* SIZE_MAX: the compiler does not know the object's size   *)
  Assumed,     (* what the code takes it for then: 4096                    *)
  TempSize     (* temp[256]                                                *)

ASSUME FormattingAssumption ==
  /\ Item \subseteq [conv : {"char", "word", "double", "other", "end"},
                     wide : BOOLEAN, count : Nat]
  /\ MaxItems \in Nat /\ MaxRequest \in Nat
  /\ Objects \subseteq Nat \ {0} /\ Assumed \in Nat \ {0} /\ TempSize \in Nat \ {0}

VARIABLES
  fmt, base,   (* the format, and whether the words begin on an odd one    *)
  object, size,(* the object, and what the caller says of it               *)
  capacity, at, arg, used,
  d,           (* what was written where                                   *)
  taken,       (* history: the word each item was given                    *)
  state        (* "idle", "formatting", "returned", "failed" or "aborted"  *)

call == <<fmt, base, object, size, capacity>>
formatVars == <<call, at, arg, used, d, taken, state>>

NUL == <<0, 0>>
Chars == (0 .. MaxItems) \X Nat

FormatInit ==
  /\ fmt = <<>> /\ base = 0 /\ object \in Objects /\ size = object /\ capacity = 0
  /\ at = 0 /\ arg = 0 /\ used = 0 /\ d = <<>> /\ taken = <<>> /\ state = "idle"

(* bounds_or_abort.                                                        *)
Exceeds(requested, available) == requested > available

(* A lone '%' is one at the end of the format.                             *)
Formats == {f \in BoundedSeq(Item, MaxItems) : \A i \in 1 .. Len(f) - 1 : f[i].conv # "end"}

Begin(n) ==
  /\ fmt' \in Formats /\ base' \in {0, 1}
  /\ capacity' = n /\ at' = 0 /\ arg' = 0 /\ used' = 0 /\ d' = <<>> /\ taken' = <<>>
  /\ state' = IF n = 0 THEN "failed" ELSE "formatting"

Abort ==
  /\ state' = "aborted" /\ d' = <<>>
  /\ UNCHANGED <<fmt, base, capacity, at, arg, used, taken>>

(* Two calls share nothing, so that one is enough.                         *)
Vsnprintf ==
  /\ state = "idle"
  /\ object' \in Objects /\ size' = object'
  /\ \E n \in 0 .. MaxRequest : IF Exceeds(n, size') THEN Abort ELSE Begin(n)

Vsprintf ==
  /\ state = "idle"
  /\ object' \in Objects /\ size' \in {object', Unknown}
  /\ Begin(IF size' = Unknown THEN Assumed ELSE size')

Formatting == state = "formatting" /\ at < Len(fmt)
Now == fmt[at + 1]

(* The double's address is rounded up to eight; the mutant forgets to.     *)
AlignNever(word) == word
Align(word) == word + ((word + base) % 2)

(* A lone '%' at the end is found in "aAeEfFgG", whose last character is   *)
(* the NUL it was compared with, and takes a double.                       *)
TakesDouble == Now.conv \in {"double", "end"}

(* The length modifiers go to snprintf as they are, but one word is taken. *)
Takes ==
  /\ arg' = CASE Now.conv = "word" -> arg + 1
              [] TakesDouble -> Align(arg) + 2
              [] OTHER -> arg
  /\ taken' = Append(taken, IF TakesDouble THEN Align(arg) ELSE arg)

(* What temp holds of the conversion.                                      *)
Available == IF Now.count < TempSize THEN Now.count ELSE TempSize - 1

(* APPEND_CHAR counts what no longer fits.                                 *)
Fits(place) == place + 1 < capacity

Appends(n) ==
  LET places == {q \in used .. used + n - 1 : Fits(q)} IN
  /\ used' = used + n
  /\ d' = [p \in DOMAIN d \cup places |-> IF p \in places THEN <<at + 1, p - used>> ELSE d[p]]

Convert ==
  /\ Formatting
  /\ Takes /\ Appends(Available)
  /\ at' = at + 1
  /\ UNCHANGED <<call, state>>

(* snprintf returns a negative count, and that is returned at once.        *)
ConversionFails ==
  /\ Formatting /\ Now.conv \in {"word", "double"}
  /\ state' = "failed"
  /\ UNCHANGED <<call, at, arg, used, d, taken>>

(* The NUL goes behind the text, or over its end if there is no room.      *)
End == IF used < capacity THEN used ELSE capacity - 1

Return ==
  /\ state = "formatting" /\ at = Len(fmt)
  /\ d' = [p \in DOMAIN d \cup {End} |-> IF p = End THEN NUL ELSE d[p]]
  /\ state' = "returned"
  /\ UNCHANGED <<call, at, arg, used, taken>>

FormatStep == Convert \/ ConversionFails \/ Return
FormatNext == Vsnprintf \/ Vsprintf \/ FormatStep

FormatSpec == FormatInit /\ [][FormatNext]_formatVars

-----------------------------------------------------------------------------
FormatTypeOK ==
  /\ fmt \in Formats /\ base \in {0, 1}
  /\ object \in Objects /\ size \in {object, Unknown}
  /\ at \in 0 .. Len(fmt) /\ Len(taken) = at
  /\ arg \in 0 .. 3 * at /\ used \in 0 .. at * (TempSize - 1)
  /\ \A p \in DOMAIN d : d[p] \in Chars /\ p <= used /\ p < capacity
  /\ state \in {"idle", "formatting", "returned", "failed", "aborted"}

(***************************************************************************)
(* What the compiler knows of the object is respected: nothing is written  *)
(* outside of it, whatever size the caller asks for (bounds_or_abort).     *)
(***************************************************************************)
InsideObject ==
  size # Unknown => \A p \in DOMAIN d : p < object

(***************************************************************************)
(* What C99 says of vsnprintf, as long as no conversion is longer than     *)
(* temp: the result is the length of the whole text, and the buffer holds  *)
(* as much of it as fits, with a NUL right behind.                         *)
(***************************************************************************)
Written(f) ==
  LET text[i \in 0 .. Len(f)] ==
        IF i = 0 THEN <<>> ELSE text[i - 1] \o [c \in 1 .. f[i].count |-> <<i, c - 1>>]
  IN text
Text == Written(fmt)[Len(fmt)]

LikeSnprintf ==
  state = "returned" /\ (\A i \in 1 .. Len(fmt) : fmt[i].count < TempSize)
  => /\ used = Len(Text)
     /\ LET kept == IF used < capacity THEN used ELSE capacity - 1 IN
        d = [p \in 0 .. kept |-> IF p = kept THEN NUL ELSE Text[p + 1]]

(***************************************************************************)
(* Every conversion is given the argument the caller passed for it, as far *)
(* as the format has neither a conversion the code does not know, nor an   *)
(* integer of two words (fortify.c 45-47: another reading of the va_list   *)
(* "silently formats empty/garbled strings").                              *)
(***************************************************************************)
Plain(item) == item.conv \in {"char", "word", "double"} /\ (item.conv = "double" \/ ~ item.wide)

Passed(f, first) ==
  LET words[i \in 0 .. Len(f)] ==
        IF i = 0 THEN 0
        ELSE CASE f[i].conv = "word" -> words[i - 1] + 1
               [] f[i].conv = "double" -> words[i - 1] + (IF ((words[i - 1] + first) % 2) = 0 THEN 2 ELSE 3)
               [] OTHER -> words[i - 1]
  IN words

RightArguments ==
  \A i \in 1 .. at :
    (\A j \in 1 .. i : Plain(fmt[j])) =>
      CASE fmt[i].conv = "word" -> taken[i] = Passed(fmt, base)[i] - 1
        [] fmt[i].conv = "double" -> taken[i] = Passed(fmt, base)[i] - 2
        [] OTHER -> TRUE

(* The formatting writes inside the object, the text of C99, from the      *)
(* arguments the caller passed.                                            *)
FormatInv ==
  /\ FormatTypeOK
  /\ InsideObject
  /\ LikeSnprintf
  /\ RightArguments
=============================================================================
