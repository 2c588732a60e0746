--------------------------- MODULE ConverterLoop ---------------------------
(***************************************************************************)
(* Both conversions, iteration by iteration, over any short string, well-  *)
(* formed or not, with room for it or not.                                 *)
(***************************************************************************)
EXTENDS Converter

CONSTANTS
  Utf8Strings,     (* strings of bytes                                     *)
  Utf16Strings,    (* strings of 16-bit units                              *)
  Rooms            (* lengths of the buffer                                *)

ASSUME LoopAssumption ==
  /\ \A s \in Utf8Strings : s \in Seq(Uint8)
  /\ \A s \in Utf16Strings : s \in Seq(Uint16)
  /\ Rooms \subseteq Nat

VARIABLES
  toUtf8,          (* which conversion                                     *)
  source, room,    (* its arguments                                        *)
  state            (* its progress                                         *)

loopVars == <<toUtf8, source, room, state>>

LoopInit ==
  /\ \/ toUtf8 = TRUE /\ source \in Utf16Strings
     \/ toUtf8 = FALSE /\ source \in Utf8Strings
  /\ room \in Rooms
  /\ state = Start

ToUtf8 ==
  /\ toUtf8 /\ state.read < Len(source)
  /\ state' = ToUtf8Iteration(source, room, state)
  /\ UNCHANGED <<toUtf8, source, room>>
ToUtf16 ==
  /\ ~toUtf8 /\ state.read < Len(source)
  /\ state' = ToUtf16Iteration(source, room, state)
  /\ UNCHANGED <<toUtf8, source, room>>

LoopNext == ToUtf8 \/ ToUtf16
LoopSpec == LoopInit /\ [][LoopNext]_loopVars

-----------------------------------------------------------------------------
Finished == state.read = Len(source)

(* The loop has read and written whole units, within its arguments.        *)
LoopTypeOK ==
  /\ state.read \in 0..Len(source) /\ state.size \in Nat
  /\ \A i \in 1..Len(state.out) : state.out[i] \in IF toUtf8 THEN Uint8 ELSE Uint16

(* Nothing is written beyond the end of the buffer.                        *)
WithinRoom == Len(state.out) <= room

(* What is written is well formed at every moment, whatever the source is  *)
(* and however little fits.                                                *)
OutputWellFormed ==
  IF toUtf8 THEN WellFormedUtf8(state.out) ELSE WellFormedUtf16(state.out)

(* A call without a buffer counts what a call with room enough writes.     *)
SizeQueryExact == Finished /\ state.size <= room => Len(state.out) = state.size

(* A well-formed string that fits comes back from the other conversion as  *)
(* it was.                                                                 *)
RoundTrip ==
  Finished /\ state.size <= room =>
    IF toUtf8
    THEN WellFormedUtf16(source) => Utf8ToUtf16(state.out, Len(source)).out = source
    ELSE WellFormedUtf8(source) => Utf16ToUtf8(state.out, Len(source)).out = source

(* What is not well formed is never lost without a trace: a string that is *)
(* not comes out with the replacement character in it.                     *)
DamageShows ==
  Finished /\ state.size <= room =>
    IF toUtf8
    THEN ~WellFormedUtf16(source) => \E i \in 1..Len(state.out) : state.out[i] = \hEF
    ELSE ~WellFormedUtf8(source) => \E i \in 1..Len(state.out) : state.out[i] = InvalidCodepoint

(* A conversion stays in its buffer and in its encoding, counts what it    *)
(* writes, loses nothing that was well formed and hides nothing that was   *)
(* not.                                                                    *)
ConverterInv ==
  /\ LoopTypeOK
  /\ WithinRoom
  /\ OutputWellFormed
  /\ SizeQueryExact
  /\ RoundTrip
  /\ DamageShows
=============================================================================
