---------------------------- MODULE MicResampler -----------------------------
(***************************************************************************)
(* The loop of microphone_thread in src/main.c (506-582): 48 kHz buffers   *)
(* of the Vita become 44.1 kHz blocks for Caustic, by linear interpolation *)
(* under a phase that persists from one buffer to the next.                *)
(*                                                                         *)
(* A sample is represented by the number of its frame, counted from the    *)
(* first frame of the buffer at hand, so what is interpolated is a place   *)
(* in time and not a loudness; places are in units of 1/OutRate frame.     *)
(***************************************************************************)
EXTENDS Integers

CONSTANTS
  InputFrames,     (* MIC_INPUT_FRAMES, 768                                *)
  CausticFrames,   (* MIC_CAUSTIC_FRAMES, 256                              *)
  QueueSize,       (* the length of queue[], 2048                          *)
  InRate, OutRate  (* 48000 and 44100                                      *)

Span == InputFrames * OutRate     (* the phase at the end of a buffer      *)

(* The queue has room for a rest that is no block yet and a whole buffer,  *)
(* and a buffer is longer than a frame of each rate.                       *)
ASSUME MicAssumption ==
  /\ {InputFrames, CausticFrames, QueueSize, InRate, OutRate} \subseteq Nat \ {0}
  /\ CausticFrames * InRate + Span <= QueueSize * InRate
  /\ InRate + OutRate <= Span

VARIABLES
  mic,             (* where the loop is                                    *)
  queued,
  phase,           (* a negative phase is the uint32_t that wrapped        *)
  have_previous,
  previous,        (* the frame in resample_input[0]                       *)
  last             (* history: the place of the last sample queued         *)

micVars == <<mic, queued, phase, have_previous, previous, last>>

-----------------------------------------------------------------------------
(* The buffer is not converted to its end.                                 *)
Unread == phase \in 0 .. Span - 1

source == phase \div OutRate
fraction == phase % OutRate
Frame(i) == IF i = 0 THEN previous ELSE i - 1
Place == Frame(source) * OutRate + (Frame(source + 1) - Frame(source)) * fraction

(* What a buffer leaves of the phase.  The mutants start each one afresh,  *)
(* or forget to rebase it.                                                 *)
RestartedPhase == 0
UnrebasedPhase == phase
RemainingPhase == phase - Span

(* There is a block to hand over.  The mutant waits until the queue is     *)
(* almost full.                                                            *)
BlockWhenFull == queued > QueueSize - CausticFrames
BlockReady == queued >= CausticFrames

MicInit ==
  /\ mic = "input"
  /\ queued = 0 /\ phase = 0
  /\ have_previous = FALSE /\ previous = 0
  /\ last = 0

Input ==
  /\ mic = "input"
  /\ mic' = "convert"
  /\ have_previous' = TRUE
  /\ previous' = IF have_previous THEN previous ELSE 0
  /\ UNCHANGED <<queued, phase, last>>

InputFails ==
  /\ mic = "input"
  /\ mic' = "stopped"
  /\ UNCHANGED <<queued, phase, have_previous, previous, last>>

Convert ==
  /\ mic = "convert" /\ Unread /\ queued < QueueSize
  /\ last' = Place
  /\ queued' = queued + 1
  /\ phase' = phase + InRate
  /\ UNCHANGED <<mic, have_previous, previous>>

(* The next buffer counts its frames from itself: the places known so far  *)
(* move back by one buffer, whose last frame is the next one's frame -1.   *)
(* The history is bounded: a buffer ago stands for any earlier place.      *)
EndBuffer ==
  /\ mic = "convert" /\ ~ (Unread /\ queued < QueueSize)
  /\ mic' = "drain"
  /\ phase' = RemainingPhase
  /\ previous' = -1
  /\ last' = IF last < 0 THEN -Span ELSE last - Span
  /\ UNCHANGED <<queued, have_previous>>

RecordBlock ==
  /\ mic = "drain" /\ BlockReady
  /\ queued' = queued - CausticFrames
  /\ UNCHANGED <<mic, phase, have_previous, previous, last>>

Drained ==
  /\ mic = "drain" /\ ~ BlockReady
  /\ mic' = "input"
  /\ UNCHANGED <<queued, phase, have_previous, previous, last>>

MicNext ==
  \/ Input \/ InputFails \/ Convert \/ EndBuffer \/ RecordBlock \/ Drained

(* The thread outranks the render loop and blocks in sceAudioInInput only, *)
(* which the capture port answers every 768 frames.                        *)
MicSpec == MicInit /\ [][MicNext]_micVars /\ WF_micVars(MicNext)

-----------------------------------------------------------------------------
MicTypeOK ==
  /\ mic \in {"input", "convert", "drain", "stopped"}
  /\ queued \in 0 .. QueueSize
  /\ phase \in 0 .. Span + InRate - 1
  /\ have_previous \in BOOLEAN
  /\ previous \in {-1, 0}
  /\ last \in Int

(* What the rest in the queue owes to the phase: a buffer adds one sample  *)
(* per InRate of phase to a rest shorter than a block.                     *)
QueueFollowsPhase ==
  /\ mic \in {"input", "stopped"} => queued < CausticFrames
  /\ mic = "convert" => queued * InRate <= (CausticFrames - 1) * InRate + phase

(***************************************************************************)
(* No captured frame is dropped: a buffer is left only when it has been    *)
(* converted to its end, so the queue's bound never cuts it short and the  *)
(* unsigned subtraction that rebases the phase never wraps.                *)
(***************************************************************************)
BuffersFullyConverted ==
  mic \in {"input", "drain"} => phase \in 0 .. InRate - 1

(***************************************************************************)
(* Interpolation reads two neighbours, both inside resample_input[], which *)
(* has one element more than a buffer, and writes inside queue[].          *)
(***************************************************************************)
AccessesInBounds ==
  mic = "convert" /\ Unread => source + 1 <= InputFrames /\ queued < QueueSize

(***************************************************************************)
(* "The preceding sample and persistent phase keep the stream smooth at    *)
(* every 768-frame input boundary" (main.c 551): any two samples queued    *)
(* one after the other, the last of a buffer and the first of the next     *)
(* included, are exactly one output period apart in the input.  Only the   *)
(* first frame of the recording is held, having no predecessor.            *)
(***************************************************************************)
StreamSmooth ==
  [][queued' = queued + 1 /\ (previous = -1 \/ last > 0)
       => last' - last = InRate]_micVars

(***************************************************************************)
(* Every buffer the port delivers reaches Caustic: a block is handed over  *)
(* before the loop asks for input for ever, unless the port fails.         *)
(***************************************************************************)
EveryBufferRecorded ==
  mic = "convert" ~> (mic = "stopped" \/ (mic = "drain" /\ queued >= CausticFrames))

(* The inductive invariant: every buffer is converted to its end, because  *)
(* the rest in the queue is bounded by what the phase has left.            *)
MicInv ==
  /\ MicTypeOK
  /\ QueueFollowsPhase
  /\ BuffersFullyConverted
=============================================================================
