--------------------------- MODULE CausticPointers ---------------------------
(***************************************************************************)
(* The pointer table of libcaustic.so as the render loop of src/main.c     *)
(* drives it, and the position of that loop within a frame.                *)
(*                                                                         *)
(* The library is external: nativeTouchBegin/Move/End are only called.     *)
(* What the wrapper owes them is the contract every touch front end has:   *)
(* a gesture begins on a pointer that is up, moves while it is down and    *)
(* ends where it was last seen.  A call that breaks the contract leaves    *)
(* the pointer "confused" for ever, so that an invariant notices it.       *)
(***************************************************************************)
EXTENDS Integers

CONSTANTS
  MaxReport,      (* SCE_TOUCH_MAX_REPORT: physical slots, 8 on the device *)
  Width, Height   (* the screen, 960 x 544 on the device                   *)

ASSUME ScreenAssumption ==
  /\ MaxReport \in Nat \ {0}
  /\ Width \in Nat /\ Width >= 3
  /\ Height \in Nat /\ Height >= 3

(***************************************************************************)
(* Pointer ids: one per physical slot, then the two the controller layer   *)
(* reserves.                                                               *)
(***************************************************************************)
Slot            == 0 .. MaxReport - 1
PAD_POINTER_ID  == MaxReport
RACK_POINTER_ID == MaxReport + 1
Pointer         == 0 .. MaxReport + 1

(* Touch panel coordinates scale onto 0..Width and 0..Height, both ends    *)
(* included: the panel's last column 1919 maps to Width itself.            *)
Point == (0 .. Width) \X (0 .. Height)

VARIABLES
  pc,                     (* the phase of the frame the loop is in         *)
  touch,                  (* Caustic's view of every pointer               *)
  physical_touch_count    (* shared: kept by the slots, read by the rack   *)

Phase == {"peek", "report", "tap", "read", "toggle", "rack", "buttons",
          "dpad", "render"}

PointerState == [st : {"up", "down", "confused"}, at : Point]

touch_begin(pointer, at) ==
  [st |-> IF pointer.st = "up" THEN "down" ELSE "confused", at |-> at]

touch_move(pointer, at) ==
  [st |-> IF pointer.st = "down" THEN "down" ELSE "confused", at |-> at]

touch_end(pointer, at) ==
  [st |-> IF pointer.st = "down" /\ pointer.at = at THEN "up" ELSE "confused",
   at |-> <<0, 0>>]

PointersInit ==
  /\ pc = "peek"
  /\ touch = [p \in Pointer |-> [st |-> "up", at |-> <<0, 0>>]]
  /\ physical_touch_count = 0

PointersTypeOK ==
  /\ pc \in Phase
  /\ touch \in [Pointer -> PointerState]
  /\ physical_touch_count \in 0 .. MaxReport

(***************************************************************************)
(* No call of the render loop ever breaks the contract: no second begin on *)
(* a held pointer, no move or end on a released one, no release anywhere   *)
(* but at the last position delivered.                                     *)
(***************************************************************************)
PointersLegal == \A p \in Pointer : touch[p].st # "confused"
=============================================================================
