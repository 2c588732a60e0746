----------------------------- MODULE Controller ------------------------------
(***************************************************************************)
(* The physical-control half of a frame: src/main.c 956-1087.  Buttons and *)
(* the left stick become synthetic touches on two reserved pointers: taps  *)
(* and drags on PAD_POINTER_ID, rack swipes on RACK_POINTER_ID.  Every     *)
(* block of the handler is one action; a block that makes several calls    *)
(* composes them in the order the code makes them.                         *)
(***************************************************************************)
EXTENDS CausticPointers

CONSTANTS
  ButtonSamples,   (* the sets of buttons a pad sample may hold down       *)
  StickSamples,    (* the positions of the left stick, 128 at rest         *)
  PlayAt, StopAt,  (* TRANSPORT_PLAY_X, TRANSPORT_STOP_X at TRANSPORT_Y    *)
  MachineAt,       (* MACHINE_MANAGEMENT_X, MACHINE_MANAGEMENT_Y           *)
  MachineFocus,    (* where SELECT leaves the focus, 145, 145              *)
  FocusStep, DragStep,                 (* 24 and 3 pixels                  *)
  RepeatDelay, RepeatEvery,            (* 12 and 4 frames                  *)
  RackX, RackCenterY, RackMinY, RackMaxY

Direction == {"UP", "DOWN", "LEFT", "RIGHT"}
Button    == Direction \cup {"TRIANGLE", "START", "SELECT", "CROSS"}

(* Where the overlay cursor may be; the clamps of the D-pad keep it there. *)
Cursor == (1 .. Width - 2) \X (1 .. Height - 2)

ASSUME ControllerAssumption ==
  /\ ButtonSamples \subseteq SUBSET Button
  /\ StickSamples \subseteq 0 .. 255
  /\ {PlayAt, StopAt, MachineAt, MachineFocus} \subseteq Cursor
  /\ {FocusStep, DragStep, RepeatDelay, RepeatEvery} \subseteq Nat \ {0}
  /\ RackX \in 0 .. Width
  /\ {RackMinY, RackCenterY, RackMaxY} \subseteq 0 .. Height
  /\ RackMinY + 5 <= RackCenterY /\ RackCenterY + 5 <= RackMaxY

VARIABLES
  controls_enabled,
  buttons,                   (* pad.buttons; previous_buttons next frame   *)
  pressed,                   (* the buttons that went down in this frame   *)
  ly,                        (* pad.ly                                     *)
  pad_grabbed, pad_tap_pending_release,
  rack_swipe_active, rack_swipe_y,
  focus, drag,               (* focus_x, focus_y and drag_x, drag_y        *)
  direction_hold,            (* modulo the repeat cycle, see Held          *)
  transport_playing

padVars == <<controls_enabled, buttons, pressed, ly, pad_grabbed,
             pad_tap_pending_release, rack_swipe_active, rack_swipe_y, focus,
             drag, direction_hold, transport_playing>>

-----------------------------------------------------------------------------
RackAt(y) == <<RackX, y>>

(* Pixels per frame: 2 to 5 with the deflection, 0 in the dead zone.       *)
RackDelta ==
  IF ly < 80 THEN -2 - ((80 - ly) \div 24)
  ELSE IF ly > 176 THEN 2 + ((ly - 176) \div 24)
  ELSE 0

(* The frame may scroll the rack: the stick is deflected and nothing else  *)
(* is touching.                                                            *)
RackMayScroll == RackDelta # 0 /\ physical_touch_count = 0 /\ ~ pad_grabbed

(* The move from y would leave the rail.  The mutant looks at y itself.    *)
LeavesTooLate(y) == y \notin RackMinY .. RackMaxY
Leaves(y) == y + RackDelta \notin RackMinY .. RackMaxY

Clamp(value, low, high) ==
  IF value < low THEN low ELSE IF value > high THEN high ELSE value

(* One axis of the D-pad loop, which visits UP before DOWN and LEFT before *)
(* RIGHT and clamps after each.                                            *)
Shift(value, less, more, stride, high) ==
  LET first == IF less THEN Clamp(value - stride, 1, high) ELSE value
  IN  IF more THEN Clamp(first + stride, 1, high) ELSE first

Stepped(at, dirs, stride) ==
  <<Shift(at[1], "LEFT" \in dirs, "RIGHT" \in dirs, stride, Width - 2),
    Shift(at[2], "UP" \in dirs, "DOWN" \in dirs, stride, Height - 2)>>

(* The frames a direction has been held.  Only "held > RepeatDelay and a   *)
(* multiple of RepeatEvery beyond it" is ever asked of the counter, so one *)
(* full cycle past the delay stands for all the later ones.                *)
Held(frames) ==
  IF frames = RepeatDelay + RepeatEvery THEN RepeatDelay + 1 ELSE frames + 1
Repeats(frames) == frames = RepeatDelay + RepeatEvery

(* The end of whatever holds the pad pointer: always where it was dragged  *)
(* to.  The mutant ends it under the focus instead.                        *)
LetGoAtFocus(pointer) == touch_end(pointer, focus)
LetGo(pointer) == touch_end(pointer, drag)

(* A pointer after the mode is turned off; the mutant forgets the swipe.   *)
ReleasedPadOnly(p) ==
  IF p = PAD_POINTER_ID /\ pad_grabbed THEN LetGo(touch[p]) ELSE touch[p]
Released(p) ==
  IF p = PAD_POINTER_ID /\ pad_grabbed THEN LetGo(touch[p])
  ELSE IF p = RACK_POINTER_ID /\ rack_swipe_active
       THEN touch_end(touch[p], RackAt(rack_swipe_y))
  ELSE touch[p]

PadInit ==
  /\ controls_enabled = FALSE
  /\ buttons = {} /\ pressed = {} /\ ly = 128
  /\ pad_grabbed = FALSE /\ pad_tap_pending_release = FALSE
  /\ rack_swipe_active = FALSE /\ rack_swipe_y = RackCenterY
  /\ focus = <<Width \div 2, Height \div 2>>
  /\ drag = focus
  /\ direction_hold = [d \in Direction |-> 0]
  /\ transport_playing = FALSE

-----------------------------------------------------------------------------
(* A one-frame tap is over when the next frame's touches have been read.   *)
ReleaseTap ==
  /\ pc = "tap"
  /\ touch' = IF pad_tap_pending_release
              THEN [touch EXCEPT ![PAD_POINTER_ID] = LetGo(@)]
              ELSE touch
  /\ pad_tap_pending_release' = FALSE
  /\ pc' = "read"
  /\ UNCHANGED <<physical_touch_count, controls_enabled, buttons, pressed, ly,
                 pad_grabbed, rack_swipe_active, rack_swipe_y, focus, drag,
                 direction_hold, transport_playing>>

ReadPad ==
  /\ pc = "read"
  /\ buttons' \in ButtonSamples
  /\ ly' \in StickSamples
  /\ pressed' = buttons' \ buttons
  /\ pc' = IF "TRIANGLE" \in pressed' THEN "toggle"
           ELSE IF controls_enabled THEN "rack" ELSE "render"
  /\ UNCHANGED <<touch, physical_touch_count, controls_enabled, pad_grabbed,
                 pad_tap_pending_release, rack_swipe_active, rack_swipe_y,
                 focus, drag, direction_hold, transport_playing>>

EnableControls ==
  /\ pc = "toggle" /\ ~ controls_enabled
  /\ controls_enabled' = TRUE
  /\ pc' = "rack"
  /\ UNCHANGED <<touch, physical_touch_count, buttons, pressed, ly,
                 pad_grabbed, pad_tap_pending_release, rack_swipe_active,
                 rack_swipe_y, focus, drag, direction_hold, transport_playing>>

DisableControls ==
  /\ pc = "toggle" /\ controls_enabled
  /\ controls_enabled' = FALSE
  /\ touch' = [p \in Pointer |-> Released(p)]
  /\ pad_grabbed' = FALSE
  /\ rack_swipe_active' = FALSE
  /\ direction_hold' = [d \in Direction |-> 0]
  /\ pc' = "render"
  /\ UNCHANGED <<physical_touch_count, buttons, pressed, ly,
                 pad_tap_pending_release, rack_swipe_y, focus, drag,
                 transport_playing>>

(* Start or continue the swipe, lifting it back to the center before it    *)
(* leaves the rail.                                                        *)
SwipeRack ==
  /\ pc = "rack" /\ RackMayScroll
  /\ LET rack == touch[RACK_POINTER_ID]
         startY == IF rack_swipe_active THEN rack_swipe_y ELSE RackCenterY
         started == IF rack_swipe_active THEN rack
                    ELSE touch_begin(rack, RackAt(RackCenterY))
         fromY == IF Leaves(startY) THEN RackCenterY ELSE startY
         anchored == IF Leaves(startY)
                     THEN touch_begin(touch_end(started, RackAt(startY)),
                                      RackAt(RackCenterY))
                     ELSE started
     IN  /\ rack_swipe_y' = Clamp(fromY + RackDelta, RackMinY, RackMaxY)
         /\ touch' = [touch EXCEPT ![RACK_POINTER_ID] =
                        touch_move(anchored, RackAt(rack_swipe_y'))]
  /\ rack_swipe_active' = TRUE
  /\ pc' = "buttons"
  /\ UNCHANGED <<physical_touch_count, controls_enabled, buttons, pressed, ly,
                 pad_grabbed, pad_tap_pending_release, focus, drag,
                 direction_hold, transport_playing>>

(* The stick is at rest, or a finger or a grab has the screen.             *)
RestRack ==
  /\ pc = "rack" /\ ~ RackMayScroll
  /\ touch' = IF rack_swipe_active
              THEN [touch EXCEPT ![RACK_POINTER_ID] =
                                   touch_end(@, RackAt(rack_swipe_y))]
              ELSE touch
  /\ rack_swipe_active' = FALSE
  /\ pc' = "buttons"
  /\ UNCHANGED <<physical_touch_count, controls_enabled, buttons, pressed, ly,
                 pad_grabbed, pad_tap_pending_release, rack_swipe_y, focus,
                 drag, direction_hold, transport_playing>>

(* START and SELECT tap a fixed spot; a grab is let go of first.  The      *)
(* mutant begins the tap on top of the grab.                               *)
TapOverGrab(at) ==
  /\ touch' = [touch EXCEPT ![PAD_POINTER_ID] = touch_begin(@, at)]
  /\ drag' = at
  /\ pad_grabbed' = FALSE
  /\ pad_tap_pending_release' = TRUE
Tap(at) ==
  LET pad == touch[PAD_POINTER_ID]
      free == IF pad_grabbed THEN LetGo(pad) ELSE pad
  IN  /\ touch' = [touch EXCEPT ![PAD_POINTER_ID] = touch_begin(free, at)]
      /\ drag' = at
      /\ pad_grabbed' = FALSE
      /\ pad_tap_pending_release' = TRUE

PressStart ==
  /\ pc = "buttons" /\ "START" \in pressed
  /\ Tap(IF transport_playing THEN StopAt ELSE PlayAt)
  /\ transport_playing' = ~ transport_playing
  /\ pc' = "render"
  /\ UNCHANGED <<physical_touch_count, controls_enabled, buttons, pressed, ly,
                 rack_swipe_active, rack_swipe_y, focus, direction_hold>>

PressSelect ==
  /\ pc = "buttons" /\ "SELECT" \in pressed /\ "START" \notin pressed
  /\ Tap(MachineAt)
  /\ focus' = MachineFocus
  /\ pc' = "render"
  /\ UNCHANGED <<physical_touch_count, controls_enabled, buttons, pressed, ly,
                 rack_swipe_active, rack_swipe_y, direction_hold,
                 transport_playing>>

(* Neither START nor SELECT: CROSS grabs what is under the focus, or lets  *)
(* go of it, and the D-pad is read in the same frame.                      *)
Cross ==
  /\ pc = "buttons" /\ pressed \cap {"START", "SELECT"} = {}
  /\ IF "CROSS" \in pressed /\ pad_grabbed
     THEN /\ touch' = [touch EXCEPT ![PAD_POINTER_ID] = LetGo(@)]
          /\ pad_grabbed' = FALSE
          /\ UNCHANGED drag
     ELSE IF "CROSS" \in pressed /\ ~ pad_tap_pending_release
     THEN /\ touch' = [touch EXCEPT ![PAD_POINTER_ID] = touch_begin(@, focus)]
          /\ pad_grabbed' = TRUE
          /\ drag' = focus
     ELSE UNCHANGED <<touch, pad_grabbed, drag>>
  /\ pc' = "dpad"
  /\ UNCHANGED <<physical_touch_count, controls_enabled, buttons, pressed, ly,
                 pad_tap_pending_release, rack_swipe_active, rack_swipe_y,
                 focus, direction_hold, transport_playing>>

HoldDirections ==
  direction_hold' = [d \in Direction |->
                      IF d \in buttons THEN Held(direction_hold[d]) ELSE 0]

DragGrabbed ==
  /\ pc = "dpad" /\ pad_grabbed
  /\ HoldDirections
  /\ drag' = Stepped(drag, buttons, DragStep)
  /\ touch' = IF buttons \cap Direction # {}
              THEN [touch EXCEPT ![PAD_POINTER_ID] = touch_move(@, drag')]
              ELSE touch
  /\ pc' = "render"
  /\ UNCHANGED <<physical_touch_count, controls_enabled, buttons, pressed, ly,
                 pad_grabbed, pad_tap_pending_release, rack_swipe_active,
                 rack_swipe_y, focus, transport_playing>>

MoveFocus ==
  /\ pc = "dpad" /\ ~ pad_grabbed
  /\ HoldDirections
  /\ LET moving == { d \in Direction :
                       d \in pressed \/ Repeats(direction_hold'[d]) }
     IN  focus' = Stepped(focus, moving, FocusStep)
  /\ pc' = "render"
  /\ UNCHANGED <<touch, physical_touch_count, controls_enabled, buttons,
                 pressed, ly, pad_grabbed, pad_tap_pending_release,
                 rack_swipe_active, rack_swipe_y, drag, transport_playing>>

(* Events are drained, the frame is drawn and swapped: no input state.     *)
Render ==
  /\ pc = "render"
  /\ pc' = "peek"
  /\ UNCHANGED <<touch, physical_touch_count, padVars>>

PadStep ==
  \/ ReleaseTap \/ ReadPad \/ EnableControls \/ DisableControls
  \/ SwipeRack \/ RestRack \/ PressStart \/ PressSelect \/ Cross
  \/ DragGrabbed \/ MoveFocus \/ Render
-----------------------------------------------------------------------------
PadTypeOK ==
  /\ controls_enabled \in BOOLEAN /\ transport_playing \in BOOLEAN
  /\ pad_grabbed \in BOOLEAN /\ pad_tap_pending_release \in BOOLEAN
  /\ rack_swipe_active \in BOOLEAN
  /\ buttons \in SUBSET Button
  /\ pressed \in SUBSET Button
  /\ ly \in 0 .. 255
  /\ rack_swipe_y \in RackMinY .. RackMaxY
  /\ focus \in Cursor
  /\ drag \in Cursor
  /\ direction_hold \in [Direction -> 0 .. RepeatDelay + RepeatEvery]

(***************************************************************************)
(* The flags and Caustic agree between any two blocks: the pad pointer is  *)
(* down for a grab or for a tap, never both, and at the place the overlay  *)
(* is drawn; the rack pointer is down for a swipe, where the swipe stands. *)
(***************************************************************************)
PadMatchesPointers ==
  /\ touch[PAD_POINTER_ID].st =
       (IF pad_grabbed \/ pad_tap_pending_release THEN "down" ELSE "up")
  /\ ~ (pad_grabbed /\ pad_tap_pending_release)
  /\ touch[PAD_POINTER_ID].st = "down" => touch[PAD_POINTER_ID].at = drag
  /\ touch[RACK_POINTER_ID].st = (IF rack_swipe_active THEN "down" ELSE "up")
  /\ rack_swipe_active =>
       touch[RACK_POINTER_ID].at = RackAt(rack_swipe_y)

(***************************************************************************)
(* docs/CONTROLS.md: "Disabling the mode releases any held synthetic touch *)
(* or rack swipe so it cannot remain stuck."  With the mode off neither    *)
(* reserved pointer is down, a tap begun just before included, and no held *)
(* direction is remembered.                                                *)
(***************************************************************************)
ControlsOffReleases ==
  ~ controls_enabled =>
    /\ touch[PAD_POINTER_ID].st = "up"
    /\ touch[RACK_POINTER_ID].st = "up"
    /\ direction_hold = [d \in Direction |-> 0]

(***************************************************************************)
(* The rack swipe is the only touch on the screen while it lasts: a finger *)
(* that lands or a grab ends it in the frame that notices, so no frame is  *)
(* drawn with both a finger and the swipe down, and no block after the     *)
(* rack's starts with both a grab and the swipe.                           *)
(***************************************************************************)
RackYields ==
  /\ pc \in {"buttons", "dpad", "render"} /\ rack_swipe_active
       => physical_touch_count = 0
  /\ pc = "buttons" => ~ (rack_swipe_active /\ pad_grabbed)

(***************************************************************************)
(* A deflected stick always scrolls by exactly its own delta: the pointer  *)
(* moves on from where it was or from the center it was just re-anchored   *)
(* to, and the clamp after it never shortens the move at an edge.          *)
(***************************************************************************)
RackFollowsStick ==
  [][pc = "rack" /\ rack_swipe_active' =>
       /\ RackDelta # 0
       /\ rack_swipe_y' \in {rack_swipe_y + RackDelta,
                             RackCenterY + RackDelta}]_<<pc, padVars>>

(***************************************************************************)
(* A tap is let go of: the pad pointer START or SELECT put down comes up   *)
(* again, whatever the user presses in the meantime.                       *)
(***************************************************************************)
TapsReleased == pad_tap_pending_release ~> (touch[PAD_POINTER_ID].st = "up")
=============================================================================
