----------------------------- MODULE RenderLoop ------------------------------
(***************************************************************************)
(* The input half of the render loop of src/main.c (869-1135): in every    *)
(* frame the panel's fingers, then the controller, then the picture.  One  *)
(* thread runs it, so the two halves never interleave; they meet in the    *)
(* pointer table and in physical_touch_count.                              *)
(***************************************************************************)
EXTENDS TouchSlots, Controller

vars == <<pc, touch, physical_touch_count, slotVars, padVars>>

Init == PointersInit /\ SlotsInit /\ PadInit

Next ==
  \/ TouchStep /\ UNCHANGED padVars
  \/ PadStep /\ UNCHANGED slotVars

(* The loop is "for (;;)" and waits for nothing but the display's vblank.  *)
Fairness == WF_vars(Next)

Spec == Init /\ [][Next]_vars /\ Fairness

TypeOK == PointersTypeOK /\ SlotsTypeOK /\ PadTypeOK

-----------------------------------------------------------------------------
(* Where in the frame the controller's flags may be set: what the safety   *)
(* properties need beside them to be inductive.                            *)
PadFrame ==
  /\ pc \in {"read", "toggle", "rack", "buttons", "dpad"}
       => ~ pad_tap_pending_release
  /\ pc \in {"rack", "buttons", "dpad"} => controls_enabled
  /\ ~ controls_enabled =>
       /\ ~ pad_grabbed /\ ~ pad_tap_pending_release /\ ~ rack_swipe_active
       /\ direction_hold = [d \in Direction |-> 0]

IInv ==
  /\ TypeOK
  /\ SlotsMatchPointers
  /\ PadMatchesPointers
  /\ PadFrame
  /\ RackYields
=============================================================================
