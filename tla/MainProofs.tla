---------------------------- MODULE MainProofs -----------------------------
(***************************************************************************)
(* TLAPS proofs about src/main.c: the render loop, for every number of     *)
(* slots, every set of fingers and every geometry the assumptions allow;   *)
(* the microphone's samples, for every pair of rates, every buffer and     *)
(* every block that fit the queue; and the life of the program with its    *)
(* threads, for both builds.                                               *)
(***************************************************************************)
EXTENDS RenderLoop, MicResampler, Lifecycle, Recursion, FiniteSetTheorems, SequenceTheorems, TLAPS

(***************************************************************************)
(* Facts about the operators the actions are built from.                   *)
(***************************************************************************)

(* Neither reserved id is a slot's, and they differ.                       *)
LEMMA ReservedIds ==
  /\ Slot \subseteq Pointer
  /\ PAD_POINTER_ID \in Pointer \ Slot
  /\ RACK_POINTER_ID \in Pointer \ Slot
  /\ PAD_POINTER_ID # RACK_POINTER_ID
  /\ Pointer = Slot \cup {PAD_POINTER_ID, RACK_POINTER_ID}
BY ScreenAssumption DEF Slot, Pointer, PAD_POINTER_ID, RACK_POINTER_ID

(* The first slot of a set of slots is one of them.                        *)
LEMMA FirstMember ==
  ASSUME NEW S \in SUBSET Slot, S # {}
  PROVE  First(S) \in S
<1>1. S \subseteq Nat
  BY ScreenAssumption DEF Slot
<1>2. \E s \in S : \A t \in S : s <= t
  BY <1>1, FirstExists
<1>. QED
  BY <1>2 DEF First

(* Whatever is called on a pointer, its entry stays well formed.           *)
LEMMA CallTypes ==
  ASSUME NEW pointer \in PointerState, NEW at \in Point
  PROVE  /\ touch_begin(pointer, at) \in PointerState
         /\ touch_move(pointer, at) \in PointerState
         /\ touch_end(pointer, at) \in PointerState
BY ScreenAssumption
   DEF PointerState, Point, touch_begin, touch_move, touch_end

(* The cursor stays on the screen, and every place it may be is a point.   *)
LEMMA SteppedCursor ==
  ASSUME NEW at \in Cursor, NEW dirs, NEW stride \in Nat
  PROVE  Stepped(at, dirs, stride) \in Cursor
<1>1. ASSUME NEW v \in Int, NEW high \in Nat, high >= 1
      PROVE  Clamp(v, 1, high) \in 1 .. high
  BY <1>1 DEF Clamp
<1>2. ASSUME NEW high \in Nat, high >= 1, NEW v \in 1 .. high,
             NEW less, NEW more
      PROVE  Shift(v, less, more, stride, high) \in 1 .. high
  <2>1. ASSUME NEW u \in 1 .. high
        PROVE  /\ Clamp(u - stride, 1, high) \in 1 .. high
               /\ Clamp(u + stride, 1, high) \in 1 .. high
    BY <1>1, <1>2, <2>1
  <2>. DEFINE first == IF less THEN Clamp(v - stride, 1, high) ELSE v
  <2>2. first \in 1 .. high
    BY <1>2, <2>1
  <2>3. (IF more THEN Clamp(first + stride, 1, high) ELSE first) \in 1 .. high
    <3>. HIDE DEF first
    <3>. QED BY <2>1, <2>2
  <2>. QED
    BY <2>3, Zenon DEF Shift
<1>3. /\ at[1] \in 1 .. Width - 2 /\ at[2] \in 1 .. Height - 2
      /\ Width - 2 \in Nat /\ Width - 2 >= 1
      /\ Height - 2 \in Nat /\ Height - 2 >= 1
  BY ScreenAssumption DEF Cursor
<1>4. Shift(at[1], "LEFT" \in dirs, "RIGHT" \in dirs, stride, Width - 2)
        \in 1 .. Width - 2
  BY <1>2, <1>3, Zenon
<1>5. Shift(at[2], "UP" \in dirs, "DOWN" \in dirs, stride, Height - 2)
        \in 1 .. Height - 2
  BY <1>2, <1>3, Zenon
<1>. QED
  BY <1>4, <1>5, Zenon DEF Stepped, Cursor

LEMMA CursorPoints == Cursor \subseteq Point
BY ScreenAssumption DEF Cursor, Point

(* A stick deflects the swipe by at most five pixels a frame.              *)
LEMMA RackDeltaBound ==
  ASSUME ly \in 0 .. 255
  PROVE  RackDelta \in -5 .. 5
<1>1. ASSUME ly < 80 PROVE (80 - ly) \div 24 \in 0 .. 3
  BY <1>1
<1>2. ASSUME ly > 176 PROVE (ly - 176) \div 24 \in 0 .. 3
  BY <1>2
<1>. QED
  BY <1>1, <1>2 DEF RackDelta

LEMMA RackPoints ==
  /\ RackMinY .. RackMaxY \subseteq 0 .. Height
  /\ \A y \in 0 .. Height : RackAt(y) \in Point
  /\ RackCenterY \in RackMinY .. RackMaxY
  /\ \A d \in -5 .. 5 : RackCenterY + d \in RackMinY .. RackMaxY
BY ScreenAssumption, ControllerAssumption DEF RackAt, Point

(* Scaling never leaves the screen.                                        *)
LEMMA ScaledPoint ==
  ASSUME NEW raw \in PanelPoint
  PROVE  Scaled(raw) \in Point
<1>1. \A v, d, size \in Nat :
        v <= d => v * size \in Nat /\ v * size <= d * size
  <2>. SUFFICES ASSUME NEW v \in Nat, NEW d \in Nat, NEW size \in Nat, v <= d
                PROVE  v * size \in Nat /\ v * size <= d * size
    OBVIOUS
  <2>. DEFINE low == v * size
              gap == (d - v) * size
              high == d * size
  <2>1. low \in Nat /\ gap \in Nat /\ high = low + gap
    OBVIOUS
  <2>2. low \in Nat /\ low <= high
    <3>. HIDE DEF low, gap, high
    <3>. QED
      BY <2>1
  <2>. QED
    BY <2>2
<1>2. raw \in (0 .. 1919) \X (0 .. 1087)
  BY PanelAssumption
<1>. DEFINE x == raw[1]
            y == raw[2]
<1>3. x \in 0 .. 1919 /\ y \in 0 .. 1087
  BY <1>2
<1>4. (x * Width) \div 1919 \in 0 .. Width
  <2>. HIDE DEF x
  <2>1. x * Width \in Nat /\ x * Width <= 1919 * Width
    BY <1>1, <1>3, ScreenAssumption
  <2>. QED
    BY <2>1, ScreenAssumption
<1>5. (y * Height) \div 1087 \in 0 .. Height
  <2>. HIDE DEF y
  <2>1. y * Height \in Nat /\ y * Height <= 1087 * Height
    BY <1>1, <1>3, ScreenAssumption
  <2>. QED
    BY <2>1, ScreenAssumption
<1>. QED
  BY <1>4, <1>5 DEF Scaled, Point

-----------------------------------------------------------------------------
(***************************************************************************)
(* The controller's half of a step.                                        *)
(***************************************************************************)

(* No block of the controller touches a slot's pointer or the slots.       *)
LEMMA PadStepKeepsSlots ==
  ASSUME IInv, PadStep, UNCHANGED slotVars
  PROVE  SlotsTypeOK' /\ SlotsMatchPointers'
<1>1. physical_touch_count' = physical_touch_count
  BY DEF PadStep, ReleaseTap, ReadPad, EnableControls, DisableControls,
         SwipeRack, RestRack, PressStart, PressSelect, Cross, DragGrabbed,
         MoveFocus, Render
<1>2. \A s \in Slot : touch'[s] = touch[s]
  <2>1. touch \in [Pointer -> PointerState]
    BY DEF IInv, TypeOK, PointersTypeOK
  <2>. QED
    BY <2>1, ReservedIds
       DEF PadStep, ReleaseTap, ReadPad, EnableControls, DisableControls,
           Released, SwipeRack, RestRack, PressStart, PressSelect, Tap, Cross,
           DragGrabbed, MoveFocus, Render
<1>. QED
  BY <1>1, <1>2
     DEF IInv, TypeOK, SlotsTypeOK, SlotsMatchPointers, slotVars

(* A tap lets go of the grab, if there is one, and begins where it should. *)
LEMMA TapBegins ==
  ASSUME IInv, pc = "buttons", NEW at \in Cursor, Tap(at)
  PROVE  /\ touch' \in [Pointer -> PointerState]
         /\ touch'[PAD_POINTER_ID] = [st |-> "down", at |-> at]
         /\ touch'[RACK_POINTER_ID] = touch[RACK_POINTER_ID]
<1>. DEFINE pad == touch[PAD_POINTER_ID]
            free == IF pad_grabbed THEN LetGo(pad) ELSE pad
<1>1. touch \in [Pointer -> PointerState] /\ at \in Point /\ drag \in Point
  BY CursorPoints DEF IInv, TypeOK, PointersTypeOK, PadTypeOK
<1>2. free \in PointerState /\ free.st = "up"
  BY <1>1, CallTypes, ReservedIds
     DEF IInv, PadMatchesPointers, PadFrame, LetGo, touch_end
<1>3. touch' = [touch EXCEPT ![PAD_POINTER_ID] = touch_begin(free, at)]
  BY DEF Tap
<1>. QED
  BY <1>1, <1>2, <1>3, CallTypes, ReservedIds DEF touch_begin

(* The hold counters stay within one repeat cycle.                         *)
LEMMA HeldTypes ==
  ASSUME PadTypeOK, HoldDirections
  PROVE  direction_hold' \in [Direction -> 0 .. RepeatDelay + RepeatEvery]
<1>1. RepeatDelay \in Nat /\ RepeatEvery \in Nat \ {0}
  BY ControllerAssumption
<1>2. \A n \in 0 .. RepeatDelay + RepeatEvery :
        Held(n) \in 0 .. RepeatDelay + RepeatEvery
  BY <1>1 DEF Held
<1>. QED
  BY <1>1, <1>2 DEF PadTypeOK, HoldDirections

LEMMA PadStepKeepsPad ==
  ASSUME IInv, PadStep
  PROVE  /\ PointersTypeOK' /\ PadTypeOK'
         /\ PadMatchesPointers' /\ PadFrame' /\ RackYields'
<1>. USE ReservedIds DEF IInv, TypeOK, PointersTypeOK, PadTypeOK,
         PadMatchesPointers, PadFrame, RackYields, Phase, LetGo, Released,
         RackMayScroll, Leaves
<1>0. drag \in Point /\ focus \in Point /\ RackAt(rack_swipe_y) \in Point
  BY CursorPoints, RackPoints
<1>1. CASE ReleaseTap
  BY <1>0, <1>1, CallTypes
     DEF ReleaseTap, touch_end
<1>2. CASE ReadPad
  BY <1>2, ControllerAssumption DEF ReadPad
<1>3. CASE EnableControls
  BY <1>3 DEF EnableControls
<1>4. CASE DisableControls
  <2>1. touch' \in [Pointer -> PointerState]
    BY <1>0, <1>4, CallTypes DEF DisableControls
  <2>2. /\ touch'[PAD_POINTER_ID].st = "up"
        /\ touch'[RACK_POINTER_ID].st = "up"
    BY <1>4 DEF DisableControls, touch_end
  <2>3. direction_hold' \in [Direction -> 0 .. RepeatDelay + RepeatEvery]
    BY <1>4, ControllerAssumption DEF DisableControls
  <2>. QED
    BY <1>4, <2>1, <2>2, <2>3 DEF DisableControls
<1>5. CASE SwipeRack
  <2>. DEFINE rack == touch[RACK_POINTER_ID]
              startY == IF rack_swipe_active THEN rack_swipe_y ELSE RackCenterY
              started == IF rack_swipe_active THEN rack
                         ELSE touch_begin(rack, RackAt(RackCenterY))
              leaves == Leaves(startY)
              fromY == IF leaves THEN RackCenterY ELSE startY
              anchored == IF leaves
                          THEN touch_begin(touch_end(started, RackAt(startY)),
                                           RackAt(RackCenterY))
                          ELSE started
  <2>1. /\ startY \in RackMinY .. RackMaxY
        /\ RackAt(startY) \in Point
        /\ RackAt(RackCenterY) \in Point
    BY RackPoints
  <2>2. started \in PointerState /\ started.st = "down"
        /\ started.at = RackAt(startY)
    BY <2>1, CallTypes DEF touch_begin
  <2>3. anchored \in PointerState /\ anchored.st = "down"
    <3>. HIDE DEF started, startY, leaves
    <3>. QED
      BY <2>1, <2>2, CallTypes DEF touch_begin, touch_end
  <2>4. fromY + RackDelta \in RackMinY .. RackMaxY
    <3>1. CASE leaves
      BY <3>1, RackDeltaBound, RackPoints
    <3>2. CASE ~ leaves
      BY <3>2
    <3>. QED
      BY <3>1, <3>2
  <2>5. Clamp(fromY + RackDelta, RackMinY, RackMaxY) = fromY + RackDelta
    <3>. HIDE DEF fromY
    <3>. QED
      BY <2>4, ControllerAssumption DEF Clamp
  <2>6. /\ rack_swipe_y' = Clamp(fromY + RackDelta, RackMinY, RackMaxY)
        /\ touch' = [touch EXCEPT ![RACK_POINTER_ID] =
                       touch_move(anchored, RackAt(rack_swipe_y'))]
    BY <1>5 DEF SwipeRack
  <2>. HIDE DEF fromY, anchored
  <2>7. rack_swipe_y' \in RackMinY .. RackMaxY
        /\ RackAt(rack_swipe_y') \in Point
    BY <2>4, <2>5, <2>6, RackPoints
  <2>8. /\ touch' \in [Pointer -> PointerState]
        /\ touch'[PAD_POINTER_ID] = touch[PAD_POINTER_ID]
        /\ touch'[RACK_POINTER_ID].st = "down"
        /\ touch'[RACK_POINTER_ID].at = RackAt(rack_swipe_y')
    BY <2>3, <2>6, <2>7, CallTypes DEF touch_move
  <2>. QED
    BY <1>5, <2>7, <2>8 DEF SwipeRack
<1>6. CASE RestRack
  BY <1>0, <1>6, CallTypes DEF RestRack, touch_end
<1>7. CASE PressStart
  <2>. DEFINE at == IF transport_playing THEN StopAt ELSE PlayAt
  <2>1. at \in Cursor /\ Tap(at)
    BY <1>7, ControllerAssumption DEF PressStart
  <2>. HIDE DEF at
  <2>2. /\ touch' \in [Pointer -> PointerState]
        /\ touch'[PAD_POINTER_ID] = [st |-> "down", at |-> at]
        /\ touch'[RACK_POINTER_ID] = touch[RACK_POINTER_ID]
    BY <1>7, <2>1, TapBegins DEF PressStart
  <2>3. PointersTypeOK' /\ PadTypeOK'
    BY <1>7, <2>1, <2>2 DEF PressStart, Tap
  <2>4. PadMatchesPointers'
    BY <1>7, <2>1, <2>2 DEF PressStart, Tap
  <2>5. PadFrame' /\ RackYields'
    BY <1>7, <2>1, <2>2 DEF PressStart, Tap
  <2>. QED
    BY <2>3, <2>4, <2>5
<1>8. CASE PressSelect
  <2>1. MachineAt \in Cursor /\ MachineFocus \in Cursor /\ Tap(MachineAt)
    BY <1>8, ControllerAssumption DEF PressSelect
  <2>2. /\ touch' \in [Pointer -> PointerState]
        /\ touch'[PAD_POINTER_ID] = [st |-> "down", at |-> MachineAt]
        /\ touch'[RACK_POINTER_ID] = touch[RACK_POINTER_ID]
    BY <1>8, <2>1, TapBegins DEF PressSelect
  <2>3. PointersTypeOK' /\ PadTypeOK'
    BY <1>8, <2>1, <2>2 DEF PressSelect, Tap
  <2>4. PadMatchesPointers'
    BY <1>8, <2>1, <2>2 DEF PressSelect, Tap
  <2>5. PadFrame' /\ RackYields'
    BY <1>8, <2>1, <2>2 DEF PressSelect, Tap
  <2>. QED
    BY <2>3, <2>4, <2>5
<1>9. CASE Cross
  <2>1. /\ touch' \in [Pointer -> PointerState]
        /\ touch'[RACK_POINTER_ID] = touch[RACK_POINTER_ID]
    BY <1>0, <1>9, CallTypes DEF Cross
  <2>2. /\ touch'[PAD_POINTER_ID].st = (IF pad_grabbed' THEN "down" ELSE "up")
        /\ pad_grabbed' => touch'[PAD_POINTER_ID].at = drag'
        /\ pad_grabbed' \in BOOLEAN /\ drag' \in Cursor
    <3>1. CASE "CROSS" \in pressed /\ pad_grabbed
      <4>1. touch' = [touch EXCEPT ![PAD_POINTER_ID] =
                        touch_end(touch[PAD_POINTER_ID], drag)]
        BY <1>9, <3>1 DEF Cross
      <4>2. touch'[PAD_POINTER_ID].st = "up"
        BY <4>1, <3>1 DEF touch_end
      <4>. QED
        BY <1>9, <3>1, <4>2 DEF Cross
    <3>2. CASE "CROSS" \in pressed /\ ~ pad_grabbed
      BY <1>9, <3>2 DEF Cross, touch_begin
    <3>3. CASE "CROSS" \notin pressed
      BY <1>9, <3>3 DEF Cross
    <3>. QED
      BY <3>1, <3>2, <3>3
  <2>3. PointersTypeOK' /\ PadTypeOK'
    BY <1>9, <2>1, <2>2 DEF Cross
  <2>4. PadMatchesPointers'
    BY <1>9, <2>1, <2>2 DEF Cross
  <2>5. PadFrame' /\ RackYields'
    BY <1>9, <2>1, <2>2 DEF Cross
  <2>. QED
    BY <2>3, <2>4, <2>5
<1>10. CASE DragGrabbed
  <2>1. drag' \in Cursor /\ drag' \in Point
    BY <1>10, SteppedCursor, CursorPoints, ControllerAssumption
       DEF DragGrabbed
  <2>2. /\ touch' \in [Pointer -> PointerState]
        /\ touch'[RACK_POINTER_ID] = touch[RACK_POINTER_ID]
    BY <1>10, <2>1, CallTypes DEF DragGrabbed
  <2>3. touch'[PAD_POINTER_ID].st = "down" /\ touch'[PAD_POINTER_ID].at = drag'
    <3>1. CASE buttons \cap Direction # {}
      BY <1>10, <3>1 DEF DragGrabbed, touch_move
    <3>2. CASE buttons \cap Direction = {}
      <4>1. drag' = drag
        BY <1>10, <3>2 DEF DragGrabbed, Stepped, Shift, Direction, Cursor
      <4>. QED
        BY <1>10, <3>2, <4>1 DEF DragGrabbed
    <3>. QED
      BY <3>1, <3>2
  <2>4. direction_hold' \in [Direction -> 0 .. RepeatDelay + RepeatEvery]
    BY <1>10, HeldTypes DEF DragGrabbed
  <2>. QED
    BY <1>10, <2>1, <2>2, <2>3, <2>4 DEF DragGrabbed
<1>11. CASE MoveFocus
  <2>1. focus' \in Cursor
    BY <1>11, SteppedCursor, ControllerAssumption DEF MoveFocus
  <2>2. direction_hold' \in [Direction -> 0 .. RepeatDelay + RepeatEvery]
    BY <1>11, HeldTypes DEF MoveFocus
  <2>. QED
    BY <1>11, <2>1, <2>2 DEF MoveFocus
<1>12. CASE Render
  BY <1>12 DEF Render, padVars
<1>. QED
  BY <1>1, <1>2, <1>3, <1>4, <1>5, <1>6, <1>7, <1>8, <1>9, <1>10, <1>11,
     <1>12 DEF PadStep

-----------------------------------------------------------------------------
(***************************************************************************)
(* The panel's half of a step.                                             *)
(***************************************************************************)

(* A frame's touches never concern the reserved pointers.                  *)
LEMMA TouchStepKeepsPad ==
  ASSUME IInv, TouchStep, UNCHANGED padVars
  PROVE  PadTypeOK' /\ PadMatchesPointers' /\ PadFrame' /\ RackYields'
<1>1. touch \in [Pointer -> PointerState]
  BY DEF IInv, TypeOK, PointersTypeOK
<1>2. /\ active \subseteq Slot
      /\ \A f : Following(f) # {} => First(Following(f)) \in Slot
      /\ active # Slot => First(Slot \ active) \in Slot
  <2>1. active \subseteq Slot /\ \A f : Following(f) \subseteq Slot
    BY DEF IInv, TypeOK, SlotsTypeOK, Following
  <2>. QED
    BY <2>1, FirstMember
<1>3. /\ touch'[PAD_POINTER_ID] = touch[PAD_POINTER_ID]
      /\ touch'[RACK_POINTER_ID] = touch[RACK_POINTER_ID]
  <2>1. CASE Peek \/ SkipReport
    BY <2>1 DEF Peek, SkipReport
  <2>2. CASE MoveReport
    BY <1>1, <1>2, <2>2, ReservedIds DEF MoveReport
  <2>3. CASE BeginReport
    BY <1>1, <1>2, <2>3, ReservedIds DEF BeginReport
  <2>4. CASE Lift
    BY <1>1, <1>2, <2>4, ReservedIds DEF Lift, Lifted
  <2>. QED
    BY <2>1, <2>2, <2>3, <2>4 DEF TouchStep
<1>4. pc' \in {"peek", "report", "tap"}
  BY DEF TouchStep, Peek, MoveReport, BeginReport, SkipReport, Lift
<1>. QED
  BY <1>3, <1>4
     DEF IInv, TypeOK, PadTypeOK, PadMatchesPointers, PadFrame, RackYields,
         padVars

(* There are never more active slots than slots.                           *)
LEMMA ActiveBound ==
  ASSUME NEW S \in SUBSET Slot
  PROVE  IsFiniteSet(S) /\ Cardinality(S) \in 0 .. MaxReport
<1>1. IsFiniteSet(Slot) /\ Cardinality(Slot) = MaxReport
  BY FS_Interval, ScreenAssumption DEF Slot
<1>. QED
  BY <1>1, FS_Subset, FS_CardinalityType, ScreenAssumption

(* What a sample of the panel gives the loop to handle.                    *)
LEMMA SampleTypes ==
  ASSUME NEW sample \in Sample
  PROVE  Len(sample) \in Nat /\ sample \in Seq(Report)
<1>1. Cardinality(Finger) \in Nat
  <2>1. Finger \in SUBSET (0 .. 255)
    BY PanelAssumption
  <2>2. IsFiniteSet(0 .. 255)
    <3>1. 0 \in Int /\ 255 \in Int
      OBVIOUS
    <3>. QED
      BY <3>1, FS_Interval, Zenon
  <2>3. IsFiniteSet(Finger)
    BY <2>1, <2>2, FS_Subset
  <2>. QED
    BY <2>3, FS_CardinalityType
<1>2. PICK k \in 0 .. Cardinality(Finger) : sample \in [1 .. k -> Report]
  BY DEF Sample
<1>3. k \in Nat
  BY <1>1
<1>4. sample \in Seq(Report) /\ Len(sample) = k
  BY <1>2, <1>3
<1>. QED
  BY <1>3, <1>4

(* The reports handled are a prefix of the sample.                         *)
LEMMA PrefixTypes ==
  ASSUME NEW sample \in Sample, NEW n \in 0 .. Len(sample)
  PROVE  /\ SubSeq(sample, 1, n) \in Seq(Report)
         /\ { sample[i].id : i \in 1 .. n } \in SUBSET Finger
<1>1. \A i \in 1 .. n : sample[i] \in Report
  BY SampleTypes
<1>2. SubSeq(sample, 1, n) \in Seq(Report)
  <2>1. n \in Int /\ 1 \in Int
    BY SampleTypes
  <2>. QED
    BY <1>1, <2>1, SubSeqProperties
<1>3. \A i \in 1 .. n : sample[i].id \in Finger
  BY <1>1 DEF Report
<1>. QED
  BY <1>2, <1>3

(* A report carries a finger's id and a place on the panel.                *)
LEMMA ReportTypes ==
  ASSUME SlotsTypeOK, reports # <<>>
  PROVE  /\ Tail(reports) \in Seq(Report)
         /\ Head(reports).id \in 0 .. 255
         /\ Scaled(Head(reports).raw) \in Point
<1>1. Head(reports) \in Report /\ Tail(reports) \in Seq(Report)
  BY HeadTailProperties DEF SlotsTypeOK
<1>2. Head(reports).id \in Finger /\ Head(reports).raw \in PanelPoint
  BY <1>1 DEF Report
<1>3. Head(reports).id \in 0 .. 255
  <2>1. \A f \in Finger : f \in 0 .. 255
    BY PanelAssumption
  <2>. DEFINE f == Head(reports).id
  <2>2. f \in Finger
    BY <1>2
  <2>. HIDE DEF f
  <2>3. f \in 0 .. 255
    BY <2>1, <2>2
  <2>. QED
    BY <2>3 DEF f
<1>4. Scaled(Head(reports).raw) \in Point
  BY <1>2, ScaledPoint
<1>. QED
  BY <1>1, <1>3, <1>4

LEMMA TouchStepKeepsSlots ==
  ASSUME IInv, TouchStep
  PROVE  PointersTypeOK' /\ SlotsTypeOK' /\ SlotsMatchPointers'
<1>. USE ReservedIds DEF IInv, TypeOK, PointersTypeOK, SlotsTypeOK,
         SlotsMatchPointers, Phase
<1>1. CASE Peek
  <2>1. PICK sample \in Sample :
          LET n == IF Len(sample) > MaxReport THEN MaxReport ELSE Len(sample)
          IN  /\ reports' = SubSeq(sample, 1, n)
              /\ glass' = { sample[i].id : i \in 1 .. n }
    BY <1>1 DEF Peek
  <2>. DEFINE n == IF Len(sample) > MaxReport THEN MaxReport ELSE Len(sample)
  <2>2. n \in 0 .. Len(sample)
    BY SampleTypes, ScreenAssumption
  <2>3. reports' \in Seq(Report) /\ glass' \in SUBSET Finger
    <3>. HIDE DEF n
    <3>. QED
      BY <2>1, <2>2, PrefixTypes DEF n
  <2>. QED
    BY <1>1, <2>3 DEF Peek
<1>2. CASE MoveReport
  <2>. DEFINE at == Scaled(Head(reports).raw)
              slot == First(Following(Head(reports).id))
  <2>1. slot \in active /\ slot \in Slot
    <3>1. Following(Head(reports).id) \subseteq active
      BY DEF Following
    <3>. QED
      BY <1>2, <3>1, FirstMember DEF MoveReport
  <2>2. at \in Point /\ reports' \in Seq(Report)
    BY <1>2, ReportTypes DEF MoveReport
  <2>3. /\ seen' = seen \cup {slot}
        /\ position' = [position EXCEPT ![slot] = at]
        /\ touch' = [touch EXCEPT ![slot] = touch_move(touch[slot], at)]
    BY <1>2 DEF MoveReport
  <2>. HIDE DEF at, slot
  <2>4. /\ touch' \in [Pointer -> PointerState]
        /\ touch'[slot] = [st |-> "down", at |-> at]
    BY <2>1, <2>2, <2>3, CallTypes DEF touch_move
  <2>5. /\ UNCHANGED <<pc, physical_touch_count, active, hardware_id, glass,
                       lastGlass>>
        /\ seen' \in SUBSET Slot
    BY <1>2, <2>1, <2>3 DEF MoveReport
  <2>6. PointersTypeOK'
    BY <2>4, <2>5
  <2>7. SlotsTypeOK'
    <3>1. position' \in [Slot -> Point]
      BY <2>1, <2>2, <2>3
    <3>. QED
      BY <2>2, <2>5, <3>1
  <2>8. SlotsMatchPointers'
    <3>1. \A s \in Slot \ {slot} :
            touch'[s] = touch[s] /\ position'[s] = position[s]
      BY <2>1, <2>3
    <3>2. position'[slot] = at
      BY <2>1, <2>3
    <3>3. \A s \in Slot : touch'[s].st = (IF s \in active THEN "down" ELSE "up")
      BY <2>1, <2>4, <3>1
    <3>4. \A s \in active : touch'[s].at = position'[s]
      BY <2>1, <2>4, <3>1, <3>2
    <3>. QED
      BY <2>5, <3>3, <3>4
  <2>. QED
    BY <2>6, <2>7, <2>8
<1>3. CASE BeginReport
  <2>. DEFINE at == Scaled(Head(reports).raw)
              slot == First(Slot \ active)
              id == Head(reports).id
  <2>1. slot \in Slot /\ slot \notin active
    <3>1. Slot \ active # {} /\ Slot \ active \in SUBSET Slot
      BY <1>3 DEF BeginReport
    <3>2. First(Slot \ active) \in Slot \ active
      BY <3>1, FirstMember
    <3>. QED
      BY <3>2
  <2>2. at \in Point /\ id \in 0 .. 255 /\ reports' \in Seq(Report)
    BY <1>3, ReportTypes DEF BeginReport
  <2>3. /\ active' = active \cup {slot}
        /\ seen' = seen \cup {slot}
        /\ hardware_id' = [hardware_id EXCEPT ![slot] = id]
        /\ position' = [position EXCEPT ![slot] = at]
        /\ touch' = [touch EXCEPT ![slot] = touch_begin(touch[slot], at)]
        /\ physical_touch_count' = physical_touch_count + 1
        /\ \A s \in active : hardware_id[s] # id
    BY <1>3 DEF BeginReport, Following
  <2>. HIDE DEF at, slot, id
  <2>4. /\ touch' \in [Pointer -> PointerState]
        /\ touch'[slot] = [st |-> "down", at |-> at]
    BY <2>1, <2>2, <2>3, CallTypes DEF touch_begin
  <2>5. /\ physical_touch_count' = Cardinality(active')
        /\ physical_touch_count' \in 0 .. MaxReport
    <3>1. active \in SUBSET Slot /\ active \cup {slot} \in SUBSET Slot
      BY <2>1
    <3>2. /\ IsFiniteSet(active)
          /\ Cardinality(active \cup {slot}) \in 0 .. MaxReport
      BY <3>1, ActiveBound
    <3>3. Cardinality(active \cup {slot}) = Cardinality(active) + 1
      BY <2>1, <3>2, FS_AddElement
    <3>. QED
      BY <2>3, <3>2, <3>3
  <2>6. \A s, t \in active' : hardware_id'[s] = hardware_id'[t] => s = t
    BY <2>1, <2>2, <2>3
  <2>7. UNCHANGED <<pc, glass, lastGlass>>
    BY <1>3 DEF BeginReport
  <2>8. PointersTypeOK'
    BY <2>4, <2>5, <2>7
  <2>9. SlotsTypeOK'
    <3>1. position' \in [Slot -> Point]
      BY <2>1, <2>2, <2>3
    <3>2. hardware_id' \in [Slot -> 0 .. 255]
      BY <2>1, <2>2, <2>3
    <3>3. active' \in SUBSET Slot /\ seen' \in SUBSET Slot
      BY <2>1, <2>3
    <3>. QED
      BY <2>2, <2>7, <3>1, <3>2, <3>3
  <2>10. SlotsMatchPointers'
    <3>1. \A s \in Slot \ {slot} :
            touch'[s] = touch[s] /\ position'[s] = position[s]
      BY <2>1, <2>3
    <3>2. position'[slot] = at
      BY <2>1, <2>3
    <3>3. \A s \in Slot :
            touch'[s].st = (IF s \in active' THEN "down" ELSE "up")
      BY <2>1, <2>3, <2>4, <3>1
    <3>4. \A s \in active' : touch'[s].at = position'[s]
      BY <2>1, <2>3, <2>4, <3>1, <3>2
    <3>. QED
      BY <2>5, <2>6, <3>3, <3>4
  <2>. QED
    BY <2>8, <2>9, <2>10
<1>4. CASE SkipReport
  <2>1. reports' \in Seq(Report)
    BY <1>4, ReportTypes DEF SkipReport
  <2>2. UNCHANGED <<pc, touch, physical_touch_count, active, seen,
                    hardware_id, position, glass, lastGlass>>
    BY <1>4 DEF SkipReport
  <2>3. PointersTypeOK'
    BY <2>2
  <2>4. SlotsTypeOK'
    BY <2>1, <2>2
  <2>5. SlotsMatchPointers'
    BY <2>2
  <2>. QED
    BY <2>3, <2>4, <2>5
<1>5. CASE Lift
  <2>. DEFINE lifted == Lifted
  <2>1. /\ active' = active \ lifted
        /\ touch' = [p \in Pointer |->
                      IF p \in lifted THEN touch_end(touch[p], position[p])
                                      ELSE touch[p]]
        /\ physical_touch_count' = physical_touch_count - Cardinality(lifted)
    BY <1>5 DEF Lift
  <2>2. lifted \subseteq active /\ lifted \subseteq Slot
    BY DEF Lifted
  <2>. HIDE DEF lifted
  <2>3. /\ physical_touch_count' = Cardinality(active')
        /\ physical_touch_count' \in 0 .. MaxReport
    <3>1. active \in SUBSET Slot /\ active \ lifted \in SUBSET Slot
      BY <2>2
    <3>2. /\ IsFiniteSet(active)
          /\ Cardinality(active) \in 0 .. MaxReport
          /\ Cardinality(active \ lifted) \in 0 .. MaxReport
          /\ Cardinality(lifted) \in 0 .. MaxReport
      BY <2>2, <3>1, ActiveBound
    <3>3. Cardinality(active \ lifted)
            = Cardinality(active) - Cardinality(active \cap lifted)
      BY <3>2, FS_Difference
    <3>4. active \cap lifted = lifted
      BY <2>2
    <3>. QED
      BY <2>1, <3>2, <3>3, <3>4
  <2>4. /\ touch' \in [Pointer -> PointerState]
        /\ \A s \in lifted : touch'[s].st = "up"
        /\ \A s \in Slot \ lifted : touch'[s] = touch[s]
    BY <2>1, <2>2, CallTypes DEF touch_end
  <2>. QED
    BY <1>5, <2>1, <2>2, <2>3, <2>4 DEF Lift
<1>. QED
  BY <1>1, <1>2, <1>3, <1>4, <1>5 DEF TouchStep

-----------------------------------------------------------------------------
LEMMA InitIInv ==
  Init => IInv
<1>. SUFFICES ASSUME Init PROVE IInv
  OBVIOUS
<1>. USE ReservedIds DEF Init, PointersInit, SlotsInit, PadInit
<1>1. PointersTypeOK /\ SlotsTypeOK /\ SlotsMatchPointers
  <2>1. <<0, 0>> \in Point
    BY ScreenAssumption DEF Point
  <2>2. PointersTypeOK
    <3>1. touch \in [Pointer -> PointerState]
      BY <2>1 DEF PointerState
    <3>2. 0 \in 0 .. MaxReport
      BY ScreenAssumption
    <3>. QED
      BY <3>1, <3>2 DEF PointersTypeOK, Phase
  <2>3. SlotsTypeOK
    BY <2>1 DEF SlotsTypeOK
  <2>4. Cardinality({}) = 0
    BY FS_EmptySet
  <2>5. SlotsMatchPointers
    BY <2>4 DEF SlotsMatchPointers
  <2>. QED
    BY <2>2, <2>3, <2>5
<1>2. PadTypeOK
  <2>1. Width \div 2 \in 1 .. Width - 2 /\ Height \div 2 \in 1 .. Height - 2
    BY ScreenAssumption
  <2>2. focus \in Cursor /\ drag \in Cursor
    BY <2>1 DEF Cursor
  <2>3. rack_swipe_y \in RackMinY .. RackMaxY
    BY ControllerAssumption
  <2>4. direction_hold \in [Direction -> 0 .. RepeatDelay + RepeatEvery]
    BY ControllerAssumption
  <2>5. /\ controls_enabled \in BOOLEAN /\ transport_playing \in BOOLEAN
        /\ pad_grabbed \in BOOLEAN /\ pad_tap_pending_release \in BOOLEAN
        /\ rack_swipe_active \in BOOLEAN
    OBVIOUS
  <2>6. buttons \in SUBSET Button /\ pressed \in SUBSET Button
    OBVIOUS
  <2>7. ly \in 0 .. 255
    OBVIOUS
  <2>. QED
    BY <2>2, <2>3, <2>4, <2>5, <2>6, <2>7, Zenon DEF PadTypeOK
<1>3. PadMatchesPointers /\ PadFrame /\ RackYields
  BY DEF PadMatchesPointers, PadFrame, RackYields
<1>. QED
  BY <1>1, <1>2, <1>3 DEF IInv, TypeOK

(***************************************************************************)
(* The strengthened invariant holds in every state of every instance.      *)
(***************************************************************************)
THEOREM Invariance ==
  Spec => []IInv
<1>1. IInv /\ [Next]_vars => IInv'
  <2>. SUFFICES ASSUME IInv, [Next]_vars PROVE IInv'
    OBVIOUS
  <2>1. CASE TouchStep /\ UNCHANGED padVars
    BY <2>1, TouchStepKeepsSlots, TouchStepKeepsPad DEF IInv, TypeOK
  <2>2. CASE PadStep /\ UNCHANGED slotVars
    BY <2>2, PadStepKeepsSlots, PadStepKeepsPad DEF IInv, TypeOK
  <2>3. CASE UNCHANGED vars
    <3>1. PointersTypeOK' /\ SlotsTypeOK' /\ SlotsMatchPointers'
      BY <2>3 DEF vars, slotVars, IInv, TypeOK, PointersTypeOK, SlotsTypeOK,
                  SlotsMatchPointers
    <3>2. PadTypeOK' /\ PadMatchesPointers' /\ PadFrame' /\ RackYields'
      BY <2>3 DEF vars, padVars, IInv, TypeOK, PadTypeOK, PadMatchesPointers,
                  PadFrame, RackYields
    <3>. QED
      BY <3>1, <3>2 DEF IInv, TypeOK
  <2>. QED
    BY <2>1, <2>2, <2>3 DEF Next
<1>. QED
  BY InitIInv, <1>1, PTL DEF Spec

(***************************************************************************)
(* The variables keep their types: no counter leaves its range, and no     *)
(* touch is ever delivered outside the screen.                             *)
(***************************************************************************)
THEOREM TypeCorrect ==
  Spec => []TypeOK
<1>1. IInv => TypeOK
  BY DEF IInv
<1>. QED
  BY <1>1, Invariance, PTL

(***************************************************************************)
(* The slot table and Caustic's pointers agree at every point of a frame,  *)
(* whatever order the fingers land, move and lift in.                      *)
(***************************************************************************)
THEOREM SlotsMatch ==
  Spec => []SlotsMatchPointers
<1>1. IInv => SlotsMatchPointers
  BY DEF IInv
<1>. QED
  BY <1>1, Invariance, PTL

(***************************************************************************)
(* The controller's flags and Caustic's reserved pointers agree at every   *)
(* point of a frame, whatever chord is pressed.                            *)
(***************************************************************************)
THEOREM PadMatches ==
  Spec => []PadMatchesPointers
<1>1. IInv => PadMatchesPointers
  BY DEF IInv
<1>. QED
  BY <1>1, Invariance, PTL

(***************************************************************************)
(* No call the loop makes into Caustic's touch entry points breaks their   *)
(* contract: begin on an up pointer, move and end on a down one, end where *)
(* the pointer last was.                                                   *)
(***************************************************************************)
THEOREM PointersAreLegal ==
  Spec => []PointersLegal
<1>1. IInv => PointersLegal
  <2>. SUFFICES ASSUME IInv, NEW p \in Pointer
                PROVE  touch[p].st # "confused"
    BY DEF PointersLegal
  <2>1. CASE p \in Slot
    BY <2>1 DEF IInv, SlotsMatchPointers
  <2>2. CASE p \in {PAD_POINTER_ID, RACK_POINTER_ID}
    BY <2>2 DEF IInv, PadMatchesPointers
  <2>. QED
    BY <2>1, <2>2, ReservedIds
<1>. QED
  BY <1>1, Invariance, PTL

(***************************************************************************)
(* With the controller mode off, no synthetic touch is left held down.     *)
(***************************************************************************)
THEOREM ControlsOff ==
  Spec => []ControlsOffReleases
<1>1. IInv => ControlsOffReleases
  BY DEF IInv, PadMatchesPointers, PadFrame, ControlsOffReleases
<1>. QED
  BY <1>1, Invariance, PTL

(***************************************************************************)
(* The rack swipe yields to fingers and grabs.                             *)
(***************************************************************************)
THEOREM RackGivesWay ==
  Spec => []RackYields
<1>1. IInv => RackYields
  BY DEF IInv
<1>. QED
  BY <1>1, Invariance, PTL

(***************************************************************************)
(* A finger never changes its pointer while it is followed.                *)
(***************************************************************************)
THEOREM FingersStay ==
  Spec => FingerKeepsPointer
<1>1. IInv /\ [Next]_vars =>
        [\A s \in active, t \in active' :
           hardware_id[s] = hardware_id'[t] => s = t]_slotVars
  <2>. SUFFICES ASSUME IInv, Next,
                       NEW s \in active, NEW t \in active',
                       hardware_id[s] = hardware_id'[t]
                PROVE  s = t \/ UNCHANGED slotVars
    BY DEF vars
  <2>. USE DEF IInv, SlotsMatchPointers
  <2>1. CASE Peek
    BY <2>1 DEF Peek
  <2>2. CASE MoveReport
    BY <2>2 DEF MoveReport
  <2>3. CASE BeginReport
    <3>. DEFINE slot == First(Slot \ active)
                id == Head(reports).id
    <3>1. /\ active' = active \cup {slot}
          /\ hardware_id' = [hardware_id EXCEPT ![slot] = id]
          /\ hardware_id[s] # id
      BY <2>3 DEF BeginReport, Following
    <3>2. slot \in Slot /\ slot \notin active
      <4>1. Slot \ active # {} /\ Slot \ active \in SUBSET Slot
        BY <2>3 DEF BeginReport, TypeOK, SlotsTypeOK
      <4>2. First(Slot \ active) \in Slot \ active
        BY <4>1, FirstMember
      <4>. QED
        BY <4>2
    <3>. HIDE DEF slot, id
    <3>3. hardware_id'[slot] = id
      BY <3>1, <3>2 DEF TypeOK, SlotsTypeOK
    <3>4. t # slot
      BY <3>1, <3>3
    <3>5. t \in active /\ hardware_id'[t] = hardware_id[t]
      BY <3>1, <3>4 DEF TypeOK, SlotsTypeOK
    <3>. QED
      BY <3>5
  <2>4. CASE SkipReport
    BY <2>4 DEF SkipReport
  <2>5. CASE Lift
    BY <2>5 DEF Lift
  <2>. QED
    BY <2>1, <2>2, <2>3, <2>4, <2>5 DEF Next, TouchStep
<1>. QED
  BY <1>1, Invariance, PTL DEF Spec, FingerKeepsPointer

(***************************************************************************)
(* The clamp after a rack move never shortens it: the rail leaves room for *)
(* the largest delta on both sides of the center.                          *)
(***************************************************************************)
THEOREM RackScrollsFully ==
  Spec => RackFollowsStick
<1>1. IInv /\ [Next]_vars =>
        [pc = "rack" /\ rack_swipe_active' =>
           /\ RackDelta # 0
           /\ rack_swipe_y' \in {rack_swipe_y + RackDelta,
                                 RackCenterY + RackDelta}]_<<pc, padVars>>
  <2>. SUFFICES ASSUME IInv, Next, pc = "rack", rack_swipe_active'
                PROVE  /\ RackDelta # 0
                       /\ rack_swipe_y' \in {rack_swipe_y + RackDelta,
                                             RackCenterY + RackDelta}
    BY DEF vars
  <2>1. SwipeRack
    BY DEF Next, TouchStep, PadStep, Peek, MoveReport, BeginReport, SkipReport,
           Lift, ReleaseTap, ReadPad, EnableControls, DisableControls,
           RestRack, PressStart, PressSelect, Cross, DragGrabbed, MoveFocus,
           Render
  <2>. DEFINE startY == IF rack_swipe_active THEN rack_swipe_y ELSE RackCenterY
              leaves == Leaves(startY)
              fromY == IF leaves THEN RackCenterY ELSE startY
  <2>2. /\ RackDelta # 0
        /\ rack_swipe_y' = Clamp(fromY + RackDelta, RackMinY, RackMaxY)
    BY <2>1 DEF SwipeRack, RackMayScroll
  <2>3. RackDelta \in -5 .. 5 /\ rack_swipe_y \in RackMinY .. RackMaxY
    BY RackDeltaBound DEF IInv, TypeOK, PadTypeOK
  <2>4. fromY + RackDelta \in RackMinY .. RackMaxY
    BY <2>3, RackPoints, ControllerAssumption, ScreenAssumption DEF Leaves
  <2>5. fromY \in {rack_swipe_y, RackCenterY}
    OBVIOUS
  <2>. HIDE DEF fromY
  <2>6. Clamp(fromY + RackDelta, RackMinY, RackMaxY) = fromY + RackDelta
    BY <2>4, ControllerAssumption DEF Clamp
  <2>. QED
    BY <2>2, <2>5, <2>6
<1>. QED
  BY <1>1, Invariance, PTL DEF Spec, RackFollowsStick

-----------------------------------------------------------------------------
(***************************************************************************)
(* What the slots owe the glass.  In the middle of a frame a slot follows  *)
(* a finger of this sample if it was seen and of the last one if not; and  *)
(* when the sample brought no new finger, each of its fingers is still to  *)
(* be handled or has a slot.                                               *)
(***************************************************************************)
Left == { reports[i].id : i \in DOMAIN reports }

GlassInv ==
  /\ seen \subseteq active
  /\ Left \subseteq glass
  /\ Cardinality(glass) <= MaxReport /\ Cardinality(lastGlass) <= MaxReport
  /\ \A s \in seen : hardware_id[s] \in glass
  /\ pc = "report" =>
       /\ \A s \in active : s \in seen \/ hardware_id[s] \in lastGlass
       /\ glass \subseteq lastGlass =>
            \A f \in glass : f \in Left \/ \E s \in seen : hardware_id[s] = f
  /\ pc # "report" =>
       /\ \A s \in active : hardware_id[s] \in glass
       /\ glass \subseteq lastGlass =>
            \A f \in glass : \E s \in active : hardware_id[s] = f

(* A sample of n reports is of n fingers at most.                          *)
LEMMA SampleSize ==
  ASSUME NEW sample, NEW n \in Nat
  PROVE  LET ids == { sample[i].id : i \in 1 .. n } IN
         IsFiniteSet(ids) /\ Cardinality(ids) <= n
<1>1. IsFiniteSet(1 .. n) /\ Cardinality(1 .. n) = n
  BY FS_Interval
<1>. DEFINE id(i) == sample[i].id
<1>2. { id(i) : i \in 1 .. n } = { sample[i].id : i \in 1 .. n }
  OBVIOUS
<1>. DEFINE f == [i \in 1 .. n |-> sample[i].id]
<1>3. f \in Surjection(1 .. n, { sample[i].id : i \in 1 .. n })
  BY DEF Surjection
<1>. HIDE DEF f
<1>4. /\ IsFiniteSet({ sample[i].id : i \in 1 .. n })
      /\ Cardinality({ sample[i].id : i \in 1 .. n }) <= Cardinality(1 .. n)
  BY <1>1, <1>3, FS_Surjection
<1>. QED
  BY <1>1, <1>4

(* When every slot follows a finger of the last sample, that sample has no *)
(* finger left that none of them follows.                                  *)
LEMMA NoneLeftOut ==
  ASSUME IInv, active = Slot, NEW shown \in SUBSET Finger,
         Cardinality(shown) <= MaxReport,
         \A s \in active : hardware_id[s] \in shown,
         NEW f \in shown
  PROVE  \E s \in active : hardware_id[s] = f
<1>. SUFFICES ASSUME \A s \in active : hardware_id[s] # f PROVE FALSE
  OBVIOUS
<1>1. IsFiniteSet(shown) /\ Cardinality(shown) \in Nat
  <2>1. 0 \in Int /\ 255 \in Int
    OBVIOUS
  <2>2. IsFiniteSet(0 .. 255)
    BY <2>1, FS_Interval, Zenon
  <2>3. Finger \subseteq 0 .. 255
    BY PanelAssumption
  <2>4. shown \subseteq 0 .. 255
    BY <2>3, Zenon
  <2>. QED
    BY <2>2, <2>4, FS_Subset, FS_CardinalityType
<1>2. IsFiniteSet(Slot) /\ Cardinality(Slot) = MaxReport
  BY FS_Interval, ScreenAssumption DEF Slot
<1>3. IsFiniteSet(shown \ {f}) /\ Cardinality(shown \ {f}) = Cardinality(shown) - 1
  BY <1>1, FS_RemoveElement
<1>4. hardware_id \in Injection(Slot, shown \ {f})
  BY DEF IInv, TypeOK, SlotsTypeOK, SlotsMatchPointers, Injection, IsInjective
<1>5. Cardinality(Slot) <= Cardinality(shown \ {f})
  BY <1>3, <1>4, FS_Injection
<1>. QED
  BY <1>1, <1>2, <1>3, <1>5, ScreenAssumption

(* The report at the head and those behind it are all that is left.        *)
LEMMA LeftSplits ==
  ASSUME SlotsTypeOK, reports # <<>>, reports' = Tail(reports)
  PROVE  Left = {Head(reports).id} \cup Left'
<1>1. reports \in Seq(Report) /\ Len(reports) \in Nat /\ Len(reports) >= 1
  BY EmptySeq, LenProperties DEF SlotsTypeOK
<1>2. /\ Head(reports) = reports[1]
      /\ DOMAIN reports = 1 .. Len(reports)
      /\ DOMAIN Tail(reports) = 1 .. Len(reports) - 1
      /\ \A i \in 1 .. Len(reports) - 1 : Tail(reports)[i] = reports[i + 1]
  BY <1>1, HeadTailProperties, LenProperties DEF SlotsTypeOK
<1>4. \A i \in 1 .. Len(reports) - 1 : i + 1 \in 2 .. Len(reports)
  BY <1>1
<1>5. 1 .. Len(reports) = {1} \cup (2 .. Len(reports))
  BY <1>1
<1>. DEFINE n == Len(reports)
            id(i) == reports[i].id
<1>6. Left = { reports[i].id : i \in 1 .. n }
  BY <1>2 DEF Left
<1>7. Left' = { reports[i + 1].id : i \in 1 .. n - 1 }
  <2>1. Left' = { Tail(reports)[i].id : i \in 1 .. n - 1 }
    BY <1>2 DEF Left
  <2>. QED
    BY <1>2, <2>1
<1>8. { reports[i + 1].id : i \in 1 .. n - 1 } = { reports[i].id : i \in 2 .. n }
  <2>1. \A i \in 2 .. n : \E k \in 1 .. n - 1 : reports[k + 1].id = reports[i].id
    <3>. TAKE i \in 2 .. n
    <3>1. i - 1 \in 1 .. n - 1 /\ (i - 1) + 1 = i
      BY <1>1
    <3>. WITNESS i - 1 \in 1 .. n - 1
    <3>. QED
      BY <3>1
  <2>2. \A k \in 1 .. n - 1 : \E i \in 2 .. n : reports[k + 1].id = reports[i].id
    BY <1>4
  <2>. DEFINE front == { reports[k + 1].id : k \in 1 .. n - 1 }
              back == { reports[i].id : i \in 2 .. n }
  <2>3. \A x \in front : x \in back
    BY <2>2
  <2>4. \A x \in back : x \in front
    BY <2>1
  <2>5. front = back
    <3>. HIDE DEF front, back
    <3>. QED
      BY <2>3, <2>4
  <2>. QED
    BY <2>5
<1>9. { reports[i].id : i \in 1 .. n } = {reports[1].id} \cup { reports[i].id : i \in 2 .. n }
  BY <1>5
<1>. QED
  BY <1>2, <1>6, <1>7, <1>8, <1>9

LEMMA InitGlass == Init => GlassInv
<1>. SUFFICES ASSUME Init PROVE GlassInv
  OBVIOUS
<1>1. seen = {} /\ active = {} /\ reports = <<>> /\ glass = {} /\ lastGlass = {}
  BY DEF Init, SlotsInit
<1>2. Cardinality({}) = 0
  BY FS_EmptySet
<1>. QED
  BY <1>1, <1>2, ScreenAssumption DEF GlassInv, Left

LEMMA PeekGlass ==
  ASSUME IInv, GlassInv, Peek
  PROVE  GlassInv'
<1>1. PICK sample \in Sample :
        LET n == IF Len(sample) > MaxReport THEN MaxReport ELSE Len(sample)
        IN  /\ reports' = SubSeq(sample, 1, n)
            /\ glass' = { sample[i].id : i \in 1 .. n }
  BY DEF Peek
<1>. DEFINE n == IF Len(sample) > MaxReport THEN MaxReport ELSE Len(sample)
<1>2. n \in 0 .. Len(sample) /\ n \in Nat /\ n <= MaxReport
  BY SampleTypes, ScreenAssumption
<1>3. reports' = SubSeq(sample, 1, n) /\ glass' = { sample[i].id : i \in 1 .. n }
  BY <1>1
<1>. HIDE DEF n
<1>4. glass' \in SUBSET Finger
  BY <1>2, <1>3, PrefixTypes
<1>5. Cardinality(glass') <= MaxReport
  <2>1. Cardinality(glass') <= n /\ IsFiniteSet(glass')
    BY <1>2, <1>3, SampleSize
  <2>. QED
    BY <1>2, <2>1, FS_CardinalityType, ScreenAssumption
<1>6. Left' = glass'
  <2>1. \A i \in 1 .. n : sample[i] \in Report
    BY <1>2, SampleTypes
  <2>2. /\ DOMAIN reports' = 1 .. n
        /\ \A i \in 1 .. n : reports'[i] = sample[i]
    <3>1. sample \in Seq(Report) /\ n \in 0 .. Len(sample) /\ Len(sample) \in Nat
      BY <1>2, SampleTypes
    <3>. QED
      BY <1>3, <3>1
  <2>. QED
    BY <1>3, <2>2 DEF Left
<1>7. /\ lastGlass' = glass /\ seen' = {} /\ pc = "peek" /\ pc' = "report"
      /\ UNCHANGED <<active, hardware_id>>
  BY DEF Peek
<1>. QED
  BY <1>5, <1>6, <1>7 DEF GlassInv

LEMMA MoveGlass ==
  ASSUME IInv, GlassInv, MoveReport
  PROVE  GlassInv'
<1>. DEFINE f == Head(reports).id
            slot == First(Following(f))
<1>1. slot \in active /\ hardware_id[slot] = f
  <2>1. Following(f) \in SUBSET Slot /\ Following(f) # {}
    BY DEF MoveReport, Following, IInv, TypeOK, SlotsTypeOK
  <2>2. slot \in Following(f)
    BY <2>1, FirstMember
  <2>. QED
    BY <2>2 DEF Following
<1>2. Left = {f} \cup Left'
  BY LeftSplits DEF MoveReport, IInv, TypeOK
<1>3. /\ seen' = seen \cup {slot} /\ pc = "report"
      /\ UNCHANGED <<pc, active, hardware_id, glass, lastGlass>>
  BY DEF MoveReport
<1>. HIDE DEF f, slot
<1>. QED
  BY <1>1, <1>2, <1>3 DEF GlassInv

LEMMA BeginGlass ==
  ASSUME IInv, GlassInv, BeginReport
  PROVE  GlassInv'
<1>. DEFINE f == Head(reports).id
            slot == First(Slot \ active)
<1>1. slot \in Slot /\ slot \notin active
  <2>1. Slot \ active # {} /\ Slot \ active \in SUBSET Slot
    BY DEF BeginReport, IInv, TypeOK, SlotsTypeOK
  <2>2. First(Slot \ active) \in Slot \ active
    BY <2>1, FirstMember
  <2>. QED
    BY <2>2
<1>2. Left = {f} \cup Left'
  BY LeftSplits DEF BeginReport, IInv, TypeOK
<1>3. /\ seen' = seen \cup {slot} /\ active' = active \cup {slot} /\ pc = "report"
      /\ hardware_id' = [hardware_id EXCEPT ![slot] = f]
      /\ UNCHANGED <<pc, glass, lastGlass>>
  BY DEF BeginReport
<1>. HIDE DEF f, slot
<1>4. /\ hardware_id'[slot] = f
      /\ \A s \in active : hardware_id'[s] = hardware_id[s]
  BY <1>1, <1>3 DEF IInv, TypeOK, SlotsTypeOK
<1>. QED
  BY <1>1, <1>2, <1>3, <1>4 DEF GlassInv

(* A report is dropped only when the sample brought a new finger.          *)
LEMMA SkipGlass ==
  ASSUME IInv, GlassInv, SkipReport
  PROVE  GlassInv'
<1>. DEFINE f == Head(reports).id
<1>1. Left = {f} \cup Left'
  BY LeftSplits DEF SkipReport, IInv, TypeOK
<1>2. /\ active = Slot /\ pc = "report"
      /\ \A s \in active : hardware_id[s] # f
      /\ UNCHANGED <<pc, seen, active, hardware_id, glass, lastGlass>>
  BY DEF SkipReport, Following
<1>. HIDE DEF f
<1>3. ~ (glass \subseteq lastGlass)
  <2>. SUFFICES ASSUME glass \subseteq lastGlass PROVE FALSE
    OBVIOUS
  <2>1. f \in lastGlass /\ \A s \in active : hardware_id[s] \in lastGlass
    BY <1>1, <1>2 DEF GlassInv
  <2>2. lastGlass \in SUBSET Finger /\ Cardinality(lastGlass) <= MaxReport
    BY DEF GlassInv, IInv, TypeOK, SlotsTypeOK
  <2>. QED
    BY <1>2, <2>1, <2>2, NoneLeftOut
<1>. QED
  BY <1>1, <1>2, <1>3 DEF GlassInv

LEMMA LiftGlass ==
  ASSUME IInv, GlassInv, Lift
  PROVE  GlassInv'
<1>1. /\ pc = "report" /\ pc' = "tap" /\ reports = <<>> /\ active' = active \ (active \ seen)
      /\ UNCHANGED <<seen, hardware_id, reports, glass, lastGlass>>
  BY DEF Lift, Lifted
<1>2. Left = {} /\ Left' = {}
  BY <1>1 DEF Left
<1>3. active' = seen
  BY <1>1 DEF GlassInv
<1>. QED
  BY <1>1, <1>2, <1>3 DEF GlassInv

(* The controller's half of the frame begins and ends after the reports.   *)
LEMMA PadGlass ==
  ASSUME GlassInv, PadStep, UNCHANGED slotVars
  PROVE  GlassInv'
<1>1. pc # "report" /\ pc' # "report"
  BY DEF PadStep, ReleaseTap, ReadPad, EnableControls, DisableControls, SwipeRack, RestRack,
         PressStart, PressSelect, Cross, DragGrabbed, MoveFocus, Render
<1>. QED
  BY <1>1 DEF GlassInv, Left, slotVars

LEMMA GlassKept ==
  ASSUME IInv, GlassInv, [Next]_vars
  PROVE  GlassInv'
<1>1. CASE UNCHANGED vars
  BY <1>1 DEF GlassInv, Left, vars, slotVars
<1>. QED
  BY <1>1, PeekGlass, MoveGlass, BeginGlass, SkipGlass, LiftGlass, PadGlass DEF Next, TouchStep

(***************************************************************************)
(* After the reports of a frame no slot follows a finger that has left the *)
(* glass, and none is missing in a frame that brought no new finger: the   *)
(* report that finds every slot taken can only be a new finger's.          *)
(***************************************************************************)
THEOREM GlassFollowed ==
  Spec => []SlotsFollowGlass
<1>1. IInv /\ GlassInv /\ [Next]_vars => GlassInv'
  BY GlassKept
<1>2. GlassInv => SlotsFollowGlass
  <2>. SUFFICES ASSUME GlassInv, pc # "report"
                PROVE  /\ Followed \subseteq glass
                       /\ glass \subseteq lastGlass => Followed = glass
    BY DEF SlotsFollowGlass
  <2>. QED
    BY DEF GlassInv, Followed
<1>. QED
  BY InitGlass, Invariance, <1>1, <1>2, PTL DEF Spec

(***************************************************************************)
(* A gesture whose finger is missing from the sample does not outlive the  *)
(* frame: every step of the frame either handles one more report and keeps *)
(* the slot as it is, or gets its pointer up.  The reports run out.        *)
(***************************************************************************)
THEOREM LiftedInTheirFrame ==
  Spec => [][\A s \in Slot : pc = "report" /\ s \in active /\ hardware_id[s] \notin glass =>
               \/ touch'[s].st = "up"
               \/ /\ pc' = "report" /\ glass' = glass /\ Len(reports') < Len(reports)
                  /\ s \in active' /\ hardware_id'[s] = hardware_id[s]]_vars
<1>1. ASSUME IInv, GlassInv, Next,
             NEW s \in Slot, pc = "report", s \in active, hardware_id[s] \notin glass
      PROVE  \/ touch'[s].st = "up"
             \/ /\ pc' = "report" /\ glass' = glass /\ Len(reports') < Len(reports)
                /\ s \in active' /\ hardware_id'[s] = hardware_id[s]
  <2>1. TouchStep
    <3>1. ~PadStep
      BY <1>1 DEF PadStep, ReleaseTap, ReadPad, EnableControls, DisableControls, SwipeRack,
             RestRack, PressStart, PressSelect, Cross, DragGrabbed, MoveFocus, Render
    <3>. QED
      BY <1>1, <3>1 DEF Next
  <2>2. ASSUME reports # <<>>, reports' = Tail(reports)
        PROVE  Len(reports') < Len(reports)
    <3>1. reports \in Seq(Report) /\ Len(reports) \in Nat /\ Len(reports) >= 1
      BY <1>1, <2>2, EmptySeq, LenProperties DEF IInv, TypeOK, SlotsTypeOK
    <3>2. Len(Tail(reports)) = Len(reports) - 1
      BY <2>2, <3>1, HeadTailProperties
    <3>. QED
      BY <2>2, <3>1, <3>2
  <2>3. CASE Peek
    BY <1>1, <2>3 DEF Peek
  <2>4. CASE MoveReport \/ SkipReport
    BY <1>1, <2>2, <2>4 DEF MoveReport, SkipReport
  <2>5. CASE BeginReport
    <3>. DEFINE slot == First(Slot \ active)
    <3>1. slot # s
      <4>1. Slot \ active # {} /\ Slot \ active \in SUBSET Slot
        BY <1>1, <2>5 DEF BeginReport, IInv, TypeOK, SlotsTypeOK
      <4>2. First(Slot \ active) \in Slot \ active
        BY <4>1, FirstMember
      <4>. QED
        BY <1>1, <4>2
    <3>2. /\ hardware_id' = [hardware_id EXCEPT ![slot] = Head(reports).id]
          /\ active' = active \cup {slot} /\ UNCHANGED <<pc, glass>>
          /\ reports # <<>> /\ reports' = Tail(reports)
      BY <2>5 DEF BeginReport
    <3>. HIDE DEF slot
    <3>3. hardware_id'[s] = hardware_id[s]
      BY <1>1, <3>1, <3>2 DEF IInv, TypeOK, SlotsTypeOK
    <3>. QED
      BY <1>1, <2>2, <3>2, <3>3
  <2>6. CASE Lift
    <3>1. s \in Lifted /\ s \in Pointer
      BY <1>1, ReservedIds DEF GlassInv, Lifted
    <3>2. touch[s].st = "down" /\ touch[s].at = position[s]
      BY <1>1 DEF IInv, SlotsMatchPointers
    <3>3. touch'[s] = touch_end(touch[s], position[s])
      BY <2>6, <3>1 DEF Lift
    <3>. QED
      BY <3>2, <3>3 DEF touch_end
  <2>. QED
    BY <2>1, <2>3, <2>4, <2>5, <2>6 DEF TouchStep
<1>2. IInv /\ GlassInv /\ [Next]_vars =>
        [\A s \in Slot : pc = "report" /\ s \in active /\ hardware_id[s] \notin glass =>
               \/ touch'[s].st = "up"
               \/ /\ pc' = "report" /\ glass' = glass /\ Len(reports') < Len(reports)
                  /\ s \in active' /\ hardware_id'[s] = hardware_id[s]]_vars
  BY <1>1
<1>3. IInv /\ GlassInv /\ [Next]_vars => GlassInv'
  BY GlassKept
<1>. QED
  BY InitGlass, Invariance, <1>2, <1>3, PTL DEF Spec

-----------------------------------------------------------------------------
(* The microphone.                                                         *)

LEMMA Sizes ==
  /\ InputFrames \in Nat \ {0} /\ CausticFrames \in Nat \ {0}
  /\ QueueSize \in Nat \ {0} /\ InRate \in Nat \ {0} /\ OutRate \in Nat \ {0}
  /\ Span \in Nat \ {0}
  /\ CausticFrames * InRate + Span <= QueueSize * InRate
  /\ InRate + OutRate <= Span
<1>1. /\ InputFrames \in Nat \ {0} /\ CausticFrames \in Nat \ {0}
      /\ QueueSize \in Nat \ {0} /\ InRate \in Nat \ {0} /\ OutRate \in Nat \ {0}
      /\ CausticFrames * InRate + Span <= QueueSize * InRate
      /\ InRate + OutRate <= Span
  BY MicAssumption
<1>2. \A m, n \in Nat \ {0} : m * n \in Nat \ {0}
  OBVIOUS
<1>. QED
  BY <1>1, <1>2 DEF Span

(* Products with a positive factor are ordered as the other factors are.   *)
LEMMA Cancel ==
  ASSUME NEW m \in Int, NEW n \in Int, NEW k \in Nat \ {0}, m * k < n * k
  PROVE  m < n
OBVIOUS

(* Cutting a phase into whole frames and a rest stays inside the buffer.   *)
LEMMA SourceBound ==
  ASSUME NEW p \in 0 .. Span - 1
  PROVE  (p \div OutRate) + 1 <= InputFrames
<1>1. p \in Nat /\ p < InputFrames * OutRate
  BY Sizes DEF Span
<1>2. p \div OutRate \in Nat /\ (p \div OutRate) * OutRate <= p
  BY <1>1, Sizes
<1>3. (p \div OutRate) * OutRate < InputFrames * OutRate
  BY <1>1, <1>2, Sizes
<1>. QED
  BY <1>2, <1>3, Sizes, Cancel

(* An unread buffer always finds room in the queue.                        *)
LEMMA RoomWhileUnread ==
  ASSUME MicInv, mic = "convert", Unread
  PROVE  queued < QueueSize
<1>1. /\ queued * InRate <= (CausticFrames - 1) * InRate + phase
      /\ phase < Span
  BY Sizes DEF MicInv, QueueFollowsPhase, Unread
<1>2. queued \in Int /\ phase \in Int
  BY DEF MicInv, MicTypeOK
<1>3. (CausticFrames - 1) * InRate <= CausticFrames * InRate
  BY Sizes
<1>4. /\ queued * InRate \in Int /\ CausticFrames * InRate \in Int
      /\ (CausticFrames - 1) * InRate \in Int /\ QueueSize * InRate \in Int
  BY <1>2, Sizes
<1>5. queued * InRate < QueueSize * InRate
  BY <1>1, <1>2, <1>3, <1>4, Sizes
<1>. QED
  BY <1>2, <1>5, Sizes, Cancel

LEMMA MicInitInv ==
  MicInit => MicInv
<1>. SUFFICES ASSUME MicInit PROVE MicInv
  OBVIOUS
<1>1. 0 \in 0 .. QueueSize /\ 0 \in 0 .. Span + InRate - 1
  BY Sizes
<1>2. MicTypeOK
  <2>1. /\ mic \in {"input", "convert", "drain", "stopped"}
        /\ have_previous \in BOOLEAN
    BY DEF MicInit
  <2>2. queued \in 0 .. QueueSize /\ phase \in 0 .. Span + InRate - 1
    BY <1>1 DEF MicInit
  <2>3. previous \in {-1, 0} /\ last \in Int
    BY DEF MicInit
  <2>. QED
    BY <2>1, <2>2, <2>3 DEF MicTypeOK
<1>3. QueueFollowsPhase /\ BuffersFullyConverted
  BY Sizes DEF MicInit, QueueFollowsPhase, BuffersFullyConverted
<1>. QED
  BY <1>2, <1>3 DEF MicInv

LEMMA MicStepInv ==
  MicInv /\ [MicNext]_micVars => MicInv'
<1>. SUFFICES ASSUME MicInv, [MicNext]_micVars PROVE MicInv'
  OBVIOUS
<1>. USE Sizes DEF MicInv, MicTypeOK, QueueFollowsPhase, BuffersFullyConverted
<1>1. CASE Input
  <2>1. queued * InRate <= (CausticFrames - 1) * InRate
    BY <1>1 DEF Input
  <2>2. queued' * InRate <= (CausticFrames - 1) * InRate + phase'
    BY <1>1, <2>1 DEF Input
  <2>. QED
    BY <1>1, <2>2 DEF Input
<1>2. CASE InputFails
  BY <1>2 DEF InputFails
<1>3. CASE Convert
  <2>1. queued' = queued + 1 /\ phase' = phase + InRate /\ mic' = "convert"
    BY <1>3 DEF Convert
  <2>2. phase' \in 0 .. Span + InRate - 1
    BY <1>3, <2>1 DEF Convert, Unread
  <2>3. queued' * InRate = queued * InRate + InRate
    BY <2>1
  <2>4. queued' * InRate <= (CausticFrames - 1) * InRate + phase'
    BY <1>3, <2>1, <2>3 DEF Convert
  <2>5. last' \in Int
    <3>1. phase \div OutRate \in Int /\ phase % OutRate \in Int
      OBVIOUS
    <3>2. /\ Frame(source) \in Int /\ Frame(source + 1) \in Int
          /\ fraction \in Int
      BY <3>1 DEF Frame, source, fraction
    <3>3. \A a, b, c, d \in Int : a * b + (c - a) * d \in Int
      OBVIOUS
    <3>4. Place \in Int
      BY <3>2, <3>3 DEF Place
    <3>. QED
      BY <1>3, <3>4 DEF Convert
  <2>. QED
    BY <1>3, <2>1, <2>2, <2>4, <2>5 DEF Convert
<1>4. CASE EndBuffer
  <2>1. ~ Unread
    BY <1>4, RoomWhileUnread DEF EndBuffer
  <2>2. phase \in Span .. Span + InRate - 1
    BY <2>1 DEF Unread
  <2>3. phase' \in 0 .. InRate - 1
    BY <1>4, <2>2 DEF EndBuffer, RemainingPhase
  <2>. QED
    BY <1>4, <2>3 DEF EndBuffer
<1>5. CASE RecordBlock
  BY <1>5 DEF RecordBlock, BlockReady
<1>6. CASE Drained
  BY <1>6 DEF Drained, BlockReady
<1>7. CASE UNCHANGED micVars
  BY <1>7 DEF micVars
<1>. QED
  BY <1>1, <1>2, <1>3, <1>4, <1>5, <1>6, <1>7 DEF MicNext

(***************************************************************************)
(* MicInv is inductive: the queue is what the phase says, from buffer to   *)
(* buffer and block to block (the loop of caustic_microphone_thread).      *)
(***************************************************************************)
THEOREM MicInvariance ==
  MicSpec => []MicInv
BY MicInitInv, MicStepInv, PTL DEF MicSpec

(* While a buffer is converted the queue grows with the phase.             *)
QueueGrows == mic = "convert" => phase < (queued + 1) * InRate

LEMMA QueueGrowsStep ==
  MicInv /\ QueueGrows /\ [MicNext]_micVars => QueueGrows'
<1>. SUFFICES ASSUME MicInv, QueueGrows, [MicNext]_micVars PROVE QueueGrows'
  OBVIOUS
<1>. USE Sizes DEF QueueGrows
<1>0. queued \in Nat /\ phase \in Int
  BY DEF MicInv, MicTypeOK
<1>1. CASE Input
  <2>1. phase < InRate /\ phase' = phase /\ queued' = queued
    BY <1>1 DEF Input, MicInv, BuffersFullyConverted
  <2>2. \A m, k \in Nat : k <= (m + 1) * k
    OBVIOUS
  <2>3. InRate <= (queued + 1) * InRate /\ (queued + 1) * InRate \in Int
    BY <1>0, <2>2
  <2>. QED
    BY <1>0, <2>1, <2>3
<1>2. CASE Convert
  <2>1. mic = "convert" /\ phase' = phase + InRate /\ queued' = queued + 1
    BY <1>2 DEF Convert
  <2>2. ((queued + 1) + 1) * InRate = (queued + 1) * InRate + InRate
    BY <1>0
  <2>. QED
    BY <1>0, <2>1, <2>2
<1>3. CASE EndBuffer \/ InputFails \/ RecordBlock \/ Drained
  <2>1. mic' # "convert"
    BY <1>3 DEF EndBuffer, InputFails, RecordBlock, Drained
  <2>. QED
    BY <2>1
<1>4. CASE UNCHANGED micVars
  BY <1>4 DEF micVars
<1>. QED
  BY <1>1, <1>2, <1>3, <1>4 DEF MicNext

(***************************************************************************)
(* If a captured buffer spans the frames of a block, as 768 frames of      *)
(* 48 kHz span 256 of 44.1 kHz, the loop leaves no buffer without a block  *)
(* to hand to Caustic.                                                     *)
(***************************************************************************)
THEOREM BlockFromEveryBuffer ==
  CausticFrames * InRate <= Span =>
    (MicSpec => [][mic = "convert" /\ mic' = "drain" => queued' >= CausticFrames]_micVars)
<1>. SUFFICES ASSUME CausticFrames * InRate <= Span
              PROVE  MicSpec => [][mic = "convert" /\ mic' = "drain" => queued' >= CausticFrames]_micVars
  OBVIOUS
<1>1. MicInit => QueueGrows
  BY DEF MicInit, QueueGrows
<1>2. MicInv /\ QueueGrows /\ [MicNext]_micVars =>
        [mic = "convert" /\ mic' = "drain" => queued' >= CausticFrames]_micVars
  <2>. SUFFICES ASSUME MicInv, QueueGrows, MicNext, mic = "convert", mic' = "drain"
                PROVE  queued' >= CausticFrames
    OBVIOUS
  <2>1. EndBuffer
    BY DEF MicNext, Input, InputFails, Convert, RecordBlock, Drained
  <2>2. ~Unread /\ queued' = queued
    BY <2>1, RoomWhileUnread DEF EndBuffer
  <2>3. queued \in Nat /\ phase \in Nat /\ Span \in Nat /\ CausticFrames \in Nat /\ InRate \in Nat \ {0}
    BY Sizes DEF MicInv, MicTypeOK
  <2>4. Span <= phase
    BY <2>2, <2>3 DEF Unread
  <2>5. \A m, n \in Nat : m * n \in Nat
    OBVIOUS
  <2>6. (queued + 1) * InRate \in Nat /\ CausticFrames * InRate \in Nat
    BY <2>3, <2>5
  <2>7. CausticFrames * InRate < (queued + 1) * InRate
    BY <2>3, <2>4, <2>6 DEF QueueGrows
  <2>8. CausticFrames < queued + 1
    BY <2>3, <2>7, Cancel
  <2>. QED
    BY <2>2, <2>3, <2>8
<1>. QED
  BY <1>1, <1>2, QueueGrowsStep, MicInvariance, PTL DEF MicSpec

(***************************************************************************)
(* Neither the queue nor the phase of the microphone loop ever leaves its  *)
(* range, whatever the rates.                                              *)
(***************************************************************************)
THEOREM MicTypeCorrect ==
  MicSpec => []MicTypeOK
<1>1. MicInv => MicTypeOK
  BY DEF MicInv
<1>. QED
  BY <1>1, MicInvariance, PTL

(***************************************************************************)
(* The queue's bound never cuts a buffer short, so that the phase is       *)
(* rebased without wrapping.                                               *)
(***************************************************************************)
THEOREM NoFrameDropped ==
  MicSpec => []BuffersFullyConverted
<1>1. MicInv => BuffersFullyConverted
  BY DEF MicInv
<1>. QED
  BY <1>1, MicInvariance, PTL

(***************************************************************************)
(* The interpolation never reads past resample_input[] and never writes    *)
(* past queue[].                                                           *)
(***************************************************************************)
THEOREM MicAccesses ==
  MicSpec => []AccessesInBounds
<1>1. MicInv => AccessesInBounds
  <2>. SUFFICES ASSUME MicInv, mic = "convert", Unread
                PROVE  source + 1 <= InputFrames /\ queued < QueueSize
    BY DEF AccessesInBounds
  <2>. QED
    BY RoomWhileUnread, SourceBound DEF Unread, source
<1>. QED
  BY <1>1, MicInvariance, PTL

(* Where the sample at hand is taken: a frame before its phase, and at the *)
(* first frame while there is none before it.                              *)
LEMMA PlaceOfPhase ==
  ASSUME phase \in Nat, previous \in {-1, 0}
  PROVE  /\ previous = -1 => Place = phase - OutRate
         /\ previous = 0 => Place = IF phase < OutRate THEN 0 ELSE phase - OutRate
<1>. DEFINE q == phase \div OutRate
            r == phase % OutRate
<1>1. /\ OutRate \in Nat \ {0} /\ q \in Nat /\ r \in 0 .. OutRate - 1
      /\ phase = q * OutRate + r
  BY Sizes
<1>2. source = q /\ fraction = r
  BY DEF source, fraction
<1>. HIDE DEF q, r
<1>3. /\ Frame(q + 1) = q
      /\ Frame(q) = IF q = 0 THEN previous ELSE q - 1
  BY <1>1 DEF Frame
<1>4. Place = Frame(q) * OutRate + (Frame(q + 1) - Frame(q)) * r
  BY <1>2 DEF Place
<1>5. (q - 1) * OutRate + 1 * r = phase - OutRate
  BY <1>1
<1>6. CASE q # 0
  <2>1. Place = (q - 1) * OutRate + (q - (q - 1)) * r
    BY <1>3, <1>4, <1>6
  <2>2. q - (q - 1) = 1
    BY <1>1
  <2>3. Place = phase - OutRate
    BY <1>5, <2>1, <2>2
  <2>4. ~ (phase < OutRate)
    <3>1. q * OutRate >= OutRate
      BY <1>1, <1>6
    <3>. QED
      BY <1>1, <3>1
  <2>. QED
    BY <2>3, <2>4
<1>7. CASE q = 0
  <2>1. phase = r /\ phase < OutRate
    BY <1>1, <1>7
  <2>2. Place = previous * OutRate + (0 - previous) * r
    BY <1>3, <1>4, <1>7
  <2>3. CASE previous = 0
    BY <1>1, <2>1, <2>2, <2>3
  <2>4. CASE previous = -1
    <3>1. Place = (-1) * OutRate + (0 - (-1)) * r
      BY <2>2, <2>4
    <3>2. (-1) * OutRate = - OutRate /\ (0 - (-1)) * r = r
      BY <1>1
    <3>. QED
      BY <1>1, <2>1, <2>4, <3>1, <3>2
  <2>. QED
    BY <2>3, <2>4
<1>. QED
  BY <1>6, <1>7

(* The last sample is one output period behind the phase.                  *)
Smooth ==
  /\ mic \in {"convert", "drain"} \/ previous = -1 => have_previous = TRUE
  /\ previous = -1 => last = phase - OutRate - InRate
  /\ previous = 0 =>
       \/ phase = 0 /\ last = 0
       \/ /\ phase >= InRate
          /\ last = IF phase - InRate < OutRate THEN 0 ELSE phase - InRate - OutRate

LEMMA SmoothStep ==
  MicInv /\ Smooth /\ [MicNext]_micVars => Smooth'
<1>. SUFFICES ASSUME MicInv, Smooth, [MicNext]_micVars PROVE Smooth'
  OBVIOUS
<1>1. phase \in Nat /\ previous \in {-1, 0} /\ last \in Int
  BY Sizes DEF MicInv, MicTypeOK
<1>2. InRate \in Nat \ {0} /\ OutRate \in Nat \ {0} /\ Span \in Nat /\ InRate + OutRate <= Span
  BY Sizes
<1>3. CASE Input
  BY <1>1, <1>3 DEF Input, Smooth
<1>4. CASE InputFails
  BY <1>4 DEF InputFails, Smooth
<1>5. CASE Convert
  BY <1>1, <1>2, <1>5, PlaceOfPhase DEF Convert, Smooth
<1>6. CASE EndBuffer
  <2>1. ~ Unread
    BY <1>6, RoomWhileUnread DEF EndBuffer
  <2>2. phase >= Span
    BY <1>1, <1>2, <2>1 DEF Unread
  <2>3. last = phase - OutRate - InRate /\ last >= 0
    BY <1>1, <1>2, <2>2 DEF Smooth
  <2>. QED
    BY <1>1, <1>2, <1>6, <2>3 DEF EndBuffer, RemainingPhase, Smooth
<1>7. CASE RecordBlock
  BY <1>7 DEF RecordBlock, Smooth
<1>8. CASE Drained
  BY <1>8 DEF Drained, Smooth
<1>9. CASE UNCHANGED micVars
  BY <1>9 DEF micVars, Smooth
<1>. QED
  BY <1>3, <1>4, <1>5, <1>6, <1>7, <1>8, <1>9 DEF MicNext

(***************************************************************************)
(* Two samples queued one after the other are exactly one output period    *)
(* apart in what the microphone heard, across the buffers too: the phase   *)
(* and the preceding sample of main.c's loop, for every pair of rates.     *)
(***************************************************************************)
THEOREM SamplesAreEven ==
  MicSpec => StreamSmooth
<1>. DEFINE Even == queued' = queued + 1 /\ (previous = -1 \/ last > 0) => last' - last = InRate
<1>1. MicInit => Smooth
  BY Sizes DEF MicInit, Smooth
<1>2. MicInv /\ Smooth /\ [MicNext]_micVars => [Even]_micVars
  <2>. SUFFICES ASSUME MicInv, Smooth, MicNext, queued' = queued + 1, previous = -1 \/ last > 0
                PROVE  last' - last = InRate
    OBVIOUS
  <2>1. /\ phase \in Nat /\ previous \in {-1, 0} /\ last \in Int /\ queued \in Nat
        /\ InRate \in Nat \ {0} /\ OutRate \in Nat \ {0} /\ CausticFrames \in Nat \ {0}
    BY Sizes DEF MicInv, MicTypeOK
  <2>2. Convert
    BY <2>1 DEF MicNext, Input, InputFails, EndBuffer, RecordBlock, Drained
  <2>. QED
    BY <2>1, <2>2, PlaceOfPhase DEF Convert, Smooth
<1>. QED
  BY <1>1, <1>2, MicInvariance, SmoothStep, PTL DEF MicSpec, StreamSmooth

-----------------------------------------------------------------------------
(***************************************************************************)
(* The life of the program: main()'s script is known by which of its steps *)
(* comes before which, not by running through it.                          *)
(***************************************************************************)

Before(s, a, b) == \A k \in 1 .. Len(s) : s[k] = b => \E j \in 1 .. k - 1 : s[j] = a

LEMMA JoinedSymbols ==
  ASSUME NEW S, NEW A \in Seq(S), NEW B \in Seq(S)
  PROVE  A \o B \in Seq(S) /\ SymbolsOf(A \o B) = SymbolsOf(A) \cup SymbolsOf(B)
<1>1. /\ A \o B \in Seq(S) /\ Len(A \o B) = Len(A) + Len(B)
      /\ \A i \in 1 .. Len(A) + Len(B) :
           (A \o B)[i] = IF i <= Len(A) THEN A[i] ELSE B[i - Len(A)]
  BY ConcatProperties
<1>2. /\ Len(A) \in Nat /\ Len(B) \in Nat
      /\ DOMAIN A = 1 .. Len(A) /\ DOMAIN B = 1 .. Len(B) /\ DOMAIN (A \o B) = 1 .. Len(A) + Len(B)
  BY <1>1
<1>. DEFINE C == A \o B
<1>3. C \in Seq(S) /\ DOMAIN C = 1 .. Len(A) + Len(B)
  BY <1>1, <1>2
<1>4. \A i \in 1 .. Len(A) : C[i] = A[i] /\ i \in DOMAIN C
  BY <1>1, <1>2
<1>5. \A i \in 1 .. Len(B) : C[i + Len(A)] = B[i] /\ i + Len(A) \in DOMAIN C
  <2>. SUFFICES ASSUME NEW i \in 1 .. Len(B)
                PROVE  C[i + Len(A)] = B[i] /\ i + Len(A) \in DOMAIN C
    OBVIOUS
  <2>1. i + Len(A) \in 1 .. Len(A) + Len(B) /\ ~ (i + Len(A) <= Len(A)) /\ i + Len(A) - Len(A) = i
    BY <1>2
  <2>. QED
    BY <1>1, <1>2, <2>1
<1>6. \A i \in DOMAIN C : C[i] \in SymbolsOf(A) \cup SymbolsOf(B)
  <2>. SUFFICES ASSUME NEW i \in 1 .. Len(A) + Len(B)
                PROVE  C[i] \in SymbolsOf(A) \cup SymbolsOf(B)
    BY <1>3
  <2>1. CASE i <= Len(A)
    <3>1. i \in DOMAIN A /\ C[i] = A[i]
      BY <1>1, <1>2, <2>1
    <3>. QED
      BY <3>1 DEF SymbolsOf
  <2>2. CASE ~ (i <= Len(A))
    <3>1. i - Len(A) \in DOMAIN B /\ C[i] = B[i - Len(A)]
      BY <1>1, <1>2, <2>2
    <3>. QED
      BY <3>1 DEF SymbolsOf
  <2>. QED
    BY <2>1, <2>2
<1>. HIDE DEF C
<1>7. SymbolsOf(C) = SymbolsOf(A) \cup SymbolsOf(B)
  <2>1. \A x \in SymbolsOf(A) : x \in SymbolsOf(C)
    BY <1>2, <1>4 DEF SymbolsOf
  <2>2. \A x \in SymbolsOf(B) : x \in SymbolsOf(C)
    BY <1>2, <1>5 DEF SymbolsOf
  <2>3. \A x \in SymbolsOf(C) : x \in SymbolsOf(A) \cup SymbolsOf(B)
    BY <1>6, Zenon DEF SymbolsOf
  <2>. QED
    BY <2>1, <2>2, <2>3
<1>. QED
  BY <1>3, <1>7 DEF C

(* What comes before another in a part comes before it in the whole, and   *)
(* what is in the first part before all that is only in the second.        *)
LEMMA JoinedBefore ==
  ASSUME NEW S, NEW A \in Seq(S), NEW B \in Seq(S), NEW a, NEW b,
         b \in SymbolsOf(A) => Before(A, a, b),
         b \in SymbolsOf(B) => a \in SymbolsOf(A) \/ Before(B, a, b)
  PROVE  Before(A \o B, a, b)
<1>1. /\ Len(A \o B) = Len(A) + Len(B)
      /\ \A i \in 1 .. Len(A) + Len(B) :
           (A \o B)[i] = IF i <= Len(A) THEN A[i] ELSE B[i - Len(A)]
      /\ Len(A) \in Nat /\ Len(B) \in Nat
      /\ DOMAIN A = 1 .. Len(A) /\ DOMAIN B = 1 .. Len(B)
  BY ConcatProperties
<1>. DEFINE C == A \o B
<1>2. /\ \A i \in 1 .. Len(A) : C[i] = A[i]
      /\ \A i \in 1 .. Len(B) : C[i + Len(A)] = B[i]
  <2>1. \A i \in 1 .. Len(A) : C[i] = A[i]
    BY <1>1
  <2>2. ASSUME NEW i \in 1 .. Len(B) PROVE C[i + Len(A)] = B[i]
    <3>1. i + Len(A) \in 1 .. Len(A) + Len(B) /\ ~ (i + Len(A) <= Len(A)) /\ i + Len(A) - Len(A) = i
      BY <1>1
    <3>. QED
      BY <1>1, <3>1
  <2>. QED
    BY <2>1, <2>2
<1>3. Len(C) = Len(A) + Len(B)
  BY <1>1
<1>. HIDE DEF C
<1>4. ASSUME NEW k \in 1 .. Len(A) + Len(B), C[k] = b PROVE \E j \in 1 .. k - 1 : C[j] = a
  <2>1. CASE k <= Len(A)
    <3>1. k \in 1 .. Len(A) /\ A[k] = b /\ b \in SymbolsOf(A)
      BY <1>1, <1>2, <1>4, <2>1 DEF SymbolsOf
    <3>2. PICK j \in 1 .. k - 1 : A[j] = a
      BY <3>1 DEF Before
    <3>3. j \in 1 .. Len(A)
      BY <1>1, <2>1, <3>2
    <3>. QED
      BY <1>2, <3>2, <3>3
  <2>2. CASE ~ (k <= Len(A))
    <3>1. /\ k - Len(A) \in 1 .. Len(B) /\ k - Len(A) + Len(A) = k
      BY <1>1, <2>2
    <3>2. B[k - Len(A)] = b /\ b \in SymbolsOf(B)
      BY <1>1, <1>2, <1>4, <3>1 DEF SymbolsOf
    <3>3. CASE a \in SymbolsOf(A)
      <4>1. PICK j \in 1 .. Len(A) : A[j] = a
        BY <1>1, <3>3 DEF SymbolsOf
      <4>2. j \in 1 .. k - 1 /\ C[j] = a
        BY <1>1, <1>2, <2>2, <4>1
      <4>. QED
        BY <4>2
    <3>4. CASE Before(B, a, b)
      <4>1. PICK j \in 1 .. k - Len(A) - 1 : B[j] = a
        BY <3>1, <3>2, <3>4 DEF Before
      <4>2. j \in 1 .. Len(B) /\ j + Len(A) \in 1 .. k - 1
        BY <1>1, <3>1, <4>1
      <4>3. C[j + Len(A)] = a
        BY <1>2, <4>1, <4>2
      <4>. QED
        BY <4>2, <4>3
    <3>. QED
      BY <3>2, <3>3, <3>4
  <2>. QED
    BY <2>1, <2>2
<1>5. Before(C, a, b)
  BY <1>3, <1>4 DEF Before
<1>. QED
  BY <1>5 DEF C

(* A step that is in one of the parts only, and once there, is once in the *)
(* whole.                                                                  *)
Once(s, b) == \A j, k \in 1 .. Len(s) : s[j] = b /\ s[k] = b => j = k

LEMMA JoinedOnce ==
  ASSUME NEW S, NEW A \in Seq(S), NEW B \in Seq(S), NEW b,
         b \in SymbolsOf(A) => b \notin SymbolsOf(B) /\ Once(A, b),
         b \notin SymbolsOf(A) => Once(B, b)
  PROVE  Once(A \o B, b)
<1>1. /\ Len(A \o B) = Len(A) + Len(B)
      /\ \A i \in 1 .. Len(A) + Len(B) :
           (A \o B)[i] = IF i <= Len(A) THEN A[i] ELSE B[i - Len(A)]
      /\ Len(A) \in Nat /\ Len(B) \in Nat
      /\ DOMAIN A = 1 .. Len(A) /\ DOMAIN B = 1 .. Len(B)
  BY ConcatProperties
<1>. DEFINE C == A \o B
<1>2. ASSUME NEW i \in 1 .. Len(C), C[i] = b
      PROVE  \/ i \in 1 .. Len(A) /\ A[i] = b /\ b \in SymbolsOf(A)
             \/ i - Len(A) \in 1 .. Len(B) /\ B[i - Len(A)] = b /\ b \in SymbolsOf(B)
  <2>1. CASE i <= Len(A)
    BY <1>1, <1>2, <2>1 DEF SymbolsOf
  <2>2. CASE ~ (i <= Len(A))
    BY <1>1, <1>2, <2>2 DEF SymbolsOf
  <2>. QED
    BY <2>1, <2>2
<1>3. Len(C) \in Nat
  BY <1>1
<1>. HIDE DEF C
<1>4. ASSUME NEW j \in 1 .. Len(C), NEW k \in 1 .. Len(C), C[j] = b, C[k] = b PROVE j = k
  <2>1. CASE b \in SymbolsOf(A)
    BY <1>2, <1>4, <2>1 DEF Once
  <2>2. CASE b \notin SymbolsOf(A)
    <3>1. /\ j - Len(A) \in 1 .. Len(B) /\ B[j - Len(A)] = b
          /\ k - Len(A) \in 1 .. Len(B) /\ B[k - Len(A)] = b
      BY <1>2, <1>4, <2>2
    <3>2. j - Len(A) = k - Len(A)
      BY <2>2, <3>1 DEF Once
    <3>. QED
      BY <1>1, <1>3, <3>2
  <2>. QED
    BY <2>1, <2>2
<1>5. Once(C, b)
  BY <1>4 DEF Once
<1>. QED
  BY <1>5 DEF C

(* A step that is only in the first part is where it was.                  *)
LEMMA JoinedStart ==
  ASSUME NEW S, NEW A \in Seq(S), NEW B \in Seq(S)
  PROVE  /\ Len(A) \in Nat /\ Len(B) \in Nat /\ Len(A \o B) = Len(A) + Len(B)
         /\ \A i \in 1 .. Len(A) : (A \o B)[i] = A[i]
         /\ \A i \in 1 .. Len(A \o B) : (A \o B)[i] \notin SymbolsOf(B) => i \in 1 .. Len(A)
<1>1. /\ Len(A \o B) = Len(A) + Len(B)
      /\ \A i \in 1 .. Len(A) + Len(B) :
           (A \o B)[i] = IF i <= Len(A) THEN A[i] ELSE B[i - Len(A)]
      /\ Len(A) \in Nat /\ Len(B) \in Nat /\ DOMAIN B = 1 .. Len(B)
  BY ConcatProperties
<1>2. ASSUME NEW i \in 1 .. Len(A) + Len(B), ~ (i <= Len(A))
      PROVE  (A \o B)[i] \in SymbolsOf(B)
  <2>1. i - Len(A) \in DOMAIN B /\ (A \o B)[i] = B[i - Len(A)]
    BY <1>1, <1>2
  <2>. QED
    BY <2>1 DEF SymbolsOf
<1>3. \A i \in 1 .. Len(A) : (A \o B)[i] = A[i]
  BY <1>1
<1>4. ASSUME NEW i \in 1 .. Len(A) + Len(B), (A \o B)[i] \notin SymbolsOf(B)
      PROVE  i \in 1 .. Len(A)
  BY <1>1, <1>2, <1>4
<1>. QED
  BY <1>1, <1>3, <1>4

(* The parts of the script, and what they hold.                            *)
Names ==
  {"load", "patch", "flush", "constructors", "symbols", "SetOSVersion", "CanUseOpenSL",
   "HasMicrophone", "SetMIDISupported", "SetGetMoreSupported", "SetBillingSupported",
   "HasStoragePermission", "HasRecordPermission", "SetAPKPath", "SetRootPath", "SetLaunchFile",
   "SetIPAddress", "SetPrefs", "IsUnlocked", "SetScreenSize", "CreateMachines", "welcome",
   "nativeInitGraphics", "nativeResize", "SetLatency", "SetProcessBufferSize", "audioRuns",
   "startAudio", "micRuns", "startMic", "OnStart"}

LEMMA LoadingPart ==
  /\ Loading \in Seq(Names)
  /\ SymbolsOf(Loading) = {"load", "patch", "flush", "constructors", "symbols"}
  /\ Len(Loading) = 5 /\ Loading[1] = "load" /\ Loading[2] = "patch" /\ Loading[3] = "flush"
  /\ Loading[4] = "constructors" /\ Loading[5] = "symbols"
<1>1. Loading \in Seq(Names)
  BY DEF Loading, Names
<1>2. SymbolsOf(Loading) = {"load", "patch", "flush", "constructors", "symbols"}
  BY DEF Loading, SymbolsOf
<1>3. /\ Len(Loading) = 5 /\ Loading[1] = "load" /\ Loading[2] = "patch" /\ Loading[3] = "flush"
      /\ Loading[4] = "constructors" /\ Loading[5] = "symbols"
  BY DEF Loading
<1>. QED
  BY <1>1, <1>2, <1>3

LEMMA WhenPart ==
  ASSUME NEW condition, NEW S, NEW s \in Seq(S)
  PROVE  /\ When(condition, s) \in Seq(S)
         /\ SymbolsOf(When(condition, s)) = IF condition THEN SymbolsOf(s) ELSE {}
<1>1. <<>> \in Seq(S) /\ SymbolsOf(<<>>) = {}
  BY DEF SymbolsOf
<1>. QED
  BY <1>1 DEF When

(* The settings, the same in both builds up to the billing and the         *)
(* permissions, and the preferences once more.                             *)
LEMMA SettingsPart ==
  /\ Settings \in Seq(Names)
  /\ SymbolsOf(Settings) =
       {"SetOSVersion", "CanUseOpenSL", "HasMicrophone", "SetMIDISupported", "SetGetMoreSupported",
        "SetAPKPath", "SetRootPath", "SetLaunchFile", "SetIPAddress", "SetPrefs", "IsUnlocked",
        "SetScreenSize", "CreateMachines"}
       \cup (IF full322
             THEN {"SetBillingSupported", "HasStoragePermission", "HasRecordPermission"} ELSE {})
<1>. DEFINE a == <<"SetOSVersion", "CanUseOpenSL", "HasMicrophone", "SetMIDISupported", "SetGetMoreSupported">>
            b == <<"SetBillingSupported", "HasStoragePermission", "HasRecordPermission">>
            c == <<"SetAPKPath", "SetRootPath", "SetLaunchFile", "SetIPAddress", "SetPrefs">>
            d == <<"SetPrefs">>
            e == <<"IsUnlocked", "SetScreenSize", "CreateMachines">>
            w == When(full322, b)
            v == When(~full322, d)
<1>1. a \in Seq(Names) /\ b \in Seq(Names) /\ c \in Seq(Names) /\ d \in Seq(Names) /\ e \in Seq(Names)
  BY DEF Names
<1>2. /\ SymbolsOf(a) = {"SetOSVersion", "CanUseOpenSL", "HasMicrophone", "SetMIDISupported",
                         "SetGetMoreSupported"}
      /\ SymbolsOf(b) = {"SetBillingSupported", "HasStoragePermission", "HasRecordPermission"}
      /\ SymbolsOf(c) = {"SetAPKPath", "SetRootPath", "SetLaunchFile", "SetIPAddress", "SetPrefs"}
      /\ SymbolsOf(d) = {"SetPrefs"}
      /\ SymbolsOf(e) = {"IsUnlocked", "SetScreenSize", "CreateMachines"}
  BY DEF SymbolsOf
<1>. DEFINE aw == a \o w
            awc == aw \o c
            awcv == awc \o v
<1>3. Settings = awcv \o e
  BY DEF Settings
<1>. HIDE DEF a, b, c, d, e
<1>4. /\ w \in Seq(Names) /\ SymbolsOf(w) = IF full322 THEN SymbolsOf(b) ELSE {}
      /\ v \in Seq(Names) /\ SymbolsOf(v) = IF ~full322 THEN SymbolsOf(d) ELSE {}
  BY <1>1, WhenPart
<1>. HIDE DEF w, v
<1>5. aw \in Seq(Names) /\ SymbolsOf(aw) = SymbolsOf(a) \cup SymbolsOf(w)
  BY <1>1, <1>4, JoinedSymbols
<1>. HIDE DEF aw
<1>6. awc \in Seq(Names) /\ SymbolsOf(awc) = SymbolsOf(aw) \cup SymbolsOf(c)
  BY <1>1, <1>5, JoinedSymbols
<1>. HIDE DEF awc
<1>7. awcv \in Seq(Names) /\ SymbolsOf(awcv) = SymbolsOf(awc) \cup SymbolsOf(v)
  BY <1>4, <1>6, JoinedSymbols
<1>. HIDE DEF awcv
<1>8. awcv \o e \in Seq(Names) /\ SymbolsOf(awcv \o e) = SymbolsOf(awcv) \cup SymbolsOf(e)
  BY <1>1, <1>7, JoinedSymbols
<1>9. SymbolsOf(Settings) =
        (((SymbolsOf(a) \cup SymbolsOf(w)) \cup SymbolsOf(c)) \cup SymbolsOf(v)) \cup SymbolsOf(e)
  BY <1>3, <1>5, <1>6, <1>7, <1>8
<1>10. Settings \in Seq(Names)
  BY <1>3, <1>8
<1>11. CASE full322
  <2>1. SymbolsOf(w) = SymbolsOf(b) /\ SymbolsOf(v) = {}
    BY <1>4, <1>11
  <2>. QED
    BY <1>2, <1>9, <1>10, <1>11, <2>1
<1>12. CASE ~full322
  <2>1. SymbolsOf(w) = {} /\ SymbolsOf(v) = SymbolsOf(d)
    BY <1>4, <1>12
  <2>. QED
    BY <1>2, <1>9, <1>10, <1>12, <2>1
<1>. QED
  BY <1>11, <1>12

LEMMA GraphicsPart ==
  /\ Graphics \in Seq(Names)
  /\ SymbolsOf(Graphics) = {"nativeInitGraphics", "nativeResize", "SetLatency", "SetProcessBufferSize"}
<1>1. Graphics \in Seq(Names)
  BY DEF Graphics, Names
<1>. QED
  BY <1>1 DEF Graphics, SymbolsOf

(* The threads are started after their flags are raised.                   *)
LEMMA StartingPart ==
  /\ Starting \in Seq(Names)
  /\ SymbolsOf(Starting) =
       {"audioRuns", "startAudio", "OnStart"} \cup (IF full322 THEN {"micRuns", "startMic"} ELSE {})
  /\ Before(Starting, "audioRuns", "startAudio") /\ Before(Starting, "micRuns", "startMic")
  /\ Once(Starting, "startAudio") /\ Once(Starting, "startMic")
<1>. DEFINE a == <<"audioRuns", "startAudio">>
            b == <<"micRuns", "startMic">>
            c == <<"OnStart">>
            w == When(full322, b)
<1>1. a \in Seq(Names) /\ b \in Seq(Names) /\ c \in Seq(Names)
  BY DEF Names
<1>2. /\ SymbolsOf(a) = {"audioRuns", "startAudio"}
      /\ SymbolsOf(b) = {"micRuns", "startMic"}
      /\ SymbolsOf(c) = {"OnStart"}
  BY DEF SymbolsOf
<1>3. Before(a, "audioRuns", "startAudio") /\ Before(b, "micRuns", "startMic")
  BY DEF Before
<1>4. Before(<<>>, "micRuns", "startMic") /\ Once(<<>>, "startMic")
  BY DEF Before, Once
<1>5. Once(a, "startAudio") /\ Once(b, "startMic")
  <2>1. Len(a) = 2 /\ a[1] # "startAudio" /\ Len(b) = 2 /\ b[1] # "startMic"
    OBVIOUS
  <2>. HIDE DEF a, b
  <2>. QED
    BY <2>1 DEF Once
<1>. DEFINE aw == a \o w
<1>6. Starting = aw \o c
  BY DEF Starting
<1>. HIDE DEF a, b, c
<1>7. w \in Seq(Names) /\ SymbolsOf(w) = IF full322 THEN SymbolsOf(b) ELSE {}
  BY <1>1, WhenPart
<1>8. Before(w, "micRuns", "startMic") /\ Once(w, "startMic")
  BY <1>3, <1>4, <1>5 DEF When
<1>. HIDE DEF w
<1>9. "startAudio" \notin SymbolsOf(w) /\ "startMic" \notin SymbolsOf(a)
  BY <1>2, <1>7
<1>10. aw \in Seq(Names) /\ SymbolsOf(aw) = SymbolsOf(a) \cup SymbolsOf(w)
  BY <1>1, <1>7, JoinedSymbols
<1>11. Before(aw, "audioRuns", "startAudio")
  BY <1>1, <1>3, <1>7, <1>9, JoinedBefore
<1>12. Before(aw, "micRuns", "startMic")
  BY <1>1, <1>7, <1>8, <1>9, JoinedBefore
<1>13. Once(aw, "startAudio")
  BY <1>1, <1>2, <1>5, <1>7, <1>9, JoinedOnce
<1>14. Once(aw, "startMic")
  BY <1>1, <1>7, <1>8, <1>9, JoinedOnce
<1>. HIDE DEF aw
<1>15. "startAudio" \notin SymbolsOf(c) /\ "startMic" \notin SymbolsOf(c)
  BY <1>2
<1>16. /\ aw \o c \in Seq(Names)
       /\ SymbolsOf(aw \o c) = SymbolsOf(aw) \cup SymbolsOf(c)
  BY <1>1, <1>10, JoinedSymbols
<1>17. Before(aw \o c, "audioRuns", "startAudio")
  BY <1>1, <1>10, <1>11, <1>15, JoinedBefore
<1>18. Before(aw \o c, "micRuns", "startMic")
  BY <1>1, <1>10, <1>12, <1>15, JoinedBefore
<1>19. Once(aw \o c, "startAudio") /\ Once(aw \o c, "startMic")
  <2>1. ASSUME NEW name, name \notin SymbolsOf(c) PROVE Once(c, name)
    BY <1>1, <2>1 DEF Once, SymbolsOf
  <2>. QED
    BY <1>1, <1>10, <1>13, <1>14, <1>15, <2>1, JoinedOnce
<1>20. SymbolsOf(Starting) = (SymbolsOf(a) \cup SymbolsOf(w)) \cup SymbolsOf(c)
  BY <1>6, <1>10, <1>16
<1>21. SymbolsOf(Starting) =
         {"audioRuns", "startAudio", "OnStart"} \cup (IF full322 THEN {"micRuns", "startMic"} ELSE {})
  BY <1>2, <1>7, <1>20
<1>. QED
  BY <1>6, <1>16, <1>17, <1>18, <1>19, <1>21

(* What the script is for the proofs: it begins with the loading, and      *)
(* names what a thread needs before the thread.                            *)
Shape ==
  /\ Len(Script) \in Nat /\ Len(Script) > 5
  /\ Script[1] = "load" /\ Script[2] = "patch" /\ Script[3] = "flush"
  /\ \A k \in 1 .. Len(Script) : Script[k] = "patch" => k = 2
  /\ Before(Script, "audioRuns", "startAudio") /\ Before(Script, "micRuns", "startMic")
  /\ Before(Script, "CreateMachines", "startAudio") /\ Before(Script, "SetRootPath", "startAudio")
  /\ Before(Script, "SetProcessBufferSize", "startAudio")
  /\ Before(Script, "SetProcessBufferSize", "startMic")
  /\ Before(Script, "HasRecordPermission", "startMic")
  /\ Before(Script, "SetLaunchFile", "welcome") /\ Before(Script, "CreateMachines", "welcome")
  /\ \A k \in 1 .. Len(Script) : Script[k] = "startMic" => full322
  /\ Once(Script, "startAudio") /\ Once(Script, "startMic")

LEMMA ScriptShape == Shape
<1>. DEFINE w == <<"welcome">>
            ls == Loading \o Settings
            lsw == ls \o w
            lswg == lsw \o Graphics
<1>1. w \in Seq(Names) /\ SymbolsOf(w) = {"welcome"}
  BY DEF SymbolsOf, Names
<1>2. Script = lswg \o Starting
  BY DEF Script
<1>. HIDE DEF w
<1>3. ls \in Seq(Names) /\ SymbolsOf(ls) = SymbolsOf(Loading) \cup SymbolsOf(Settings)
  BY LoadingPart, SettingsPart, JoinedSymbols
<1>4. /\ Len(Loading) \in Nat /\ Len(Settings) \in Nat /\ Len(ls) = Len(Loading) + Len(Settings)
      /\ \A i \in 1 .. Len(Loading) : ls[i] = Loading[i]
      /\ \A i \in 1 .. Len(ls) : ls[i] \notin SymbolsOf(Settings) => i \in 1 .. Len(Loading)
  BY LoadingPart, SettingsPart, JoinedStart
<1>. HIDE DEF ls
<1>5. lsw \in Seq(Names) /\ SymbolsOf(lsw) = SymbolsOf(ls) \cup SymbolsOf(w)
  BY <1>1, <1>3, JoinedSymbols
<1>6. /\ Len(w) \in Nat /\ Len(lsw) = Len(ls) + Len(w)
      /\ \A i \in 1 .. Len(ls) : lsw[i] = ls[i]
      /\ \A i \in 1 .. Len(lsw) : lsw[i] \notin SymbolsOf(w) => i \in 1 .. Len(ls)
  BY <1>1, <1>3, JoinedStart
<1>7. Before(lsw, "SetLaunchFile", "welcome") /\ Before(lsw, "CreateMachines", "welcome")
  <2>1. "welcome" \notin SymbolsOf(ls) /\ "SetLaunchFile" \in SymbolsOf(ls) /\ "CreateMachines" \in SymbolsOf(ls)
    BY <1>3, LoadingPart, SettingsPart
  <2>. QED
    BY <1>1, <1>3, <2>1, JoinedBefore
<1>. HIDE DEF lsw
<1>8. lswg \in Seq(Names) /\ SymbolsOf(lswg) = SymbolsOf(lsw) \cup SymbolsOf(Graphics)
  BY <1>5, GraphicsPart, JoinedSymbols
<1>9. /\ Len(Graphics) \in Nat /\ Len(lswg) = Len(lsw) + Len(Graphics)
      /\ \A i \in 1 .. Len(lsw) : lswg[i] = lsw[i]
      /\ \A i \in 1 .. Len(lswg) : lswg[i] \notin SymbolsOf(Graphics) => i \in 1 .. Len(lsw)
  BY <1>5, GraphicsPart, JoinedStart
<1>10. Before(lswg, "SetLaunchFile", "welcome") /\ Before(lswg, "CreateMachines", "welcome")
  <2>1. "welcome" \notin SymbolsOf(Graphics)
    BY GraphicsPart
  <2>. QED
    BY <1>5, <1>7, <2>1, GraphicsPart, JoinedBefore
<1>. HIDE DEF lswg
<1>11. /\ Len(Starting) \in Nat /\ Len(Script) = Len(lswg) + Len(Starting)
       /\ \A i \in 1 .. Len(lswg) : Script[i] = lswg[i]
       /\ \A i \in 1 .. Len(Script) : Script[i] \notin SymbolsOf(Starting) => i \in 1 .. Len(lswg)
  BY <1>2, <1>8, StartingPart, JoinedStart
<1>12. SymbolsOf(lswg) =
         ((SymbolsOf(Loading) \cup SymbolsOf(Settings)) \cup {"welcome"}) \cup SymbolsOf(Graphics)
  BY <1>1, <1>3, <1>5, <1>8
<1>13. /\ "startAudio" \notin SymbolsOf(lswg) /\ "startMic" \notin SymbolsOf(lswg)
       /\ "welcome" \notin SymbolsOf(Starting)
       /\ "CreateMachines" \in SymbolsOf(lswg) /\ "SetRootPath" \in SymbolsOf(lswg)
       /\ "SetProcessBufferSize" \in SymbolsOf(lswg)
       /\ "startMic" \in SymbolsOf(Starting) => "HasRecordPermission" \in SymbolsOf(lswg)
  BY <1>12, LoadingPart, SettingsPart, GraphicsPart, StartingPart
<1>14. Before(Script, "audioRuns", "startAudio") /\ Before(Script, "micRuns", "startMic")
  BY <1>2, <1>8, <1>13, StartingPart, JoinedBefore
<1>15. /\ Before(Script, "CreateMachines", "startAudio") /\ Before(Script, "SetRootPath", "startAudio")
       /\ Before(Script, "SetProcessBufferSize", "startAudio")
  BY <1>2, <1>8, <1>13, StartingPart, JoinedBefore
<1>16. Before(Script, "SetProcessBufferSize", "startMic") /\ Before(Script, "HasRecordPermission", "startMic")
  BY <1>2, <1>8, <1>13, StartingPart, JoinedBefore
<1>17. Before(Script, "SetLaunchFile", "welcome") /\ Before(Script, "CreateMachines", "welcome")
  BY <1>2, <1>8, <1>10, <1>13, StartingPart, JoinedBefore
<1>18. Len(w) = 1 /\ Len(Graphics) = 4
  <2>1. Len(w) = 1
    BY DEF w
  <2>2. Len(Graphics) = 4
    BY DEF Graphics
  <2>. QED
    BY <2>1, <2>2
<1>19. Len(Script) \in Nat /\ Len(Script) > 5
  BY <1>4, <1>6, <1>9, <1>11, <1>18, LoadingPart
<1>20. \A k \in 1 .. 3 :
         /\ k \in 1 .. Len(Loading) /\ k \in 1 .. Len(ls) /\ k \in 1 .. Len(lsw)
         /\ k \in 1 .. Len(lswg)
  BY <1>4, <1>6, <1>9, <1>18, LoadingPart
<1>21. \A k \in 1 .. 3 : Script[k] = Loading[k]
  BY <1>4, <1>6, <1>9, <1>11, <1>20
<1>22. ASSUME NEW k \in 1 .. Len(Script), Script[k] = "patch" PROVE k = 2
  <2>1. /\ "patch" \notin SymbolsOf(Starting) /\ "patch" \notin SymbolsOf(Graphics)
        /\ "patch" \notin SymbolsOf(Settings) /\ "patch" \notin SymbolsOf(w)
    BY <1>1, SettingsPart, GraphicsPart, StartingPart
  <2>2. k \in 1 .. Len(lswg) /\ lswg[k] = "patch"
    BY <1>11, <1>22, <2>1
  <2>3. k \in 1 .. Len(lsw) /\ lsw[k] = "patch"
    BY <1>9, <2>1, <2>2
  <2>4. k \in 1 .. Len(ls) /\ ls[k] = "patch"
    BY <1>6, <2>1, <2>3
  <2>5. k \in 1 .. 5 /\ Loading[k] = "patch"
    BY <1>4, <2>1, <2>4, LoadingPart
  <2>. QED
    BY <2>5, LoadingPart
<1>23. ASSUME NEW k \in 1 .. Len(Script), Script[k] = "startMic" PROVE full322
  <2>1. Script[k] \in SymbolsOf(Starting)
    <3>1. ASSUME Script[k] \notin SymbolsOf(Starting) PROVE FALSE
      <4>1. k \in DOMAIN lswg /\ lswg[k] = "startMic"
        BY <1>8, <1>11, <1>23, <3>1
      <4>. QED
        BY <1>13, <4>1 DEF SymbolsOf
    <3>. QED
      BY <3>1
  <2>. QED
    BY <1>23, <2>1, StartingPart
<1>24. Once(Script, "startAudio") /\ Once(Script, "startMic")
  BY <1>2, <1>8, <1>13, StartingPart, JoinedOnce
<1>. QED
  BY <1>14, <1>15, <1>16, <1>17, <1>19, <1>21, <1>22, <1>23, <1>24, LoadingPart DEF Shape

(* What the caches, the calls and the threads' starts rest on: how far     *)
(* main() has come.                                                        *)
Places == {"none", "boot", "open", "loop", "native", "copy", "left", "handler", "claim", "report"}
Kinds ==
  /\ full322 \in BOOLEAN /\ handling \in BOOLEAN
  /\ running \in [Voices -> BOOLEAN] /\ place \in [Threads -> Places] /\ begun \in [Threads -> Nat]
Stepping ==
  /\ step \in 1 .. Len(Script) + 1
  /\ stale => step = 3
  /\ place["main"] = "native" /\ step <= Len(Script) => Script[step] \in Native
Ready ==
  /\ Done("audioRuns") => running["audio"]
  /\ Done("micRuns") => running["mic"]
  /\ place["audio"] # "none" =>
       /\ Done("startAudio") /\ Done("audioRuns") /\ Done("CreateMachines")
       /\ Done("SetProcessBufferSize") /\ Done("SetRootPath")
  /\ place["mic"] # "none" =>
       /\ full322 /\ Done("startMic") /\ Done("micRuns")
       /\ Done("SetProcessBufferSize") /\ Done("HasRecordPermission")
  /\ WelcomeWasGiven

(* A thread that has begun its report is in it, or has faulted in it and   *)
(* finds the flag up.                                                      *)
Reporting ==
  \A t \in Threads :
    /\ place[t] = "report" => handling
    /\ begun[t] <= 1
    /\ begun[t] = 1 => handling /\ place[t] \in {"handler", "report"}
LifeIInv == Kinds /\ LifeTypeOK /\ EverySymbolIsThere /\ Stepping /\ Ready /\ Reporting

(* The tables hold what either build asks for.                             *)
LEMMA SymbolsThere == full322 \in BOOLEAN => Required \subseteq Exports
<1>1. CASE full322
  BY <1>1, SettingsPart, GraphicsPart DEF Required, Exports, CommonExports, LoopExports, FullExports
<1>2. CASE ~full322
  BY <1>2, SettingsPart, GraphicsPart DEF Required, Exports, CommonExports, LoopExports, FullExports
<1>. QED
  BY <1>1, <1>2

LEMMA NativeSteps ==
  /\ {"load", "patch", "flush", "symbols", "welcome", "audioRuns", "micRuns", "startAudio", "startMic"}
       \cap Native = {}
  /\ "SetLaunchFile" \in Native
BY SettingsPart, GraphicsPart DEF Native

(* The script is the build's, so a step of the program leaves it alone.    *)
LEMMA SameScript ==
  ASSUME full322' = full322
  PROVE  Script' = Script /\ Native' = Native
<1>1. Settings' = Settings /\ Starting' = Starting
  BY DEF Settings, Starting, When
<1>2. Loading' = Loading /\ Graphics' = Graphics
  BY DEF Loading, Graphics
<1>. QED
  BY <1>1, <1>2 DEF Script, Native, SymbolsOf

(* main() stays or goes one step on, and has done that step then.          *)
Advances ==
  /\ full322' = full322
  /\ step' = step \/ (step \in 1 .. Len(Script) /\ step' = step + 1)

LEMMA DoneSteps ==
  ASSUME Advances, step \in 1 .. Len(Script) + 1, NEW name
  PROVE  /\ Done(name) => Done(name)'
         /\ step \in 1 .. Len(Script) /\ step' = step + 1 /\ Script[step] = name => Done(name)'
         /\ Done(name)' => Done(name) \/ (step' = step + 1 /\ Script[step] = name)
<1>1. Script' = Script
  BY SameScript DEF Advances
<1>2. Done(name)' <=> \E k \in 1 .. step' - 1 : Script[k] = name
  BY <1>1 DEF Done
<1>3. Done(name) <=> \E k \in 1 .. step - 1 : Script[k] = name
  BY DEF Done
<1>4. CASE step' = step
  <2>1. step' # step + 1
    BY <1>4, ScriptShape DEF Shape
  <2>. QED
    BY <1>2, <1>3, <1>4, <2>1
<1>5. CASE step' = step + 1
  <2>1. Len(Script) \in Nat /\ step \in Nat /\ step + 1 - 1 = step
    BY ScriptShape DEF Shape
  <2>2. Done(name)' <=> \E k \in 1 .. step : Script[k] = name
    BY <1>2, <1>5, <2>1
  <2>3. \A k \in 1 .. step : k \in 1 .. step - 1 \/ k = step
    BY <2>1
  <2>4. \A k \in 1 .. step - 1 : k \in 1 .. step
    BY <2>1
  <2>. QED
    BY <1>3, <1>5, <2>2, <2>3, <2>4
<1>. QED
  BY <1>4, <1>5 DEF Advances

LEMMA DoneBefore ==
  ASSUME NEW a, NEW b, Before(Script, a, b), step \in 1 .. Len(Script), Script[step] = b
  PROVE  Done(a)
BY DEF Before, Done

(* Nothing is taken back, and nothing starts before its step.              *)
Gains ==
  /\ Advances /\ step \in 1 .. Len(Script) + 1
  /\ \A t \in Voices : running[t] => running'[t]
  /\ step' = step + 1 /\ Script[step] = "audioRuns" => running'["audio"]
  /\ step' = step + 1 /\ Script[step] = "micRuns" => running'["mic"]
  /\ place'["audio"] # "none" =>
       place["audio"] # "none" \/ (step \in 1 .. Len(Script) /\ Script[step] = "startAudio" /\ step' = step + 1)
  /\ place'["mic"] # "none" =>
       place["mic"] # "none" \/ (step \in 1 .. Len(Script) /\ Script[step] = "startMic" /\ step' = step + 1)
  /\ welcomed' => welcomed \/ (step \in 1 .. Len(Script) /\ Script[step] = "welcome")

LEMMA GainsReady ==
  ASSUME Ready, Gains
  PROVE  Ready'
<1>1. ASSUME NEW name
      PROVE  /\ Done(name) => Done(name)'
             /\ step \in 1 .. Len(Script) /\ step' = step + 1 /\ Script[step] = name => Done(name)'
             /\ Done(name)' => Done(name) \/ (step' = step + 1 /\ Script[step] = name)
  BY DoneSteps DEF Gains
<1>2. "audio" \in Voices /\ "mic" \in Voices
  BY DEF Voices
<1>3. Done("audioRuns")' => running'["audio"]
  BY <1>1, <1>2 DEF Gains, Ready
<1>4. Done("micRuns")' => running'["mic"]
  BY <1>1, <1>2 DEF Gains, Ready
<1>5. ASSUME place'["audio"] # "none"
      PROVE  /\ Done("startAudio")' /\ Done("audioRuns") /\ Done("CreateMachines")
             /\ Done("SetProcessBufferSize") /\ Done("SetRootPath")
  <2>1. CASE place["audio"] # "none"
    BY <1>1, <2>1 DEF Ready
  <2>2. CASE step \in 1 .. Len(Script) /\ Script[step] = "startAudio" /\ step' = step + 1
    BY <1>1, <2>2, DoneBefore, ScriptShape DEF Shape
  <2>. QED
    BY <1>5, <2>1, <2>2 DEF Gains
<1>6. ASSUME place'["mic"] # "none"
      PROVE  /\ full322 /\ Done("startMic")' /\ Done("micRuns") /\ Done("SetProcessBufferSize")
             /\ Done("HasRecordPermission")
  <2>1. CASE place["mic"] # "none"
    BY <1>1, <2>1 DEF Ready
  <2>2. CASE step \in 1 .. Len(Script) /\ Script[step] = "startMic" /\ step' = step + 1
    BY <1>1, <2>2, DoneBefore, ScriptShape DEF Shape
  <2>. QED
    BY <1>6, <2>1, <2>2 DEF Gains
<1>7. ASSUME welcomed' PROVE Done("SetLaunchFile") /\ Done("CreateMachines")
  <2>1. CASE welcomed
    BY <2>1 DEF Ready, WelcomeWasGiven
  <2>2. CASE step \in 1 .. Len(Script) /\ Script[step] = "welcome"
    BY <2>2, DoneBefore, ScriptShape DEF Shape
  <2>. QED
    BY <1>7, <2>1, <2>2 DEF Gains
<1>8. full322' = full322
  BY DEF Gains, Advances
<1>. QED
  BY <1>1, <1>3, <1>4, <1>5, <1>6, <1>7, <1>8 DEF Ready, WelcomeWasGiven

(* A step of main() of which no thread takes notice.                       *)
MainGoes ==
  /\ place["main"] = "boot" /\ step \in 1 .. Len(Script) /\ step' = step + 1
  /\ full322' = full322 /\ place' = place /\ UNCHANGED faultVars
  /\ stale' => step = 2
  /\ running' \in [Voices -> BOOLEAN] /\ \A t \in Voices : running[t] => running'[t]
  /\ Script[step] = "audioRuns" => running'["audio"]
  /\ Script[step] = "micRuns" => running'["mic"]
  /\ welcomed' => welcomed \/ Script[step] = "welcome"

LEMMA MainGoesOn ==
  ASSUME LifeIInv, MainGoes
  PROVE  LifeIInv'
<1>1. Len(Script) \in Nat /\ Script' = Script /\ Native' = Native
  BY SameScript, ScriptShape DEF Shape, MainGoes
<1>2. Kinds'
  BY DEF LifeIInv, Kinds, MainGoes, faultVars
<1>3. Gains
  BY DEF LifeIInv, LifeTypeOK, Gains, Advances, MainGoes
<1>4. Ready'
  BY <1>3, GainsReady DEF LifeIInv
<1>5. Stepping'
  BY <1>1 DEF LifeIInv, MainGoes, Stepping
<1>6. Reporting' /\ EverySymbolIsThere'
  BY DEF LifeIInv, MainGoes, faultVars, Reporting, EverySymbolIsThere
<1>7. LifeTypeOK'
  BY <1>1, <1>5 DEF LifeIInv, MainGoes, faultVars, LifeTypeOK, Stepping
<1>. QED
  BY <1>2, <1>4, <1>5, <1>6, <1>7 DEF LifeIInv

(* A thread goes from one place to another, or faults: it has not begun a  *)
(* report, or is at the end of it.                                         *)
ThreadGoes(t) ==
  /\ UNCHANGED bootVars /\ UNCHANGED faultVars
  /\ \E to \in Places \ {"none", "report", "claim"} :
       /\ place' = [place EXCEPT ![t] = to]
       /\ to = "handler" \/ place[t] \notin {"handler", "report", "claim"}
       /\ IF t = "main" THEN to \in {"boot", "native", "handler"} ELSE to # "boot" /\ place[t] # "none"
       /\ t = "main" /\ to = "native" /\ step <= Len(Script) => Script[step] \in Native

LEMMA ThreadGoesOn ==
  ASSUME LifeIInv, NEW t \in Threads, ThreadGoes(t)
  PROVE  LifeIInv'
<1>1. PICK to \in Places \ {"none", "report", "claim"} :
        /\ place' = [place EXCEPT ![t] = to]
        /\ to = "handler" \/ place[t] \notin {"handler", "report", "claim"}
        /\ IF t = "main" THEN to \in {"boot", "native", "handler"} ELSE to # "boot" /\ place[t] # "none"
        /\ t = "main" /\ to = "native" /\ step <= Len(Script) => Script[step] \in Native
  BY DEF ThreadGoes
<1>2. /\ full322' = full322 /\ step' = step /\ stale' = stale /\ welcomed' = welcomed
      /\ running' = running /\ handling' = handling /\ begun' = begun /\ exited' = exited
  BY DEF ThreadGoes, bootVars, faultVars
<1>3. Script' = Script /\ Native' = Native
  BY <1>2, SameScript
<1>4. /\ place' \in [Threads -> Places] /\ place'[t] = to
      /\ \A u \in Threads : u # t => place'[u] = place[u]
  BY <1>1 DEF LifeIInv, Kinds
<1>5. Threads = {"main", "audio", "mic"} /\ Voices = {"audio", "mic"}
  BY DEF Threads, Voices
<1>6. Kinds'
  BY <1>2, <1>4 DEF LifeIInv, Kinds
<1>7. Gains
  <2>1. place'["audio"] # "none" => place["audio"] # "none"
    BY <1>1, <1>4, <1>5
  <2>2. place'["mic"] # "none" => place["mic"] # "none"
    BY <1>1, <1>4, <1>5
  <2>3. step \in 1 .. Len(Script) + 1 /\ step' # step + 1
    BY <1>2, ScriptShape DEF LifeIInv, Stepping, Shape
  <2>. QED
    BY <1>2, <2>1, <2>2, <2>3 DEF Gains, Advances
<1>8. Ready'
  BY <1>7, GainsReady DEF LifeIInv
<1>9. Stepping'
  <2>1. place'["main"] = "native" /\ step <= Len(Script) => Script[step] \in Native
    BY <1>1, <1>4, <1>5 DEF LifeIInv, Stepping
  <2>. QED
    BY <1>2, <1>3, <2>1 DEF LifeIInv, Stepping
<1>10. Reporting'
  <2>. SUFFICES ASSUME NEW u \in Threads
                PROVE  /\ place'[u] = "report" => handling'
                       /\ begun'[u] <= 1
                       /\ begun'[u] = 1 => handling' /\ place'[u] \in {"handler", "report"}
    BY DEF Reporting
  <2>1. /\ place[u] = "report" => handling
        /\ begun[u] <= 1
        /\ begun[u] = 1 => handling /\ place[u] \in {"handler", "report"}
    BY DEF LifeIInv, Reporting
  <2>2. CASE u = t
    BY <1>1, <1>2, <1>4, <2>1, <2>2
  <2>3. CASE u # t
    BY <1>2, <1>4, <2>1, <2>3
  <2>. QED
    BY <2>2, <2>3
<1>11. LifeTypeOK'
  <2>1. place'["main"] \in {"boot", "native", "handler", "claim", "report"}
    BY <1>1, <1>4, <1>5 DEF LifeIInv, LifeTypeOK
  <2>2. ASSUME NEW u \in Voices
        PROVE  place'[u] \in
                 {"none", "open", "loop", "native", "copy", "left", "handler", "claim", "report"}
    <3>1. CASE u = t
      BY <1>1, <1>4, <1>5, <3>1 DEF Places
    <3>2. CASE u # t
      BY <1>4, <1>5, <3>2 DEF LifeIInv, LifeTypeOK
    <3>. QED
      BY <3>1, <3>2
  <2>3. place'["mic"] # "none" => full322
    BY <1>1, <1>4, <1>5 DEF LifeIInv, LifeTypeOK
  <2>. QED
    BY <1>2, <1>3, <2>1, <2>2, <2>3 DEF LifeIInv, LifeTypeOK
<1>. QED
  BY <1>2, <1>6, <1>8, <1>9, <1>10, <1>11 DEF LifeIInv, EverySymbolIsThere

(* The actions of main() that no thread takes notice of.                   *)
LEMMA BootSteps ==
  ASSUME LifeIInv,
         \/ Load /\ Goes
         \/ Patch \/ Flush \/ Symbols \/ SkipsLaunchFile \/ Welcome
         \/ Raise("audioRuns", "audio") \/ Raise("micRuns", "mic")
  PROVE  MainGoes
<1>1. /\ Len(Script) \in Nat /\ Script[3] = "flush" /\ step \in 1 .. Len(Script) + 1
      /\ \A k \in 1 .. Len(Script) : Script[k] = "patch" => k = 2
      /\ running \in [Voices -> BOOLEAN]
      /\ stale => step = 3
  BY ScriptShape DEF Shape, LifeIInv, Stepping, Kinds
<1>2. "audio" \in Voices /\ "mic" \in Voices
  BY DEF Voices
<1>3. CASE Load /\ Goes
  <2>1. step' = step + 1 /\ step + 1 # step
    BY <1>1, <1>3 DEF Goes
  <2>2. UNCHANGED faultVars /\ At("load")
    BY <1>3, <2>1, Zenon DEF Load
  <2>3. UNCHANGED <<full322, pending, stale, welcomed, running, place, buffer>>
    BY <1>3 DEF Load
  <2>4. ~stale
    BY <1>1, <2>2 DEF At
  <2>. QED
    BY <1>1, <2>1, <2>2, <2>3, <2>4 DEF At, Booting, MainGoes
<1>4. CASE Patch
  BY <1>1, <1>4 DEF Patch, At, Booting, Goes, MainGoes, faultVars
<1>5. CASE Flush
  BY <1>1, <1>5 DEF Flush, At, Booting, Goes, MainGoes, faultVars
<1>6. CASE Symbols
  <2>1. Required \subseteq Exports
    BY SymbolsThere DEF LifeIInv, Kinds
  <2>. QED
    BY <1>1, <1>6, <2>1 DEF Symbols, At, Booting, Goes, MainGoes, faultVars
<1>7. CASE SkipsLaunchFile
  BY <1>1, <1>7 DEF SkipsLaunchFile, Skipped, Booting, Goes, MainGoes, faultVars
<1>8. CASE Welcome
  BY <1>1, <1>8 DEF Welcome, At, Booting, Goes, MainGoes, faultVars
<1>9. CASE Raise("audioRuns", "audio")
  BY <1>1, <1>2, <1>9 DEF Raise, At, Booting, Goes, MainGoes, faultVars
<1>10. CASE Raise("micRuns", "mic")
  BY <1>1, <1>2, <1>10 DEF Raise, At, Booting, Goes, MainGoes, faultVars
<1>. QED
  BY <1>3, <1>4, <1>5, <1>6, <1>7, <1>8, <1>9, <1>10

(* A thread's own steps, the faults and the first step into the handler.   *)
LEMMA ThreadSteps ==
  ASSUME LifeIInv
  PROVE  /\ (Calls \/ Draw) => ThreadGoes("main")
         /\ AudioStep => ThreadGoes("audio")
         /\ MicStep => ThreadGoes("mic")
         /\ \A t \in Threads : Fault(t) => ThreadGoes(t)
<1>1. /\ Len(Script) \in Nat /\ step \in Nat
      /\ place["main"] \in {"boot", "native", "handler", "claim", "report"}
  <2>1. Len(Script) \in Nat /\ step \in Nat
    BY ScriptShape DEF Shape, LifeIInv, Stepping
  <2>. QED
    BY <2>1 DEF LifeIInv, LifeTypeOK
<1>2. Calls => ThreadGoes("main")
  BY <1>1 DEF Calls, Booting, ThreadGoes, Places, bootVars, faultVars
<1>3. Draw => ThreadGoes("main")
  <2>1. ASSUME Draw, place["main"] = "boot" PROVE ThreadGoes("main")
    <3>1. place' = [place EXCEPT !["main"] = "native"] /\ ~ (step <= Len(Script))
      BY <1>1, <2>1 DEF Draw, LifeIInv, Kinds
    <3>. QED
      BY <2>1, <3>1 DEF Draw, ThreadGoes, Places
  <2>2. ASSUME Draw, place["main"] = "native" PROVE ThreadGoes("main")
    <3>1. place' = [place EXCEPT !["main"] = "boot"]
      BY <1>1, <2>2 DEF Draw, LifeIInv, Kinds
    <3>. QED
      BY <2>2, <3>1 DEF Draw, ThreadGoes, Places
  <2>. QED
    BY <2>1, <2>2 DEF Draw
<1>4. ASSUME NEW t \in Voices, NEW from \in {"open", "loop", "native", "copy"},
             NEW to \in {"loop", "native", "copy", "left"}, Moves(t, from, to)
      PROVE  ThreadGoes(t)
  <2>1. t # "main"
    BY DEF Voices
  <2>. QED
    BY <1>4, <2>1 DEF Moves, ThreadGoes, Places
<1>5. "audio" \in Voices /\ "mic" \in Voices /\ Voices \subseteq Threads
  BY DEF Voices, Threads
<1>6. AudioStep => ThreadGoes("audio")
  BY <1>4, <1>5 DEF AudioStep, PortFails, OpenPort, LeaveLoop, Process, Processed, Output, Steps
<1>7. MicStep => ThreadGoes("mic")
  BY <1>4, <1>5
     DEF MicStep, PortFails, OpenPort, LeaveLoop, CaptureFails, Capture, Record, Recorded, Steps
<1>8. ASSUME NEW t \in Threads, Fault(t) PROVE ThreadGoes(t)
  <2>1. place[t] # "none"
    BY <1>8 DEF Fault, Faulty
  <2>2. "handler" \in Places \ {"none", "report", "claim"}
    BY DEF Places
  <2>3. UNCHANGED bootVars /\ UNCHANGED faultVars /\ place' = [place EXCEPT ![t] = "handler"]
    BY <1>8 DEF Fault, bootVars, faultVars
  <2>4. IF t = "main" THEN "handler" \in {"boot", "native", "handler"}
        ELSE "handler" # "boot" /\ place[t] # "none"
    BY <2>1
  <2>. QED
    BY <2>2, <2>3, <2>4, Zenon DEF ThreadGoes
<1>. QED
  BY <1>2, <1>3, <1>6, <1>7, <1>8

(* A call returns; what starts with it is nothing.                         *)
LEMMA CallReturnsOn ==
  ASSUME LifeIInv, CallReturns
  PROVE  LifeIInv'
<1>. DEFINE home == [place EXCEPT !["main"] = "boot"]
<1>1. /\ exited = "no" /\ place["main"] = "native" /\ step <= Len(Script)
      /\ place' = home /\ step' = step + 1 /\ UNCHANGED faultVars
      /\ full322' = full322 /\ stale' = stale /\ welcomed' = welcomed /\ running' = running
  BY DEF CallReturns, Goes
<1>2. /\ home \in [Threads -> Places] /\ home["main"] = "boot"
      /\ home["audio"] = place["audio"] /\ home["mic"] = place["mic"]
  BY DEF LifeIInv, Kinds, Threads, Places
<1>. HIDE DEF home
<1>3. /\ Len(Script) \in Nat /\ Script[3] = "flush" /\ step \in 1 .. Len(Script)
      /\ Script[step] \in Native /\ Script' = Script /\ Native' = Native
  BY <1>1, SameScript, ScriptShape DEF Shape, LifeIInv, Stepping
<1>4. Threads = {"main", "audio", "mic"} /\ Voices = {"audio", "mic"}
  BY DEF Threads, Voices
<1>5. /\ handling' = handling /\ begun' = begun /\ exited' = exited
      /\ ~stale
  BY <1>1, <1>3, NativeSteps DEF faultVars, LifeIInv, Stepping
<1>6. Kinds'
  BY <1>1, <1>2, <1>5 DEF LifeIInv, Kinds
<1>7. Gains
  <2>1. Script[step] # "audioRuns" /\ Script[step] # "micRuns"
    BY <1>3, NativeSteps
  <2>2. step \in 1 .. Len(Script) + 1
    BY <1>3
  <2>. QED
    BY <1>1, <1>2, <1>3, <2>1, <2>2 DEF Gains, Advances
<1>8. Ready'
  BY <1>7, GainsReady DEF LifeIInv
<1>9. Stepping'
  <2>1. step' \in 1 .. Len(Script') + 1
    BY <1>1, <1>3
  <2>. QED
    BY <1>1, <1>2, <1>5, <2>1 DEF Stepping
<1>10. Reporting'
  <2>1. \A t \in Threads : place'[t] = place[t] \/ t = "main"
    BY <1>1, <1>2, <1>4
  <2>2. begun["main"] # 1 /\ "main" \in Threads
    BY <1>1, <1>4 DEF LifeIInv, Reporting
  <2>. QED
    BY <1>1, <1>2, <1>5, <2>1, <2>2 DEF LifeIInv, Reporting
<1>11. LifeTypeOK'
  BY <1>1, <1>2, <1>4, <1>5, <1>9 DEF LifeIInv, LifeTypeOK, Stepping
<1>. QED
  BY <1>5, <1>6, <1>8, <1>9, <1>10, <1>11 DEF LifeIInv, EverySymbolIsThere

(* A thread starts, or cannot be created.                                  *)
LEMMA StartOn ==
  ASSUME LifeIInv, NEW name, NEW t \in Voices, Start(name, t),
         <<name, t>> \in {<<"startAudio", "audio">>, <<"startMic", "mic">>}
  PROVE  LifeIInv'
<1>1. \/ name = "startAudio" /\ t = "audio"
      \/ name = "startMic" /\ t = "mic"
  OBVIOUS
<1>2. /\ exited = "no" /\ place["main"] = "boot" /\ step <= Len(Script) /\ Script[step] = name
      /\ place' = place \/ place' = [place EXCEPT ![t] = "open"]
      /\ step' = step + 1 /\ UNCHANGED faultVars
      /\ full322' = full322 /\ stale' = stale /\ welcomed' = welcomed /\ running' = running
  BY DEF Start, At, Booting, Goes
<1>3. /\ Len(Script) \in Nat /\ Script[3] = "flush" /\ step \in 1 .. Len(Script)
      /\ Script' = Script /\ Native' = Native
      /\ \A k \in 1 .. Len(Script) : Script[k] = "startMic" => full322
  BY <1>2, SameScript, ScriptShape DEF Shape, LifeIInv, Stepping
<1>4. Threads = {"main", "audio", "mic"} /\ Voices = {"audio", "mic"}
  BY DEF Threads, Voices
<1>5. /\ place' \in [Threads -> Places]
      /\ place'[t] = place[t] \/ place'[t] = "open"
      /\ \A u \in Threads : u # t => place'[u] = place[u]
  BY <1>2, <1>4 DEF LifeIInv, Kinds, Places
<1>6. /\ handling' = handling /\ begun' = begun /\ exited' = exited
      /\ ~stale
  BY <1>1, <1>2, <1>3 DEF faultVars, LifeIInv, Stepping
<1>7. Kinds'
  BY <1>2, <1>5, <1>6 DEF LifeIInv, Kinds
<1>8. Gains
  <2>1. Script[step] # "audioRuns" /\ Script[step] # "micRuns"
    BY <1>1, <1>2
  <2>2. step \in 1 .. Len(Script) + 1
    BY <1>3
  <2>3. place'["audio"] # "none" => place["audio"] # "none" \/ Script[step] = "startAudio"
    BY <1>1, <1>2, <1>4, <1>5
  <2>4. place'["mic"] # "none" => place["mic"] # "none" \/ Script[step] = "startMic"
    BY <1>1, <1>2, <1>4, <1>5
  <2>. QED
    BY <1>2, <1>3, <2>1, <2>2, <2>3, <2>4 DEF Gains, Advances
<1>9. Ready'
  BY <1>8, GainsReady DEF LifeIInv
<1>10. Stepping'
  <2>1. step' \in 1 .. Len(Script') + 1
    BY <1>2, <1>3
  <2>2. place'["main"] = "boot"
    BY <1>1, <1>2, <1>4, <1>5
  <2>. QED
    BY <1>2, <1>6, <2>1, <2>2 DEF Stepping
<1>11. Reporting'
  <2>1. t \in Threads
    BY <1>4
  <2>2. ~ Done(name)
    BY <1>1, <1>2, <1>3, ScriptShape DEF Shape, Once, Done
  <2>3. begun[t] # 1
    BY <1>1, <2>1, <2>2 DEF LifeIInv, Ready, Reporting
  <2>. QED
    BY <1>5, <1>6, <2>1, <2>3 DEF LifeIInv, Reporting
<1>12. LifeTypeOK'
  BY <1>1, <1>2, <1>3, <1>4, <1>5, <1>6, <1>10 DEF LifeIInv, LifeTypeOK, Stepping
<1>. QED
  BY <1>6, <1>7, <1>9, <1>10, <1>11, <1>12 DEF LifeIInv, EverySymbolIsThere

(* The handler: a second fault ends the program, the first reports it.     *)
LEMMA HandlingOn ==
  ASSUME LifeIInv, NEW t \in Threads, Handle(t) \/ Claim(t) \/ Reports(t)
  PROVE  LifeIInv'
<1>1. /\ Threads = {"main", "audio", "mic"} /\ Voices = {"audio", "mic"}
      /\ place \in [Threads -> Places] /\ begun \in [Threads -> Nat]
  BY DEF Threads, Voices, LifeIInv, Kinds
<1>2. /\ full322' = full322 /\ step' = step /\ stale' = stale /\ welcomed' = welcomed
      /\ running' = running
  BY DEF Handle, Claim, Reports, Enter, bootVars
<1>3. Script' = Script /\ Native' = Native
  BY <1>2, SameScript
<1>4. /\ place' = place \/ \E to \in {"claim", "report"} : place' = [place EXCEPT ![t] = to]
      /\ place[t] \in {"handler", "claim", "report"}
  BY DEF Handle, Claim, Reports, Enter
<1>5. /\ place' \in [Threads -> Places]
      /\ place'[t] = place[t] \/ place'[t] \in {"claim", "report"}
      /\ \A u \in Threads : u # t => place'[u] = place[u]
  BY <1>1, <1>4 DEF Places
<1>6. Gains
  <2>1. step \in 1 .. Len(Script) + 1 /\ step' # step + 1
    BY <1>2, ScriptShape DEF LifeIInv, Stepping, Shape
  <2>2. ASSUME NEW u \in Threads, place'[u] # "none" PROVE place[u] # "none"
    BY <1>4, <1>5, <2>2
  <2>. QED
    BY <1>1, <1>2, <2>1, <2>2 DEF Gains, Advances
<1>7. Ready'
  BY <1>6, GainsReady DEF LifeIInv
<1>8. Stepping'
  <2>1. place'["main"] = "native" => place["main"] = "native"
    BY <1>1, <1>5
  <2>. QED
    BY <1>2, <1>3, <2>1 DEF LifeIInv, Stepping
<1>9. /\ handling' \in BOOLEAN /\ begun' \in [Threads -> Nat]
      /\ handling => handling'
      /\ exited' \in {"no", "reported", "unreported"}
      /\ exited' = "reported" => handling'
  <2>1. CASE Handle(t)
    BY <2>1 DEF Handle, Enter, Exit, faultVars, LifeIInv, Kinds
  <2>2. CASE Claim(t)
    BY <2>2 DEF Claim, LifeIInv, Kinds
  <2>3. CASE Reports(t)
    BY <2>3 DEF Reports, Exit, LifeIInv, Kinds, Reporting
  <2>. QED
    BY <2>1, <2>2, <2>3
<1>10. Kinds'
  BY <1>2, <1>5, <1>9 DEF LifeIInv, Kinds
<1>11. Reporting'
  <2>. SUFFICES ASSUME NEW u \in Threads
                PROVE  /\ place'[u] = "report" => handling'
                       /\ begun'[u] <= 1
                       /\ begun'[u] = 1 => handling' /\ place'[u] \in {"handler", "report"}
    BY DEF Reporting
  <2>1. /\ place[u] = "report" => handling
        /\ begun[u] \in Nat /\ begun[u] <= 1
        /\ begun[u] = 1 => handling /\ place[u] \in {"handler", "report"}
    BY <1>1 DEF LifeIInv, Reporting
  <2>2. CASE Handle(t)
    BY <1>1, <2>1, <2>2 DEF Handle, Enter, Exit, faultVars
  <2>3. CASE Claim(t) /\ u = t
    <3>1. place[t] = "claim" /\ place'[t] = "report" /\ handling' = TRUE /\ begun'[t] = begun[t] + 1
      BY <1>1, <2>3 DEF Claim
    <3>2. begun[t] = 0
      BY <2>1, <2>3, <3>1
    <3>. QED
      BY <2>3, <3>1, <3>2
  <2>4. CASE Claim(t) /\ u # t
    BY <1>1, <2>1, <2>4 DEF Claim
  <2>5. CASE Reports(t)
    BY <2>1, <2>5 DEF Reports, Exit
  <2>. QED
    BY <2>2, <2>3, <2>4, <2>5
<1>12. LifeTypeOK'
  <2>1. place'["mic"] # "none" => full322
    BY <1>1, <1>4, <1>5 DEF LifeIInv, LifeTypeOK
  <2>2. place'["main"] \in {"boot", "native", "handler", "claim", "report"}
    BY <1>1, <1>5 DEF LifeIInv, LifeTypeOK
  <2>3. ASSUME NEW u \in Voices
        PROVE  place'[u] \in
                 {"none", "open", "loop", "native", "copy", "left", "handler", "claim", "report"}
    <3>1. u \in Threads
      BY <1>1
    <3>. QED
      BY <1>5, <3>1 DEF LifeIInv, LifeTypeOK
  <2>. QED
    BY <1>2, <1>8, <1>9, <2>1, <2>2, <2>3 DEF LifeTypeOK, Stepping
<1>. QED
  BY <1>7, <1>8, <1>9, <1>10, <1>11, <1>12 DEF LifeIInv, EverySymbolIsThere

LEMMA LifeInitInv == LifeInit => LifeIInv
<1>. SUFFICES ASSUME LifeInit PROVE LifeIInv
  OBVIOUS
<1>1. /\ step = 1 /\ full322 \in BOOLEAN /\ stale = FALSE /\ welcomed = FALSE
      /\ running = [t \in Voices |-> FALSE]
      /\ place = [t \in Threads |-> IF t = "main" THEN "boot" ELSE "none"]
      /\ handling = FALSE /\ begun = [t \in Threads |-> 0] /\ exited = "no"
  BY DEF LifeInit
<1>2. /\ Threads = {"main", "audio", "mic"} /\ Voices = {"audio", "mic"}
      /\ Len(Script) \in Nat
  BY ScriptShape DEF Threads, Voices, Shape
<1>3. place["main"] = "boot" /\ place["audio"] = "none" /\ place["mic"] = "none"
  BY <1>1, <1>2
<1>4. Kinds
  BY <1>1, <1>2 DEF Kinds, Places
<1>5. Stepping
  BY <1>1, <1>2, <1>3 DEF Stepping
<1>6. \A name : ~ Done(name)
  BY <1>1 DEF Done
<1>7. Ready
  BY <1>1, <1>3, <1>6 DEF Ready, WelcomeWasGiven
<1>8. Reporting
  BY <1>1, <1>2 DEF Reporting
<1>9. LifeTypeOK /\ EverySymbolIsThere
  BY <1>1, <1>2, <1>3, <1>5 DEF LifeTypeOK, EverySymbolIsThere, Stepping
<1>. QED
  BY <1>4, <1>5, <1>7, <1>8, <1>9 DEF LifeIInv

LEMMA LifeStepInv == LifeIInv /\ [LifeNext]_lifeVars => LifeIInv'
<1>. SUFFICES ASSUME LifeIInv, [LifeNext]_lifeVars PROVE LifeIInv'
  OBVIOUS
<1>1. CASE Load
  <2>1. CASE Load /\ Goes
    BY <2>1, BootSteps, MainGoesOn
  <2>2. CASE exited' = "no library" /\ UNCHANGED <<handling, begun, bootVars, place, buffer>>
    <3>1. Script' = Script /\ Native' = Native
      BY <2>2, SameScript DEF bootVars
    <3>2. \A name : Done(name)' <=> Done(name)
      BY <2>2, <3>1 DEF Done, bootVars
    <3>3. Kinds' /\ Stepping' /\ Reporting' /\ LifeTypeOK'
      BY <2>2, <3>1 DEF bootVars, LifeIInv, Kinds, Stepping, Reporting, LifeTypeOK
    <3>4. Ready'
      BY <2>2, <3>2 DEF bootVars, LifeIInv, Ready, WelcomeWasGiven
    <3>. QED
      BY <2>2, <3>3, <3>4 DEF LifeIInv, EverySymbolIsThere
  <2>. QED
    BY <1>1, <2>1, <2>2, Zenon DEF Load, Exit, bootVars
<1>2. CASE Patch \/ Flush \/ Symbols \/ SkipsLaunchFile \/ Welcome
  BY <1>2, BootSteps, MainGoesOn
<1>3. CASE Raise("audioRuns", "audio") \/ Raise("micRuns", "mic")
  BY <1>3, BootSteps, MainGoesOn
<1>4. "main" \in Threads /\ "audio" \in Threads /\ "mic" \in Threads
      /\ "audio" \in Voices /\ "mic" \in Voices
  BY DEF Threads, Voices
<1>5. CASE Start("startAudio", "audio")
  BY <1>4, <1>5, StartOn
<1>6. CASE Start("startMic", "mic")
  BY <1>4, <1>6, StartOn
<1>7. CASE CallReturns
  BY <1>7, CallReturnsOn
<1>8. CASE Calls \/ Draw
  BY <1>4, <1>8, ThreadSteps, ThreadGoesOn
<1>9. CASE AudioStep
  BY <1>4, <1>9, ThreadSteps, ThreadGoesOn
<1>10. CASE MicStep
  BY <1>4, <1>10, ThreadSteps, ThreadGoesOn
<1>11. ASSUME NEW t \in Threads, Fault(t) PROVE LifeIInv'
  BY <1>11, ThreadSteps, ThreadGoesOn
<1>12. CASE Handling
  BY <1>12, HandlingOn DEF Handling
<1>13. CASE UNCHANGED lifeVars
  <2>1. Script' = Script /\ Native' = Native
    BY <1>13, SameScript DEF lifeVars, bootVars
  <2>2. \A name : Done(name)' <=> Done(name)
    BY <1>13, <2>1 DEF Done, lifeVars, bootVars
  <2>3. Kinds' /\ Stepping' /\ Reporting' /\ LifeTypeOK'
    BY <1>13, <2>1
       DEF lifeVars, bootVars, faultVars, LifeIInv, Kinds, Stepping, Reporting, LifeTypeOK
  <2>4. Ready'
    BY <1>13, <2>2 DEF lifeVars, bootVars, LifeIInv, Ready, WelcomeWasGiven
  <2>. QED
    BY <1>13, <2>3, <2>4 DEF LifeIInv, EverySymbolIsThere, lifeVars, faultVars
<1>. QED
  BY <1>1, <1>2, <1>3, <1>5, <1>6, <1>7, <1>8, <1>9, <1>10, <1>11, <1>12, <1>13
     DEF LifeNext, MainStep

(* In every behaviour of the program, on either build, how far main() has  *)
(* come bounds what the threads do.                                        *)
THEOREM LifeInvariance == LifeSpec => []LifeIInv
BY LifeInitInv, LifeStepInv, PTL DEF LifeSpec

LEMMA SoundIsSetUp == LifeIInv => SoundAfterSetup
BY DEF LifeIInv, Ready, SoundAfterSetup

LEMMA CachesHold == LifeIInv => NativeCodeIsReady
<1>. SUFFICES ASSUME LifeIInv, NEW t \in Threads, place[t] = "native", stale PROVE FALSE
  BY DEF NativeCodeIsReady
<1>1. step = 3 /\ Script[3] = "flush" /\ 3 <= Len(Script)
  BY ScriptShape DEF Shape, LifeIInv, Stepping
<1>2. ASSUME NEW name, name \notin {"load", "patch"} PROVE ~ Done(name)
  <2>1. \A k \in 1 .. step - 1 : Script[k] \in {"load", "patch"}
    BY <1>1, ScriptShape DEF Shape
  <2>. QED
    BY <1>2, <2>1 DEF Done
<1>3. CASE t = "main"
  BY <1>1, <1>3, NativeSteps DEF LifeIInv, Stepping
<1>4. CASE t \in Voices
  BY <1>2, <1>4 DEF Voices, LifeIInv, Ready
<1>. QED
  BY <1>3, <1>4 DEF Threads, Voices

(* At every moment both builds find all their functions, native code finds *)
(* the caches written, the welcome is marked only when it was given, and   *)
(* no thread begins two reports: main(), the audio and microphone threads  *)
(* and the handlers of src/main.c, in any interleaving.                    *)
THEOREM LifeInOrder == LifeSpec => []LifeInv
<1>1. LifeIInv => LifeInv
  BY CachesHold DEF LifeIInv, LifeInv, Ready, OneReportEach, Reporting
<1>. QED
  BY <1>1, LifeInvariance, PTL

(* The audio thread calls into Caustic only when this has its machines, its*)
(* buffer size and its paths, the microphone thread only with the buffer   *)
(* size and the permission: main() starts them after it has set these.     *)
THEOREM SoundFollowsSetup == LifeSpec => []SoundAfterSetup
BY SoundIsSetUp, LifeInvariance, PTL

(* A thread with a port leaves its loop only when the port fails: the flag *)
(* it looks at was raised before it was created and is never lowered.      *)
THEOREM LoopsEntered == LifeSpec => LoopsAreEntered
<1>. DEFINE Stays == \A t \in Voices : place[t] = "loop" /\ place'[t] = "left" => running[t]
<1>1. LifeIInv /\ [LifeNext]_lifeVars => [Stays]_lifeVars
  BY DEF LifeIInv, Ready, Voices
<1>. QED
  BY <1>1, LifeInvariance, PTL DEF LifeSpec, LoopsAreEntered
=============================================================================
