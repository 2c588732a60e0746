----------------------------- MODULE TouchSlots ------------------------------
(***************************************************************************)
(* The front panel half of a frame: src/main.c 898-954.  Every frame peeks *)
(* one sample of the panel, assigns each reported finger to the slot that  *)
(* already follows it or to the first free one, and ends the gesture of    *)
(* every slot whose finger was not reported.                               *)
(***************************************************************************)
EXTENDS CausticPointers, Sequences, FiniteSets

CONSTANTS
  Finger,       (* the hardware ids the panel hands out                    *)
  PanelPoint    (* the raw panel coordinates a report may carry            *)

ASSUME PanelAssumption ==
  /\ Finger \subseteq 0 .. 255
  /\ PanelPoint \subseteq (0 .. 1919) \X (0 .. 1087)

VARIABLES        (* physical_touches[], field by field:                    *)
  active, seen,  (* the slots whose flag is set                            *)
  hardware_id,
  position,      (* x and y                                                *)
  reports,       (* the reports of this frame's sample not yet handled     *)
  glass,         (* history: the fingers of this frame's sample ...        *)
  lastGlass      (* ... and of the frame before                            *)

slotVars == <<active, seen, hardware_id, position, reports, glass, lastGlass>>

Report == [id : Finger, raw : PanelPoint]

Sample == { s \in UNION { [1 .. n -> Report] : n \in 0 .. Cardinality(Finger) } :
            \A i, j \in DOMAIN s : s[i].id = s[j].id => i = j }

Scaled(raw) == <<(raw[1] * Width) \div 1919, (raw[2] * Height) \div 1087>>

(* The slots the search for a reported finger finds, and a mutant that     *)
(* misses the last.                                                        *)
FollowingButLast(f) ==
  { s \in active \ {MaxReport - 1} : hardware_id[s] = f }
Following(f) == { s \in active : hardware_id[s] = f }
Followed == { hardware_id[s] : s \in active }

(* The slots a frame finds lifted, and a mutant that forgets slot 0.       *)
LiftedButFirst == (active \ seen) \ {0}
Lifted == active \ seen

First(S) == CHOOSE s \in S : \A t \in S : s <= t

SlotsInit ==
  /\ active = {} /\ seen = {}
  /\ hardware_id = [s \in Slot |-> 0]
  /\ position = [s \in Slot |-> <<0, 0>>]
  /\ reports = <<>>
  /\ glass = {} /\ lastGlass = {}

-----------------------------------------------------------------------------
Peek ==
  /\ pc = "peek"
  /\ \E sample \in Sample :
       LET n == IF Len(sample) > MaxReport THEN MaxReport ELSE Len(sample)
       IN  /\ reports' = SubSeq(sample, 1, n)
           /\ glass' = { sample[i].id : i \in 1 .. n }
  /\ lastGlass' = glass
  /\ seen' = {}
  /\ pc' = "report"
  /\ UNCHANGED <<touch, physical_touch_count, active, hardware_id, position>>

(* The next report belongs to a finger some slot follows already.          *)
MoveReport ==
  /\ pc = "report" /\ reports # <<>>
  /\ LET at == Scaled(Head(reports).raw)
         following == Following(Head(reports).id)
         slot == First(following)
     IN  /\ following # {}
         /\ seen' = seen \cup {slot}
         /\ position' = [position EXCEPT ![slot] = at]
         /\ touch' = [touch EXCEPT ![slot] = touch_move(@, at)]
  /\ reports' = Tail(reports)
  /\ UNCHANGED <<pc, physical_touch_count, active, hardware_id, glass,
                 lastGlass>>

(* The next report is a finger that has just landed: first free slot.      *)
BeginReport ==
  /\ pc = "report" /\ reports # <<>>
  /\ LET at == Scaled(Head(reports).raw)
         slot == First(Slot \ active)
     IN  /\ Following(Head(reports).id) = {}
         /\ active # Slot
         /\ active' = active \cup {slot}
         /\ seen' = seen \cup {slot}
         /\ hardware_id' = [hardware_id EXCEPT ![slot] = Head(reports).id]
         /\ position' = [position EXCEPT ![slot] = at]
         /\ touch' = [touch EXCEPT ![slot] = touch_begin(@, at)]
  /\ physical_touch_count' = physical_touch_count + 1
  /\ reports' = Tail(reports)
  /\ UNCHANGED <<pc, glass, lastGlass>>

(* Every slot is taken, some perhaps by a finger about to be found lifted: *)
(* the report is dropped.                                                  *)
SkipReport ==
  /\ pc = "report" /\ reports # <<>>
  /\ Following(Head(reports).id) = {}
  /\ active = Slot
  /\ reports' = Tail(reports)
  /\ UNCHANGED <<pc, touch, physical_touch_count, active, seen, hardware_id,
                 position, glass, lastGlass>>

Lift ==
  /\ pc = "report" /\ reports = <<>>
  /\ active' = active \ Lifted
  /\ touch' = [p \in Pointer |->
                IF p \in Lifted THEN touch_end(touch[p], position[p])
                                ELSE touch[p]]
  /\ physical_touch_count' = physical_touch_count - Cardinality(Lifted)
  /\ pc' = "tap"
  /\ UNCHANGED <<seen, hardware_id, position, reports, glass, lastGlass>>

TouchStep == Peek \/ MoveReport \/ BeginReport \/ SkipReport \/ Lift

-----------------------------------------------------------------------------
SlotsTypeOK ==
  /\ active \in SUBSET Slot /\ seen \in SUBSET Slot
  /\ hardware_id \in [Slot -> 0 .. 255]
  /\ position \in [Slot -> Point]
  /\ reports \in Seq(Report)
  /\ glass \in SUBSET Finger /\ lastGlass \in SUBSET Finger

(***************************************************************************)
(* The bookkeeping and Caustic agree between any two calls: a slot's       *)
(* pointer is down, where the slot says, exactly while the slot is active; *)
(* no finger has two slots; the shared count is the number of active ones. *)
(***************************************************************************)
SlotsMatchPointers ==
  /\ \A s \in Slot : touch[s].st = (IF s \in active THEN "down" ELSE "up")
  /\ \A s \in active : touch[s].at = position[s]
  /\ \A s, t \in active : hardware_id[s] = hardware_id[t] => s = t
  /\ physical_touch_count = Cardinality(active)

(***************************************************************************)
(* What a frame owes the fingers, once its reports are handled: no gesture *)
(* outlives the finger that made it, and although a finger that lands in   *)
(* the frame another one lifts may find no slot, a finger is never left    *)
(* out in a frame that brought no new one.                                 *)
(***************************************************************************)
SlotsFollowGlass ==
  pc # "report" =>
    /\ Followed \subseteq glass
    /\ glass \subseteq lastGlass => Followed = glass

(***************************************************************************)
(* A finger keeps its pointer for as long as it is followed: other fingers *)
(* lifting and landing never make it jump to another slot.                 *)
(***************************************************************************)
FingerKeepsPointer ==
  [][\A s \in active, t \in active' :
       hardware_id[s] = hardware_id'[t] => s = t]_slotVars

(***************************************************************************)
(* A gesture whose finger is missing from the sample is ended: a slot that *)
(* follows a finger no longer on the glass gets its pointer up.            *)
(***************************************************************************)
LiftedFingersReleased ==
  \A s \in Slot :
    (pc = "report" /\ s \in active /\ hardware_id[s] \notin glass)
      ~> (touch[s].st = "up")
=============================================================================
