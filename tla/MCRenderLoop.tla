---------------------------- MODULE MCRenderLoop -----------------------------
(***************************************************************************)
(* The instance of RenderLoop for TLC.  The screen is shrunk, not its      *)
(* logic: the deltas of the stick, the clamps and the repeat cycle are the *)
(* code's.  A behaviour is one of a single audience, chosen at the start:  *)
(* three fingers on the panel and nobody at the controller, every button   *)
(* with the panel untouched, or a finger that meets the stick and the      *)
(* buttons that matter to a swipe of the rack.                             *)
(***************************************************************************)
EXTENDS RenderLoop

MCPanelPoint == {<<0, 0>>, <<1919, 1087>>}

MCPlayAt       == <<4, 1>>
MCStopAt       == <<5, 1>>
MCMachineAt    == <<1, 3>>
MCMachineFocus == <<2, 2>>

(* Every button alone, and the chords whose order in the handler matters.  *)
MCButtons ==
  {{}, {"TRIANGLE"}, {"START"}, {"SELECT"}, {"CROSS"}, {"UP"}, {"RIGHT"},
   {"START", "SELECT"}, {"TRIANGLE", "START"}, {"CROSS", "UP"},
   {"UP", "DOWN", "LEFT"}}

(* What meets the rack swipe: the toggle, a tap, a grab.                   *)
MCRackButtons == {{}, {"TRIANGLE"}, {"START"}, {"CROSS"}}

VARIABLE audience

mcVars == <<vars, audience>>

(* The frame's sample of the panel and of the controller is one that this  *)
(* audience makes.                                                         *)
Panel ==
  CASE audience = "fingers" -> Report
    [] audience = "rack" -> [id : {0}, raw : {<<0, 0>>}]
    [] audience = "pad" -> {}
Pad ==
  CASE audience = "fingers" -> {{}} \X {128}
    [] audience = "rack" -> MCRackButtons \X StickSamples
    [] audience = "pad" -> MCButtons \X {128}

MCInit == Init /\ audience \in {"fingers", "pad", "rack"}

MCNext ==
  /\ Next /\ UNCHANGED audience
  /\ \A i \in DOMAIN reports' : reports'[i] \in Panel
  /\ <<buttons', ly'>> \in Pad

MCSpec == MCInit /\ [][MCNext]_mcVars /\ WF_mcVars(MCNext)
=============================================================================
