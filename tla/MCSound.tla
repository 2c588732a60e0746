------------------------------ MODULE MCSound -------------------------------
(***************************************************************************)
(* The life of the program with its sound threads, and the samples of the  *)
(* microphone thread.  They are checked side by side: a behaviour is one of*)
(* a single part, and the other stays as it began.                         *)
(***************************************************************************)
EXTENDS MicResampler, Lifecycle

VARIABLE part

vars == <<part, micVars, lifeVars>>

MicOnly(Step) == part = "samples" /\ Step /\ UNCHANGED <<part, lifeVars>>
LifeOnly(Step) == part = "life" /\ Step /\ UNCHANGED <<part, micVars>>

MCInit ==
  /\ part \in {"samples", "life"}
  /\ MicInit /\ LifeInit
  /\ part = "samples" => full322 /\ ~pending

MCNext == MicOnly(MicNext) \/ LifeOnly(LifeNext)

(* The fairness of MicSpec and of LifeSpec.                                *)
MCSpec ==
  /\ MCInit /\ [][MCNext]_vars
  /\ WF_vars(MicOnly(MicNext)) /\ WF_vars(LifeOnly(MainStep))
  /\ WF_vars(LifeOnly(AudioStep)) /\ WF_vars(LifeOnly(Handling))
  /\ \A t \in Voices : WF_vars(LifeOnly(place[t] = "copy" /\ Fault(t)))
=============================================================================
