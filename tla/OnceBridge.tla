----------------------------- MODULE OnceBridge -----------------------------
(***************************************************************************)
(* pthread_once_soloader of src/reimpl/pthr.c: the control word is claimed *)
(* with one atomic exchange, and whoever does not win returns at once,     *)
(* even while the initializer still runs.  The initializer may come back   *)
(* to the same control word, as Caustic's does while it loads a project.   *)
(***************************************************************************)
EXTENDS Naturals, Sequences

CONSTANTS
  Caller,
  MaxCalls,        (* bound: how often a thread calls pthread_once         *)
  MaxNesting       (* bound: how deep its calls nest                       *)

ASSUME OnceAssumption == MaxCalls \in Nat /\ MaxNesting \in Nat

VARIABLES
  control,         (* *once_control                                        *)
  complete,        (* the initializer has returned                         *)
  frames,          (* the calls each thread is in, the innermost first     *)
  runs,            (* history: how often the initializer was entered       *)
  calls            (* history: how often each thread has called            *)

onceVars == <<control, complete, frames, runs, calls>>

OnceInit ==
  /\ control = 0
  /\ complete = FALSE
  /\ frames = [t \in Caller |-> <<>>]
  /\ runs = 0
  /\ calls = [t \in Caller |-> 0]

At(t) == IF frames[t] = <<>> THEN "out" ELSE Head(frames[t])
OnceGoes(t, at) == frames' = [frames EXCEPT ![t] = <<at>> \o Tail(@)]

(* A client calls, from its own code or from inside the initializer.       *)
Call(t) ==
  /\ At(t) \in {"out", "init"}
  /\ calls[t] < MaxCalls /\ Len(frames[t]) < MaxNesting
  /\ calls' = [calls EXCEPT ![t] = @ + 1]
  /\ frames' = [frames EXCEPT ![t] = <<"claim">> \o @]
  /\ UNCHANGED <<control, complete, runs>>

(* The outcome of __sync_lock_test_and_set: the next frame and the new     *)
(* control word.  The mutant tests the wrong way round.                    *)
Inverted(c) == [enter |-> c = 1, control |-> 1]
Exchange(c) == [enter |-> c = 0, control |-> 1]

(* The mutant waits for the winner, which may be the caller itself.        *)
WaitForWinner(t) ==
  /\ At(t) = "claim" /\ (control = 1 => complete)
  /\ control' = Exchange(control).control
  /\ runs' = IF Exchange(control).enter THEN runs + 1 ELSE runs
  /\ OnceGoes(t, IF Exchange(control).enter THEN "init" ELSE "return")
  /\ UNCHANGED <<complete, calls>>
Claim(t) ==
  /\ At(t) = "claim"
  /\ control' = Exchange(control).control
  /\ runs' = IF Exchange(control).enter THEN runs + 1 ELSE runs
  /\ OnceGoes(t, IF Exchange(control).enter THEN "init" ELSE "return")
  /\ UNCHANGED <<complete, calls>>

FinishInit(t) ==
  /\ At(t) = "init"
  /\ complete' = TRUE
  /\ OnceGoes(t, "return")
  /\ UNCHANGED <<control, runs, calls>>

Return(t) ==
  /\ At(t) = "return"
  /\ frames' = [frames EXCEPT ![t] = Tail(@)]
  /\ UNCHANGED <<control, complete, runs, calls>>

OnceStep(t) == Claim(t) \/ FinishInit(t) \/ Return(t)
OnceNext == \E t \in Caller : Call(t) \/ OnceStep(t)

(* The scheduler lets every thread that can run do so in the end, and the  *)
(* initializer finishes: MaxCalls bounds how often it comes back.          *)
OnceSpec == OnceInit /\ [][OnceNext]_onceVars /\ \A t \in Caller : WF_onceVars(OnceStep(t))

-----------------------------------------------------------------------------
OnceTypeOK ==
  /\ control \in {0, 1} /\ complete \in BOOLEAN
  /\ \A t \in Caller :
       \A i \in DOMAIN frames[t] : frames[t][i] \in {"claim", "init", "return"}

(* The initializer runs once, whoever calls, from wherever, in whatever    *)
(* interleaving, its own recursive calls included.                         *)
RunsOnce == runs <= 1

(* What a caller may rely on: when its call returns, the initializer has   *)
(* finished or somebody is inside it; nobody returns before it started.    *)
ReturnsStarted ==
  \A t \in Caller : At(t) = "return" =>
    complete \/ \E u \in Caller, i \in 1..MaxNesting :
                  i \in DOMAIN frames[u] /\ frames[u][i] = "init"

(* No call waits for the initializer, least of all the initializer's own:  *)
(* every call returns (the comment at pthr.c:265 is about this).           *)
EveryCallReturns ==
  \A t \in Caller : frames[t] # <<>> ~> frames[t] = <<>>

(* What pthread_once_soloader promises in every state: one run of the      *)
(* initializer, and no return before it was entered.                       *)
OnceInv ==
  /\ OnceTypeOK
  /\ RunsOnce
  /\ ReturnsStarted
=============================================================================
