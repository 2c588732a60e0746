------------------------------- MODULE Hooks --------------------------------
(***************************************************************************)
(* A hook writes a jump over the first words of a function and keeps what  *)
(* was there.  Code is a row of halfwords, each a tuple of the same shape. *)
(***************************************************************************)
EXTENDS Integers, Sequences

CONSTANTS
  Halfwords,       (* how many the code has                                *)
  Entries,         (* the functions: [at, thumb]                           *)
  Destinations

ASSUME HookAssumption ==
  /\ Halfwords \in Nat
  /\ Entries \subseteq [at : 0..(Halfwords - 5), thumb : BOOLEAN]
  /\ \A e \in Entries : ~e.thumb => e.at % 2 = 0

VARIABLES
  code,
  hook,            (* the so_hook of a function: orig_instr, patch_instr   *)
                   (* and the destination in it                            *)
  armed            (* history: "no" before the first hook and after so_un- *)
                   (* hook, "yes", or "call" inside SO_CONTINUE            *)

hookVars == <<code, hook, armed>>

OwnHalf(n) == <<"own", n>>
Nop == <<"nop", 0>>
HookInit ==
  /\ code = [n \in 0..(Halfwords - 1) |-> OwnHalf(n)]
  /\ hook = [e \in Entries |-> [orig |-> <<>>, patch |-> <<>>, dst |-> "none"]]
  /\ armed = [e \in Entries |-> "no"]

(* A Thumb function on an odd halfword is hooked behind a NOP, so that the *)
(* address the jump loads lies on a word.                                  *)
Unaligned(e) == e.thumb /\ e.at % 2 = 1
Start(e) == IF Unaligned(e) THEN e.at + 1 ELSE e.at

(* Functions do not overlap, with the halfword a hook may write before its *)
(* jump.                                                                   *)
Window(e) == e.at..(Start(e) + 3)
Apart == \A e, f \in Entries : e # f => Window(e) \cap Window(f) = {}

Jump(thumb) == IF thumb THEN <<<<"ldr.w", 1>>, <<"ldr.w", 2>>>> ELSE <<<<"ldr", 1>>, <<"ldr", 2>>>>
PatchOf(e, dst) == Jump(e.thumb) \o <<<<dst, 1>>, <<dst, 2>>>>
Padded(e) == IF Unaligned(e) THEN [code EXCEPT ![e.at] = Nop] ELSE code
Written(c, at, row) == [n \in DOMAIN c |-> IF n \in at..(at + 3) THEN row[n - at + 1] ELSE c[n]]
Kept(c, at) == [k \in 1..4 |-> c[at + k - 1]]

(* hook_addr, hook_thumb and hook_arm.                                     *)
HookAddr(e, dst) ==
  LET c == Padded(e) IN
  /\ hook' = [hook EXCEPT ![e] = [orig |-> Kept(c, Start(e)), patch |-> PatchOf(e, dst), dst |-> dst]]
  /\ code' = Written(c, Start(e), PatchOf(e, dst))
  /\ armed' = [armed EXCEPT ![e] = "yes"]

(* so_unhook, and the two halves of SO_CONTINUE around the call.           *)
Unhook(e) ==
  /\ code' = Written(code, Start(e), hook[e].orig)
  /\ armed' = [armed EXCEPT ![e] = "no"]
  /\ UNCHANGED hook
ContinueCalls(e) ==
  /\ code' = Written(code, Start(e), hook[e].orig)
  /\ armed' = [armed EXCEPT ![e] = "call"]
  /\ UNCHANGED hook
ContinueReturns(e) ==
  /\ code' = Written(code, Start(e), hook[e].patch)
  /\ armed' = [armed EXCEPT ![e] = "yes"]
  /\ UNCHANGED hook

HookNext ==
  \E e \in Entries :
    \/ armed[e] = "no" /\ \E dst \in Destinations : HookAddr(e, dst)
    \/ armed[e] = "yes" /\ (Unhook(e) \/ ContinueCalls(e))
    \/ armed[e] = "call" /\ ContinueReturns(e)

-----------------------------------------------------------------------------
(* Where the processor goes from a function's entry: over a NOP, to what   *)
(* the jump loads.  A Thumb load counts from the word its address lies in. *)
Literal(at, thumb) == IF thumb THEN ((at + 2) \div 2) * 2 ELSE at + 2
JumpsTo(at, thumb, dst) ==
  /\ code[at] = Jump(thumb)[1] /\ code[at + 1] = Jump(thumb)[2]
  /\ code[Literal(at, thumb)] = <<dst, 1>> /\ code[Literal(at, thumb) + 1] = <<dst, 2>>
Reaches(e, dst) ==
  \/ JumpsTo(e.at, e.thumb, dst)
  \/ code[e.at] = Nop /\ JumpsTo(e.at + 1, e.thumb, dst)

(* A hooked function goes to its hook, whichever functions were hooked and *)
(* unhooked around it, and wherever it starts.                             *)
HookedGoOver == \A e \in Entries : armed[e] = "yes" => Reaches(e, hook[e].dst)

(* Once unhooked, or in a call of the original, a function has its own     *)
(* code again, but for the halfword before an unaligned hook, which stays  *)
(* a NOP: no hook keeps it.                                                *)
UnhookedRunsItsOwn ==
  \A e \in Entries : armed[e] # "yes" =>
    /\ Kept(code, Start(e)) = Kept([n \in DOMAIN code |-> OwnHalf(n)], Start(e))
    /\ Unaligned(e) => code[e.at] \in {OwnHalf(e.at), Nop}
=============================================================================
