----------------------------- MODULE DebugHooks -----------------------------
(***************************************************************************)
(* The hooks over Caustic's four libzip functions.  Each restores the      *)
(* function, calls it and hooks it again; the one for opening also asks a  *)
(* second time for the package itself, and gives out the archive it kept   *)
(* when the package cannot be opened twice.  One thread; the originals may *)
(* call each other.  What else is hooked in the program is hooked before.  *)
(***************************************************************************)
EXTENDS Hooks, FiniteSets

CONSTANTS
  Libzip,          (* the entries of the four functions                    *)
  Open,            (* the entry of zip_open; the others open nothing       *)
  Paths,           (* what is asked for: "apk", which an empty path means, *)
                   (* and others                                           *)
  Archives, MaxDepth, NoArchive

ASSUME DebugAssumption ==
  /\ Open \in Libzip /\ Libzip \subseteq Entries /\ \A e \in Libzip : ~e.thumb
  /\ "apk" \in Paths /\ NoArchive \notin Archives

VARIABLES
  installed,       (* history: main() has hooked the four functions        *)
  stack,           (* the calls under way, the last the innermost: the     *)
                   (* function, whether its hook runs, the path asked for  *)
                   (* and the one being tried                              *)
  opened,          (* the archives that are open, and on which path        *)
  pending,         (* pending_apk_archive                                  *)
  answer,          (* history: what zip_open has just answered             *)
  strayed          (* history: zip_open was asked for another path         *)

debugVars == <<code, hook, armed, installed, stack, opened, pending, answer, strayed>>
zipVars == <<opened, pending>>

Debug == CHOOSE dst \in Destinations : TRUE
DebugInit ==
  /\ HookInit
  /\ installed = FALSE /\ strayed = FALSE
  /\ stack = <<>> /\ opened = {} /\ pending = NoArchive /\ answer = NoArchive

Install ==
  /\ ~installed /\ \A e \in Libzip : armed[e] = "no"
  /\ code' = [n \in DOMAIN code |->
                IF \E e \in Libzip : n \in e.at..(e.at + 3)
                THEN LET e == CHOOSE x \in Libzip : n \in x.at..(x.at + 3)
                     IN PatchOf(e, Debug)[n - e.at + 1]
                ELSE code[n]]
  /\ hook' = [e \in Entries |->
                IF e \in Libzip
                THEN [orig |-> Kept(code, e.at), patch |-> PatchOf(e, Debug), dst |-> Debug]
                ELSE hook[e]]
  /\ armed' = [e \in Entries |-> IF e \in Libzip THEN "yes" ELSE armed[e]]
  /\ installed' = TRUE
  /\ UNCHANGED <<stack, opened, pending, answer, strayed>>

Top == stack[Len(stack)]
Popped == SubSeq(stack, 1, Len(stack) - 1)
IsOpen(path) == \E x \in opened : x.path = path

-----------------------------------------------------------------------------
(* Caustic, or an original that runs, calls a function: its hook, which    *)
(* restores the code first, or the code itself.  The mutant's hook arms    *)
(* itself before it calls.  No function of libzip opens an archive itself. *)
CallArmed(f, path) ==
  /\ installed /\ Len(stack) < MaxDepth
  /\ f = Open => stack = <<>>
  /\ stack' = Append(stack, [fn |-> f, hooked |-> Reaches(f, Debug), path |-> path, tried |-> path])
  /\ IF Reaches(f, Debug) THEN HookAddr(f, Debug) ELSE UNCHANGED hookVars
  /\ answer' = NoArchive
  /\ strayed' = (strayed \/ path # "apk")
  /\ UNCHANGED <<zipVars, installed>>
Call(f, path) ==
  /\ installed /\ Len(stack) < MaxDepth
  /\ f = Open => stack = <<>>
  /\ stack' = Append(stack, [fn |-> f, hooked |-> Reaches(f, Debug), path |-> path, tried |-> path])
  /\ IF Reaches(f, Debug) THEN Unhook(f) ELSE UNCHANGED hookVars
  /\ answer' = NoArchive
  /\ strayed' = (strayed \/ path # "apk")
  /\ UNCHANGED <<zipVars, installed>>

(* The end of a hook: it is armed again.                                   *)
Rearm == IF Top.hooked THEN HookAddr(Top.fn, Debug) ELSE UNCHANGED hookVars

Return ==
  /\ stack # <<>> /\ Top.fn # Open
  /\ Rearm /\ stack' = Popped
  /\ answer' = NoArchive
  /\ UNCHANGED <<zipVars, installed, strayed>>

(* zip_open's original.  The package opens unless a stream on it is open,  *)
(* as the comment in zip_open_debug has it; another path may always fail.  *)
MayOpen(path) == path # "apk" \/ ~IsOpen("apk")
MayFail(path) == path # "apk" \/ IsOpen("apk")

OpenReturns(result, kept) ==
  /\ Rearm /\ stack' = Popped
  /\ answer' = result /\ pending' = kept
  /\ UNCHANGED <<installed, strayed>>

(* What is kept: an archive of the package, if that was asked for.         *)
Keeps == Top.hooked /\ Top.path = "apk"
OpenSucceeds(a) ==
  /\ stack # <<>> /\ Top.fn = Open /\ MayOpen(Top.tried)
  /\ a \notin {x.id : x \in opened}
  /\ opened' = opened \cup {[id |-> a, path |-> Top.tried]}
  /\ OpenReturns(a, IF Keeps THEN a ELSE pending)

ZipOpenFails == stack # <<>> /\ Top.fn = Open /\ MayFail(Top.tried)
Retries == Top.hooked /\ Top.tried # "apk"
(* The original is called again, with the package's path.                  *)
Retry ==
  /\ ZipOpenFails /\ Retries
  /\ stack' = [stack EXCEPT ![Len(stack)].tried = "apk"]
  /\ answer' = NoArchive
  /\ UNCHANGED <<hookVars, zipVars, installed, strayed>>

Reuses == Top.hooked /\ Top.path = "apk" /\ pending # NoArchive
Reuse ==
  /\ ZipOpenFails /\ Reuses
  /\ OpenReturns(pending, NoArchive)
  /\ UNCHANGED opened

ZipFails ==
  /\ ZipOpenFails /\ ~Retries /\ ~Reuses
  /\ OpenReturns(NoArchive, pending)
  /\ UNCHANGED opened

(* Caustic closes an archive, with a libzip function that has no hook.     *)
Close(x) ==
  /\ stack = <<>>
  /\ opened' = opened \ {x}
  /\ answer' = NoArchive
  /\ UNCHANGED <<hookVars, installed, stack, pending, strayed>>

DebugNext ==
  \/ ~installed /\ HookNext /\ UNCHANGED <<installed, stack, zipVars, answer, strayed>>
  \/ Install
  \/ \E f \in Libzip : Call(f, "apk")
  \/ \E path \in Paths \ {"apk"} : Call(Open, path)
  \/ Return \/ (\E a \in Archives : OpenSucceeds(a)) \/ Retry \/ Reuse \/ ZipFails
  \/ \E x \in opened : Close(x)
DebugSpec == DebugInit /\ [][DebugNext]_debugVars

-----------------------------------------------------------------------------
(* zip_open runs once at a time, an archive is open on one path, and the   *)
(* package on one archive.                                                 *)
DebugTypeOK ==
  /\ \A k \in DOMAIN stack :
       /\ stack[k].fn \in Libzip /\ {stack[k].path, stack[k].tried} \subseteq Paths
       /\ stack[k].fn = Open => k = 1
  /\ {x.id : x \in opened} \subseteq Archives
  /\ Cardinality({x \in opened : x.path = "apk"}) <= 1
  /\ {pending, answer} \subseteq Archives \cup {NoArchive}

(* What a hook has saved is the function's own code: arming it again never *)
(* saves the jump, with which every later call would go around for ever.   *)
SavedIsTheProgram ==
  installed => \A e \in Libzip : hook[e].orig = [k \in 1..4 |-> OwnHalf(e.at + k - 1)]

(* An original that a hook calls is not hooked while it runs, whatever it  *)
(* calls meanwhile; and every function whose hook is not running is.       *)
HookedUnlessRunning ==
  installed => \A e \in Libzip :
    Reaches(e, Debug) = ~\E k \in DOMAIN stack : stack[k].fn = e /\ stack[k].hooked

(* An archive zip_open answers is open, as long as nothing but the package *)
(* was asked for: the one it kept is then the one in the way.              *)
AnswersAreOpen == answer # NoArchive /\ ~strayed => \E x \in opened : x.id = answer

(* Hooked functions go over to their hooks, unhooked ones run their own    *)
(* code, an original is unhooked exactly while it runs, and what zip_open  *)
(* answers is open.                                                        *)
HooksInv ==
  /\ DebugTypeOK
  /\ HookedGoOver
  /\ UnhookedRunsItsOwn
  /\ SavedIsTheProgram
  /\ HookedUnlessRunning
  /\ AnswersAreOpen
=============================================================================
