------------------------------ MODULE MCSoUtil ------------------------------
(***************************************************************************)
(* What so_util.c does to a module: loading, linking, the replacement of   *)
(* LDMIA instructions, and hooks.  They are checked side by side: a        *)
(* behaviour is one of a single part, and the others stay as they began.   *)
(***************************************************************************)
EXTENDS SoLoader, SoLink, CodeArena, DebugHooks, FiniteSetsExt

(* A module with its code first, one with data before it, and one with     *)
(* more data than a module may have.                                       *)
MCSegments == [m \in Module |->
  CASE m = "code first" -> <<"exec", "data", "data", "skip">>
    [] m = "data first" -> <<"skip", "data", "exec", "data">>
    [] m = "too many" -> <<"exec", "data", "data", "data">>]

-----------------------------------------------------------------------------
(* Entries of four bits and words of two bytes: an address reaches eight   *)
(* words and a map covers three, so that a set of words may take two maps  *)
(* in a row, or a new address behind a gap.  One family of images has      *)
(* every set of packed words, one every pair of relocations.               *)
Two(n) == 2^n

(* The packing of lld: an address, then maps as long as they are not empty *)
RECURSIVE Pack(_), PackMaps(_, _)
Pack(S) == IF S = {} THEN <<>> ELSE <<WordSize * Min(S)>> \o PackMaps(S \ {Min(S)}, Min(S) + 1)
PackMaps(S, at) ==
  LET here == S \cap (at..(at + Bits - 2)) IN
  IF here = {} THEN Pack(S)
  ELSE <<1 + MapThenSumSet(LAMBDA w : Two(w - at + 1), here)>> \o PackMaps(S \ here, at + Bits - 1)

Addend == Limit - 4
PackedImages ==
  {[words |-> [w \in Word |-> IF w \in S THEN (IF w = 5 THEN 0 ELSE 2 * w + 1) ELSE IF w = 6 THEN 0 ELSE Limit - 1],
    own |-> <<>>, rels |-> <<>>, relr |-> Pack(S), packed |-> S, init |-> <<5, 6, 7>>, only |-> FALSE]
     : S \in SUBSET Word}
BrokenImage ==
  [words |-> [w \in Word |-> 1], own |-> <<>>, rels |-> <<>>, relr |-> <<3>>, packed |-> {1}, init |-> <<>>, only |-> FALSE]

Types == KnownType \cup {"COPY"}
Symbols == {"own", "table", "dep", "both", "missing"}
RelImages ==
  {[words |-> [w \in Word |-> IF w < 2 /\ ss[w] # "own" /\ ts[w] = "ABS32" THEN (IF ss[w] = "dep" THEN Addend ELSE 0) ELSE Addend],
    own |-> [own |-> 9],
    rels |-> <<[type |-> ts[0], symbol |-> ss[0], at |-> 0], [type |-> ts[1], symbol |-> ss[1], at |-> 1]>>,
    relr |-> <<>>, packed |-> {}, init |-> <<0, 2>>, only |-> o]
     : ts \in [{0, 1} -> Types], ss \in [{0, 1} -> Symbols], o \in BOOLEAN}

MCImages == PackedImages \cup {BrokenImage} \cup RelImages
MCTable == <<<<"table", 40>>, <<"both", 41>>, <<"table", 42>>>>
MCNeeded ==
  << <<[name |-> "dep", value |-> 0, defined |-> FALSE, named |-> TRUE],
       [name |-> "dep", value |-> 1, defined |-> TRUE, named |-> FALSE]>>,
     <<[name |-> "both", value |-> 50, defined |-> TRUE, named |-> TRUE],
       [name |-> "dep", value |-> 51, defined |-> TRUE, named |-> TRUE]>> >>

-----------------------------------------------------------------------------
(* A text from 40 to 236, the patch arena below it and the cave behind;    *)
(* branches reach 128 bytes and the range is 63.  Every LDMIA over four    *)
(* registers stands at two of the addresses, a short one at the others;    *)
(* the last is too near the cave for so_alloc_arena, and too far from the  *)
(* patch block for a branch.                                               *)
MCFunctions == {{40, 44}, {148, 152}, {172}, {232}}
Ldmias == [base : Registers \ {PC}, regs : SUBSET Registers \ {{}}]
Short == {[base |-> 0, regs |-> {0, 1}], [base |-> 1, regs |-> {2}]}
MCPrograms ==
  {[a \in Address |-> IF a \in {40, 232} THEN one ELSE IF a = 152 THEN Absent ELSE two]
     : one \in Ldmias, two \in Short}

-----------------------------------------------------------------------------
(* Neighbouring functions of every kind: ARM, Thumb on a word and Thumb    *)
(* behind one.  They are hooked, unhooked and continued in any order, and  *)
(* then the two ARM functions get the hooks of libzip; one of them opens.  *)
MCOpen == [at |-> 0, thumb |-> FALSE]
MCLibzip == {MCOpen, [at |-> 14, thumb |-> FALSE]}
MCEntries == MCLibzip \cup {[at |-> 4, thumb |-> TRUE], [at |-> 9, thumb |-> TRUE]}

-----------------------------------------------------------------------------
(* What the theorems about loading and hooking ask of the instance.        *)
ASSUME ModulesAndFunctionsFit == OneText /\ Apart

VARIABLE part

vars == <<part, loadVars, linkVars, arenaVars, debugVars>>

Only(p, Step) ==
  /\ part = p /\ Step /\ UNCHANGED part
  /\ p # "load" => UNCHANGED loadVars
  /\ p # "link" => UNCHANGED linkVars
  /\ p # "arena" => UNCHANGED arenaVars
  /\ p # "hooks" => UNCHANGED debugVars

MCInit ==
  /\ part \in {"load", "link", "arena", "hooks"}
  /\ LoadInit /\ LinkInit /\ ArenaInit /\ DebugInit
  /\ part # "link" => image = BrokenImage
  /\ part # "arena" => ldm = CHOOSE program \in Programs : TRUE

MCNext ==
  \/ Only("load", LoadNext) \/ Only("link", LinkNext)
  \/ Only("arena", ArenaNext) \/ Only("hooks", DebugNext)

MCSpec == MCInit /\ [][MCNext]_vars
=============================================================================
