----------------------------- MODULE CodeArena ------------------------------
(***************************************************************************)
(* Replacing the LDMIA instructions of a function by branches to single    *)
(* loads that take no harm from an unaligned base.  The loads live in one  *)
(* of two arenas: the patch block below the text, or the padding behind.   *)
(***************************************************************************)
EXTENDS Integers, Sequences, FiniteSets

CONSTANTS
  PC,              (* 15, the last of the registers                        *)
  Functions,       (* the functions that may be fixed: sets of addresses   *)
  Programs,        (* what stands at these addresses: [base, regs] of an   *)
                   (* LDMIA, or Absent                                     *)
  PatchBase, PatchSize, CaveBase, CaveSize,
  OffsetLimit,     (* 2^24: a branch has a word offset of 24 bits          *)
  AddressLimit,    (* 2^32                                                 *)
  Absent

Registers == 0..PC
Address == UNION Functions

(* The text begins behind the patch block and ends at the cave, which is   *)
(* less than a page; so_symbol_fix_ldmia looks for bases below R13.        *)
ASSUME ArenaAssumption ==
  /\ {PC, PatchBase, PatchSize, CaveBase, CaveSize, OffsetLimit, AddressLimit} \subseteq Nat
  /\ OffsetLimit % 2 = 0 /\ CaveSize + 16 <= OffsetLimit
  /\ PatchBase % 4 = 0 /\ CaveBase % 4 = 0
  /\ PatchBase + PatchSize <= CaveBase /\ CaveBase + CaveSize <= AddressLimit
  /\ CaveBase + 32 <= AddressLimit
  /\ \A a \in Address : a \in PatchBase + PatchSize .. CaveBase - 1 /\ a % 4 = 0
  /\ Absent \notin Int
  /\ \A program \in Programs : \A a \in Address :
       program[a] \in [base : Registers \ {PC}, regs : SUBSET Registers] \cup {Absent}

VARIABLES
  ldm,             (* the program, as it was mapped                        *)
  branches,        (* what stands at an address: Absent for what was       *)
                   (* mapped, or the offset of a branch                    *)
  patchHead, caveHead,
  stubs,           (* the code in the arenas: [at, for, loads]             *)
  todo,            (* what is left of the function being fixed             *)
  fatal

arenaVars == <<ldm, branches, patchHead, caveHead, stubs, todo, fatal>>

ArenaInit ==
  /\ ldm \in Programs
  /\ branches = [a \in Address |-> Absent]
  /\ patchHead = PatchBase /\ caveHead = CaveBase
  /\ stubs = {} /\ todo = {} /\ fatal = FALSE

(* B_RANGE and B_OFFSET; dst is a pointer to words, so that the offset is  *)
(* one of eight words.                                                     *)
BRange == OffsetLimit - 1
BOffset(dst) == dst + 8 * 4

(* The loop over the registers: the loads it has written, the one of the   *)
(* base, which is held back, and the offset of the next.  The mutant does  *)
(* not hold it back.                                                       *)
Emit(so, i) == Append(so.written, [reg |-> i, offset |-> so.cur])
LoadInOrder(l, so, i) ==
  IF i \notin l.regs THEN so
  ELSE [written |-> Emit(so, i), stored |-> <<>>, cur |-> so.cur + 4]
LoadRegister(l, so, i) ==
  IF i \notin l.regs THEN so
  ELSE IF i = l.base
    THEN [written |-> so.written, stored |-> <<[reg |-> i, offset |-> so.cur]>>, cur |-> so.cur + 4]
    ELSE [written |-> Emit(so, i), stored |-> so.stored, cur |-> so.cur + 4]
Loop(l) ==
  LET loop[n \in 0..(PC + 1)] ==
        IF n = 0 THEN [written |-> <<>>, stored |-> <<>>, cur |-> 0]
        ELSE LoadRegister(l, loop[n - 1], n - 1)
  IN loop
Trampoline(l) == Loop(l)[PC + 1].written \o Loop(l)[PC + 1].stored
SizeOf(loads) == 4 * (Len(loads) + 2)

(* so_alloc_arena: the space left and the distance are unsigned.           *)
InRange(low, high, range) == range >= (high - low) % AddressLimit
Available(size, head, base) == size - (head - base)
FitsPatch(dst, size) ==
  size <= Available(PatchSize, patchHead, PatchBase) /\ InRange(PatchBase, dst, BRange)
FitsCave(dst, size) ==
  size <= Available(CaveSize, caveHead, CaveBase) /\ InRange(dst, CaveBase, BRange)

(* The offset the branch gets, and where the processor goes with it.       *)
Encoded(at, dest) == ((dest - at) \div 4 - 2) % OffsetLimit
Target(at, offset) ==
  at + 8 + 4 * (IF offset >= OffsetLimit \div 2 THEN offset - OffsetLimit ELSE offset)

Patch(a, at) ==
  /\ stubs' = stubs \cup {[at |-> at, for |-> a, loads |-> Trampoline(ldm[a])]}
  /\ branches' = [branches EXCEPT ![a] = Encoded(a, at)]
  /\ todo' = todo \ {a}
  /\ UNCHANGED <<ldm, fatal>>

-----------------------------------------------------------------------------
(* so_symbol_fix_ldmia walks a function from its first word.  A branch it  *)
(* left there before is no LDMIA.                                          *)
Begin(f) ==
  /\ todo = {} /\ ~fatal
  /\ todo' = f
  /\ UNCHANGED <<ldm, branches, patchHead, caveHead, stubs, fatal>>

NextWord(a) == a \in todo /\ ~fatal /\ \A b \in todo : a <= b
IsLdmia(a) == branches[a] = Absent /\ ldm[a] # Absent

Pass(a) ==
  /\ NextWord(a) /\ ~IsLdmia(a)
  /\ todo' = todo \ {a}
  /\ UNCHANGED <<ldm, branches, patchHead, caveHead, stubs, fatal>>

IntoPatch(a) ==
  /\ NextWord(a) /\ IsLdmia(a)
  /\ LET size == SizeOf(Trampoline(ldm[a])) IN
     /\ FitsPatch(BOffset(a), size)
     /\ patchHead' = patchHead + size
     /\ Patch(a, patchHead)
  /\ UNCHANGED caveHead

IntoCave(a) ==
  /\ NextWord(a) /\ IsLdmia(a)
  /\ LET size == SizeOf(Trampoline(ldm[a])) IN
     /\ ~FitsPatch(BOffset(a), size) /\ FitsCave(BOffset(a), size)
     /\ caveHead' = caveHead + size
     /\ Patch(a, caveHead)
  /\ UNCHANGED patchHead

NoSpace(a) ==
  /\ NextWord(a) /\ IsLdmia(a)
  /\ LET size == SizeOf(Trampoline(ldm[a])) IN
     ~FitsPatch(BOffset(a), size) /\ ~FitsCave(BOffset(a), size)
  /\ fatal' = TRUE
  /\ UNCHANGED <<ldm, branches, patchHead, caveHead, stubs, todo>>

ArenaNext ==
  \/ \E f \in Functions : Begin(f)
  \/ \E a \in Address : Pass(a) \/ IntoPatch(a) \/ IntoCave(a) \/ NoSpace(a)
ArenaSpec == ArenaInit /\ [][ArenaNext]_arenaVars

-----------------------------------------------------------------------------
(* What the processor does: a register holds <<r>>, what r held before, or *)
(* that with the offset it was loaded from.  A load of PC is a jump, and   *)
(* nothing behind it runs.                                                 *)
Old == [r \in Registers |-> <<r>>]
Load(base, regs, x) ==
  IF regs[PC] # Old[PC] THEN regs ELSE [regs EXCEPT ![x.reg] = Append(regs[base], x.offset)]
Runs(base, loads) ==
  LET regs[n \in 0..Len(loads)] == IF n = 0 THEN Old ELSE Load(base, regs[n - 1], loads[n])
  IN regs
Execute(base, loads) == Runs(base, loads)[Len(loads)]
LdmiaDoes(l) ==
  [r \in Registers |->
     IF r \in l.regs THEN <<l.base, 4 * Cardinality({s \in l.regs : s < r})>> ELSE Old[r]]

(* The heads stay in their arenas, on words, and no address is both fixed  *)
(* and waiting with its instruction gone.                                  *)
ArenaTypeOK ==
  /\ patchHead \in PatchBase..(PatchBase + PatchSize)
  /\ caveHead \in CaveBase..(CaveBase + CaveSize)
  /\ (patchHead - PatchBase) % 4 = 0 /\ (caveHead - CaveBase) % 4 = 0
  /\ todo \subseteq Address /\ fatal \in BOOLEAN

(* Stubs do not overlap and lie inside an arena, and each is for an        *)
(* address of its own.                                                     *)
Extent(s) == s.at..(s.at + SizeOf(s.loads) - 1)
StubsApart ==
  /\ \A s, t \in stubs : s # t => Extent(s) \cap Extent(t) = {} /\ s.for # t.for
  /\ \A s \in stubs : \/ Extent(s) \subseteq PatchBase..(PatchBase + PatchSize - 1)
                      \/ Extent(s) \subseteq CaveBase..(CaveBase + CaveSize - 1)

(* A branch reaches the stub of its own instruction: no offset is cut off. *)
BranchesArrive ==
  \A a \in Address : branches[a] # Absent =>
    \E s \in stubs : s.for = a /\ Target(a, branches[a]) = s.at

(* A stub leaves the registers as the LDMIA would, unless it loads both    *)
(* its base and the program counter.                                       *)
StubsLoadAlike ==
  \A s \in stubs :
    LET l == ldm[s.for] IN
    ~{l.base, PC} \subseteq l.regs => Execute(l.base, s.loads) = LdmiaDoes(l)

(* An LDMIA that was replaced does what it did: its branch arrives at a    *)
(* stub of its own, which loads alike.                                     *)
ArenaInv ==
  /\ ArenaTypeOK
  /\ StubsApart
  /\ BranchesArrive
  /\ StubsLoadAlike
=============================================================================
