------------------------------- MODULE SoLink -------------------------------
(***************************************************************************)
(* Linking the module that was mapped: its own relocations, the relative   *)
(* ones the linker packed, the imports, and then its constructors, in      *)
(* main()'s thread.  Memory is a row of words counted from the load        *)
(* address; a symbol stands for its name.                                  *)
(***************************************************************************)
EXTENDS Integers, Sequences, FiniteSets

CONSTANTS
  Bits, WordSize,  (* bits of a packed entry (32) and bytes of a word (4)  *)
  Words,           (* how many words the module has                        *)
  Limit,           (* 2^32                                                 *)
  Base,            (* text_base                                            *)
  Images,          (* modules as a linker may have written them            *)
  Table,           (* default_dynlib: pairs of a symbol and a function     *)
  Needed,          (* the loaded modules DT_NEEDED names, in its order:    *)
                   (* each a row of symbols [name, value, defined, named]  *)
  Stub,            (* the address of plt0_stub                             *)
  NULL

Word == 0..(Words - 1)
Value == 0..(Limit - 1)

(* so_symbol: the first symbol that is defined, has its name inside the    *)
(* string table and that name.                                             *)
SymbolIndex(module, name) ==
  {n \in DOMAIN module : module[n].defined /\ module[n].named /\ module[n].name = name}
First(set) == CHOOSE n \in set : \A k \in set : n <= k
FromTable(name) == {n \in DOMAIN Table : Table[n][1] = name}

(* The words an entry of .relr.dyn stands for: an even one is an address,  *)
(* an odd one a map of the words behind the last address and the maps      *)
(* between.                                                                *)
HasBit(entry, bit) == (entry \div 2^bit) % 2 = 1
Addresses(relr) == {n \in DOMAIN relr : relr[n] % 2 = 0}
LastAddress(relr, k) ==
  CHOOSE a \in Addresses(relr) : a < k /\ \A b \in Addresses(relr) : b < k => b <= a
Behind(relr, k) ==
  LET a == LastAddress(relr, k) IN relr[a] \div WordSize + 1 + (k - 1 - a) * (Bits - 1)
Packs(relr, k) ==
  IF relr[k] % 2 = 0 THEN {relr[k] \div WordSize}
  ELSE {Behind(relr, k) + (bit - 1) : bit \in {b \in 1..(Bits - 1) : HasBit(relr[k], b)}}

AddressFirst(relr) == 1 \in DOMAIN relr => relr[1] % 2 = 0

(* A row as the ELF image holds it.                                        *)
Row(row) == Len(row) \in Nat /\ DOMAIN row = 1..Len(row)

(* plt0_stub is in no table of symbols, no module lies over it, and none   *)
(* defines a symbol at 0, which so_resolve_link takes for none.            *)
ASSUME LinkAssumption ==
  /\ {Bits, WordSize, Words, Limit} \subseteq Nat \ {0}
  /\ Base \in Value /\ Stub \in Value /\ NULL \notin Nat
  /\ Row(Table) /\ \A n \in DOMAIN Table : Table[n][2] \in Value \ {Stub}
  /\ Row(Needed)
  /\ \A n \in DOMAIN Needed :
       /\ Row(Needed[n])
       /\ \A k \in DOMAIN Needed[n] : Needed[n][k].defined => Needed[n][k].value \in Value \ {0, Stub}

(* What a linker writes: one relocation for a word; each word that is      *)
(* packed in one entry, if the first of these is an address; and no addend *)
(* for a function of the port's table.                                     *)
ASSUME ImageAssumption ==
  \A im \in Images :
    /\ im.words \in [Word -> Value] /\ im.packed \subseteq Word
    /\ \A symbol \in DOMAIN im.own :
         im.own[symbol] \in Nat /\ (Base + im.own[symbol]) % Limit # Stub
    /\ Row(im.rels) /\ Row(im.relr) /\ Row(im.init)
    /\ \A n \in DOMAIN im.init : im.init[n] \in Word
    /\ \A n \in DOMAIN im.rels :
         /\ im.rels[n].at \in Word \ im.packed
         /\ \A k \in DOMAIN im.rels : im.rels[k].at = im.rels[n].at => k = n
         /\ im.rels[n].type = "ABS32" /\ im.rels[n].symbol \notin DOMAIN im.own =>
              FromTable(im.rels[n].symbol) = {} \/ im.words[im.rels[n].at] = 0
    /\ \A k \in DOMAIN im.relr : im.relr[k] \in Nat
    /\ AddressFirst(im.relr) =>
         /\ im.packed = UNION {Packs(im.relr, k) : k \in DOMAIN im.relr}
         /\ \A j, k \in DOMAIN im.relr : Packs(im.relr, j) \cap Packs(im.relr, k) # {} => j = k

VARIABLES
  image,           (* words: what the file holds; own: the values of the   *)
                   (* symbols it defines; rels: .rel.dyn and .rel.plt;     *)
                   (* relr: .relr.dyn; packed: the words the linker packed *)
                   (* there; init: where .init_array lies; only:           *)
                   (* default_dynlib_only                                  *)
  mem,             (* the words                                            *)
  pc, index,       (* which loop runs, and its index                       *)
  where,           (* the word after those a packed entry spoke of         *)
  result,          (* what so_relocate answered; main() does not look      *)
  ran,             (* history: the constructors called                     *)
  died             (* the import the fatal message names, and its slot     *)

linkVars == <<image, mem, pc, index, where, result, ran, died>>

LinkInit ==
  /\ image \in Images
  /\ mem = image.words
  /\ pc = "relocate" /\ index = 1
  /\ where = NULL /\ result = 0
  /\ ran = <<>> /\ died = NULL

(* A sum is one of 32 bits.                                                *)
Sum(a, b) == (a + b) % Limit
Put(at, value) == [mem EXCEPT ![at] = value]
Defines(symbol) == symbol \in DOMAIN image.own

Entering(loop) == pc' = loop /\ index' = 1
More(loop, rows) == pc = loop /\ index <= Len(rows)
Past(loop, rows) == pc = loop /\ index > Len(rows)

-----------------------------------------------------------------------------
(* so_relocate, first loop: only what the module itself defines.           *)
Relocated(rel) ==
  CASE rel.type = "ABS32" /\ Defines(rel.symbol) ->
         Put(rel.at, Sum(mem[rel.at], Sum(Base, image.own[rel.symbol])))
    [] rel.type = "RELATIVE" -> Put(rel.at, Sum(mem[rel.at], Base))
    [] rel.type \in {"GLOB_DAT", "JUMP_SLOT"} /\ Defines(rel.symbol) ->
         Put(rel.at, Sum(Base, image.own[rel.symbol]))
    [] OTHER -> mem

(* The relocations the loader knows; any other ends the program.           *)
KnownType == {"NONE", "ABS32", "RELATIVE", "GLOB_DAT", "JUMP_SLOT"}
Relocate ==
  /\ More("relocate", image.rels) /\ image.rels[index].type \in KnownType
  /\ mem' = Relocated(image.rels[index])
  /\ index' = index + 1
  /\ UNCHANGED <<image, pc, where, result, ran, died>>

UnknownType ==
  /\ More("relocate", image.rels) /\ image.rels[index].type \notin KnownType
  /\ pc' = "fatal"
  /\ UNCHANGED <<image, mem, index, where, result, ran, died>>

ToPacked ==
  /\ Past("relocate", image.rels)
  /\ Entering("packed")
  /\ UNCHANGED <<image, mem, where, result, ran, died>>

(* The second: an even entry is an address, an odd one a map of the words  *)
(* behind it.  The mutant takes a map for as many words as it has bits.    *)
Entry == image.relr[index]
Rebased(at) == [w \in Word |-> IF w \in at THEN Sum(mem[w], Base) ELSE mem[w]]
PackedAddress ==
  /\ More("packed", image.relr) /\ Entry % 2 = 0
  /\ mem' = Rebased({Entry \div WordSize})
  /\ where' = (Entry \div WordSize) + 1
  /\ index' = index + 1
  /\ UNCHANGED <<image, pc, result, ran, died>>

SpanOfBits == Bits
Span == Bits - 1
Mapped == {where + (bit - 1) : bit \in {b \in 1..(Bits - 1) : HasBit(Entry, b)}}
PackedMap ==
  /\ More("packed", image.relr) /\ Entry % 2 = 1 /\ where # NULL
  /\ mem' = Rebased(Mapped)
  /\ where' = where + Span
  /\ index' = index + 1
  /\ UNCHANGED <<image, pc, result, ran, died>>

(* A map with no address before it: the rest is left as it is, and main()  *)
(* goes on to the imports.                                                 *)
PackedRefused ==
  /\ More("packed", image.relr) /\ Entry % 2 = 1 /\ where = NULL
  /\ result' = -1
  /\ Entering("resolve")
  /\ UNCHANGED <<image, mem, where, ran, died>>

ToImports ==
  /\ Past("packed", image.relr)
  /\ Entering("resolve")
  /\ UNCHANGED <<image, mem, where, result, ran, died>>

-----------------------------------------------------------------------------
(* so_resolve_link: the first of the modules needed that has the symbol.   *)
Links(name) == {n \in DOMAIN Needed : SymbolIndex(Needed[n], name) # {}}
ResolveLink(name) == LET module == Needed[First(Links(name))] IN
                     module[First(SymbolIndex(module, name))].value

(* so_resolve: the modules needed, and then, whatever they had, the table; *)
(* an addend is added to the one and replaced by the other.                *)
Linked(rel) == ~image.only /\ Links(rel.symbol) # {}
Has(rel) == FromTable(rel.symbol) # {} \/ Linked(rel)
ImportValue(rel) ==
  CASE FromTable(rel.symbol) # {} -> Table[First(FromTable(rel.symbol))][2]
    [] FromTable(rel.symbol) = {} /\ Linked(rel) ->
         IF rel.type = "ABS32" THEN Sum(mem[rel.at], ResolveLink(rel.symbol)) ELSE ResolveLink(rel.symbol)
    [] rel.type = "JUMP_SLOT" /\ ~Has(rel) -> Stub
    [] OTHER -> mem[rel.at]

IsImport(rel) == rel.type \in {"ABS32", "GLOB_DAT", "JUMP_SLOT"} /\ ~Defines(rel.symbol)
Resolve ==
  /\ More("resolve", image.rels)
  /\ mem' = IF IsImport(image.rels[index])
              THEN Put(image.rels[index].at, ImportValue(image.rels[index])) ELSE mem
  /\ index' = index + 1
  /\ UNCHANGED <<image, pc, where, result, ran, died>>

ToConstructors ==
  /\ Past("resolve", image.rels)
  /\ Entering("init")
  /\ UNCHANGED <<image, mem, where, result, ran, died>>

(* so_initialize: an entry of 0 or -1 is none.                             *)
Skipped(value) == value \in {0, Limit - 1}
Initialize ==
  /\ More("init", image.init)
  /\ LET f == mem[image.init[index]] IN ran' = IF Skipped(f) THEN ran ELSE Append(ran, f)
  /\ index' = index + 1
  /\ UNCHANGED <<image, mem, pc, where, result, died>>

Initialized ==
  /\ Past("init", image.init)
  /\ pc' = "running"
  /\ UNCHANGED <<image, mem, index, where, result, ran, died>>

(* A call through a slot that holds the stub: reloc_err looks for the slot *)
(* among the module's relocations.                                         *)
Slots == {n \in DOMAIN image.rels : image.rels[n].type = "JUMP_SLOT"}
Blamed(slot) == First({n \in Slots : image.rels[n].at = slot})
CallImport(slot) ==
  /\ pc = "running" /\ mem[slot] = Stub
  /\ died' = [slot |-> slot, name |-> image.rels[Blamed(slot)].symbol]
  /\ pc' = "fatal"
  /\ UNCHANGED <<image, mem, index, where, result, ran>>

LinkStep ==
  \/ Relocate \/ UnknownType \/ ToPacked
  \/ PackedAddress \/ PackedMap \/ PackedRefused \/ ToImports
  \/ Resolve \/ ToConstructors \/ Initialize \/ Initialized
LinkNext == LinkStep \/ \E n \in Slots : CallImport(image.rels[n].at)

LinkSpec == LinkInit /\ [][LinkNext]_linkVars

-----------------------------------------------------------------------------
(* Every word is one of 32 bits, and an index is one of its loop's.        *)
LinkTypeOK ==
  /\ mem \in [Word -> Value]
  /\ pc \in {"relocate", "packed", "resolve", "init", "running", "fatal"}
  /\ index \in 1..(1 + Len(image.rels) + Len(image.relr) + Len(image.init))
  /\ where # NULL => where \in Nat

(* What the ELF ABI of ARM says of a relocation: S + A for an ABS32, S for *)
(* a slot, B + A for a relative one.  S is the module's own definition,    *)
(* the port's table's or a needed module's, in that order.                 *)
Found(rel) == Defines(rel.symbol) \/ Has(rel)
Meaning(rel) ==
  LET S == IF Defines(rel.symbol) THEN Base + image.own[rel.symbol]
           ELSE IF FromTable(rel.symbol) # {}
             THEN Table[First(FromTable(rel.symbol))][2] ELSE ResolveLink(rel.symbol)
      A == image.words[rel.at]
  IN CASE rel.type = "RELATIVE" -> (A + Base) % Limit
       [] rel.type = "ABS32" /\ Found(rel) -> (S + A) % Limit
       [] rel.type \in {"GLOB_DAT", "JUMP_SLOT"} /\ Found(rel) -> S % Limit
       [] rel.type = "JUMP_SLOT" /\ ~Found(rel) -> Stub
       [] OTHER -> A
RelsAt(w) == {n \in DOMAIN image.rels : image.rels[n].at = w}
Wanted(w) ==
  IF RelsAt(w) # {} THEN Meaning(image.rels[First(RelsAt(w))])
  ELSE IF w \in image.packed THEN (image.words[w] + Base) % Limit
  ELSE image.words[w]

(* Once linked, every word holds what the ABI says: each word the linker   *)
(* packed is moved exactly once, whatever maps its entry became, and no    *)
(* other word has changed.                                                 *)
LinkedLikeTheABI ==
  pc \in {"init", "running"} /\ result = 0 => \A w \in Word : mem[w] = Wanted(w)

(* The constructors called are those of the array, in its order and each   *)
(* once, at the addresses they have after linking.                         *)
Constructors == {n \in DOMAIN image.init : ~Skipped(Wanted(image.init[n]))}
Rank(n) == Cardinality({k \in Constructors : k <= n})
ConstructorsInOrder ==
  result = 0 =>
    /\ Len(ran) <= Cardinality(Constructors)
    /\ \A n \in Constructors : Rank(n) <= Len(ran) => ran[Rank(n)] = Wanted(image.init[n])
    /\ pc = "running" => Len(ran) = Cardinality(Constructors)

(* The message for a missing import names the one whose slot was called,   *)
(* and nobody provides it.                                                 *)
MissingImportNamed ==
  died # NULL =>
    \E n \in DOMAIN image.rels :
      LET rel == image.rels[n] IN
      /\ rel.at = died.slot /\ rel.symbol = died.name
      /\ ~Found(rel)

(* A linked module is what the ELF ABI says, its constructors run in their *)
(* order, and a missing import is named.                                   *)
LinkInv ==
  /\ LinkTypeOK
  /\ LinkedLikeTheABI
  /\ ConstructorsInOrder
  /\ MissingImportNamed
=============================================================================
