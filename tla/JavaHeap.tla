------------------------------ MODULE JavaHeap ------------------------------
(***************************************************************************)
(* The objects FalsoJNI gives Caustic: arrays, strings and classes, made   *)
(* of blocks of memory.  A reference is the address of the object, global  *)
(* and local ones alike: DeleteGlobalRef frees, whatever other references  *)
(* there are, and DeleteLocalRef does not.  Those that are left are stale: *)
(* they lead to what is freed, or to what was put there since.             *)
(* Caustic is the client: it uses and copies the references it holds, and  *)
(* gives them up, as a program of Java's rules may.  What it does through  *)
(* a stale one, and a region that leaves the array, goes astray: of what   *)
(* comes after that nothing is said.                                       *)
(* malloc answers a free address, or NULL; as addresses differ in nothing, *)
(* the first that is free stands for any.                                  *)
(***************************************************************************)
EXTENDS Integers, Sequences, FiniteSets, FiniteSetsExt, Functions

CONSTANTS
  Address,         (* where blocks may lie                                 *)
  Null,            (* NULL                                                 *)
  Value,           (* what an element holds                                *)
  Type,            (* FIELD_TYPE of the elements: "object" and others      *)
  Length,          (* the lengths of the arrays Caustic asks for           *)
  Index,           (* indices, and the starts and lengths of regions       *)
  MaxRefs,         (* bound: the references Caustic holds at a time        *)
  MaxPointers,     (* bound: the element pointers it holds at a time       *)
  MaxClasses,      (* bound: the classes in memory at a time               *)
  MaxStale         (* bound: the addresses it holds stale references to    *)

ASSUME HeapAssumption ==
  /\ Address \subseteq Nat \ {0} /\ Null \notin Address /\ Length \subseteq Int /\ Index \subseteq Int
  /\ "object" \in Type

VARIABLES
  memory,          (* the blocks in use, by address                        *)
  refs,            (* the references Caustic holds, by the address         *)
  pointers,        (* the element pointers it holds                        *)
  region,          (* what the last call copied of an array                *)
  expected,        (* history: the elements a Java array would have        *)
  astray           (* Caustic used what is freed, or left its array        *)

heapVars == <<memory, refs, pointers, region, expected, astray>>

Junk == "junk"
NoRefs == [local |-> FALSE, global |-> 0, stale |-> FALSE]
StalePointer == [of |-> Null, at |-> Null]
NoRegion == [copied |-> "nothing", right |-> TRUE]

HeapInit ==
  /\ memory = <<>>
  /\ refs = [a \in Address |-> NoRefs]
  /\ pointers = {}
  /\ region = NoRegion
  /\ expected = <<>>
  /\ astray = FALSE

Live(o) == refs[o].local \/ refs[o].global > 0
IsArray(o) == o \in DOMAIN memory /\ memory[o].kind = "array"
LiveArrays == {o \in Address : Live(o) /\ IsArray(o)}
Data(o) == memory[memory[o].array].data

-----------------------------------------------------------------------------
(* An allocation is a set of outcomes: the memory after it, and the answer.*)
Allocated(m, at) == [memory |-> m, at |-> at]
Extended(f, a, v) == [x \in DOMAIN f \cup {a} |-> IF x = a THEN v ELSE f[x]]
Malloc(m, block) ==
  LET free == Address \ DOMAIN m IN
  {Allocated(m, Null)} \cup
  {Allocated(Extended(m, a, block), a) : a \in {x \in free : \A y \in free : x <= y}}
Free(m, a) == Restrict(m, DOMAIN m \ {a})

(* jda_alloc: the elements, then their descriptor.  A negative length asks *)
(* for more than there is.                                                 *)
JdaAlloc(m, type, data) ==
  UNION {IF e.at = Null THEN {e}
         ELSE {IF d.at = Null THEN Allocated(m, Null) ELSE d :
                 d \in Malloc(e.memory, [kind |-> "array", type |-> type, array |-> e.at])}
         : e \in Malloc(m, [kind |-> "elements", data |-> data])}

Filled(length, v) == [i \in 1..length |-> v]

(* jda_free frees what has the descriptor's magic.                         *)
JdaFree(m, o) == Free(Free(m, m[o].array), o)

(* A new object comes with a local reference.                              *)
Give(r, data) ==
  /\ memory' = r.memory
  /\ IF r.at = Null THEN UNCHANGED <<refs, expected>>
     ELSE /\ refs' = [refs EXCEPT ![r.at].local = TRUE]
          /\ expected' = IF r.memory[r.at].kind = "array" THEN Extended(expected, r.at, data) ELSE expected
  /\ region' = NoRegion
  /\ UNCHANGED <<pointers, astray>>

NewPrimitiveArray(type, length) ==
  LET data == Filled(length, Junk) IN
  \E r \in IF length < 0 THEN {Allocated(memory, Null)} ELSE JdaAlloc(memory, type, data) : Give(r, data)
NewObjectArray(length, initial) ==
  LET data == Filled(length, initial) IN
  \E r \in IF length < 0 THEN {Allocated(memory, Null)} ELSE JdaAlloc(memory, "object", data) : Give(r, data)

(* A class is a copy of its name.                                          *)
FindClass == \E r \in Malloc(memory, [kind |-> "class"]) : Give(r, <<>>)

(* A string: the structure and its two arrays, of one element here.  When  *)
(* the second array fails the first is not freed; NewString's structure    *)
(* is not freed when its array fails.                                      *)
String(utf8, utf16) == [kind |-> "string", utf8 |-> utf8, utf16 |-> utf16]
MakeStringUTF ==
  \E s \in Malloc(memory, String(Null, Null)) :
    IF s.at = Null THEN Give(s, <<>>) ELSE
    \E b \in JdaAlloc(s.memory, "byte", <<Junk>>) :
      IF b.at = Null THEN Give(Allocated(memory, Null), <<>>) ELSE
      \E u \in JdaAlloc(b.memory, "char", <<Junk>>) :
        Give(IF u.at = Null THEN Allocated(Free(b.memory, s.at), Null)
             ELSE Allocated([u.memory EXCEPT ![s.at] = String(b.at, u.at)], s.at), <<>>)
MakeString ==
  \E s \in Malloc(memory, String(Null, Null)) :
    IF s.at = Null THEN Give(s, <<>>) ELSE
    \E u \in JdaAlloc(s.memory, "char", <<Junk>>) :
      IF u.at = Null THEN Give(Allocated(s.memory, Null), <<>>) ELSE
      \E b \in JdaAlloc(u.memory, "byte", <<Junk>>) :
        Give(Allocated([b.memory EXCEPT ![s.at] = String(b.at, u.at)], s.at), <<>>)

-----------------------------------------------------------------------------
(* References.  NewLocalRef and NewWeakGlobalRef answer the object too,    *)
(* and nothing else; their deletions do nothing.                           *)
NewGlobalRef(o) ==
  /\ Live(o)
  /\ refs' = [refs EXCEPT ![o].global = @ + 1]
  /\ region' = NoRegion
  /\ UNCHANGED <<memory, pointers, expected, astray>>

NewLocalRef(o) ==
  /\ Live(o)
  /\ refs' = [refs EXCEPT ![o].local = TRUE]
  /\ region' = NoRegion
  /\ UNCHANGED <<memory, pointers, expected, astray>>

(* Also a stale one can be given up.                                       *)
DeleteLocalRef(o) ==
  /\ \/ refs[o].local /\ refs' = [refs EXCEPT ![o].local = FALSE]
     \/ refs[o].stale /\ refs' = [refs EXCEPT ![o].stale = FALSE]
  /\ region' = NoRegion
  /\ UNCHANGED <<memory, pointers, expected, astray>>

(* An array with its elements; of a string only the structure.             *)
DeleteGlobalRef(o) ==
  /\ Live(o) /\ (refs[o].global > 0 \/ refs[o].stale)
  /\ Cardinality({a \in Address \ {o} : refs[a].stale}) < MaxStale
  /\ refs' = [refs EXCEPT ![o] =
       [local |-> FALSE, global |-> 0, stale |-> refs[o].stale \/ refs[o].local \/ refs[o].global > 1]]
  /\ memory' = IF IsArray(o) THEN JdaFree(memory, o) ELSE Free(memory, o)
  /\ pointers' = {IF p.of = o THEN StalePointer ELSE p : p \in pointers}
  /\ expected' = Restrict(expected, DOMAIN expected \ {o})
  /\ region' = NoRegion
  /\ UNCHANGED astray

(* Any call through a stale reference.  Where a new object of Caustic's    *)
(* lies at the address, it may also be the call through that one's.        *)
StrayCall(o) ==
  /\ refs[o].stale
  /\ astray' = TRUE
  /\ region' = NoRegion
  /\ UNCHANGED <<memory, refs, pointers, expected>>

-----------------------------------------------------------------------------
(* Elements.                                                               *)
GetArrayLength(o) == Len(Data(o))
Inside(o, i) == i \in 0..(GetArrayLength(o) - 1)

GetObjectArrayElement(o, i) ==
  /\ memory[o].type = "object"
  /\ region' = IF Inside(o, i) THEN [copied |-> "inside", right |-> Data(o)[i + 1] = expected[o][i + 1]]
                               ELSE NoRegion
  /\ UNCHANGED <<memory, refs, pointers, expected, astray>>

SetObjectArrayElement(o, i, v) ==
  /\ memory[o].type = "object"
  /\ IF Inside(o, i)
     THEN /\ memory' = [memory EXCEPT ![memory[o].array].data[i + 1] = v]
          /\ expected' = [expected EXCEPT ![o][i + 1] = v]
     ELSE UNCHANGED <<memory, expected>>
  /\ region' = NoRegion
  /\ UNCHANGED <<refs, pointers, astray>>

(* The elements themselves, never a copy; giving them back does nothing.   *)
GetArrayElements(o) ==
  /\ memory[o].type # "object"
  /\ pointers' = pointers \cup {[of |-> o, at |-> memory[o].array]}
  /\ region' = NoRegion
  /\ UNCHANGED <<memory, refs, expected, astray>>
ReleaseArrayElements(p) ==
  /\ pointers' = pointers \ {p}
  /\ region' = NoRegion
  /\ UNCHANGED <<memory, refs, expected, astray>>

(* Caustic writes through a pointer, and does so too when a deletion has   *)
(* freed the elements.                                                     *)
WriteThrough(p, i, v) ==
  /\ p.of # Null /\ Inside(p.of, i)
  /\ memory' = [memory EXCEPT ![p.at].data[i + 1] = v]
  /\ expected' = [expected EXCEPT ![p.of][i + 1] = v]
  /\ region' = NoRegion
  /\ UNCHANGED <<refs, pointers, astray>>
WriteThroughStale(p) ==
  /\ p = StalePointer
  /\ astray' = TRUE
  /\ region' = NoRegion
  /\ UNCHANGED <<memory, refs, pointers, expected>>

-----------------------------------------------------------------------------
(* Regions.  The check sees a negative start and a length greater than the *)
(* array's, not where the region ends.                                     *)
Refused(o, start, length) == start < 0 \/ length > GetArrayLength(o)
CopiesNothing(o, start, length) == Refused(o, start, length) \/ length = 0
Ends(o, start, length) == length > 0 /\ start + length <= GetArrayLength(o)
Overlay(s, start, length, v) == SubSeq(s, 1, start) \o Filled(length, v) \o SubSeq(s, start + length + 1, Len(s))
Slice(s, start, length) == SubSeq(s, start + 1, IF start + length <= Len(s) THEN start + length ELSE Len(s))

(* A region past the end also copies what lies there, or the program ends. *)
(* A negative length is a size greater than all of memory.                 *)
GetArrayRegion(o, start, length) ==
  /\ memory[o].type # "object"
  /\ region' = IF CopiesNothing(o, start, length) \/ length < 0 THEN NoRegion
               ELSE [copied |-> IF Ends(o, start, length) THEN "inside" ELSE "past",
                     right |-> Slice(Data(o), start, length) = Slice(expected[o], start, length)]
  /\ astray' \in IF CopiesNothing(o, start, length) \/ Ends(o, start, length) THEN {FALSE}
                 ELSE IF length < 0 THEN {TRUE} ELSE BOOLEAN
  /\ UNCHANGED <<memory, refs, pointers, expected>>

(* The mutant takes the length for the end.                                *)
WrittenToEnd(s, start, length, v) == [i \in DOMAIN s |-> IF i \in (start + 1)..length THEN v ELSE s[i]]
RegionWritten(s, start, length, v) == [i \in DOMAIN s |-> IF i \in (start + 1)..(start + length) THEN v ELSE s[i]]
SetArrayRegion(o, start, length, v) ==
  /\ memory[o].type # "object"
  /\ IF Ends(o, start, length) /\ ~Refused(o, start, length)
     THEN /\ memory' = [memory EXCEPT ![memory[o].array].data = RegionWritten(@, start, length, v)]
          /\ expected' = [expected EXCEPT ![o] = Overlay(@, start, length, v)]
     ELSE UNCHANGED <<memory, expected>>
  /\ astray' = ~(CopiesNothing(o, start, length) \/ Ends(o, start, length))
  /\ region' = NoRegion
  /\ UNCHANGED <<refs, pointers>>

RefsHeld == MapThenSumSet(LAMBDA a : refs[a].global + (IF refs[a].local THEN 1 ELSE 0), Address)

Classes == Cardinality({a \in DOMAIN memory : memory[a].kind = "class"})

HeapNext ==
  /\ ~astray
  /\ \/ /\ RefsHeld < MaxRefs
        /\ \/ \E n \in Length : \/ \E t \in Type \ {"object"} : NewPrimitiveArray(t, n)
                                \/ \E v \in Value : NewObjectArray(n, v)
           \/ MakeStringUTF \/ MakeString \/ (Classes < MaxClasses /\ FindClass)
           \/ \E o \in Address : NewGlobalRef(o) \/ NewLocalRef(o)
     \/ \E o \in Address : DeleteLocalRef(o) \/ DeleteGlobalRef(o) \/ StrayCall(o)
     \/ \E o \in LiveArrays :
          \/ Cardinality(pointers) < MaxPointers /\ GetArrayElements(o)
          \/ \E i \in Index :
               \/ GetObjectArrayElement(o, i)
               \/ \E v \in Value : SetObjectArrayElement(o, i, v)
               \/ \E n \in Index : \/ GetArrayRegion(o, i, n)
                                    \/ \E v \in Value : SetArrayRegion(o, i, n, v)
     \/ \E p \in pointers :
          \/ ReleaseArrayElements(p) \/ WriteThroughStale(p)
          \/ \E i \in Index, v \in Value : WriteThrough(p, i, v)

HeapSpec == HeapInit /\ [][HeapNext]_heapVars

-----------------------------------------------------------------------------
Reference == [local : BOOLEAN, global : Nat, stale : BOOLEAN]
Cell == Value \cup {Junk}

(* The blocks are of the kinds the allocations make, references are        *)
(* bounded, and the arrays with a history are arrays.                      *)
HeapTypeOK ==
  /\ DOMAIN memory \subseteq Address
  /\ \A a \in DOMAIN memory :
       CASE memory[a].kind = "elements" ->
              LET cells == DOMAIN memory[a].data IN
              cells = 1..Cardinality(cells) /\ Range(memory[a].data) \subseteq Cell
         [] memory[a].kind = "array" -> memory[a].array \in Address
         [] memory[a].kind = "string" -> {memory[a].utf8, memory[a].utf16} \subseteq Address \cup {Null}
         [] OTHER -> memory[a].kind = "class"
  /\ refs \in [Address -> Reference]
  /\ LiveArrays \subseteq DOMAIN expected /\ \A o \in DOMAIN expected : IsArray(o)
  /\ region.copied \in {"nothing", "inside", "past"}
  /\ astray \in BOOLEAN

(* A reference got since the last deletion of its object leads to an       *)
(* object, also where a deletion left stale ones at the address.           *)
LiveRefsUsable ==
  \A o \in Address : Live(o) => o \in DOMAIN memory /\ memory[o].kind # "elements"

(* Every block of elements belongs to one array: none is left behind by a  *)
(* failed allocation or a deletion, and no two arrays share one, though    *)
(* addresses are used again.                                               *)
ElementsOwned ==
  \A e \in DOMAIN memory : memory[e].kind = "elements" =>
    Cardinality({a \in DOMAIN memory : memory[a].kind = "array" /\ memory[a].array = e}) = 1

(* An element is what was last stored in it, by any of the four ways in,   *)
(* for all the ways out, also of the array's own part of a region that     *)
(* runs past it.                                                           *)
ReadsWhatWasStored ==
  /\ \A o \in DOMAIN expected : Data(o) = expected[o]
  /\ region.right

(* A pointer into an array that is not freed leads to its elements, also   *)
(* when Caustic holds no reference to the array any more.                  *)
PointersLead ==
  \A p \in pointers :
    p.of # Null => IsArray(p.of) /\ memory[p.of].array = p.at /\ p.at \in DOMAIN memory

(* Arrays, their elements, the references to them and the pointers into    *)
(* them belong together, and hold what was stored.                         *)
HeapInv ==
  /\ HeapTypeOK
  /\ LiveRefsUsable
  /\ ElementsOwned
  /\ ReadsWhatWasStored
  /\ PointersLead

(* NewGlobalRef answers the object itself, of which its comment says that  *)
(* it "should be safe": no reference Caustic holds leads to what is freed. *)
RefsStayUsable == \A o \in Address : ~refs[o].stale
=============================================================================
