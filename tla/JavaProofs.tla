----------------------------- MODULE JavaProofs ------------------------------
(***************************************************************************)
(* TLAPS proofs about the parts of FalsoJNI.  Methods and fields: for any  *)
(* tables.  Memory, arrays and references: for any number and any lengths  *)
(* of them.  The converter: for any string and any room.  Strings: for     *)
(* every text and every content of fresh memory.                           *)
(***************************************************************************)
EXTENDS JavaCalls, JavaHeap, JavaStrings, ConverterLoop, Recursion,
        FiniteSetTheorems, SequenceTheorems, TLAPS

-----------------------------------------------------------------------------
(* Methods and fields.                                                     *)

(* A value with its id, as the containers hold them.                       *)
Pair == [id : Int, value : STRING]

(* The containers hold values under the ids they were made with.           *)
Containers == fields \in [FieldType -> Seq(Pair)]
SameIds(type) ==
  /\ DOMAIN fields[type] = DOMAIN InitialFields[type]
  /\ \A u \in DOMAIN fields[type] : fields[type][u].id = InitialFields[type][u].id

(* What a field that is there holds is what it was last given, or began as.*)
Holds(type, id) ==
  Typed(type, id) /\ Places(type, id) # {} =>
    fields[type][Place(type, id)].value =
      IF id \in DOMAIN written[type] THEN written[type][id]
      ELSE InitialFields[type][Place(type, id)].value

CallIInv ==
  /\ Containers
  /\ written = [t \in FieldType |-> written[t]]
  /\ \A type \in FieldType : SameIds(type)
  /\ \A type \in FieldType : \A id \in Int : Holds(type, id)
  /\ \A x \in methodIDs : x.id = IdByName(NameToMethodId, x.name)
  /\ reply.op \in {"none", "lookup", "call", "run", "get", "set", "fault"}
  /\ reply.op = "call" => ~HasCode(reply.type, reply.id)
  /\ ReadsBackWhatWasSet

(* The place the getter takes is one where the id is.                      *)
LEMMA LastPlace ==
  ASSUME Containers, NEW type \in FieldType, NEW id, Places(type, id) # {}
  PROVE  Place(type, id) \in Places(type, id)
<1>1. fields[type] \in Seq(Pair)
  BY DEF Containers
<1>2. Len(fields[type]) \in Nat /\ DOMAIN fields[type] = 1..Len(fields[type])
  BY <1>1
<1>3. Places(type, id) \in SUBSET (1..Len(fields[type]))
  BY <1>2 DEF Places
<1>4. \E u \in Places(type, id) : \A v \in Places(type, id) : v <= u
  BY <1>2, <1>3, LastExists
<1>. QED
  BY <1>4 DEF Place

(* What a name stands for in the table of methods: an entry with the name. *)
LEMMA FoundByName ==
  ASSUME NEW name, IdByName(NameToMethodId, name) # NoId
  PROVE  \E i \in DOMAIN NameToMethodId :
           /\ NameToMethodId[i].name = name
           /\ NameToMethodId[i].id = IdByName(NameToMethodId, name)
<1>. DEFINE named == {i \in DOMAIN NameToMethodId : NameToMethodId[i].name = name}
<1>1. named # {} /\ IdByName(NameToMethodId, name) =
        NameToMethodId[CHOOSE i \in named : \A j \in named : i <= j].id
  BY DEF IdByName
<1>2. DOMAIN NameToMethodId \subseteq Nat
  <2>1. NameToMethodId \in Seq([id : Int, name : Seq(STRING)])
    BY TableAssumption
  <2>. QED
    BY <2>1
<1>3. \E i \in named : \A j \in named : i <= j
  <2>. HIDE DEF named
  <2>1. named \in SUBSET Nat
    BY <1>2 DEF named
  <2>. QED
    BY <1>1, <2>1, FirstExists
<1>. QED
  BY <1>1, <1>3

(* The invariant holds at the start.                                       *)
LEMMA CallStarts ==
  CallInit => CallIInv
<1>. SUFFICES ASSUME CallInit PROVE CallIInv
  OBVIOUS
<1>1. Containers
  BY TableAssumption DEF CallInit, Containers, Pair
<1>2. \A type \in FieldType : written[type] = <<>>
  BY DEF CallInit
<1>3. \A type \in FieldType : \A id \in Int : Holds(type, id)
  BY <1>2 DEF CallInit, Holds
<1>4. reply.op = "none"
  BY DEF CallInit, Reply
<1>. QED
  BY <1>1, <1>3, <1>4 DEF CallInit, CallIInv, SameIds, ReadsBackWhatWasSet

(* The steps that neither set a field nor read one.                        *)
LEMMA CallElsewhere ==
  ASSUME CallIInv, UNCHANGED <<fields, written>>,
         \A x \in methodIDs' : x.id = IdByName(NameToMethodId, x.name),
         reply'.op \in {"lookup", "call", "run", "fault"},
         reply'.op = "call" => ~HasCode(reply'.type, reply'.id)
  PROVE  CallIInv'
<1>1. ASSUME NEW type \in FieldType, NEW id \in Int
      PROVE  Holds(type, id)'
  <2>1. Holds(type, id)
    BY DEF CallIInv
  <2>2. Places(type, id)' = Places(type, id)
    BY DEF Places
  <2>3. Place(type, id)' = Place(type, id)
    BY <2>2, Zenon DEF Place
  <2>. QED
    BY <2>1, <2>2, <2>3 DEF Holds, Typed, FirstEntry, FieldEntries
<1>2. Containers' /\ \A type \in FieldType : SameIds(type)'
  BY DEF CallIInv, Containers, SameIds
<1>3. ReadsBackWhatWasSet'
  BY DEF ReadsBackWhatWasSet
<1>4. written' = [t \in FieldType |-> written'[t]]
  BY DEF CallIInv
<1>. QED
  BY <1>1, <1>2, <1>3, <1>4 DEF CallIInv

(* Looking a method up touches no field.                                   *)
LEMMA LookUpKeeps ==
  ASSUME CallIInv, NEW class, NEW name, LookUpMethod(class, name)
  PROVE  CallIInv'
<1>1. UNCHANGED <<fields, written>> /\ reply'.op \in {"lookup", "fault"}
  <2>1. UNCHANGED <<fields, written>>
    BY Zenon DEF LookUpMethod
  <2>2. \E id : \/ reply' = Reply("lookup", "void", id, "none")
               \/ reply' = Reply("fault", "void", id, "none")
    BY Zenon DEF LookUpMethod
  <2>. QED
    BY <2>1, <2>2 DEF Reply
<1>2. methodIDs' = methodIDs \/
      methodIDs' = methodIDs \cup
        {[name |-> FullName(class, name), id |-> IdByName(NameToMethodId, FullName(class, name))]}
  BY Zenon DEF LookUpMethod, FullName
<1>3. \A x \in methodIDs' : x.id = IdByName(NameToMethodId, x.name)
  BY <1>2 DEF CallIInv
<1>. QED
  BY <1>1, <1>3, CallElsewhere

(* Nor does a call.                                                        *)
LEMMA CallKeeps ==
  ASSUME CallIInv, NEW type, NEW id, CallEither(type, id)
  PROVE  CallIInv'
<1>1. UNCHANGED <<fields, methodIDs, written>>
  BY DEF CallEither, CallById, CallByIdA
<1>2. /\ reply'.op \in {"call", "run"}
      /\ reply'.op = "call" => ~HasCode(reply'.type, reply'.id)
  BY DEF CallEither, CallById, CallByIdA, Reply
<1>. QED
  BY <1>1, <1>2, CallElsewhere DEF CallIInv

(* Reading answers what the field holds, or the default of its type.       *)
LEMMA GetKeeps ==
  ASSUME CallIInv, NEW type \in FieldType, NEW id \in Int, GetValue(type, id)
  PROVE  CallIInv'
<1>1. UNCHANGED <<fields, methodIDs, written>>
  BY DEF GetValue
<1>2. /\ reply'.op = "get" /\ reply'.type = type /\ reply'.id = id
      /\ reply'.value = IF Typed(type, id) /\ Places(type, id) # {}
                        THEN fields[type][Place(type, id)].value ELSE MissingField[type]
  BY DEF GetValue, Reply
<1>3. ASSUME NEW t \in FieldType, NEW i \in Int
      PROVE  Places(t, i)' = Places(t, i) /\ Place(t, i)' = Place(t, i)
  <2>1. Places(t, i)' = Places(t, i)
    BY <1>1 DEF Places
  <2>. QED
    BY <2>1, Zenon DEF Place
<1>4. ASSUME NEW t \in FieldType, NEW i \in Int
      PROVE  Holds(t, i)'
  <2>1. Holds(t, i)
    BY DEF CallIInv
  <2>. QED
    BY <1>1, <1>3, <2>1 DEF Holds, Typed, FirstEntry, FieldEntries
<1>5. Containers' /\ (\A t \in FieldType : SameIds(t)')
  BY <1>1 DEF CallIInv, Containers, SameIds
<1>6. ReadsBackWhatWasSet'
  <2>1. Holds(type, id)
    BY DEF CallIInv
  <2>2. Typed(type, id)' = Typed(type, id)
    BY DEF Typed, FirstEntry, FieldEntries
  <2>3. reply'.value =
          IF ~Typed(type, id) \/ Places(type, id) = {} THEN MissingField[type]
          ELSE IF id \in DOMAIN written[type] THEN written[type][id]
          ELSE InitialFields[type][Place(type, id)].value
    BY <1>2, <2>1 DEF Holds
  <2>. QED
    BY <1>1, <1>2, <1>3, <2>2, <2>3 DEF ReadsBackWhatWasSet
<1>. QED
  BY <1>1, <1>2, <1>4, <1>5, <1>6 DEF CallIInv

(* Writing the value at one place of one container.                        *)
LEMMA WrittenAt ==
  ASSUME Containers, NEW type \in FieldType, NEW u \in DOMAIN fields[type],
         NEW value \in STRING, fields' = With(type, u, value)
  PROVE  /\ Containers'
         /\ \A t \in FieldType : DOMAIN fields'[t] = DOMAIN fields[t]
         /\ \A t \in FieldType \ {type} : fields'[t] = fields[t]
         /\ \A v \in DOMAIN fields[type] : fields'[type][v].id = fields[type][v].id
         /\ fields'[type][u].value = value
         /\ \A v \in DOMAIN fields[type] \ {u} : fields'[type][v] = fields[type][v]
<1>. DEFINE s == fields[type]
            r == [s[u] EXCEPT !.value = value]
            w == [s EXCEPT ![u] = r]
<1>1. s \in Seq(Pair)
  BY DEF Containers
<1>2. s[u] \in Pair /\ u \in 1..Len(s) /\ Len(s) \in Nat
  BY <1>1
<1>3. r \in Pair /\ r.id = s[u].id /\ r.value = value
  BY <1>2 DEF Pair
<1>4. fields' = [fields EXCEPT ![type] = w]
  BY DEF With
<1>. HIDE DEF r
<1>5. /\ w \in Seq(Pair) /\ DOMAIN w = DOMAIN s /\ w[u] = r
      /\ \A v \in DOMAIN s \ {u} : w[v] = s[v]
  BY <1>1, <1>2, <1>3
<1>. HIDE DEF w
<1>6. fields' \in [FieldType -> Seq(Pair)] /\ fields'[type] = w
  BY <1>4, <1>5 DEF Containers
<1>7. \A t \in FieldType \ {type} : fields'[t] = fields[t]
  BY <1>4 DEF Containers
<1>. HIDE DEF s
<1>8. \A v \in DOMAIN s : w[v].id = s[v].id
  BY <1>3, <1>5
<1>. QED
  BY <1>3, <1>5, <1>6, <1>7, <1>8 DEF Containers, s

(* A setter writes where the getter reads.                                 *)
LEMMA SetKeeps ==
  ASSUME CallIInv, NEW type \in FieldType, NEW id \in Int, NEW value \in FieldValue,
         SetValue(type, id, value)
  PROVE  CallIInv'
<1>. DEFINE there == Typed(type, id) /\ Places(type, id) # {}
            u == Place(type, id)
<1>1. /\ fields' = IF there THEN With(type, u, value) ELSE fields
      /\ written' = IF Typed(type, id) THEN [written EXCEPT ![type] = WithId(written[type], id, value)]
                    ELSE written
      /\ methodIDs' = methodIDs /\ reply'.op = "set"
      /\ value \in STRING
  BY TableAssumption DEF SetValue, Stored, Reply
<1>2. /\ Containers
      /\ written = [t \in FieldType |-> written[t]]
      /\ \A t \in FieldType : SameIds(t)
      /\ \A t \in FieldType : \A i \in Int : Holds(t, i)
  BY DEF CallIInv
<1>3. there => u \in Places(type, id) /\ u \in DOMAIN fields[type]
  BY <1>2, LastPlace DEF Places
<1>4. /\ Containers'
      /\ \A t \in FieldType : DOMAIN fields'[t] = DOMAIN fields[t]
      /\ \A t \in FieldType \ {type} : fields'[t] = fields[t]
      /\ \A v \in DOMAIN fields[type] : fields'[type][v].id = fields[type][v].id
      /\ there => fields'[type][u].value = value
      /\ \A v \in DOMAIN fields[type] : (there /\ v = u) \/ fields'[type][v] = fields[type][v]
  <2>1. CASE there
    <3>. HIDE DEF there, u
    <3>. QED
      BY <1>1, <1>2, <1>3, <2>1, WrittenAt
  <2>2. CASE ~ there
    <3>. HIDE DEF there, u
    <3>. QED
      BY <1>1, <1>2, <2>2 DEF Containers
  <2>. QED
    BY <2>1, <2>2
<1>5. /\ written' = [t \in FieldType |-> written'[t]]
      /\ \A t \in FieldType \ {type} : written'[t] = written[t]
      /\ Typed(type, id) => written'[type] = WithId(written[type], id, value)
      /\ ~ Typed(type, id) => written'[type] = written[type]
  <2>. HIDE DEF there, u
  <2>. QED
    BY <1>1, <1>2
<1>6. ASSUME NEW t \in FieldType, NEW i \in Int
      PROVE  Places(t, i)' = Places(t, i) /\ Place(t, i)' = Place(t, i)
  <2>1. Places(t, i)' = Places(t, i)
    BY <1>4 DEF Places
  <2>. QED
    BY <2>1, Zenon DEF Place
<1>7. \A t \in FieldType : SameIds(t)'
  BY <1>2, <1>4 DEF SameIds
<1>8. ASSUME NEW t \in FieldType, NEW i \in Int
      PROVE  Holds(t, i)'
  <2>. DEFINE v == Place(t, i)
  <2>. SUFFICES ASSUME Typed(t, i), Places(t, i) # {}
                PROVE  fields'[t][v].value =
                         IF i \in DOMAIN written'[t] THEN written'[t][i]
                         ELSE InitialFields[t][v].value
    BY <1>6 DEF Holds, Typed, FirstEntry, FieldEntries
  <2>1. fields[t][v].value = IF i \in DOMAIN written[t] THEN written[t][i]
                             ELSE InitialFields[t][v].value
    BY <1>2 DEF Holds
  <2>2. v \in DOMAIN fields[t] /\ fields[t][v].id = i
    BY <1>2, LastPlace DEF Places
  <2>. HIDE DEF v
  <2>3. CASE t # type
    BY <1>4, <1>5, <2>1, <2>3
  <2>4. CASE t = type /\ i # id
    <3>1. there => v # u
      BY <1>3, <2>2, <2>4 DEF Places
    <3>2. fields'[t][v] = fields[t][v]
      <4>. HIDE DEF there, u
      <4>. QED
        BY <1>4, <2>2, <2>4, <3>1
    <3>3. /\ i \in DOMAIN written'[t] <=> i \in DOMAIN written[t]
          /\ i \in DOMAIN written[t] => written'[t][i] = written[t][i]
      BY <1>5, <2>4 DEF WithId
    <3>. QED
      BY <2>1, <3>2, <3>3
  <2>5. CASE t = type /\ i = id
    <3>1. there /\ v = u
      BY <2>5 DEF v
    <3>2. fields'[t][v].value = value
      <4>. HIDE DEF there, u
      <4>. QED
        BY <1>4, <2>5, <3>1
    <3>3. i \in DOMAIN written'[t] /\ written'[t][i] = value
      BY <1>5, <2>5 DEF WithId
    <3>. QED
      BY <3>2, <3>3
  <2>. QED
    BY <2>3, <2>4, <2>5
<1>9. ReadsBackWhatWasSet'
  BY <1>1 DEF ReadsBackWhatWasSet
<1>. QED
  BY <1>1, <1>4, <1>5, <1>7, <1>8, <1>9 DEF CallIInv

(* The ids of fields are integers.                                         *)
LEMMA IdsAreNumbers ==
  FieldIDs \subseteq Int
<1>. DEFINE S == [id : Int, name : Seq(STRING), type : FieldType]
<1>1. NameToFieldId \in Seq(S)
  BY TableAssumption
<1>2. \A i \in DOMAIN NameToFieldId : NameToFieldId[i] \in S
  <2>. HIDE DEF S
  <2>. QED
    BY <1>1
<1>3. \A i \in DOMAIN NameToFieldId : NameToFieldId[i].id \in Int
  BY <1>2
<1>. QED
  BY <1>3 DEF FieldIDs, NoId

(* Looking a field up touches none.                                        *)
LEMMA FieldLookUpKeeps ==
  ASSUME CallIInv, NEW name, LookUpField(name)
  PROVE  CallIInv'
<1>1. UNCHANGED <<fields, methodIDs, written>> /\ reply'.op = "lookup"
  BY DEF LookUpField, Reply
<1>2. \A x \in methodIDs' : x.id = IdByName(NameToMethodId, x.name)
  BY <1>1 DEF CallIInv
<1>. QED
  BY <1>1, <1>2, CallElsewhere

(* What the steps come down to.                                            *)
LEMMA CallSteps ==
  ASSUME CallNext
  PROVE  \/ \E class, name : LookUpMethod(class, name)
         \/ \E name : LookUpField(name)
         \/ \E type, id : CallEither(type, id)
         \/ \E type \in FieldType, id \in FieldIDs : GetValue(type, id)
         \/ \E type \in FieldType, id \in FieldIDs, value \in FieldValue : SetValue(type, id, value)
BY Zenon DEF CallNext, GetMethodID, GetStaticMethodID, GetFieldID, GetStaticFieldID, NewObject,
     CallMethod, CallNonvirtualMethod, CallStaticMethod, GetField, GetStaticField,
     SetField, SetStaticField

(* Every call keeps the invariant.                                         *)
LEMMA CallStep ==
  ASSUME CallIInv, [CallNext]_callVars
  PROVE  CallIInv'
<1>1. CASE CallNext
  BY <1>1, CallSteps, IdsAreNumbers, LookUpKeeps, FieldLookUpKeeps, CallKeeps, GetKeeps, SetKeeps
<1>2. CASE UNCHANGED callVars
  <2>1. UNCHANGED <<fields, methodIDs, reply, written>>
    BY <1>2 DEF callVars
  <2>2. ASSUME NEW t, NEW i
        PROVE  Places(t, i)' = Places(t, i) /\ Place(t, i)' = Place(t, i)
    <3>1. Places(t, i)' = Places(t, i)
      BY <2>1 DEF Places
    <3>. QED
      BY <3>1, Zenon DEF Place
  <2>3. ASSUME NEW t \in FieldType, NEW i \in Int
        PROVE  Holds(t, i)'
    <3>1. Holds(t, i)
      BY DEF CallIInv
    <3>. QED
      BY <2>1, <2>2, <3>1 DEF Holds, Typed, FirstEntry, FieldEntries
  <2>4. Containers' /\ \A t \in FieldType : SameIds(t)'
    BY <2>1 DEF CallIInv, Containers, SameIds
  <2>5. ReadsBackWhatWasSet'
    <3>1. PICK t, i : t = reply.type /\ i = reply.id
      OBVIOUS
    <3>2. Typed(t, i)' = Typed(t, i)
      BY DEF Typed, FirstEntry, FieldEntries
    <3>. QED
      BY <2>1, <2>2, <3>1, <3>2 DEF CallIInv, ReadsBackWhatWasSet
  <2>. QED
    BY <2>1, <2>3, <2>4, <2>5 DEF CallIInv
<1>. QED
  BY <1>1, <1>2

(***************************************************************************)
(* Fields are read as they were last set, whatever the tables hold twice   *)
(* or not at all, and no class gets another's constructor, for any tables  *)
(* in which an id is one method.                                           *)
(***************************************************************************)
THEOREM CallsInOrder == CallSpec => []CallInv
<1>1. CallSpec => []CallIInv
  <2>1. CallIInv /\ [CallNext]_callVars => CallIInv'
    BY CallStep
  <2>. QED
    BY <2>1, CallStarts, PTL DEF CallSpec
<1>2. CallIInv => CallTypeOK /\ ReadsBackWhatWasSet
  BY DEF CallIInv, CallTypeOK, SameIds
<1>3. ASSUME CallIInv, NEW x \in methodIDs, NEW y \in methodIDs,
             x.name[1] # y.name[1], x.id # NoId, x.id = y.id
      PROVE  FALSE
  <2>1. x.id = IdByName(NameToMethodId, x.name) /\ y.id = IdByName(NameToMethodId, y.name)
    BY <1>3 DEF CallIInv
  <2>a. IdByName(NameToMethodId, x.name) # NoId /\ IdByName(NameToMethodId, y.name) # NoId
    BY <1>3, <2>1
  <2>2. PICK i \in DOMAIN NameToMethodId : NameToMethodId[i].name = x.name /\ NameToMethodId[i].id = x.id
    BY <2>1, <2>a, FoundByName, ZenonT(30)
  <2>3. PICK j \in DOMAIN NameToMethodId : NameToMethodId[j].name = y.name /\ NameToMethodId[j].id = y.id
    BY <2>1, <2>a, FoundByName, ZenonT(30)
  <2>. QED
    BY <1>3, <2>2, <2>3, IdAssumption
<1>4. CallIInv => ConstructorsTellClasses
  BY <1>3 DEF ConstructorsTellClasses
<1>5. CallIInv => CallInv
  BY <1>2, <1>4 DEF CallInv
<1>. QED
  BY <1>1, <1>5, PTL

-----------------------------------------------------------------------------
(* Memory.  The blocks the allocations make.                               *)
Block ==
  [kind : {"elements"}, data : Seq(Cell)] \cup
  [kind : {"array"}, type : Type \cup {"byte", "char"}, array : Address] \cup
  [kind : {"string"}, utf8 : Address \cup {Null}, utf16 : Address \cup {Null}] \cup
  [kind : {"class"}]

(* Every array has elements of its own, and no elements are left alone.    *)
Blocks(m) ==
  /\ DOMAIN m \subseteq Address
  /\ \A a \in DOMAIN m : m[a] \in Block
Leads(m, a) == m[a].kind = "array" => m[a].array \in DOMAIN m /\ m[m[a].array].kind = "elements"
Shares(m, a, b) == m[a].kind = "array" /\ m[b].kind = "array" /\ m[a].array = m[b].array
Owns(m, a, e) == m[a].kind = "array" /\ m[a].array = e
Whole(m) ==
  /\ Blocks(m)
  /\ \A a \in DOMAIN m : Leads(m, a)
  /\ \A a, b \in DOMAIN m : Shares(m, a, b) => a = b
  /\ \A e \in DOMAIN m : m[e].kind = "elements" => \E a \in DOMAIN m : Owns(m, a, e)

(* A memory with more blocks.                                              *)
Grows(m, n) == DOMAIN m \subseteq DOMAIN n /\ \A a \in DOMAIN m : n[a] = m[a]

(* Memory with one block more.                                             *)
LEMMA ExtendedBy ==
  ASSUME NEW m, NEW a, a \notin DOMAIN m, NEW block
  PROVE  /\ DOMAIN Extended(m, a, block) = DOMAIN m \cup {a}
         /\ Extended(m, a, block)[a] = block
         /\ \A b \in DOMAIN m : Extended(m, a, block)[b] = m[b]
         /\ Grows(m, Extended(m, a, block))
BY DEF Extended, Grows

(* malloc fails and changes nothing, or adds a block at a free address.    *)
LEMMA MallocAnswers ==
  ASSUME NEW m, NEW block, NEW r \in Malloc(m, block)
  PROVE  \/ r.at = Null /\ r.memory = m
         \/ r.at \in Address \ DOMAIN m /\ r.memory = Extended(m, r.at, block)
BY HeapAssumption DEF Malloc, Allocated

(* A string or a class is a block by itself.                               *)
Single ==
  [kind : {"string"}, utf8 : Address \cup {Null}, utf16 : Address \cup {Null}] \cup
  [kind : {"class"}]

(* A block that leads nowhere can be added.                                *)
LEMMA SingleKeepsWhole ==
  ASSUME NEW m, Whole(m), NEW a \in Address \ DOMAIN m, NEW block \in Single
  PROVE  Whole(Extended(m, a, block))
<1>. DEFINE n == Extended(m, a, block)
<1>1. /\ DOMAIN n = DOMAIN m \cup {a} /\ n[a] = block
      /\ \A b \in DOMAIN m : n[b] = m[b]
  BY DEF Extended
<1>. HIDE DEF n
<1>2. block \in Block /\ block.kind # "array" /\ block.kind # "elements"
  BY DEF Single, Block
<1>3. Blocks(n)
  BY <1>1, <1>2 DEF Whole, Blocks
<1>4. \A b \in DOMAIN n : Leads(n, b)
  BY <1>1, <1>2 DEF Whole, Leads
<1>5. \A b, c \in DOMAIN n : Shares(n, b, c) => b = c
  BY <1>1, <1>2 DEF Whole, Shares
<1>6. \A e \in DOMAIN n : n[e].kind = "elements" => \E b \in DOMAIN n : Owns(n, b, e)
  BY <1>1, <1>2 DEF Whole, Owns
<1>. QED
  BY <1>3, <1>4, <1>5, <1>6 DEF Whole, n

(* A string can be given its arrays, or be freed.                          *)
LEMMA StringKeepsWhole ==
  ASSUME NEW m, Whole(m), NEW a \in DOMAIN m, m[a].kind \in {"string", "class"},
         NEW block \in Single
  PROVE  Whole([m EXCEPT ![a] = block])
<1>. DEFINE n == [m EXCEPT ![a] = block]
<1>1. DOMAIN n = DOMAIN m /\ n[a] = block /\ \A b \in DOMAIN m \ {a} : n[b] = m[b]
  OBVIOUS
<1>. HIDE DEF n
<1>2. block \in Block /\ block.kind # "array" /\ block.kind # "elements"
  BY DEF Single, Block
<1>3. Blocks(n)
  BY <1>1, <1>2 DEF Whole, Blocks
<1>4. \A b \in DOMAIN n : Leads(n, b)
  BY <1>1, <1>2 DEF Whole, Leads
<1>5. \A b, c \in DOMAIN n : Shares(n, b, c) => b = c
  BY <1>1, <1>2 DEF Whole, Shares
<1>6. \A e \in DOMAIN n : n[e].kind = "elements" => \E b \in DOMAIN n : Owns(n, b, e)
  BY <1>1, <1>2 DEF Whole, Owns
<1>. QED
  BY <1>3, <1>4, <1>5, <1>6 DEF Whole, n

(* A block nothing leads to can go.                                        *)
LEMMA FreeKeepsWhole ==
  ASSUME NEW m, Whole(m), NEW a \in DOMAIN m, m[a].kind \in {"string", "class"}
  PROVE  /\ Whole(Free(m, a)) /\ DOMAIN Free(m, a) = DOMAIN m \ {a}
         /\ \A b \in DOMAIN m \ {a} : Free(m, a)[b] = m[b]
<1>. DEFINE n == Free(m, a)
<1>1. DOMAIN n = DOMAIN m \ {a} /\ \A b \in DOMAIN m \ {a} : n[b] = m[b]
  BY DEF Free, Restrict
<1>. HIDE DEF n
<1>2. Blocks(n)
  BY <1>1 DEF Whole, Blocks
<1>3. \A b \in DOMAIN n : Leads(n, b)
  BY <1>1 DEF Whole, Leads
<1>4. \A b, c \in DOMAIN n : Shares(n, b, c) => b = c
  BY <1>1 DEF Whole, Shares
<1>5. \A e \in DOMAIN n : n[e].kind = "elements" => \E b \in DOMAIN n : Owns(n, b, e)
  BY <1>1 DEF Whole, Owns
<1>. QED
  BY <1>1, <1>2, <1>3, <1>4, <1>5 DEF Whole, n

(* An array and its elements, side by side in free memory.                 *)
LEMMA ArrayKeepsWhole ==
  ASSUME NEW m, Whole(m), NEW e \in Address \ DOMAIN m,
         NEW a \in Address \ DOMAIN m, a # e,
         NEW data \in Seq(Cell), NEW type \in Type \cup {"byte", "char"}, NEW n,
         n = Extended(Extended(m, e, [kind |-> "elements", data |-> data]),
                      a, [kind |-> "array", type |-> type, array |-> e])
  PROVE  /\ Whole(n) /\ Grows(m, n)
         /\ a \in DOMAIN n /\ n[a].kind = "array" /\ n[n[a].array].data = data
<1>. DEFINE elements == [kind |-> "elements", data |-> data]
            array == [kind |-> "array", type |-> type, array |-> e]
<1>1. /\ DOMAIN n = DOMAIN m \cup {e, a}
      /\ n[e] = elements /\ n[a] = array
      /\ \A b \in DOMAIN m : n[b] = m[b]
  BY DEF Extended
<1>2. /\ elements \in Block /\ array \in Block
      /\ elements.kind = "elements" /\ elements.data = data
      /\ array.kind = "array" /\ array.array = e
  BY DEF Block
<1>. HIDE DEF elements, array
<1>3. Blocks(n)
  BY <1>1, <1>2 DEF Whole, Blocks
<1>4. \A b \in DOMAIN n : Leads(n, b)
  BY <1>1, <1>2 DEF Whole, Leads
<1>5. \A b, c \in DOMAIN n : Shares(n, b, c) => b = c
  <2>. SUFFICES ASSUME NEW b \in DOMAIN n, NEW c \in DOMAIN n, Shares(n, b, c) PROVE b = c
    OBVIOUS
  <2>1. \A d \in DOMAIN m : m[d].kind = "array" => m[d].array # e
    BY DEF Whole, Leads
  <2>2. n[b].kind = "array" /\ n[c].kind = "array" /\ n[b].array = n[c].array
    BY DEF Shares
  <2>3. b # e /\ c # e
    BY <1>1, <1>2, <2>2
  <2>4. CASE b \in DOMAIN m /\ c \in DOMAIN m
    BY <1>1, <2>2, <2>4 DEF Whole, Shares
  <2>5. CASE b = a \/ c = a
    BY <1>1, <1>2, <2>1, <2>2, <2>3, <2>5
  <2>. QED
    BY <1>1, <2>3, <2>4, <2>5
<1>6. \A x \in DOMAIN n : n[x].kind = "elements" => \E b \in DOMAIN n : Owns(n, b, x)
  <2>. SUFFICES ASSUME NEW x \in DOMAIN n, n[x].kind = "elements"
                PROVE  \E b \in DOMAIN n : Owns(n, b, x)
    OBVIOUS
  <2>1. CASE x = e
    BY <1>1, <1>2, <2>1 DEF Owns
  <2>2. CASE x # e
    <3>1. x \in DOMAIN m /\ m[x].kind = "elements"
      BY <1>1, <1>2, <2>2
    <3>2. PICK b \in DOMAIN m : Owns(m, b, x)
      BY <3>1 DEF Whole
    <3>3. b \in DOMAIN n /\ Owns(n, b, x)
      BY <1>1, <3>2 DEF Owns
    <3>. QED
      BY <3>3
  <2>. QED
    BY <2>1, <2>2
<1>. QED
  BY <1>1, <1>2, <1>3, <1>4, <1>5, <1>6 DEF Whole, Grows

(* jda_alloc answers NULL and leaves memory alone, or an array that holds  *)
(* the data, in memory that was free.                                      *)
IsArrayOf(r, m, data) ==
  /\ r.at \in Address \ DOMAIN m /\ r.at \in DOMAIN r.memory
  /\ r.memory[r.at].kind = "array"
  /\ r.memory[r.memory[r.at].array].data = data
Answers(r, m, data) ==
  /\ Whole(r.memory) /\ Grows(m, r.memory)
  /\ r.at = Null \/ IsArrayOf(r, m, data)

(* jda_alloc, whichever of its two allocations fails: an array with        *)
(* elements of its own, or nothing left behind.                            *)
LEMMA JdaAllocAnswers ==
  ASSUME NEW m, Whole(m), NEW data \in Seq(Cell), NEW type \in Type \cup {"byte", "char"},
         NEW r \in JdaAlloc(m, type, data)
  PROVE  Answers(r, m, data)
<1>. DEFINE elements == [kind |-> "elements", data |-> data]
            array(e) == [kind |-> "array", type |-> type, array |-> e]
<1>0. Grows(m, m)
  BY DEF Grows
<1>1. PICK e \in Malloc(m, elements) :
        r \in IF e.at = Null THEN {e}
              ELSE {IF d.at = Null THEN Allocated(m, Null) ELSE d : d \in Malloc(e.memory, array(e.at))}
  BY DEF JdaAlloc
<1>2. \/ e.at = Null /\ e.memory = m
      \/ e.at \in Address \ DOMAIN m /\ e.memory = Extended(m, e.at, elements)
  BY MallocAnswers
<1>3. CASE e.at = Null
  BY <1>0, <1>1, <1>2, <1>3, HeapAssumption DEF Answers
<1>4. CASE e.at # Null
  <2>1. PICK d \in Malloc(e.memory, array(e.at)) :
          r = IF d.at = Null THEN Allocated(m, Null) ELSE d
    BY <1>1, <1>4
  <2>2. \/ d.at = Null /\ d.memory = e.memory
        \/ d.at \in Address \ DOMAIN e.memory /\ d.memory = Extended(e.memory, d.at, array(e.at))
    BY MallocAnswers
  <2>3. CASE d.at = Null
    BY <1>0, <2>1, <2>3 DEF Allocated, Answers
  <2>4. CASE d.at # Null
    <3>1. /\ e.at \in Address \ DOMAIN m /\ d.at \in Address \ DOMAIN m /\ d.at # e.at
          /\ d.memory = Extended(Extended(m, e.at, elements), d.at, array(e.at))
      BY <1>2, <1>4, <2>2, <2>4 DEF Extended
    <3>2. /\ Whole(d.memory) /\ Grows(m, d.memory)
          /\ d.at \in DOMAIN d.memory /\ d.memory[d.at].kind = "array"
          /\ d.memory[d.memory[d.at].array].data = data
      BY <3>1, ArrayKeepsWhole
    <3>. QED
      BY <2>1, <2>4, <3>1, <3>2 DEF Answers, IsArrayOf
  <2>. QED
    BY <2>3, <2>4
<1>. QED
  BY <1>3, <1>4

(* The inductive invariant: memory is whole, what a live reference leads   *)
(* to is there, every array that is not freed has the elements it should,  *)
(* and the pointers that are not stale are into such arrays.               *)
There(o) ==
  Live(o) => /\ o \in DOMAIN memory /\ memory[o].kind # "elements"
             /\ memory[o].kind = "array" => o \in DOMAIN expected
Right(o) == IsArray(o) /\ Data(o) = expected[o]
Into(p) == p.of # Null => p.of \in DOMAIN expected /\ p.at = memory[p.of].array
Copied(r) == r.copied \in {"nothing", "inside", "past"} /\ r.right
HeapIInv ==
  /\ Whole(memory)
  /\ refs \in [Address -> Reference]
  /\ \A o \in Address : There(o)
  /\ \A o \in DOMAIN expected : Right(o)
  /\ \A p \in pointers : Into(p)
  /\ Copied(region)
  /\ astray \in BOOLEAN

(* Without a region there is nothing to compare.                           *)
LEMMA NoRegionIsRight == Copied(NoRegion)
BY DEF NoRegion, Copied

(* The invariant holds at the start.                                       *)
LEMMA HeapStarts ==
  HeapInit => HeapIInv
<1>. SUFFICES ASSUME HeapInit PROVE HeapIInv
  OBVIOUS
<1>1. DOMAIN memory = {} /\ DOMAIN expected = {} /\ pointers = {}
  BY DEF HeapInit
<1>2. Whole(memory)
  BY <1>1 DEF Whole, Blocks
<1>3. refs \in [Address -> Reference] /\ \A o \in Address : ~ Live(o)
  BY DEF HeapInit, Reference, NoRefs, Live
<1>4. Copied(region) /\ astray \in BOOLEAN
  BY NoRegionIsRight DEF HeapInit
<1>. QED
  BY <1>1, <1>2, <1>3, <1>4 DEF HeapIInv, There

(* What holds of the object an allocation answers.                         *)
Answered(r, data) ==
  /\ Whole(r.memory) /\ Grows(memory, r.memory)
  /\ \/ r.at = Null
     \/ /\ r.at \in Address \ DOMAIN memory /\ r.at \in DOMAIN r.memory
        /\ r.memory[r.at].kind # "elements"
        /\ r.memory[r.at].kind = "array" => r.memory[r.memory[r.at].array].data = data

(* A reference to what an allocation made can be given out.                *)
LEMMA GiveKeeps ==
  ASSUME HeapIInv, NEW r, NEW data, Answered(r, data), Give(r, data)
  PROVE  HeapIInv'
<1>. USE HeapAssumption
<1>1. /\ memory' = r.memory /\ region' = NoRegion /\ pointers' = pointers /\ astray' = astray
      /\ Whole(memory) /\ refs \in [Address -> Reference]
      /\ DOMAIN memory \subseteq DOMAIN memory'
      /\ \A a \in DOMAIN memory : memory'[a] = memory[a]
  BY DEF Give, HeapIInv, Answered, Grows
<1>2. /\ refs' \in [Address -> Reference]
      /\ \A o \in Address : Live(o)' => Live(o) \/ (r.at # Null /\ o = r.at)
  <2>1. CASE r.at = Null
    BY <1>1, <2>1 DEF Give, Live
  <2>2. CASE r.at # Null
    <3>1. r.at \in Address /\ refs' = [refs EXCEPT ![r.at].local = TRUE]
      BY <2>2 DEF Answered, Give
    <3>. QED
      BY <1>1, <2>2, <3>1 DEF Reference, Live
  <2>. QED
    BY <2>1, <2>2
<1>3. \/ /\ r.at # Null /\ r.memory[r.at].kind = "array"
         /\ expected' = Extended(expected, r.at, data)
      \/ ~ (r.at # Null /\ r.memory[r.at].kind = "array") /\ expected' = expected
  BY DEF Give
<1>4. ASSUME NEW o \in DOMAIN expected
      PROVE  /\ IsArray(o)' /\ Data(o)' = expected[o] /\ memory'[o] = memory[o]
             /\ o \in DOMAIN expected' /\ expected'[o] = expected[o]
  <2>1. o \in DOMAIN memory /\ memory[o].kind = "array" /\ Data(o) = expected[o]
    BY DEF HeapIInv, Right, IsArray
  <2>2. memory[o].array \in DOMAIN memory
    BY <1>1, <2>1 DEF Whole, Leads
  <2>3. r.at # Null => o # r.at
    BY <2>1 DEF Answered
  <2>. QED
    BY <1>1, <1>3, <2>1, <2>2, <2>3 DEF IsArray, Data, Extended
<1>5. ASSUME NEW o \in DOMAIN expected', o \notin DOMAIN expected
      PROVE  IsArray(o)' /\ Data(o)' = expected'[o]
  <2>1. /\ r.at # Null /\ o = r.at /\ r.memory[o].kind = "array"
        /\ expected' = Extended(expected, o, data)
    BY <1>3, <1>5 DEF Extended
  <2>2. o \in DOMAIN r.memory /\ r.memory[r.memory[o].array].data = data
    BY <2>1 DEF Answered
  <2>. QED
    BY <1>1, <2>1, <2>2 DEF IsArray, Data, Extended
<1>6. \A o \in DOMAIN expected' : Right(o)'
  BY <1>4, <1>5 DEF Right
<1>7. ASSUME NEW o \in Address, Live(o)'
      PROVE  /\ o \in DOMAIN memory' /\ memory'[o].kind # "elements"
             /\ memory'[o].kind = "array" => o \in DOMAIN expected'
  <2>1. CASE Live(o)
    <3>1. /\ o \in DOMAIN memory /\ memory[o].kind # "elements"
          /\ memory[o].kind = "array" => o \in DOMAIN expected
      BY <2>1 DEF HeapIInv, There
    <3>. QED
      BY <1>1, <1>4, <3>1
  <2>2. CASE ~ Live(o)
    <3>1. r.at # Null /\ o = r.at
      BY <1>2, <1>7, <2>2
    <3>2. r.memory[o].kind = "array" => o \in DOMAIN expected'
      BY <1>3, <3>1 DEF Extended
    <3>. QED
      BY <1>1, <3>1, <3>2 DEF Answered
  <2>. QED
    BY <2>1, <2>2
<1>8. \A o \in Address : There(o)'
  BY <1>7 DEF There
<1>9. \A p \in pointers' : Into(p)'
  BY <1>1, <1>4 DEF HeapIInv, Into
<1>. QED
  BY <1>1, <1>2, <1>6, <1>8, <1>9, NoRegionIsRight DEF HeapIInv, Answered

(* So can the null that stands for its failure.                            *)
LEMMA NothingAnswered ==
  ASSUME HeapIInv, NEW n, Whole(n), Grows(memory, n), NEW data
  PROVE  Answered(Allocated(n, Null), data)
BY DEF Allocated, Answered

(* What the invariant says of memory.                                      *)
LEMMA MemoryIsWhole ==
  ASSUME HeapIInv
  PROVE  Whole(memory) /\ Grows(memory, memory)
BY DEF HeapIInv, Grows

(* An array of any length, also a negative one.                            *)
LEMMA NewArrayKeeps ==
  ASSUME HeapIInv, NEW type \in Type, NEW length \in Int, NEW v \in Cell,
         NEW r \in IF length < 0 THEN {Allocated(memory, Null)}
                   ELSE JdaAlloc(memory, type, Filled(length, v)),
         Give(r, Filled(length, v))
  PROVE  HeapIInv'
<1>. DEFINE data == Filled(length, v)
<1>1. CASE length < 0
  <2>1. r = Allocated(memory, Null)
    BY <1>1
  <2>2. Answered(r, data)
    BY <2>1, MemoryIsWhole, NothingAnswered
  <2>. HIDE DEF data
  <2>. QED
    BY <2>2, GiveKeeps DEF data
<1>2. CASE ~ (length < 0)
  <2>1. data \in Seq(Cell)
    BY <1>2 DEF Filled
  <2>2. r \in JdaAlloc(memory, type, data)
    BY <1>2
  <2>. HIDE DEF data
  <2>3. Answers(r, memory, data)
    BY <2>1, <2>2, MemoryIsWhole, JdaAllocAnswers
  <2>4. Answered(r, data)
    BY <2>3 DEF Answers, IsArrayOf, Answered
  <2>. QED
    BY <2>4, GiveKeeps DEF data
<1>. QED
  BY <1>1, <1>2

(* A class is one block.                                                   *)
LEMMA FindClassKeeps ==
  ASSUME HeapIInv, FindClass
  PROVE  HeapIInv'
<1>1. PICK r \in Malloc(memory, [kind |-> "class"]) : Give(r, <<>>)
  BY DEF FindClass
<1>2. [kind |-> "class"] \in Single
  BY DEF Single
<1>3. \/ r.at = Null /\ r.memory = memory
      \/ r.at \in Address \ DOMAIN memory /\ r.memory = Extended(memory, r.at, [kind |-> "class"])
  BY MallocAnswers
<1>4. Answered(r, <<>>)
  <2>1. CASE r.at = Null /\ r.memory = memory
    BY <2>1, MemoryIsWhole DEF Answered
  <2>2. CASE /\ r.at \in Address \ DOMAIN memory
             /\ r.memory = Extended(memory, r.at, [kind |-> "class"])
    <3>1. Whole(r.memory)
      BY <1>2, <2>2, MemoryIsWhole, SingleKeepsWhole
    <3>2. /\ Grows(memory, r.memory) /\ r.at \in DOMAIN r.memory
          /\ r.memory[r.at] = [kind |-> "class"]
      BY <2>2 DEF Extended, Grows
    <3>3. r.memory[r.at].kind = "class"
      BY <3>2
    <3>. QED
      BY <2>2, <3>1, <3>2, <3>3 DEF Answered
  <2>. QED
    BY <1>3, <2>1, <2>2
<1>. QED
  BY <1>1, <1>4, GiveKeeps

(* The two ways to make a string come to one: the structure, an array of   *)
(* one type, an array of the other.                                        *)
LEMMA StructureIsSingle ==
  ASSUME NEW utf8 \in Address \cup {Null}, NEW utf16 \in Address \cup {Null}
  PROVE  String(utf8, utf16) \in Single /\ String(utf8, utf16).kind = "string"
BY DEF String, Single

(* The structure of a string, before its arrays.                           *)
LEMMA StructureAnswered ==
  ASSUME HeapIInv, NEW s \in Malloc(memory, String(Null, Null))
  PROVE  \/ s.at = Null /\ s.memory = memory
         \/ /\ s.at \in Address \ DOMAIN memory /\ s.at \in DOMAIN s.memory
            /\ s.memory[s.at].kind = "string"
            /\ Whole(s.memory) /\ Grows(memory, s.memory)
<1>. DEFINE block == String(Null, Null)
<1>1. block \in Single /\ block.kind = "string"
  BY StructureIsSingle
<1>. HIDE DEF block
<1>2. \/ s.at = Null /\ s.memory = memory
      \/ s.at \in Address \ DOMAIN memory /\ s.memory = Extended(memory, s.at, block)
  BY MallocAnswers DEF block
<1>3. CASE s.at \in Address \ DOMAIN memory /\ s.memory = Extended(memory, s.at, block)
  <2>1. Whole(s.memory)
    BY <1>1, <1>3, MemoryIsWhole, SingleKeepsWhole
  <2>2. /\ Grows(memory, s.memory) /\ s.at \in DOMAIN s.memory /\ s.memory[s.at] = block
    BY <1>3 DEF Extended, Grows
  <2>. QED
    BY <1>1, <1>3, <2>1, <2>2
<1>. QED
  BY <1>2, <1>3

(* The structure, filled in once both arrays are there.                    *)
LEMMA StringAnswered ==
  ASSUME HeapIInv, NEW m, Whole(m), Grows(memory, m),
         NEW a \in Address \ DOMAIN memory, a \in DOMAIN m, m[a].kind = "string",
         NEW utf8 \in Address \cup {Null}, NEW utf16 \in Address
  PROVE  Answered(Allocated([m EXCEPT ![a] = String(utf8, utf16)], a), <<>>)
<1>. DEFINE n == [m EXCEPT ![a] = String(utf8, utf16)]
<1>1. Whole(n)
  BY StructureIsSingle, StringKeepsWhole
<1>2. DOMAIN n = DOMAIN m /\ n[a] = String(utf8, utf16) /\ \A b \in DOMAIN m \ {a} : n[b] = m[b]
  OBVIOUS
<1>. HIDE DEF n
<1>3. Grows(memory, n)
  BY <1>2 DEF Grows
<1>4. n[a].kind = "string"
  BY <1>2, StructureIsSingle
<1>5. Allocated(n, a).memory = n /\ Allocated(n, a).at = a
  BY DEF Allocated
<1>. QED
  BY <1>1, <1>2, <1>3, <1>4, <1>5 DEF Answered, n

(* Growth is transitive.                                                   *)
LEMMA GrowsOn ==
  ASSUME NEW m, NEW n, NEW o, Grows(m, n), Grows(n, o)
  PROVE  Grows(m, o)
BY DEF Grows

(* A string from bytes: a structure and two arrays, each of which may      *)
(* fail.                                                                   *)
LEMMA MakeStringUTFKeeps ==
  ASSUME HeapIInv, MakeStringUTF
  PROVE  HeapIInv'
<1>0. <<Junk>> \in Seq(Cell) /\ "byte" \in Type \cup {"byte", "char"} /\ "char" \in Type \cup {"byte", "char"}
  BY DEF Cell
<1>1. PICK s \in Malloc(memory, String(Null, Null)) :
        IF s.at = Null THEN Give(s, <<>>) ELSE
        \E b \in JdaAlloc(s.memory, "byte", <<Junk>>) :
          IF b.at = Null THEN Give(Allocated(memory, Null), <<>>) ELSE
          \E u \in JdaAlloc(b.memory, "char", <<Junk>>) :
            Give(IF u.at = Null THEN Allocated(Free(b.memory, s.at), Null)
                 ELSE Allocated([u.memory EXCEPT ![s.at] = String(b.at, u.at)], s.at), <<>>)
  BY DEF MakeStringUTF
<1>2. CASE s.at = Null
  <2>1. s.memory = memory
    BY <1>2, StructureAnswered, HeapAssumption
  <2>2. Answered(s, <<>>)
    BY <1>2, <2>1, MemoryIsWhole DEF Answered
  <2>. QED
    BY <1>1, <1>2, <2>2, GiveKeeps
<1>3. CASE s.at # Null
  <2>1. /\ s.at \in Address \ DOMAIN memory /\ s.at \in DOMAIN s.memory
        /\ s.memory[s.at].kind = "string"
        /\ Whole(s.memory) /\ Grows(memory, s.memory)
    BY <1>3, StructureAnswered
  <2>2. PICK b \in JdaAlloc(s.memory, "byte", <<Junk>>) :
          IF b.at = Null THEN Give(Allocated(memory, Null), <<>>) ELSE
          \E u \in JdaAlloc(b.memory, "char", <<Junk>>) :
            Give(IF u.at = Null THEN Allocated(Free(b.memory, s.at), Null)
                 ELSE Allocated([u.memory EXCEPT ![s.at] = String(b.at, u.at)], s.at), <<>>)
    BY <1>1, <1>3
  <2>3. Answers(b, s.memory, <<Junk>>)
    BY <1>0, <2>1, JdaAllocAnswers
  <2>4. CASE b.at = Null
    <3>1. Answered(Allocated(memory, Null), <<>>)
      BY MemoryIsWhole, NothingAnswered
    <3>. QED
      BY <2>2, <2>4, <3>1, GiveKeeps
  <2>5. CASE b.at # Null
    <3>1. PICK u \in JdaAlloc(b.memory, "char", <<Junk>>) :
            Give(IF u.at = Null THEN Allocated(Free(b.memory, s.at), Null)
                 ELSE Allocated([u.memory EXCEPT ![s.at] = String(b.at, u.at)], s.at), <<>>)
      BY <2>2, <2>5
    <3>2. /\ Whole(b.memory) /\ Grows(s.memory, b.memory) /\ Grows(memory, b.memory)
          /\ b.at \in Address /\ s.at \in DOMAIN b.memory /\ b.memory[s.at].kind = "string"
      BY <2>1, <2>3, <2>5, GrowsOn DEF Answers, IsArrayOf, Grows
    <3>3. Answers(u, b.memory, <<Junk>>)
      BY <1>0, <3>2, JdaAllocAnswers
    <3>4. CASE u.at = Null
      <4>1. /\ Whole(Free(b.memory, s.at)) /\ DOMAIN Free(b.memory, s.at) = DOMAIN b.memory \ {s.at}
            /\ \A c \in DOMAIN b.memory \ {s.at} : Free(b.memory, s.at)[c] = b.memory[c]
        BY <3>2, FreeKeepsWhole
      <4>2. Grows(memory, Free(b.memory, s.at))
        BY <2>1, <3>2, <4>1 DEF Grows
      <4>3. Answered(Allocated(Free(b.memory, s.at), Null), <<>>)
        BY <4>1, <4>2, NothingAnswered
      <4>4. Give(Allocated(Free(b.memory, s.at), Null), <<>>)
        BY <3>1, <3>4
      <4>. QED
        BY <4>3, <4>4, GiveKeeps
    <3>5. CASE u.at # Null
      <4>1. /\ Whole(u.memory) /\ Grows(b.memory, u.memory) /\ Grows(memory, u.memory)
            /\ u.at \in Address /\ s.at \in DOMAIN u.memory /\ u.memory[s.at].kind = "string"
        BY <3>2, <3>3, <3>5, GrowsOn DEF Answers, IsArrayOf, Grows
      <4>2. Answered(Allocated([u.memory EXCEPT ![s.at] = String(b.at, u.at)], s.at), <<>>)
        BY <2>1, <3>2, <4>1, StringAnswered
      <4>3. Give(Allocated([u.memory EXCEPT ![s.at] = String(b.at, u.at)], s.at), <<>>)
        BY <3>1, <3>5
      <4>. QED
        BY <4>2, <4>3, GiveKeeps
    <3>. QED
      BY <3>4, <3>5
  <2>. QED
    BY <2>4, <2>5
<1>. QED
  BY <1>2, <1>3

(* A string from units, likewise.                                          *)
LEMMA MakeStringKeeps ==
  ASSUME HeapIInv, MakeString
  PROVE  HeapIInv'
<1>0. <<Junk>> \in Seq(Cell) /\ "byte" \in Type \cup {"byte", "char"} /\ "char" \in Type \cup {"byte", "char"}
  BY DEF Cell
<1>1. PICK s \in Malloc(memory, String(Null, Null)) :
        IF s.at = Null THEN Give(s, <<>>) ELSE
        \E u \in JdaAlloc(s.memory, "char", <<Junk>>) :
          IF u.at = Null THEN Give(Allocated(s.memory, Null), <<>>) ELSE
          \E b \in JdaAlloc(u.memory, "byte", <<Junk>>) :
            Give(Allocated([b.memory EXCEPT ![s.at] = String(b.at, u.at)], s.at), <<>>)
  BY DEF MakeString
<1>2. CASE s.at = Null
  <2>1. s.memory = memory
    BY <1>2, StructureAnswered, HeapAssumption
  <2>2. Answered(s, <<>>)
    BY <1>2, <2>1, MemoryIsWhole DEF Answered
  <2>. QED
    BY <1>1, <1>2, <2>2, GiveKeeps
<1>3. CASE s.at # Null
  <2>1. /\ s.at \in Address \ DOMAIN memory /\ s.at \in DOMAIN s.memory
        /\ s.memory[s.at].kind = "string"
        /\ Whole(s.memory) /\ Grows(memory, s.memory)
    BY <1>3, StructureAnswered
  <2>2. PICK u \in JdaAlloc(s.memory, "char", <<Junk>>) :
          IF u.at = Null THEN Give(Allocated(s.memory, Null), <<>>) ELSE
          \E b \in JdaAlloc(u.memory, "byte", <<Junk>>) :
            Give(Allocated([b.memory EXCEPT ![s.at] = String(b.at, u.at)], s.at), <<>>)
    BY <1>1, <1>3
  <2>3. Answers(u, s.memory, <<Junk>>)
    BY <1>0, <2>1, JdaAllocAnswers
  <2>4. CASE u.at = Null
    <3>1. Answered(Allocated(s.memory, Null), <<>>)
      BY <2>1, NothingAnswered
    <3>. QED
      BY <2>2, <2>4, <3>1, GiveKeeps
  <2>5. CASE u.at # Null
    <3>1. PICK b \in JdaAlloc(u.memory, "byte", <<Junk>>) :
            Give(Allocated([b.memory EXCEPT ![s.at] = String(b.at, u.at)], s.at), <<>>)
      BY <2>2, <2>5
    <3>2. /\ Whole(u.memory) /\ Grows(memory, u.memory)
          /\ u.at \in Address /\ s.at \in DOMAIN u.memory /\ u.memory[s.at].kind = "string"
      BY <2>1, <2>3, <2>5, GrowsOn DEF Answers, IsArrayOf, Grows
    <3>3. Answers(b, u.memory, <<Junk>>)
      BY <1>0, <3>2, JdaAllocAnswers
    <3>4. /\ Whole(b.memory) /\ Grows(memory, b.memory) /\ b.at \in Address \cup {Null}
          /\ s.at \in DOMAIN b.memory /\ b.memory[s.at].kind = "string"
      BY <3>2, <3>3, GrowsOn DEF Answers, IsArrayOf, Grows
    <3>5. Answered(Allocated([b.memory EXCEPT ![s.at] = String(b.at, u.at)], s.at), <<>>)
      BY <2>1, <3>2, <3>4, StringAnswered
    <3>. QED
      BY <3>1, <3>5, GiveKeeps
  <2>. QED
    BY <2>4, <2>5
<1>. QED
  BY <1>2, <1>3

(* References.  An object stays what it is while another reference to it   *)
(* is taken, or one given up that frees nothing.                           *)
LEMMA RefsChanged ==
  ASSUME HeapIInv, UNCHANGED <<memory, pointers, expected, astray>>, region' = NoRegion,
         refs' \in [Address -> Reference], \A o \in Address : Live(o)' => Live(o)
  PROVE  HeapIInv'
<1>1. \A o \in Address : There(o)'
  BY DEF HeapIInv, There
<1>. QED
  BY <1>1, NoRegionIsRight DEF HeapIInv, Right, Into, IsArray, Data

(* NewGlobalRef and NewLocalRef: the object already has a live reference.  *)
LEMMA RefTaken ==
  ASSUME HeapIInv, NEW o \in Address, NewGlobalRef(o) \/ NewLocalRef(o)
  PROVE  HeapIInv'
<1>1. /\ UNCHANGED <<memory, pointers, expected, astray>> /\ region' = NoRegion /\ Live(o)
      /\ refs \in [Address -> Reference]
  BY DEF NewGlobalRef, NewLocalRef, HeapIInv
<1>2. /\ refs' \in [Address -> Reference]
      /\ \A q \in Address : Live(q)' => Live(q)
  <2>1. CASE NewGlobalRef(o)
    <3>1. refs' = [refs EXCEPT ![o].global = @ + 1]
      BY <2>1 DEF NewGlobalRef
    <3>. QED
      BY <1>1, <3>1 DEF Reference, Live
  <2>2. CASE NewLocalRef(o)
    <3>1. refs' = [refs EXCEPT ![o].local = TRUE]
      BY <2>2 DEF NewLocalRef
    <3>. QED
      BY <1>1, <3>1 DEF Reference, Live
  <2>. QED
    BY <2>1, <2>2
<1>. QED
  BY <1>1, <1>2, RefsChanged

(* DeleteLocalRef takes back a reference and frees nothing.                *)
LEMMA LocalRefGivenUp ==
  ASSUME HeapIInv, NEW o \in Address, DeleteLocalRef(o)
  PROVE  HeapIInv'
<1>1. /\ UNCHANGED <<memory, pointers, expected, astray>> /\ region' = NoRegion
      /\ refs \in [Address -> Reference]
  BY DEF DeleteLocalRef, HeapIInv
<1>2. /\ refs' \in [Address -> Reference]
      /\ \A q \in Address : Live(q)' => Live(q)
  <2>1. CASE refs' = [refs EXCEPT ![o].local = FALSE]
    BY <1>1, <2>1 DEF Reference, Live
  <2>2. CASE refs' = [refs EXCEPT ![o].stale = FALSE]
    BY <1>1, <2>2 DEF Reference, Live
  <2>. QED
    BY <2>1, <2>2 DEF DeleteLocalRef
<1>. QED
  BY <1>1, <1>2, RefsChanged

(* An array goes with its elements.                                        *)
LEMMA ArrayFreeKeepsWhole ==
  ASSUME NEW m, Whole(m), NEW a \in DOMAIN m, m[a].kind = "array"
  PROVE  /\ Whole(JdaFree(m, a)) /\ DOMAIN JdaFree(m, a) = DOMAIN m \ {a, m[a].array}
         /\ \A b \in DOMAIN m \ {a, m[a].array} : JdaFree(m, a)[b] = m[b]
<1>. DEFINE n == JdaFree(m, a)
            e == m[a].array
<1>1. DOMAIN n = DOMAIN m \ {a, e} /\ \A b \in DOMAIN m \ {a, e} : n[b] = m[b]
  BY DEF JdaFree, Free, Restrict
<1>2. e \in DOMAIN m /\ m[e].kind = "elements"
  BY DEF Whole, Leads
<1>. HIDE DEF n, e
<1>3. Blocks(n)
  BY <1>1 DEF Whole, Blocks
<1>4. ASSUME NEW b \in DOMAIN m, b # a, m[b].kind = "array"
      PROVE  m[b].array # e /\ m[b].array # a
  BY <1>4 DEF Whole, Shares, Leads, e
<1>5. \A b \in DOMAIN n : Leads(n, b)
  <2>. SUFFICES ASSUME NEW b \in DOMAIN n, n[b].kind = "array"
                PROVE  n[b].array \in DOMAIN n /\ n[n[b].array].kind = "elements"
    BY DEF Leads
  <2>1. b \in DOMAIN m /\ b # a /\ n[b] = m[b]
    BY <1>1
  <2>2. m[b].array \in DOMAIN m /\ m[m[b].array].kind = "elements"
    BY <2>1 DEF Whole, Leads
  <2>. QED
    BY <1>1, <1>4, <2>1, <2>2
<1>6. \A b, c \in DOMAIN n : Shares(n, b, c) => b = c
  BY <1>1 DEF Whole, Shares
<1>7. \A x \in DOMAIN n : n[x].kind = "elements" => \E b \in DOMAIN n : Owns(n, b, x)
  <2>. SUFFICES ASSUME NEW x \in DOMAIN n, n[x].kind = "elements"
                PROVE  \E b \in DOMAIN n : Owns(n, b, x)
    OBVIOUS
  <2>1. x \in DOMAIN m /\ x # e /\ m[x].kind = "elements"
    BY <1>1
  <2>2. PICK b \in DOMAIN m : Owns(m, b, x)
    BY <2>1 DEF Whole
  <2>3. b # a /\ b # e
    BY <1>2, <2>1, <2>2 DEF Owns, e
  <2>. QED
    BY <1>1, <2>2, <2>3 DEF Owns
<1>. QED
  BY <1>1, <1>3, <1>5, <1>6, <1>7 DEF Whole, n, e

(* What is left after an object's deletion: no other object has lost a     *)
(* block.                                                                  *)
Leaves(o, gone) ==
  /\ Whole(memory') /\ DOMAIN memory' = DOMAIN memory \ gone
  /\ \A b \in DOMAIN memory \ gone : memory'[b] = memory[b]
  /\ o \in gone
  /\ \A q \in DOMAIN memory : memory[q].kind # "elements" /\ q # o =>
       q \notin gone /\ (memory[q].kind = "array" => memory[q].array \notin gone)

(* DeleteGlobalRef frees the object, and nothing that another one leads    *)
(* to.                                                                     *)
LEMMA ObjectLeaves ==
  ASSUME HeapIInv, NEW o \in Address, DeleteGlobalRef(o)
  PROVE  \E gone \in SUBSET DOMAIN memory : Leaves(o, gone)
<1>1. Whole(memory) /\ o \in DOMAIN memory /\ memory[o].kind # "elements"
  BY DEF HeapIInv, There, DeleteGlobalRef
<1>2. memory[o] \in Block
  BY <1>1 DEF Whole, Blocks
<1>3. CASE IsArray(o)
  <2>. DEFINE e == memory[o].array
  <2>1. memory' = JdaFree(memory, o) /\ memory[o].kind = "array"
    BY <1>3 DEF DeleteGlobalRef, IsArray
  <2>2. e \in DOMAIN memory /\ memory[e].kind = "elements"
    BY <1>1, <2>1 DEF Whole, Leads
  <2>3. ASSUME NEW q \in DOMAIN memory, memory[q].kind # "elements", q # o
        PROVE  q \notin {o, e} /\ (memory[q].kind = "array" => memory[q].array \notin {o, e})
    BY <1>1, <2>1, <2>2, <2>3 DEF Whole, Shares, Leads
  <2>4. /\ Whole(memory') /\ DOMAIN memory' = DOMAIN memory \ {o, e}
        /\ \A b \in DOMAIN memory \ {o, e} : memory'[b] = memory[b]
    BY <1>1, <2>1, ArrayFreeKeepsWhole
  <2>5. Leaves(o, {o, e})
    BY <2>3, <2>4 DEF Leaves
  <2>. QED
    BY <1>1, <2>2, <2>5
<1>4. CASE ~ IsArray(o)
  <2>1. memory' = Free(memory, o) /\ memory[o].kind \in {"string", "class"}
    BY <1>1, <1>2, <1>4 DEF DeleteGlobalRef, IsArray, Block
  <2>2. /\ Whole(memory') /\ DOMAIN memory' = DOMAIN memory \ {o}
        /\ \A b \in DOMAIN memory \ {o} : memory'[b] = memory[b]
    BY <1>1, <2>1, FreeKeepsWhole
  <2>3. \A q \in DOMAIN memory : memory[q].kind = "array" => memory[q].array # o
    BY <1>1, <2>1 DEF Whole, Leads
  <2>4. Leaves(o, {o})
    BY <2>2, <2>3 DEF Leaves
  <2>. QED
    BY <1>1, <2>4
<1>. QED
  BY <1>3, <1>4

(* What else there is stays as it was, and the references left to what is  *)
(* freed are not live ones.                                                *)
LEMMA GlobalRefGivenUp ==
  ASSUME HeapIInv, NEW o \in Address, DeleteGlobalRef(o)
  PROVE  HeapIInv'
<1>. DEFINE left == refs[o].stale \/ refs[o].local \/ refs[o].global > 1
            none == [local |-> FALSE, global |-> 0, stale |-> left]
<1>1. /\ refs \in [Address -> Reference] /\ refs' = [refs EXCEPT ![o] = none]
      /\ pointers' = {IF p.of = o THEN StalePointer ELSE p : p \in pointers}
      /\ expected' = Restrict(expected, DOMAIN expected \ {o})
      /\ region' = NoRegion /\ astray' = astray
  BY DEF DeleteGlobalRef, HeapIInv
<1>2. PICK gone \in SUBSET DOMAIN memory : Leaves(o, gone)
  BY ObjectLeaves
<1>3. left \in BOOLEAN
  <2>1. left = TRUE \/ left = FALSE
    BY ZenonT(20)
  <2>. QED
    BY <2>1
<1>. HIDE DEF left
<1>4. none \in Reference /\ ~ none.local /\ ~ (none.global > 0)
  BY <1>3 DEF Reference
<1>. HIDE DEF none
<1>5. refs' \in [Address -> Reference] /\ ~ Live(o)'
  BY <1>1, <1>4 DEF Live
<1>6. \A q \in Address : q # o => Live(q)' = Live(q)
  BY <1>1 DEF Live
<1>7. /\ DOMAIN expected' = DOMAIN expected \ {o}
      /\ \A a \in DOMAIN expected' : expected'[a] = expected[a]
  BY <1>1 DEF Restrict
<1>8. ASSUME NEW q \in DOMAIN memory, q # o, memory[q].kind # "elements"
      PROVE  /\ q \in DOMAIN memory' /\ memory'[q] = memory[q]
             /\ memory[q].kind = "array" => Data(q)' = Data(q)
  <2>1. q \notin gone /\ (memory[q].kind = "array" => memory[q].array \notin gone)
    BY <1>2, <1>8 DEF Leaves
  <2>2. memory[q].kind = "array" => memory[q].array \in DOMAIN memory
    BY DEF HeapIInv, Whole, Leads
  <2>3. q \in DOMAIN memory' /\ memory'[q] = memory[q]
    BY <1>2, <2>1 DEF Leaves
  <2>4. memory[q].kind = "array" => memory'[memory[q].array] = memory[memory[q].array]
    BY <1>2, <2>1, <2>2 DEF Leaves
  <2>. QED
    BY <2>3, <2>4 DEF Data
<1>9. ASSUME NEW q \in Address, Live(q)'
      PROVE  /\ q \in DOMAIN memory' /\ memory'[q].kind # "elements"
             /\ memory'[q].kind = "array" => q \in DOMAIN expected'
  <2>1. q # o /\ Live(q)
    BY <1>5, <1>6, <1>9
  <2>2. /\ q \in DOMAIN memory /\ memory[q].kind # "elements"
        /\ memory[q].kind = "array" => q \in DOMAIN expected
    BY <2>1 DEF HeapIInv, There
  <2>. QED
    BY <1>7, <1>8, <2>1, <2>2
<1>10. \A q \in Address : There(q)'
  BY <1>9 DEF There
<1>11. ASSUME NEW q \in DOMAIN expected'
       PROVE  IsArray(q)' /\ Data(q)' = expected'[q] /\ memory'[q] = memory[q]
  <2>1. q \in DOMAIN expected /\ q # o /\ expected'[q] = expected[q]
    BY <1>7
  <2>2. q \in DOMAIN memory /\ memory[q].kind = "array" /\ Data(q) = expected[q]
    BY <2>1 DEF HeapIInv, Right, IsArray
  <2>. QED
    BY <1>8, <2>1, <2>2 DEF IsArray
<1>12. \A q \in DOMAIN expected' : Right(q)'
  BY <1>11 DEF Right
<1>13. ASSUME NEW p \in pointers', p.of # Null
       PROVE  p.of \in DOMAIN expected' /\ p.at = memory'[p.of].array
  <2>1. p \in pointers /\ p.of # o
    BY <1>1, <1>13 DEF StalePointer
  <2>2. p.of \in DOMAIN expected /\ p.at = memory[p.of].array
    BY <1>13, <2>1 DEF HeapIInv, Into
  <2>3. p.of \in DOMAIN expected'
    BY <1>7, <2>1, <2>2
  <2>. QED
    BY <1>11, <2>2, <2>3
<1>14. \A p \in pointers' : Into(p)'
  BY <1>13 DEF Into
<1>. QED
  BY <1>1, <1>2, <1>5, <1>10, <1>12, <1>14, NoRegionIsRight DEF HeapIInv, Leaves

(* Elements.  A block that gets other cells is still the block of its      *)
(* array, and of no other.                                                 *)
TracedArray(o) ==
  /\ o \in DOMAIN memory /\ memory[o].kind = "array"
  /\ memory[o].array \in DOMAIN memory /\ memory[memory[o].array].kind = "elements"
  /\ Data(o) \in Seq(Cell)
  /\ o \in DOMAIN expected /\ expected[o] = Data(o)

(* An array that is not freed has its elements, and they are what was      *)
(* stored.                                                                 *)
LEMMA TracedArrayHolds ==
  ASSUME HeapIInv, NEW o \in DOMAIN expected
  PROVE  TracedArray(o)
<1>1. o \in DOMAIN memory /\ memory[o].kind = "array" /\ Data(o) = expected[o]
  BY DEF HeapIInv, Right, IsArray
<1>2. memory[o].array \in DOMAIN memory /\ memory[memory[o].array].kind = "elements"
  BY <1>1 DEF HeapIInv, Whole, Leads
<1>3. memory[memory[o].array] \in Block
  BY <1>2 DEF HeapIInv, Whole, Blocks
<1>4. Data(o) \in Seq(Cell)
  BY <1>2, <1>3 DEF Block, Data
<1>. QED
  BY <1>1, <1>2, <1>4 DEF TracedArray

(* What a live reference leads to, if it is an array, is not freed.        *)
LEMMA LiveArrayIsTraced ==
  ASSUME HeapIInv, NEW o \in LiveArrays
  PROVE  o \in DOMAIN expected
BY DEF HeapIInv, There, LiveArrays, IsArray

(* Other data in the same block of elements.                               *)
LEMMA CellsKeepWhole ==
  ASSUME NEW m, Whole(m), NEW e \in DOMAIN m, m[e].kind = "elements", NEW data \in Seq(Cell)
  PROVE  /\ Whole([m EXCEPT ![e].data = data])
         /\ DOMAIN [m EXCEPT ![e].data = data] = DOMAIN m
         /\ [m EXCEPT ![e].data = data][e] = [kind |-> "elements", data |-> data]
         /\ \A b \in DOMAIN m \ {e} : [m EXCEPT ![e].data = data][b] = m[b]
<1>. DEFINE n == [m EXCEPT ![e].data = data]
<1>1. m[e] \in [kind : {"elements"}, data : Seq(Cell)]
  BY DEF Whole, Blocks, Block
<1>2. /\ DOMAIN n = DOMAIN m /\ n[e] = [kind |-> "elements", data |-> data]
      /\ \A b \in DOMAIN m \ {e} : n[b] = m[b]
  BY <1>1
<1>. HIDE DEF n
<1>3. n[e] \in Block /\ n[e].kind = "elements"
  BY <1>2 DEF Block
<1>4. Blocks(n)
  BY <1>2, <1>3 DEF Whole, Blocks
<1>5. \A b \in DOMAIN m : n[b].kind = m[b].kind /\ (m[b].kind = "array" => n[b].array = m[b].array)
  BY <1>2, <1>3
<1>6. \A b \in DOMAIN n : Leads(n, b)
  BY <1>2, <1>5 DEF Whole, Leads
<1>7. \A b, c \in DOMAIN n : Shares(n, b, c) => b = c
  BY <1>2, <1>5 DEF Whole, Shares
<1>8. \A x \in DOMAIN n : n[x].kind = "elements" => \E b \in DOMAIN n : Owns(n, b, x)
  BY <1>2, <1>5 DEF Whole, Owns
<1>. QED
  BY <1>2, <1>4, <1>6, <1>7, <1>8 DEF Whole, n

(* What is written to an array is what is expected of it, and no other     *)
(* array has changed.                                                      *)
LEMMA CellsWritten ==
  ASSUME HeapIInv, NEW o \in DOMAIN expected, NEW data \in Seq(Cell),
         memory' = [memory EXCEPT ![memory[o].array].data = data],
         expected' = [expected EXCEPT ![o] = data],
         region' = NoRegion, UNCHANGED <<refs, pointers>>, astray' \in BOOLEAN
  PROVE  HeapIInv'
<1>. DEFINE e == memory[o].array
<1>1. TracedArray(o)
  BY TracedArrayHolds
<1>2. e \in DOMAIN memory /\ memory[e].kind = "elements" /\ Whole(memory)
  BY <1>1 DEF TracedArray, HeapIInv
<1>3. memory' = [memory EXCEPT ![e].data = data]
  OBVIOUS
<1>. HIDE DEF e
<1>4. /\ DOMAIN memory' = DOMAIN memory /\ memory'[e] = [kind |-> "elements", data |-> data]
      /\ \A b \in DOMAIN memory \ {e} : memory'[b] = memory[b]
  BY ONLY <1>2, <1>3, data \in Seq(Cell), CellsKeepWhole
<1>5. Whole(memory')
  BY ONLY <1>2, <1>3, data \in Seq(Cell), CellsKeepWhole
<1>6. /\ DOMAIN expected' = DOMAIN expected /\ expected'[o] = data
      /\ \A a \in DOMAIN expected \ {o} : expected'[a] = expected[a]
  OBVIOUS
<1>7. \A q \in DOMAIN memory : memory[q].kind # "elements" => memory'[q] = memory[q]
  BY <1>2, <1>4
<1>8. \A q \in Address : Live(q)' = Live(q)
  BY DEF Live
<1>9. \A q \in Address : There(q)'
  BY <1>4, <1>6, <1>7, <1>8 DEF HeapIInv, There
<1>10. ASSUME NEW q \in DOMAIN expected
       PROVE  IsArray(q)' /\ Data(q)' = expected'[q] /\ memory'[q] = memory[q]
  <2>1. TracedArray(q)
    BY TracedArrayHolds
  <2>2. memory'[q] = memory[q] /\ IsArray(q)'
    BY <1>4, <1>7, <2>1 DEF TracedArray, IsArray
  <2>3. CASE q = o
    BY <1>4, <1>6, <2>2, <2>3 DEF Data, e
  <2>4. CASE q # o
    <3>1. memory[q].array # e
      BY <1>1, <1>2, <2>1, <2>4 DEF TracedArray, Whole, Shares, e
    <3>2. Data(q)' = Data(q)
      BY <1>4, <2>1, <2>2, <3>1 DEF Data, TracedArray
    <3>. QED
      BY <1>6, <2>1, <2>2, <2>4, <3>2 DEF TracedArray
  <2>. QED
    BY <2>2, <2>3, <2>4
<1>11. \A q \in DOMAIN expected' : Right(q)'
  BY <1>6, <1>10 DEF Right
<1>12. \A p \in pointers' : Into(p)'
  BY <1>6, <1>10 DEF HeapIInv, Into
<1>13. refs' \in [Address -> Reference]
  BY DEF HeapIInv
<1>. QED
  BY <1>5, <1>9, <1>11, <1>12, <1>13, NoRegionIsRight DEF HeapIInv

(* One element, through the array or through a pointer.                    *)
LEMMA ElementWritten ==
  ASSUME HeapIInv, NEW o \in DOMAIN expected, NEW i \in Int, Inside(o, i), NEW v \in Value,
         memory' = [memory EXCEPT ![memory[o].array].data[i + 1] = v],
         expected' = [expected EXCEPT ![o][i + 1] = v],
         region' = NoRegion, UNCHANGED <<refs, pointers, astray>>
  PROVE  HeapIInv'
<1>. DEFINE data == [Data(o) EXCEPT ![i + 1] = v]
<1>1. TracedArray(o)
  BY TracedArrayHolds
<1>2. data \in Seq(Cell)
  BY <1>1 DEF TracedArray, Inside, GetArrayLength, Cell
<1>3. memory' = [memory EXCEPT ![memory[o].array].data = data]
  BY <1>1 DEF TracedArray, Data
<1>4. expected' = [expected EXCEPT ![o] = data]
  BY <1>1 DEF TracedArray
<1>5. astray' \in BOOLEAN
  BY DEF HeapIInv
<1>. HIDE DEF data
<1>. QED
  BY <1>2, <1>3, <1>4, <1>5, CellsWritten

(* Nothing but what is copied changes, and that is what was stored.        *)
LEMMA NothingWritten ==
  ASSUME HeapIInv, UNCHANGED <<memory, refs, pointers, expected>>,
         Copied(region'), astray' \in BOOLEAN
  PROVE  HeapIInv'
BY DEF HeapIInv, There, Right, Into, Live, IsArray, Data

(* A call through a stale reference, a write through a stale pointer.      *)
LEMMA StrayKeeps ==
  ASSUME HeapIInv,
         \/ \E o \in Address : StrayCall(o)
         \/ \E p \in pointers : WriteThroughStale(p)
  PROVE  HeapIInv'
BY NothingWritten, NoRegionIsRight DEF StrayCall, WriteThroughStale

(* SetObjectArrayElement, within the array or not.                         *)
LEMMA SetElementKeeps ==
  ASSUME HeapIInv, NEW o \in LiveArrays, NEW i \in Int, NEW v \in Value,
         SetObjectArrayElement(o, i, v)
  PROVE  HeapIInv'
<1>1. CASE Inside(o, i)
  BY <1>1, LiveArrayIsTraced, ElementWritten DEF SetObjectArrayElement
<1>2. CASE ~ Inside(o, i)
  <2>1. UNCHANGED <<memory, refs, pointers, expected>> /\ region' = NoRegion /\ astray' = astray
    BY <1>2 DEF SetObjectArrayElement
  <2>. QED
    BY <2>1, NothingWritten, NoRegionIsRight DEF HeapIInv
<1>. QED
  BY <1>1, <1>2

(* A write through a pointer that GetArrayElements gave.                   *)
LEMMA WriteThroughKeeps ==
  ASSUME HeapIInv, NEW p \in pointers, NEW i \in Int, NEW v \in Value, WriteThrough(p, i, v)
  PROVE  HeapIInv'
<1>1. p.of \in DOMAIN expected /\ p.at = memory[p.of].array
  BY DEF HeapIInv, Into, WriteThrough
<1>. QED
  BY <1>1, ElementWritten DEF WriteThrough

(* Regions.  What SetArrayRegion's loop writes is the array with a piece   *)
(* laid over it.                                                           *)
LEMMA OverlayIsWritten ==
  ASSUME NEW s \in Seq(Cell), NEW start \in Nat, NEW length \in Nat, start + length <= Len(s),
         NEW v \in Value
  PROVE  /\ Overlay(s, start, length, v) = RegionWritten(s, start, length, v)
         /\ RegionWritten(s, start, length, v) \in Seq(Cell)
<1>. DEFINE a == SubSeq(s, 1, start)
            b == Filled(length, v)
            c == SubSeq(s, start + length + 1, Len(s))
            w == RegionWritten(s, start, length, v)
            h == a \o b
            l == h \o c
<1>1. a \in Seq(Cell) /\ Len(a) = start /\ \A i \in 1..start : a[i] = s[i]
  OBVIOUS
<1>2. b \in Seq(Cell) /\ Len(b) = length /\ \A i \in 1..length : b[i] = v
  BY DEF Filled, Cell
<1>3. /\ c \in Seq(Cell) /\ Len(c) = Len(s) - (start + length)
      /\ \A i \in 1..(Len(s) - (start + length)) : c[i] = s[start + length + i]
  OBVIOUS
<1>4. w \in Seq(Cell) /\ Len(w) = Len(s)
      /\ \A i \in 1..Len(s) : w[i] = IF i \in (start + 1)..(start + length) THEN v ELSE s[i]
  BY SMTT(60) DEF RegionWritten, Cell
<1>. HIDE DEF a, b, c
<1>5. h \in Seq(Cell) /\ Len(h) = start + length
      /\ \A i \in 1..(start + length) : h[i] = IF i <= start THEN a[i] ELSE b[i - start]
  BY ONLY <1>1, <1>2, start \in Nat, length \in Nat, SMTT(40)
<1>. HIDE DEF h
<1>6. /\ l \in Seq(Cell) /\ Len(l) = Len(s)
      /\ \A i \in 1..Len(s) : l[i] = IF i <= start + length THEN h[i] ELSE c[i - (start + length)]
  BY <1>3, <1>5
<1>. HIDE DEF l, w
<1>7. ASSUME NEW i \in 1..Len(s) PROVE l[i] = w[i]
  <2>1. CASE i <= start
    <3>1. l[i] = h[i] /\ h[i] = a[i] /\ a[i] = s[i]
      BY <1>1, <1>5, <1>6, <2>1
    <3>. QED
      BY <1>4, <2>1, <3>1
  <2>2. CASE start < i /\ i <= start + length
    <3>1. i - start \in 1..length /\ i \in 1..(start + length) /\ i \in (start + 1)..(start + length)
      BY <2>2
    <3>2. l[i] = h[i]
      BY <1>6, <2>2
    <3>3. h[i] = b[i - start]
      BY <1>5, <2>2, <3>1
    <3>4. b[i - start] = v /\ w[i] = v
      BY <1>2, <1>4, <3>1
    <3>. QED
      BY <3>2, <3>3, <3>4
  <2>3. CASE start + length < i
    <3>. DEFINE j == i - (start + length)
    <3>1. /\ j \in 1..(Len(s) - (start + length)) /\ start + length + j = i
          /\ i \notin (start + 1)..(start + length) /\ ~ (i <= start + length)
      BY <2>3
    <3>2. l[i] = c[j]
      BY <1>6, <3>1
    <3>. HIDE DEF j
    <3>3. c[j] = s[i]
      BY <1>3, <3>1
    <3>4. w[i] = s[i]
      BY <1>4, <3>1
    <3>. QED
      BY <3>2, <3>3, <3>4
  <2>. QED
    BY <2>1, <2>2, <2>3
<1>8. l = w
  BY <1>4, <1>6, <1>7, SeqEqual
<1>. QED
  BY <1>4, <1>8 DEF Overlay, l, h, a, b, c, w

(* SetArrayRegion, within the array or not.                                *)
LEMMA RegionSet ==
  ASSUME HeapIInv, NEW o \in LiveArrays, NEW start \in Int, NEW length \in Int, NEW v \in Value,
         SetArrayRegion(o, start, length, v)
  PROVE  HeapIInv'
<1>1. o \in DOMAIN expected /\ TracedArray(o)
  BY LiveArrayIsTraced, TracedArrayHolds
<1>2. region' = NoRegion /\ UNCHANGED <<refs, pointers>> /\ astray' \in BOOLEAN
  BY DEF SetArrayRegion
<1>3. CASE ~ (Ends(o, start, length) /\ ~ Refused(o, start, length))
  <2>1. UNCHANGED <<memory, expected>>
    BY <1>3 DEF SetArrayRegion
  <2>. QED
    BY <1>2, <2>1, NothingWritten, NoRegionIsRight
<1>4. CASE Ends(o, start, length) /\ ~ Refused(o, start, length)
  <2>. DEFINE data == RegionWritten(Data(o), start, length, v)
  <2>1. start \in Nat /\ length \in Nat /\ start + length <= Len(Data(o))
    BY <1>4 DEF Ends, Refused, GetArrayLength
  <2>2. data = Overlay(Data(o), start, length, v) /\ data \in Seq(Cell)
    BY <1>1, <2>1, OverlayIsWritten DEF TracedArray
  <2>3. memory' = [memory EXCEPT ![memory[o].array].data = data]
    BY <1>1, <1>4 DEF SetArrayRegion, TracedArray, Data
  <2>4. expected' = [expected EXCEPT ![o] = Overlay(expected[o], start, length, v)]
    BY <1>4 DEF SetArrayRegion
  <2>. HIDE DEF data
  <2>5. expected' = [expected EXCEPT ![o] = data]
    BY <1>1, <2>2, <2>4 DEF TracedArray
  <2>. QED
    BY <1>1, <1>2, <2>2, <2>3, <2>5, CellsWritten
<1>. QED
  BY <1>3, <1>4

(* GetObjectArrayElement gives what is stored.                             *)
LEMMA GetElementKeeps ==
  ASSUME HeapIInv, NEW o \in LiveArrays, NEW i, GetObjectArrayElement(o, i)
  PROVE  HeapIInv'
<1>1. expected[o] = Data(o)
  BY LiveArrayIsTraced, TracedArrayHolds DEF TracedArray
<1>2. UNCHANGED <<memory, refs, pointers, expected>> /\ astray' \in BOOLEAN
  BY DEF GetObjectArrayElement, HeapIInv
<1>3. Copied(region')
  <2>. DEFINE right == Data(o)[i + 1] = expected[o][i + 1]
  <2>1. right
    BY <1>1
  <2>2. region' = IF Inside(o, i) THEN [copied |-> "inside", right |-> right] ELSE NoRegion
    BY DEF GetObjectArrayElement
  <2>. HIDE DEF right
  <2>3. CASE Inside(o, i)
    BY <2>1, <2>2, <2>3 DEF Copied
  <2>. QED
    BY <2>2, <2>3, NoRegionIsRight
<1>. QED
  BY <1>2, <1>3, NothingWritten

(* GetArrayRegion gives what is stored in the part of the array it covers. *)
LEMMA GetRegionKeeps ==
  ASSUME HeapIInv, NEW o \in LiveArrays, NEW start, NEW length, GetArrayRegion(o, start, length)
  PROVE  HeapIInv'
<1>1. expected[o] = Data(o)
  BY LiveArrayIsTraced, TracedArrayHolds DEF TracedArray
<1>2. UNCHANGED <<memory, refs, pointers, expected>> /\ astray' \in BOOLEAN
  BY DEF GetArrayRegion
<1>3. Copied(region')
  <2>. DEFINE right == Slice(Data(o), start, length) = Slice(expected[o], start, length)
              copied == IF Ends(o, start, length) THEN "inside" ELSE "past"
  <2>1. right /\ copied \in {"inside", "past"}
    BY <1>1
  <2>2. region' = IF CopiesNothing(o, start, length) \/ length < 0 THEN NoRegion
                  ELSE [copied |-> copied, right |-> right]
    BY DEF GetArrayRegion
  <2>. HIDE DEF right, copied
  <2>3. CASE region' = [copied |-> copied, right |-> right]
    BY <2>1, <2>3 DEF Copied
  <2>. QED
    BY <2>2, <2>3, NoRegionIsRight
<1>. QED
  BY <1>2, <1>3, NothingWritten

(* Pointers to elements come and go.                                       *)
LEMMA PointersKeep ==
  ASSUME HeapIInv,
         \/ \E o \in LiveArrays : GetArrayElements(o)
         \/ \E p \in pointers : ReleaseArrayElements(p)
  PROVE  HeapIInv'
<1>1. UNCHANGED <<memory, refs, expected, astray>> /\ region' = NoRegion
  BY DEF GetArrayElements, ReleaseArrayElements
<1>2. ASSUME NEW p \in pointers'
      PROVE  p \in pointers \/ (p.of \in DOMAIN expected /\ p.at = memory[p.of].array)
  BY LiveArrayIsTraced DEF GetArrayElements, ReleaseArrayElements
<1>3. \A p \in pointers' : Into(p)'
  BY <1>1, <1>2 DEF HeapIInv, Into
<1>. QED
  BY <1>1, <1>3, NoRegionIsRight DEF HeapIInv, There, Right, Live, IsArray, Data

(* Both kinds of arrays.                                                   *)
LEMMA NewArraysKeep ==
  ASSUME HeapIInv, NEW n \in Length,
         \/ \E t \in Type \ {"object"} : NewPrimitiveArray(t, n)
         \/ \E v \in Value : NewObjectArray(n, v)
  PROVE  HeapIInv'
<1>1. n \in Int /\ "object" \in Type /\ Junk \in Cell
  BY HeapAssumption DEF Cell
<1>2. ASSUME NEW t \in Type \ {"object"}, NewPrimitiveArray(t, n) PROVE HeapIInv'
  <2>1. PICK r \in IF n < 0 THEN {Allocated(memory, Null)} ELSE JdaAlloc(memory, t, Filled(n, Junk)) :
          Give(r, Filled(n, Junk))
    BY <1>2 DEF NewPrimitiveArray
  <2>. QED
    BY <1>1, <2>1, NewArrayKeeps
<1>3. ASSUME NEW v \in Value, NewObjectArray(n, v) PROVE HeapIInv'
  <2>1. PICK r \in IF n < 0 THEN {Allocated(memory, Null)} ELSE JdaAlloc(memory, "object", Filled(n, v)) :
          Give(r, Filled(n, v))
    BY <1>3 DEF NewObjectArray
  <2>2. v \in Cell
    BY DEF Cell
  <2>. QED
    BY <1>1, <2>1, <2>2, NewArrayKeeps
<1>. QED
  BY <1>2, <1>3

(* Every call keeps the invariant.                                         *)
LEMMA HeapStep ==
  ASSUME HeapIInv, [HeapNext]_heapVars
  PROVE  HeapIInv'
<1>. USE HeapAssumption
<1>1. ASSUME NEW n \in Length,
             \/ \E t \in Type \ {"object"} : NewPrimitiveArray(t, n)
             \/ \E v \in Value : NewObjectArray(n, v)
      PROVE  HeapIInv'
  BY <1>1, NewArraysKeep
<1>2. CASE FindClass \/ MakeStringUTF \/ MakeString
  BY <1>2, FindClassKeeps, MakeStringUTFKeeps, MakeStringKeeps
<1>3. ASSUME NEW o \in Address,
             NewGlobalRef(o) \/ NewLocalRef(o) \/ DeleteLocalRef(o) \/ DeleteGlobalRef(o)
      PROVE  HeapIInv'
  BY <1>3, RefTaken, LocalRefGivenUp, GlobalRefGivenUp
<1>4. ASSUME NEW o \in LiveArrays, NEW i \in Index, GetObjectArrayElement(o, i) PROVE HeapIInv'
  BY <1>4, GetElementKeeps
<1>5. ASSUME NEW o \in LiveArrays, NEW i \in Index, NEW v \in Value, SetObjectArrayElement(o, i, v)
      PROVE  HeapIInv'
  BY <1>5, SetElementKeeps
<1>6. ASSUME NEW o \in LiveArrays, NEW i \in Index, NEW n \in Index, GetArrayRegion(o, i, n)
      PROVE  HeapIInv'
  BY <1>6, GetRegionKeeps
<1>7. ASSUME NEW o \in LiveArrays, NEW i \in Index, NEW n \in Index, NEW v \in Value,
             SetArrayRegion(o, i, n, v)
      PROVE  HeapIInv'
  BY <1>7, RegionSet
<1>8. ASSUME NEW p \in pointers, NEW i \in Index, NEW v \in Value, WriteThrough(p, i, v)
      PROVE  HeapIInv'
  BY <1>8, WriteThroughKeeps
<1>9. CASE \/ \E o \in LiveArrays : GetArrayElements(o)
           \/ \E p \in pointers : ReleaseArrayElements(p)
  BY <1>9, PointersKeep
<1>10. CASE \/ \E o \in Address : StrayCall(o)
            \/ \E p \in pointers : WriteThroughStale(p)
  BY <1>10, StrayKeeps
<1>11. CASE UNCHANGED heapVars
  <2>1. UNCHANGED <<memory, refs, pointers, region, expected, astray>>
    BY <1>11 DEF heapVars
  <2>. QED
    BY <2>1, NothingWritten DEF HeapIInv
<1>. QED
  BY <1>1, <1>2, <1>3, <1>4, <1>5, <1>6, <1>7, <1>8, <1>9, <1>10, <1>11 DEF HeapNext

(* What a whole memory and its references come to.                         *)
LEMMA WholeIsTyped ==
  ASSUME HeapIInv
  PROVE  HeapTypeOK
<1>1. ASSUME NEW a \in DOMAIN memory
      PROVE  CASE memory[a].kind = "elements" ->
                    LET cells == DOMAIN memory[a].data IN
                    cells = 1..Cardinality(cells) /\ Range(memory[a].data) \subseteq Cell
               [] memory[a].kind = "array" -> memory[a].array \in Address
               [] memory[a].kind = "string" -> {memory[a].utf8, memory[a].utf16} \subseteq Address \cup {Null}
               [] OTHER -> memory[a].kind = "class"
  <2>1. memory[a] \in Block
    BY DEF HeapIInv, Whole, Blocks
  <2>2. CASE memory[a] \in [kind : {"elements"}, data : Seq(Cell)]
    <3>. DEFINE d == memory[a].data
    <3>1. d \in Seq(Cell) /\ memory[a].kind = "elements"
      BY <2>2
    <3>. HIDE DEF d
    <3>2. DOMAIN d = 1..Len(d) /\ Len(d) \in Nat /\ \A i \in DOMAIN d : d[i] \in Cell
      BY <3>1
    <3>3. Cardinality(1..Len(d)) = Len(d)
      <4>1. Len(d) \in Int /\ 1 \in Int
        BY <3>2
      <4>2. Cardinality(1..Len(d)) = IF 1 > Len(d) THEN 0 ELSE Len(d) - 1 + 1
        BY ONLY <4>1, FS_Interval
      <4>. QED
        BY <3>2, <4>2
    <3>4. DOMAIN d = 1..Cardinality(DOMAIN d)
      BY <3>2, <3>3
    <3>5. Range(d) \subseteq Cell
      BY <3>2 DEF Range
    <3>6. LET cells == DOMAIN memory[a].data IN
          cells = 1..Cardinality(cells) /\ Range(memory[a].data) \subseteq Cell
      BY <3>4, <3>5 DEF d
    <3>. QED
      BY <3>1, <3>6
  <2>3. CASE memory[a] \in [kind : {"array"}, type : Type \cup {"byte", "char"}, array : Address]
    BY <2>3
  <2>4. CASE memory[a] \in [kind : {"string"}, utf8 : Address \cup {Null}, utf16 : Address \cup {Null}]
    BY <2>4
  <2>5. CASE memory[a] \in [kind : {"class"}]
    BY <2>5
  <2>. QED
    BY <2>1, <2>2, <2>3, <2>4, <2>5 DEF Block
<1>2. LiveArrays \subseteq DOMAIN expected /\ \A o \in DOMAIN expected : IsArray(o)
  BY LiveArrayIsTraced DEF HeapIInv, Right
<1>. QED
  BY <1>1, <1>2 DEF HeapIInv, HeapTypeOK, Whole, Blocks, Copied

(* What it says of elements: each block belongs to one array.              *)
LEMMA ElementsAreOwned ==
  ASSUME HeapIInv
  PROVE  ElementsOwned
<1>. SUFFICES ASSUME NEW e \in DOMAIN memory, memory[e].kind = "elements"
              PROVE  Cardinality({a \in DOMAIN memory : memory[a].kind = "array" /\ memory[a].array = e}) = 1
  BY DEF ElementsOwned
<1>1. PICK b \in DOMAIN memory : memory[b].kind = "array" /\ memory[b].array = e
  BY DEF HeapIInv, Whole, Owns
<1>2. \A a \in DOMAIN memory : memory[a].kind = "array" /\ memory[a].array = e => a = b
  BY <1>1 DEF HeapIInv, Whole, Shares
<1>3. {a \in DOMAIN memory : memory[a].kind = "array" /\ memory[a].array = e} = {b}
  BY <1>1, <1>2
<1>. QED
  BY <1>3, FS_Singleton

(* What it says of pointers: each leads to the elements of its array,      *)
(* unless that is freed.                                                   *)
LEMMA PointersAreRight ==
  ASSUME HeapIInv
  PROVE  PointersLead
<1>. SUFFICES ASSUME NEW p \in pointers, p.of # Null
              PROVE  IsArray(p.of) /\ memory[p.of].array = p.at /\ p.at \in DOMAIN memory
  BY DEF PointersLead
<1>1. p.of \in DOMAIN expected /\ p.at = memory[p.of].array
  BY DEF HeapIInv, Into
<1>2. TracedArray(p.of)
  BY <1>1, TracedArrayHolds
<1>. QED
  BY <1>1, <1>2 DEF TracedArray, IsArray

(* However Caustic makes, reads, writes and deletes its objects, however   *)
(* many references it holds to them, and whichever allocations fail: until *)
(* it uses a stale reference or leaves an array, what its live references  *)
(* lead to is there and has its own elements, no block of elements is left *)
(* behind or shared, and an element is what was last stored in it by       *)
(* whatever way.                                                           *)
THEOREM HeapInOrder == HeapSpec => []HeapInv
<1>1. HeapSpec => []HeapIInv
  BY HeapStarts, HeapStep, PTL DEF HeapSpec
<1>2. HeapIInv => HeapInv
  <2>1. HeapIInv => LiveRefsUsable /\ ReadsWhatWasStored
    BY DEF HeapIInv, There, Right, Copied, LiveRefsUsable, ReadsWhatWasStored
  <2>. QED
    BY <2>1, WholeIsTyped, ElementsAreOwned, PointersAreRight DEF HeapInv
<1>. QED
  BY <1>1, <1>2, PTL

-----------------------------------------------------------------------------
(* The converter: one character. What encode_utf8 and encode_utf16 write,  *)
(* decode_utf8 and decode_utf16 read, and whatever else those are given    *)
(* they read as damage; characters are written with arithmetic, so that    *)
(* they can be compared.                                                   *)

(* A Unicode scalar value.                                                 *)
Scalar(c) == c \in Nat /\ c <= UnicodeMax /\ c \notin Surrogates
(* piece is in s behind its first i places                                 *)
Sits(piece, s, i) ==
  /\ i + Len(piece) <= Len(s)
  /\ \A k \in 1..Len(piece) : s[i + k] = piece[k]

(* The scalars, by their bounds.                                           *)
LEMMA ScalarIs ==
  ASSUME NEW c
  PROVE  Scalar(c) <=> c \in Nat /\ c <= 1114111 /\ (c < 55296 \/ c > 57343)
<1>. DEFINE lo == 55296 hi == 57343
<1>1. Surrogates = lo..hi
  BY SMT DEF Surrogates
<1>2. lo \in Int /\ hi \in Int
  BY SMT
<1>. HIDE DEF lo, hi
<1>3. c \in Surrogates <=> c \in Int /\ lo <= c /\ c <= hi
  BY <1>1, <1>2
<1>4. Scalar(c) <=> c \in Nat /\ c <= 1114111 /\ ~(lo <= c /\ c <= hi)
  BY <1>3, SMT DEF Scalar, UnicodeMax
<1>. QED
  BY <1>4, SMT DEF lo, hi

(* Dividing undoes the shifts that the encoders make.                      *)
LEMMA Quotients ==
  ASSUME NEW q \in Nat, NEW r \in Nat
  PROVE  /\ r < 64 => (q * 64 + r) \div 64 = q /\ (q * 64 + r) % 64 = r
         /\ r < 1024 => (q * 1024 + r) \div 1024 = q /\ (q * 1024 + r) % 1024 = r
         /\ r < 4096 => (q * 4096 + r) \div 4096 = q
         /\ r < 262144 => (q * 262144 + r) \div 262144 = q
  BY SMT

(* A number is its last six bits and what is before them.                  *)
LEMMA LastSix ==
  ASSUME NEW c \in Nat
  PROVE  \E q, z \in Nat : z < 64 /\ c = 64 * q + z
<1>1. c \div 64 \in Nat /\ c % 64 \in Nat /\ c % 64 < 64 /\ c = 64 * (c \div 64) + (c % 64)
  BY SMT
<1>. DEFINE q == c \div 64
            z == c % 64
<1>. HIDE DEF q, z
<1>2. q \in Nat /\ z \in Nat /\ z < 64 /\ c = 64 * q + z
  BY <1>1 DEF q, z
<1>. QED
  BY <1>2

(* A continuation byte carries its six bits.                               *)
LEMMA Marks ==
  ASSUME NEW z \in Nat, z < 64
  PROVE  /\ (128 + z) % 64 = z
         /\ 128 + z \in Continuations
  BY SMT DEF Continuations

(* The codepoints that two, three and four bytes give.                     *)
Of2(x, z) == 64 * x + z
Of3(x, y, z) == 4096 * x + 64 * y + z
Of4(w, x, y, z) == 262144 * w + 4096 * x + 64 * y + z

(* What the four forms of encode_utf8 write.                               *)
LEMMA EncodeOf1 ==
  ASSUME NEW c \in Nat, c < 128
  PROVE  EncodeUtf8(c) = <<c>>
  BY SMT DEF EncodeUtf8, CalculateUtf8Len, LeadingValue

(* Two bytes.                                                              *)
LEMMA EncodeOf2 ==
  ASSUME NEW x \in Nat, NEW z \in Nat, 1 < x, x < 32, z < 64
  PROVE  EncodeUtf8(Of2(x, z)) = <<192 + x, 128 + z>>
<1>. DEFINE c == Of2(x, z)
<1>1. c \in Nat /\ c > 127 /\ c <= 2047 /\ c = x * 64 + z
  BY SMT DEF Of2
<1>. HIDE DEF c
<1>2. c \div 64 = x /\ Continuation(c) = 128 + z
  BY <1>1, SMT DEF Continuation
<1>3. EncodeUtf8(c) = <<192 + x, 128 + z>>
  BY <1>1, <1>2, SMT DEF EncodeUtf8, CalculateUtf8Len, LeadingValue
<1>. QED
  BY <1>3 DEF c

(* Three bytes.                                                            *)
LEMMA EncodeOf3 ==
  ASSUME NEW x \in Nat, NEW y \in Nat, NEW z \in Nat, x < 16, y < 64, z < 64, Of3(x, y, z) > 2047
  PROVE  EncodeUtf8(Of3(x, y, z)) = <<224 + x, 128 + y, 128 + z>>
<1>. DEFINE c == Of3(x, y, z)
            d == 64 * x + y
            r == 64 * y + z
<1>1. c \in Nat /\ d \in Nat /\ r \in Nat /\ c <= 65535 /\ r < 4096
  BY SMT DEF Of3
<1>2. c = d * 64 + z /\ c = x * 4096 + r /\ d = x * 64 + y /\ c > 2047
  BY SMT DEF Of3
<1>. HIDE DEF c, d, r
<1>3. c \div 4096 = x /\ c \div 64 = d
  BY <1>1, <1>2, Quotients, SMT
<1>4. Continuation(c) = 128 + z
  BY <1>1, <1>2, SMT DEF Continuation
<1>5. Continuation(d) = 128 + y
  BY <1>1, <1>2, SMT DEF Continuation
<1>6. EncodeUtf8(c) = <<224 + x, 128 + y, 128 + z>>
  BY <1>1, <1>2, <1>3, <1>4, <1>5, SMT DEF EncodeUtf8, CalculateUtf8Len, LeadingValue
<1>. QED
  BY <1>6 DEF c

(* Four bytes.                                                             *)
LEMMA EncodeOf4 ==
  ASSUME NEW w \in Nat, NEW x \in Nat, NEW y \in Nat, NEW z \in Nat, w < 8, x < 64, y < 64, z < 64, Of4(w, x, y, z) > 65535
  PROVE  EncodeUtf8(Of4(w, x, y, z)) = <<240 + w, 128 + x, 128 + y, 128 + z>>
<1>. DEFINE c == Of4(w, x, y, z)
            d == 4096 * w + 64 * x + y
            e == 64 * w + x
            r == 4096 * x + 64 * y + z
            t == 64 * y + z
<1>1. c \in Nat /\ d \in Nat /\ e \in Nat /\ r \in Nat /\ t \in Nat /\ r < 262144 /\ t < 4096
  BY SMT DEF Of4
<1>2. c = d * 64 + z /\ c = e * 4096 + t /\ c = w * 262144 + r /\ d = e * 64 + y /\ e = w * 64 + x
  BY SMT DEF Of4
<1>. HIDE DEF c, d, e, r, t
<1>3. c \div 262144 = w /\ c \div 4096 = e /\ c \div 64 = d
  BY <1>1, <1>2, Quotients, SMT
<1>4. Continuation(c) = 128 + z
  BY <1>1, <1>2, SMT DEF Continuation
<1>5. Continuation(d) = 128 + y
  BY <1>1, <1>2, SMT DEF Continuation
<1>6. Continuation(e) = 128 + x
  BY <1>1, <1>2, SMT DEF Continuation
<1>7. c > 65535
  BY DEF c
<1>8. EncodeUtf8(c) = <<240 + w, 128 + x, 128 + y, 128 + z>>
  BY <1>1, <1>3, <1>4, <1>5, <1>6, <1>7, SMT DEF EncodeUtf8, CalculateUtf8Len, LeadingValue
<1>. QED
  BY <1>8 DEF c

(* A scalar value is one, two, three or four bytes.                        *)
LEMMA ScalarForms ==
  ASSUME NEW c, Scalar(c)
  PROVE  \/ c < 128
         \/ \E x, z \in Nat : 1 < x /\ x < 32 /\ z < 64 /\ c = Of2(x, z)
         \/ c > 2047 /\ \E x, y, z \in Nat : x < 16 /\ y < 64 /\ z < 64 /\ c = Of3(x, y, z)
         \/ c > 65535 /\ \E w, x, y, z \in Nat : w < 5 /\ x < 64 /\ y < 64 /\ z < 64 /\ c = Of4(w, x, y, z)
<1>1. c \in Nat /\ c <= 1114111
  BY ScalarIs, SMT
<1>2. PICK d \in Nat, z \in Nat : z < 64 /\ c = 64 * d + z
  BY <1>1, LastSix
<1>3. PICK e \in Nat, y \in Nat : y < 64 /\ d = 64 * e + y
  BY LastSix
<1>4. PICK w \in Nat, x \in Nat : x < 64 /\ e = 64 * w + x
  BY LastSix
<1>5. CASE c > 127 /\ c <= 2047
  <2>1. 1 < d /\ d < 32 /\ c = Of2(d, z)
    BY <1>1, <1>2, <1>5, SMT DEF Of2
  <2>. QED
    BY <1>2, <2>1, SMT
<1>6. CASE c > 2047 /\ c <= 65535
  <2>1. e < 16 /\ c = Of3(e, y, z)
    BY <1>1, <1>2, <1>3, <1>6, SMT DEF Of3
  <2>. QED
    BY <1>2, <1>3, <1>6, <2>1, SMT
<1>7. CASE c > 65535
  <2>1. w < 5 /\ c = Of4(w, x, y, z)
    BY <1>1, <1>2, <1>3, <1>4, <1>7, SMT DEF Of4
  <2>. QED
    BY <1>2, <1>3, <1>4, <1>7, <2>1, SMT
<1>. QED
  BY <1>1, <1>5, <1>6, <1>7, SMT

-----------------------------------------------------------------------------

(* The continuation bytes, by their bounds.                                *)
LEMMA ContinuationIs ==
  ASSUME NEW b
  PROVE  b \in Continuations <=> b \in Nat /\ 128 <= b /\ b <= 191
  BY SMT DEF Continuations

(* The length that a leading byte announces; none is 0.                    *)
SizeOf(b) ==
  IF b < 128 THEN 1
  ELSE IF b < 192 THEN 0 ELSE IF b < 224 THEN 2 ELSE IF b < 240 THEN 3 ELSE IF b < 248 THEN 4 ELSE 0

(* The leading bytes of each length, by their bounds.                      *)
LEMMA LeadsIs ==
  ASSUME NEW b \in Nat
  PROVE  /\ b \in LeadingBytes[1] <=> b < 128
         /\ b \in LeadingBytes[2] <=> 192 <= b /\ b < 224
         /\ b \in LeadingBytes[3] <=> 224 <= b /\ b < 240
         /\ b \in LeadingBytes[4] <=> 240 <= b /\ b < 248
<1>1. b \in LeadingBytes[1] <=> b < 128
  BY SMT DEF LeadingBytes
<1>2. b \in LeadingBytes[2] <=> 192 <= b /\ b < 224
  BY SMT DEF LeadingBytes
<1>3. b \in LeadingBytes[3] <=> 224 <= b /\ b < 240
  BY SMT DEF LeadingBytes
<1>4. b \in LeadingBytes[4] <=> 240 <= b /\ b < 248
  BY SMT DEF LeadingBytes
<1>. QED
  BY <1>1, <1>2, <1>3, <1>4

(* A byte leads at most one length.                                        *)
LEMMA Sizes ==
  ASSUME NEW b \in Nat
  PROVE  {n \in 1..4 : b \in LeadingBytes[n]} = IF SizeOf(b) = 0 THEN {} ELSE {SizeOf(b)}
<1>. DEFINE In(n) == b \in LeadingBytes[n]
<1>1. /\ In(1) <=> b < 128
      /\ In(2) <=> 192 <= b /\ b < 224
      /\ In(3) <=> 224 <= b /\ b < 240
      /\ In(4) <=> 240 <= b /\ b < 248
  BY LeadsIs
<1>. HIDE DEF In
<1>2. SizeOf(b) \in 0..4 /\ \A n \in 1..4 : In(n) <=> n = SizeOf(b)
  BY <1>1, SMT DEF SizeOf
<1>3. {n \in 1..4 : In(n)} = IF SizeOf(b) = 0 THEN {} ELSE {SizeOf(b)}
  BY <1>2, SMT
<1>. QED
  BY <1>3 DEF In

(* The bytes of a character of n are there, behind the first i.            *)
Tailed(s, i, n) ==
  /\ i + n <= Len(s)
  /\ \A k \in 1..(n - 1) : s[i + 1 + k] \in Continuations

(* Present counts the whole character when its tail is there, and less     *)
(* otherwise.                                                              *)
LEMMA PresentIs ==
  ASSUME NEW s, Len(s) \in Nat, NEW i \in Nat, i < Len(s), NEW n \in 1..4
  PROVE  /\ Tailed(s, i, n) => Present(s, i + 1, n) = n
         /\ ~ Tailed(s, i, n) =>
              /\ Present(s, i + 1, n) \in 1..(n - 1)
              /\ i + Present(s, i + 1, n) <= Len(s)
<1>. DEFINE ends == {k \in 1..(n - 1) : i + 1 + k > Len(s) \/ s[i + 1 + k] \notin Continuations}
            p == Present(s, i + 1, n)
<1>1. p = IF ends = {} THEN n ELSE CHOOSE k \in ends : \A j \in ends : k <= j
  BY DEF Present
<1>2. \A k \in 1..(n - 1) : k \notin ends <=> i + 1 + k <= Len(s) /\ s[i + 1 + k] \in Continuations
  <2>. SUFFICES ASSUME NEW k \in 1..(n - 1)
                PROVE  k \notin ends <=> i + 1 + k <= Len(s) /\ s[i + 1 + k] \in Continuations
    OBVIOUS
  <2>1. i + 1 + k \in Nat
    OBVIOUS
  <2>. QED
    BY <2>1
<1>3. ends \in SUBSET Nat /\ ends \subseteq 1..(n - 1)
  OBVIOUS
<1>. HIDE DEF ends, p
<1>4. ends = {} <=> Tailed(s, i, n)
  <2>1. ends = {} <=> \A k \in 1..(n - 1) : i + 1 + k <= Len(s) /\ s[i + 1 + k] \in Continuations
    BY <1>2, <1>3
  <2>2. ASSUME ends = {} PROVE i + n <= Len(s)
    <3>1. n # 1 => i + 1 + (n - 1) <= Len(s)
      BY <2>1, <2>2
    <3>. QED
      BY <3>1
  <2>3. ASSUME i + n <= Len(s), NEW k \in 1..(n - 1) PROVE i + 1 + k <= Len(s)
    BY <2>3
  <2>. QED
    BY <2>1, <2>2, <2>3 DEF Tailed
<1>5. ASSUME ends # {} PROVE p \in 1..(n - 1) /\ i + p <= Len(s)
  <2>1. \E k \in ends : \A j \in ends : k <= j
    BY <1>3, <1>5, FirstExists
  <2>2. p \in ends /\ \A j \in ends : p <= j
    BY <1>1, <1>5, <2>1
  <2>3. p \in 1..(n - 1)
    BY <1>3, <2>2
  <2>4. p = 1 \/ (p - 1 \in 1..(n - 1) /\ p - 1 \notin ends)
    BY <2>2, <2>3, SMT
  <2>. QED
    BY <1>2, <2>3, <2>4, SMT
<1>. QED
  BY <1>1, <1>4, <1>5 DEF p

(* The three ways decode_utf8 goes: no leading byte, a whole character,    *)
(* one cut short.                                                          *)
LEMMA DecodeUtf8Is ==
  ASSUME NEW s, Len(s) \in Nat, NEW i \in Nat, i < Len(s), s[i + 1] \in Nat,
         NEW n, n = SizeOf(s[i + 1])
  PROVE  /\ n \in 0..4
         /\ n = 0 => DecodeUtf8(s, i + 1) = Invalid(1)
         /\ n # 0 /\ Tailed(s, i, n) =>
              DecodeUtf8(s, i + 1) =
                IF Acceptable(Assembled(s, i + 1, n), n) THEN Decoded(Assembled(s, i + 1, n), n) ELSE Invalid(n)
         /\ n # 0 /\ ~ Tailed(s, i, n) =>
              \E m \in 1..(n - 1) : i + m <= Len(s) /\ DecodeUtf8(s, i + 1) = Invalid(m)
<1>1. n \in 0..4
  BY SMT DEF SizeOf
<1>2. {m \in 1..4 : s[i + 1] \in LeadingBytes[m]} = IF n = 0 THEN {} ELSE {n}
  BY Sizes
<1>3. DecodeUtf8(s, i + 1) =
        IF n = 0 THEN Invalid(1)
        ELSE IF Present(s, i + 1, n) < n THEN Invalid(Present(s, i + 1, n))
        ELSE IF Acceptable(Assembled(s, i + 1, n), n) THEN Decoded(Assembled(s, i + 1, n), n) ELSE Invalid(n)
  <2>1. n # 0 => (CHOOSE m \in {n} : TRUE) = n
    OBVIOUS
  <2>. QED
    BY <1>2, <2>1 DEF DecodeUtf8
<1>4. ASSUME n # 0, Tailed(s, i, n)
      PROVE  ~ (Present(s, i + 1, n) < n)
  BY <1>1, <1>4, PresentIs, SMT
<1>5. ASSUME n # 0, ~ Tailed(s, i, n)
      PROVE  /\ Present(s, i + 1, n) < n
             /\ Present(s, i + 1, n) \in 1..(n - 1)
             /\ i + Present(s, i + 1, n) <= Len(s)
  BY <1>1, <1>5, PresentIs, SMT
<1>. QED
  BY <1>1, <1>3, <1>4, <1>5

-----------------------------------------------------------------------------

(* Which codepoints take how many bytes.                                   *)
LEMMA LengthOfUtf8 ==
  ASSUME NEW c \in Nat
  PROVE  /\ CalculateUtf8Len(c) = 1 <=> c < 128
         /\ CalculateUtf8Len(c) = 2 <=> 127 < c /\ c < 2048
         /\ CalculateUtf8Len(c) = 3 <=> 2047 < c /\ c < 65536
         /\ CalculateUtf8Len(c) = 4 <=> 65535 < c
         /\ CalculateUtf8Len(c) \in 1..4
  BY SMT DEF CalculateUtf8Len

(* What is not below a mark is the mark and something.                     *)
LEMMA Offset ==
  ASSUME NEW b \in Nat
  PROVE  /\ 128 <= b => \E x \in Nat : b = 128 + x
         /\ 192 <= b => \E x \in Nat : b = 192 + x
         /\ 224 <= b => \E x \in Nat : b = 224 + x
         /\ 240 <= b => \E x \in Nat : b = 240 + x
<1>1. ASSUME NEW m \in Nat, m <= b PROVE \E x \in Nat : b = m + x
  <2>1. b - m \in Nat /\ b = m + (b - m)
    BY <1>1
  <2>. QED
    BY <2>1
<1>. QED
  BY <1>1, SMT

(* A piece of one, of two, of three, of four, element by element.          *)
LEMMA SitsOf1 ==
  ASSUME NEW s, Len(s) \in Nat, NEW i \in Nat, NEW a
  PROVE  /\ Len(<<a>>) = 1
         /\ Sits(<<a>>, s, i) <=> i + 1 <= Len(s) /\ s[i + 1] = a
<1>. DEFINE p == <<a>>
<1>1. Len(p) = 1 /\ p[1] = a
  OBVIOUS
<1>. HIDE DEF p
<1>2. Sits(p, s, i) <=> i + 1 <= Len(s) /\ \A k \in 1..1 : s[i + k] = p[k]
  BY <1>1 DEF Sits
<1>3. (\A k \in 1..1 : s[i + k] = p[k]) <=> s[i + 1] = p[1]
  BY 1..1 = {1}
<1>. QED
  BY <1>1, <1>2, <1>3 DEF p

(* Two.                                                                    *)
LEMMA SitsOf2 ==
  ASSUME NEW s, Len(s) \in Nat, NEW i \in Nat, NEW a, NEW b
  PROVE  /\ Len(<<a, b>>) = 2
         /\ Sits(<<a, b>>, s, i) <=> i + 2 <= Len(s) /\ s[i + 1] = a /\ s[i + 2] = b
<1>. DEFINE p == <<a, b>>
<1>1. Len(p) = 2 /\ p[1] = a /\ p[2] = b
  OBVIOUS
<1>. HIDE DEF p
<1>2. Sits(p, s, i) <=> i + 2 <= Len(s) /\ \A k \in 1..2 : s[i + k] = p[k]
  BY <1>1 DEF Sits
<1>3. (\A k \in 1..2 : s[i + k] = p[k]) <=> s[i + 1] = p[1] /\ s[i + 2] = p[2]
  BY 1..2 = {1, 2}
<1>. QED
  BY <1>1, <1>2, <1>3 DEF p

(* Three.                                                                  *)
LEMMA SitsOf3 ==
  ASSUME NEW s, Len(s) \in Nat, NEW i \in Nat, NEW a, NEW b, NEW d
  PROVE  /\ Len(<<a, b, d>>) = 3
         /\ Sits(<<a, b, d>>, s, i) <=> i + 3 <= Len(s) /\ s[i + 1] = a /\ s[i + 2] = b /\ s[i + 3] = d
<1>. DEFINE p == <<a, b, d>>
<1>1. Len(p) = 3 /\ p[1] = a /\ p[2] = b /\ p[3] = d
  OBVIOUS
<1>. HIDE DEF p
<1>2. Sits(p, s, i) <=> i + 3 <= Len(s) /\ \A k \in 1..3 : s[i + k] = p[k]
  BY <1>1 DEF Sits
<1>3. (\A k \in 1..3 : s[i + k] = p[k]) <=> s[i + 1] = p[1] /\ s[i + 2] = p[2] /\ s[i + 3] = p[3]
  BY 1..3 = {1, 2, 3}
<1>. QED
  BY <1>1, <1>2, <1>3 DEF p

(* Four.                                                                   *)
LEMMA SitsOf4 ==
  ASSUME NEW s, Len(s) \in Nat, NEW i \in Nat, NEW a, NEW b, NEW d, NEW e
  PROVE  /\ Len(<<a, b, d, e>>) = 4
         /\ Sits(<<a, b, d, e>>, s, i) <=> i + 4 <= Len(s) /\ s[i + 1] = a /\ s[i + 2] = b /\ s[i + 3] = d /\ s[i + 4] = e
<1>. DEFINE p == <<a, b, d, e>>
<1>1. Len(p) = 4 /\ p[1] = a /\ p[2] = b /\ p[3] = d /\ p[4] = e
  OBVIOUS
<1>. HIDE DEF p
<1>2. Sits(p, s, i) <=> i + 4 <= Len(s) /\ \A k \in 1..4 : s[i + k] = p[k]
  BY <1>1 DEF Sits
<1>3. (\A k \in 1..4 : s[i + k] = p[k]) <=> s[i + 1] = p[1] /\ s[i + 2] = p[2] /\ s[i + 3] = p[3] /\ s[i + 4] = p[4]
  BY 1..4 = {1, 2, 3, 4}
<1>. QED
  BY <1>1, <1>2, <1>3 DEF p

(* What its bits spell is what a character of the right length stands for. *)
LEMMA AssembledSits ==
  ASSUME NEW s, Len(s) \in Nat, NEW i \in Nat, i < Len(s), s[i + 1] \in Nat,
         NEW n, n = SizeOf(s[i + 1]), n # 0, Tailed(s, i, n),
         NEW c, c = Assembled(s, i + 1, n), CalculateUtf8Len(c) = n
  PROVE  c \in Nat /\ Sits(EncodeUtf8(c), s, i) /\ Len(EncodeUtf8(c)) = n
<1>1. CASE n = 1
  <2>1. s[i + 1] < 128 /\ c = s[i + 1]
    BY <1>1, SMT DEF SizeOf, Assembled, LeadingValue
  <2>2. EncodeUtf8(c) = <<c>>
    BY <2>1, EncodeOf1
  <2>. QED
    BY <1>1, <2>1, <2>2, SitsOf1, SMT
<1>2. CASE n = 2
  <2>1. s[i + 1] >= 192 /\ s[i + 1] < 224
    BY <1>2, SMT DEF SizeOf
  <2>2. s[i + 2] \in Nat /\ 128 <= s[i + 2] /\ s[i + 2] <= 191 /\ i + 2 <= Len(s)
    <3>1. s[i + 1 + 1] \in Continuations /\ i + 2 <= Len(s)
      BY <1>2 DEF Tailed
    <3>. QED
      BY <3>1, ContinuationIs
  <2>a. PICK x \in Nat : s[i + 1] = 192 + x
    BY <2>1, Offset
  <2>b. PICK z \in Nat : s[i + 2] = 128 + z
    BY <2>2, Offset
  <2>3. x < 32 /\ z < 64
    BY <2>1, <2>2, <2>a, <2>b, SMT
  <2>4. c = Of2(x, z)
    BY <1>2, <2>a, <2>b, <2>3, Marks, SMT DEF Assembled, LeadingValue, Of2
  <2>5. c \in Nat /\ 1 < x
    <3>1. c \in Nat
      BY <2>4, SMT DEF Of2
    <3>2. 127 < c
      BY <1>2, <3>1, LengthOfUtf8, SMT
    <3>. QED
      BY <2>3, <2>4, <3>1, <3>2, SMT DEF Of2
  <2>6. EncodeUtf8(c) = <<192 + x, 128 + z>>
    BY <2>3, <2>4, <2>5, EncodeOf2
  <2>. QED
    BY <1>2, <2>2, <2>a, <2>b, <2>5, <2>6, SitsOf2
<1>3. CASE n = 3
  <2>1. s[i + 1] >= 224 /\ s[i + 1] < 240
    BY <1>3, SMT DEF SizeOf
  <2>2. /\ s[i + 2] \in Nat /\ 128 <= s[i + 2] /\ s[i + 2] <= 191
        /\ s[i + 3] \in Nat /\ 128 <= s[i + 3] /\ s[i + 3] <= 191 /\ i + 3 <= Len(s)
    <3>1. s[i + 1 + 1] \in Continuations /\ s[i + 1 + 2] \in Continuations /\ i + 3 <= Len(s)
      BY <1>3 DEF Tailed
    <3>. QED
      BY <3>1, ContinuationIs
  <2>a. PICK x \in Nat : s[i + 1] = 224 + x
    BY <2>1, Offset
  <2>b. PICK y \in Nat : s[i + 2] = 128 + y
    BY <2>2, Offset
  <2>d. PICK z \in Nat : s[i + 3] = 128 + z
    BY <2>2, Offset
  <2>3. x < 16 /\ y < 64 /\ z < 64
    BY <2>1, <2>2, <2>a, <2>b, <2>d, SMT
  <2>4. c = Of3(x, y, z)
    <3>. DEFINE X == s[i + 1] - 224 Y == s[i + 1 + 1] % 64 Z == s[i + 1 + 2] % 64
    <3>1. c = X * 4096 + Y * 64 + Z
      BY <1>3, SMT DEF Assembled, LeadingValue
    <3>2. (128 + y) % 64 = y /\ (128 + z) % 64 = z
      BY <2>3, Marks
    <3>3. X = x /\ Y = y /\ Z = z
      <4>1. s[i + 1 + 1] = 128 + y /\ s[i + 1 + 2] = 128 + z
        BY <2>b, <2>d
      <4>. QED
        BY <2>a, <3>2, <4>1
    <3>. HIDE DEF X, Y, Z
    <3>. QED
      BY ONLY <3>1, <3>3 DEF Of3
  <2>5. c \in Nat /\ 2047 < c
    <3>1. c \in Nat
      BY <2>4, SMT DEF Of3
    <3>. QED
      BY <1>3, <3>1, LengthOfUtf8, SMT
  <2>6. EncodeUtf8(c) = <<224 + x, 128 + y, 128 + z>>
    BY <2>3, <2>4, <2>5, EncodeOf3
  <2>. QED
    BY <1>3, <2>2, <2>a, <2>b, <2>d, <2>5, <2>6, SitsOf3
<1>4. CASE n = 4
  <2>1. s[i + 1] >= 240 /\ s[i + 1] < 248
    BY <1>4, SMT DEF SizeOf
  <2>2. /\ s[i + 2] \in Nat /\ 128 <= s[i + 2] /\ s[i + 2] <= 191
        /\ s[i + 3] \in Nat /\ 128 <= s[i + 3] /\ s[i + 3] <= 191
        /\ s[i + 4] \in Nat /\ 128 <= s[i + 4] /\ s[i + 4] <= 191 /\ i + 4 <= Len(s)
    <3>1. /\ s[i + 1 + 1] \in Continuations /\ s[i + 1 + 2] \in Continuations
          /\ s[i + 1 + 3] \in Continuations /\ i + 4 <= Len(s)
      BY <1>4 DEF Tailed
    <3>. QED
      BY <3>1, ContinuationIs
  <2>a. PICK w \in Nat : s[i + 1] = 240 + w
    BY <2>1, Offset
  <2>b. PICK x \in Nat : s[i + 2] = 128 + x
    BY <2>2, Offset
  <2>d. PICK y \in Nat : s[i + 3] = 128 + y
    BY <2>2, Offset
  <2>e. PICK z \in Nat : s[i + 4] = 128 + z
    BY <2>2, Offset
  <2>3. w < 8 /\ x < 64 /\ y < 64 /\ z < 64
    BY <2>1, <2>2, <2>a, <2>b, <2>d, <2>e, SMT
  <2>4. c = Of4(w, x, y, z)
    <3>. DEFINE W == s[i + 1] - 240
                X == s[i + 1 + 1] % 64 Y == s[i + 1 + 2] % 64 Z == s[i + 1 + 3] % 64
    <3>1. c = W * 262144 + X * 4096 + Y * 64 + Z
      BY <1>4, SMT DEF Assembled, LeadingValue
    <3>2. X = x /\ Y = y /\ Z = z
      <4>1. i + 1 + 1 = i + 2 /\ i + 1 + 2 = i + 3 /\ i + 1 + 3 = i + 4
        OBVIOUS
      <4>2. (128 + x) % 64 = x /\ (128 + y) % 64 = y /\ (128 + z) % 64 = z
        BY <2>3, Marks
      <4>. QED
        BY <2>b, <2>d, <2>e, <4>1, <4>2
    <3>3. W = w
      BY <2>a
    <3>. HIDE DEF W, X, Y, Z
    <3>. QED
      BY ONLY <3>1, <3>2, <3>3 DEF Of4
  <2>5. c \in Nat /\ 65535 < c
    <3>1. c \in Nat
      BY <2>4, SMT DEF Of4
    <3>. QED
      BY <1>4, <3>1, LengthOfUtf8, SMT
  <2>6. EncodeUtf8(c) = <<240 + w, 128 + x, 128 + y, 128 + z>>
    BY <2>3, <2>4, <2>5, EncodeOf4, SMT
  <2>. QED
    BY <1>4, <2>2, <2>a, <2>b, <2>d, <2>e, <2>5, <2>6, SitsOf4, SMTT(40)
<1>. QED
  BY <1>1, <1>2, <1>3, <1>4, SMT DEF SizeOf

(* Decoding gives a character back.                                        *)
LEMMA DecodesUtf8 ==
  ASSUME NEW s, Len(s) \in Nat, NEW i \in Nat, NEW c, Scalar(c), Sits(EncodeUtf8(c), s, i)
  PROVE  /\ DecodeUtf8(s, i + 1) = Decoded(c, Len(EncodeUtf8(c)))
         /\ Len(EncodeUtf8(c)) = CalculateUtf8Len(c) /\ CalculateUtf8Len(c) \in 1..4
         /\ Len(EncodeUtf8(c)) = SizeOf(s[i + 1])
<1>. DEFINE n == SizeOf(s[i + 1])
<1>1. c \in Nat /\ CalculateUtf8Len(c) \in 1..4
  BY ScalarIs, LengthOfUtf8
<1>2. c <= UnicodeMax /\ c \notin Surrogates
  BY DEF Scalar
<1>. HIDE DEF n
<1>3. SUFFICES /\ i < Len(s) /\ s[i + 1] \in Nat /\ n = CalculateUtf8Len(c) /\ Tailed(s, i, n)
               /\ Assembled(s, i + 1, n) = c /\ Len(EncodeUtf8(c)) = n
  <2>1. Acceptable(c, n)
    BY <1>2, <1>3 DEF Acceptable
  <2>2. n # 0
    BY <1>1, <1>3
  <2>. QED
    BY <1>1, <1>3, <2>1, <2>2, DecodeUtf8Is DEF n
<1>4. CASE c < 128
  <2>1. EncodeUtf8(c) = <<c>>
    BY <1>1, <1>4, EncodeOf1
  <2>2. i + 1 <= Len(s) /\ s[i + 1] = c /\ Len(EncodeUtf8(c)) = 1
    BY <2>1, SitsOf1
  <2>3. n = 1 /\ CalculateUtf8Len(c) = 1
    BY <1>1, <1>4, <2>2, SMT DEF n, SizeOf, CalculateUtf8Len
  <2>4. Assembled(s, i + 1, n) = c
    BY <1>1, <2>2, <2>3, SMT DEF Assembled, LeadingValue
  <2>5. Tailed(s, i, n)
    BY <2>2, <2>3 DEF Tailed
  <2>. QED
    BY <1>1, <2>2, <2>3, <2>4, <2>5
<1>5. ASSUME NEW x \in Nat, NEW z \in Nat, 1 < x, x < 32, z < 64, c = Of2(x, z)
      PROVE  /\ i < Len(s) /\ s[i + 1] \in Nat /\ n = CalculateUtf8Len(c) /\ Tailed(s, i, n)
             /\ Assembled(s, i + 1, n) = c /\ Len(EncodeUtf8(c)) = n
  <2>1. EncodeUtf8(c) = <<192 + x, 128 + z>>
    BY <1>5, EncodeOf2
  <2>2. i + 2 <= Len(s) /\ s[i + 1] = 192 + x /\ s[i + 2] = 128 + z /\ Len(EncodeUtf8(c)) = 2
    BY <2>1, SitsOf2
  <2>3. n = 2 /\ CalculateUtf8Len(c) = 2
    BY <1>5, <2>2, SMT DEF n, SizeOf, CalculateUtf8Len, Of2
  <2>4. Assembled(s, i + 1, n) = c
    <3>1. Assembled(s, i + 1, n) = (s[i + 1] - 192) * 64 + (s[i + 1 + 1] % 64)
      BY <2>3, SMT DEF Assembled, LeadingValue
    <3>2. i + 1 + 1 = i + 2 /\ (128 + z) % 64 = z
      BY <1>5, Marks
    <3>. QED
      BY <1>5, <2>2, <3>1, <3>2, SMT DEF Of2
  <2>5. Tailed(s, i, n)
    <3>1. 128 + z \in Continuations
      BY <1>5, Marks
    <3>. QED
      BY <2>2, <2>3, <3>1 DEF Tailed
  <2>. QED
    BY <2>2, <2>3, <2>4, <2>5
<1>6. ASSUME NEW x \in Nat, NEW y \in Nat, NEW z \in Nat, x < 16, y < 64, z < 64, c = Of3(x, y, z), c > 2047
      PROVE  /\ i < Len(s) /\ s[i + 1] \in Nat /\ n = CalculateUtf8Len(c) /\ Tailed(s, i, n)
             /\ Assembled(s, i + 1, n) = c /\ Len(EncodeUtf8(c)) = n
  <2>1. EncodeUtf8(c) = <<224 + x, 128 + y, 128 + z>>
    BY <1>6, EncodeOf3
  <2>2. /\ i + 3 <= Len(s) /\ s[i + 1] = 224 + x /\ s[i + 2] = 128 + y /\ s[i + 3] = 128 + z
        /\ Len(EncodeUtf8(c)) = 3
    BY <2>1, SitsOf3
  <2>3. n = 3 /\ CalculateUtf8Len(c) = 3
    BY <1>6, <2>2, SMT DEF n, SizeOf, CalculateUtf8Len, Of3
  <2>4. Assembled(s, i + 1, n) = c
    <3>. DEFINE A == Assembled(s, i + 1, n)
                X == s[i + 1] - 224 Y == s[i + 1 + 1] % 64 Z == s[i + 1 + 2] % 64
    <3>1. A = X * 4096 + Y * 64 + Z
      BY <2>3, SMT DEF Assembled, LeadingValue
    <3>2. /\ i + 1 + 1 = i + 2 /\ (128 + y) % 64 = y
          /\ i + 1 + 2 = i + 3 /\ (128 + z) % 64 = z
      BY <1>6, Marks
    <3>3. X = x /\ Y = y /\ Z = z
      <4>1. s[i + 1 + 1] = 128 + y /\ s[i + 1 + 2] = 128 + z
        BY <2>2, <3>2
      <4>. QED
        BY <2>2, <3>2, <4>1
    <3>. HIDE DEF A, X, Y, Z
    <3>4. A = Of3(x, y, z)
      BY ONLY <3>1, <3>3 DEF Of3
    <3>. QED
      BY <1>6, <3>4 DEF A
  <2>5. Tailed(s, i, n)
    <3>1. 128 + y \in Continuations /\ 128 + z \in Continuations
      BY <1>6, Marks
    <3>2. 1..(3 - 1) = {1, 2} /\ i + 1 + 1 = i + 2 /\ i + 1 + 2 = i + 3
      OBVIOUS
    <3>. QED
      BY <2>2, <2>3, <3>1, <3>2 DEF Tailed
  <2>. QED
    BY <2>2, <2>3, <2>4, <2>5
<1>7. ASSUME NEW w \in Nat, NEW x \in Nat, NEW y \in Nat, NEW z \in Nat,
             w < 5, x < 64, y < 64, z < 64, c = Of4(w, x, y, z), c > 65535
      PROVE  /\ i < Len(s) /\ s[i + 1] \in Nat /\ n = CalculateUtf8Len(c) /\ Tailed(s, i, n)
             /\ Assembled(s, i + 1, n) = c /\ Len(EncodeUtf8(c)) = n
  <2>1. EncodeUtf8(c) = <<240 + w, 128 + x, 128 + y, 128 + z>>
    BY <1>7, EncodeOf4, SMT
  <2>2. /\ i + 4 <= Len(s) /\ s[i + 1] = 240 + w /\ s[i + 2] = 128 + x /\ s[i + 3] = 128 + y
        /\ s[i + 4] = 128 + z /\ Len(EncodeUtf8(c)) = 4
    BY <2>1, SitsOf4
  <2>3. n = 4 /\ CalculateUtf8Len(c) = 4
    BY <1>7, <2>2, SMT DEF n, SizeOf, CalculateUtf8Len, Of4
  <2>4. Assembled(s, i + 1, n) = c
    <3>. DEFINE A == Assembled(s, i + 1, n)
                W == s[i + 1] - 240
                X == s[i + 1 + 1] % 64 Y == s[i + 1 + 2] % 64 Z == s[i + 1 + 3] % 64
    <3>1. A = W * 262144 + X * 4096 + Y * 64 + Z
      BY <2>3, SMT DEF Assembled, LeadingValue
    <3>2. /\ i + 1 + 1 = i + 2 /\ (128 + x) % 64 = x
          /\ i + 1 + 2 = i + 3 /\ (128 + y) % 64 = y
          /\ i + 1 + 3 = i + 4 /\ (128 + z) % 64 = z
      <4>1. (128 + x) % 64 = x /\ (128 + y) % 64 = y /\ (128 + z) % 64 = z
        BY <1>7, Marks, SMT
      <4>. QED
        BY <4>1
    <3>3. W = w
      BY <2>2
    <3>4. X = x /\ Y = y /\ Z = z
      BY <2>2, <3>2
    <3>. HIDE DEF A, W, X, Y, Z
    <3>5. A = Of4(w, x, y, z)
      BY ONLY <3>1, <3>3, <3>4 DEF Of4
    <3>. QED
      BY <1>7, <3>5 DEF A
  <2>5. Tailed(s, i, n)
    <3>1. 128 + x \in Continuations /\ 128 + y \in Continuations /\ 128 + z \in Continuations
      <4>1. x < 64 /\ y < 64 /\ z < 64
        BY <1>7, SMT
      <4>. QED
        BY <4>1, Marks
    <3>2. i + 1 + 1 = i + 2 /\ i + 1 + 2 = i + 3 /\ i + 1 + 3 = i + 4
      OBVIOUS
    <3>3. \A k \in {1, 2, 3} : s[i + 1 + k] \in Continuations
      BY <2>2, <3>1, <3>2
    <3>4. 1..(4 - 1) = {1, 2, 3}
      OBVIOUS
    <3>. QED
      BY <2>2, <2>3, <3>3, <3>4 DEF Tailed
  <2>. QED
    BY <2>2, <2>3, <2>4, <2>5
<1>8. CASE \E x, z \in Nat : 1 < x /\ x < 32 /\ z < 64 /\ c = Of2(x, z)
  BY <1>5, <1>8
<1>9. CASE c > 2047 /\ \E x, y, z \in Nat : x < 16 /\ y < 64 /\ z < 64 /\ c = Of3(x, y, z)
  BY <1>6, <1>9
<1>10. CASE c > 65535 /\ \E w, x, y, z \in Nat : w < 5 /\ x < 64 /\ y < 64 /\ z < 64 /\ c = Of4(w, x, y, z)
  BY <1>7, <1>10, SMT
<1>. QED
  BY <1>4, <1>8, <1>9, <1>10, ScalarForms, SMT

(* What is decoded lies within the string, is a scalar value, and unless   *)
(* it is the replacement character it stands there.                        *)
LEMMA ReadUtf8 ==
  ASSUME NEW s, Len(s) \in Nat, NEW i \in Nat, i < Len(s), s[i + 1] \in Nat,
         NEW d, d = DecodeUtf8(s, i + 1)
  PROVE  /\ d.size \in 1..4 /\ i + d.size <= Len(s)
         /\ Scalar(d.codepoint)
         /\ CalculateUtf16Len(d.codepoint) <= d.size
         /\ d.codepoint # InvalidCodepoint =>
              Sits(EncodeUtf8(d.codepoint), s, i) /\ d.size = Len(EncodeUtf8(d.codepoint))
<1>. DEFINE n == SizeOf(s[i + 1])
            c == Assembled(s, i + 1, n)
<1>. HIDE DEF n, c
<1>1. ASSUME NEW m \in 1..4, i + m <= Len(s), d = Invalid(m)
      PROVE  /\ d.size \in 1..4 /\ i + d.size <= Len(s)
             /\ Scalar(d.codepoint)
             /\ CalculateUtf16Len(d.codepoint) <= d.size
             /\ d.codepoint = InvalidCodepoint
  <2>1. d.size = m /\ d.codepoint = InvalidCodepoint
    BY <1>1 DEF Invalid, Decoded
  <2>2. Scalar(InvalidCodepoint) /\ CalculateUtf16Len(InvalidCodepoint) = 1
    BY ScalarIs, SMT DEF InvalidCodepoint, CalculateUtf16Len, BmpEnd
  <2>. QED
    BY <1>1, <2>1, <2>2
<1>2. n \in 0..4
  BY SMT DEF n, SizeOf
<1>3. CASE n = 0
  <2>1. d = Invalid(1)
    BY <1>3, DecodeUtf8Is DEF n
  <2>. QED
    BY <1>1, <2>1
<1>4. CASE n # 0 /\ ~ Tailed(s, i, n)
  <2>1. PICK m \in 1..(n - 1) : i + m <= Len(s) /\ d = Invalid(m)
    BY <1>4, DecodeUtf8Is DEF n
  <2>2. m \in 1..4
    BY <1>2
  <2>. QED
    BY <1>1, <2>1, <2>2
<1>5. CASE n # 0 /\ Tailed(s, i, n)
  <2>1. d = IF Acceptable(c, n) THEN Decoded(c, n) ELSE Invalid(n)
    BY <1>5, DecodeUtf8Is DEF n, c
  <2>2. n \in 1..4 /\ i + n <= Len(s)
    BY <1>2, <1>5 DEF Tailed
  <2>3. CASE ~ Acceptable(c, n)
    BY <1>1, <2>1, <2>2, <2>3
  <2>4. CASE Acceptable(c, n)
    <3>1. CalculateUtf8Len(c) = n /\ c \notin Surrogates /\ c <= UnicodeMax
      BY <2>4 DEF Acceptable
    <3>2. d.size = n /\ d.codepoint = c
      BY <2>1, <2>4 DEF Decoded
    <3>3. c \in Nat /\ Sits(EncodeUtf8(c), s, i) /\ Len(EncodeUtf8(c)) = n
      BY <1>5, <3>1, AssembledSits DEF n, c
    <3>4. Scalar(c)
      BY <3>1, <3>3 DEF Scalar
    <3>5. CalculateUtf16Len(c) <= n
      BY <2>2, <3>1, <3>3, SMT DEF CalculateUtf16Len, CalculateUtf8Len, BmpEnd
    <3>. QED
      BY <2>2, <3>2, <3>3, <3>4, <3>5
  <2>. QED
    BY <2>3, <2>4
<1>. QED
  BY <1>3, <1>4, <1>5

-----------------------------------------------------------------------------
(* The units behind i + 1 are those that must follow it.                   *)
Follow(tail, s, i) ==
  /\ i + 1 + Len(tail) <= Len(s)
  /\ \A k \in 1..Len(tail) : s[i + 1 + k] \in tail[k]

(* A tail of one, of two, of three, byte by byte.                          *)
LEMMA FollowOf1 ==
  ASSUME NEW s, Len(s) \in Nat, NEW i \in Nat, NEW A
  PROVE  Follow(<<A>>, s, i) <=> i + 2 <= Len(s) /\ s[i + 2] \in A
<1>. DEFINE t == <<A>>
<1>1. Len(t) = 1 /\ t[1] = A
  OBVIOUS
<1>. HIDE DEF t
<1>2. Follow(t, s, i) <=> i + 2 <= Len(s) /\ \A k \in 1..1 : s[i + 1 + k] \in t[k]
  BY <1>1 DEF Follow
<1>3. 1..1 = {1} /\ i + 1 + 1 = i + 2
  OBVIOUS
<1>4. (\A k \in 1..1 : s[i + 1 + k] \in t[k]) <=> s[i + 2] \in t[1]
  BY <1>3
<1>. QED
  BY <1>1, <1>2, <1>4 DEF t

(* Two.                                                                    *)
LEMMA FollowOf2 ==
  ASSUME NEW s, Len(s) \in Nat, NEW i \in Nat, NEW A, NEW B
  PROVE  Follow(<<A, B>>, s, i) <=> i + 3 <= Len(s) /\ s[i + 2] \in A /\ s[i + 3] \in B
<1>. DEFINE t == <<A, B>>
<1>1. Len(t) = 2 /\ t[1] = A /\ t[2] = B
  OBVIOUS
<1>. HIDE DEF t
<1>2. Follow(t, s, i) <=> i + 3 <= Len(s) /\ \A k \in 1..2 : s[i + 1 + k] \in t[k]
  BY <1>1 DEF Follow
<1>3. 1..2 = {1, 2} /\ i + 1 + 1 = i + 2 /\ i + 1 + 2 = i + 3
  OBVIOUS
<1>4. (\A k \in 1..2 : s[i + 1 + k] \in t[k]) <=> s[i + 2] \in t[1] /\ s[i + 3] \in t[2]
  BY <1>3
<1>. QED
  BY <1>1, <1>2, <1>4 DEF t

(* Three.                                                                  *)
LEMMA FollowOf3 ==
  ASSUME NEW s, Len(s) \in Nat, NEW i \in Nat, NEW A, NEW B, NEW C
  PROVE  Follow(<<A, B, C>>, s, i) <=> i + 4 <= Len(s) /\ s[i + 2] \in A /\ s[i + 3] \in B /\ s[i + 4] \in C
<1>. DEFINE t == <<A, B, C>>
<1>1. Len(t) = 3 /\ t[1] = A /\ t[2] = B /\ t[3] = C
  OBVIOUS
<1>. HIDE DEF t
<1>2. Follow(t, s, i) <=> i + 4 <= Len(s) /\ \A k \in 1..3 : s[i + 1 + k] \in t[k]
  BY <1>1 DEF Follow
<1>3. 1..3 = {1, 2, 3} /\ i + 1 + 1 = i + 2 /\ i + 1 + 2 = i + 3 /\ i + 1 + 3 = i + 4
  OBVIOUS
<1>4. (\A k \in 1..3 : s[i + 1 + k] \in t[k]) <=> s[i + 2] \in t[1] /\ s[i + 3] \in t[2] /\ s[i + 4] \in t[3]
  BY <1>3
<1>. QED
  BY <1>1, <1>2, <1>4 DEF t

(* The tails that the table of well-formed UTF-8 names.                    *)
Cont(b) == b \in Nat /\ 128 <= b /\ b <= 191
FullTail == \h80..\hBF
TailFromA0 == \hA0..\hBF
TailUpTo9F == \h80..\h9F
TailFrom90 == \h90..\hBF
TailUpTo8F == \h80..\h8F
(* Those tails, by their bounds.                                           *)
LEMMA Ranges ==
  ASSUME NEW b
  PROVE  /\ b \in FullTail <=> Cont(b)
         /\ b \in TailFromA0 <=> Cont(b) /\ b >= 160
         /\ b \in TailUpTo9F <=> Cont(b) /\ b < 160
         /\ b \in TailFrom90 <=> Cont(b) /\ b >= 144
         /\ b \in TailUpTo8F <=> Cont(b) /\ b < 144
<1>1. b \in FullTail <=> Cont(b)
  BY SMT DEF Cont, FullTail
<1>2. b \in TailFromA0 <=> Cont(b) /\ b >= 160
  BY SMT DEF Cont, TailFromA0
<1>3. b \in TailUpTo9F <=> Cont(b) /\ b < 160
  BY SMT DEF Cont, TailUpTo9F
<1>4. b \in TailFrom90 <=> Cont(b) /\ b >= 144
  BY SMT DEF Cont, TailFrom90
<1>5. b \in TailUpTo8F <=> Cont(b) /\ b < 144
  BY SMT DEF Cont, TailUpTo8F
<1>. QED
  BY <1>1, <1>2, <1>3, <1>4, <1>5

(* The table of the standard, row by row.                                  *)
LEMMA TableOfUtf8 ==
  ASSUME NEW b \in Nat
  PROVE  /\ b < 128 => Utf8Tails(b) = <<>>
         /\ 194 <= b /\ b <= 223 => Utf8Tails(b) = <<FullTail>>
         /\ b = 224 => Utf8Tails(b) = <<TailFromA0, FullTail>>
         /\ b = 237 => Utf8Tails(b) = <<TailUpTo9F, FullTail>>
         /\ 225 <= b /\ b <= 239 /\ b # 237 => Utf8Tails(b) = <<FullTail, FullTail>>
         /\ b = 240 => Utf8Tails(b) = <<TailFrom90, FullTail, FullTail>>
         /\ 241 <= b /\ b <= 243 => Utf8Tails(b) = <<FullTail, FullTail, FullTail>>
         /\ b = 244 => Utf8Tails(b) = <<TailUpTo8F, FullTail, FullTail>>
         /\ (128 <= b /\ b < 194) \/ b > 244 => Utf8Tails(b) = <<{}>>
<1>1. /\ b \in 0..127 <=> b < 128
      /\ b \in 194..223 <=> 194 <= b /\ b <= 223
      /\ b \in 225..239 <=> 225 <= b /\ b <= 239
      /\ b \in 241..243 <=> 241 <= b /\ b <= 243
  <2>1. b \in 0..127 <=> b < 128
    BY SMT
  <2>2. b \in 194..223 <=> 194 <= b /\ b <= 223
    BY SMT
  <2>3. b \in 225..239 <=> 225 <= b /\ b <= 239
    BY SMT
  <2>4. b \in 241..243 <=> 241 <= b /\ b <= 243
    BY SMT
  <2>. QED
    BY <2>1, <2>2, <2>3, <2>4
<1>. DEFINE P(x) == x \in 0..127
            Q(x) == x \in 194..223
            R(x) == x \in 225..239
            U(x) == x \in 241..243
<1>2. Utf8Tails(b) =
        IF P(b) THEN <<>>
        ELSE IF Q(b) THEN <<FullTail>>
        ELSE IF b = 224 THEN <<TailFromA0, FullTail>>
        ELSE IF b = 237 THEN <<TailUpTo9F, FullTail>>
        ELSE IF R(b) THEN <<FullTail, FullTail>>
        ELSE IF b = 240 THEN <<TailFrom90, FullTail, FullTail>>
        ELSE IF U(b) THEN <<FullTail, FullTail, FullTail>>
        ELSE IF b = 244 THEN <<TailUpTo8F, FullTail, FullTail>>
        ELSE <<{}>>
  BY DEF Utf8Tails, FullTail, TailFromA0, TailUpTo9F, TailFrom90, TailUpTo8F
<1>3. /\ P(b) <=> b < 128
      /\ Q(b) <=> 194 <= b /\ b <= 223
      /\ R(b) <=> 225 <= b /\ b <= 239
      /\ U(b) <=> 241 <= b /\ b <= 243
  BY <1>1
<1>. HIDE DEF P, Q, R, U
<1>4. b < 128 => Utf8Tails(b) = <<>>
  BY <1>2, <1>3
<1>5. 194 <= b /\ b <= 223 => Utf8Tails(b) = <<FullTail>>
  BY <1>2, <1>3
<1>6. b = 224 => Utf8Tails(b) = <<TailFromA0, FullTail>>
  BY <1>2, <1>3
<1>7. b = 237 => Utf8Tails(b) = <<TailUpTo9F, FullTail>>
  BY <1>2, <1>3
<1>8. 225 <= b /\ b <= 239 /\ b # 237 => Utf8Tails(b) = <<FullTail, FullTail>>
  BY <1>2, <1>3
<1>9. b = 240 => Utf8Tails(b) = <<TailFrom90, FullTail, FullTail>>
  BY <1>2, <1>3
<1>10. 241 <= b /\ b <= 243 => Utf8Tails(b) = <<FullTail, FullTail, FullTail>>
  BY <1>2, <1>3
<1>11. b = 244 => Utf8Tails(b) = <<TailUpTo8F, FullTail, FullTail>>
  BY <1>2, <1>3
<1>12. (128 <= b /\ b < 194) \/ b > 244 => Utf8Tails(b) = <<{}>>
  BY <1>2, <1>3
<1>. QED
  BY <1>4, <1>5, <1>6, <1>7, <1>8, <1>9, <1>10, <1>11, <1>12

(* A byte that begins a character by the table, and what is behind it.     *)
Whole8(s, i) ==
  LET b == s[i + 1] IN
  \/ b < 128 /\ i + 1 <= Len(s)
  \/ 194 <= b /\ b <= 223 /\ i + 2 <= Len(s) /\ Cont(s[i + 2])
  \/ /\ 224 <= b /\ b <= 239 /\ i + 3 <= Len(s) /\ Cont(s[i + 2]) /\ Cont(s[i + 3])
     /\ b = 224 => s[i + 2] >= 160
     /\ b = 237 => s[i + 2] < 160
  \/ /\ 240 <= b /\ b <= 244 /\ i + 4 <= Len(s) /\ Cont(s[i + 2]) /\ Cont(s[i + 3]) /\ Cont(s[i + 4])
     /\ b = 240 => s[i + 2] >= 144
     /\ b = 244 => s[i + 2] < 144

(* The table of well-formed UTF-8, with its tails by their bounds.         *)
LEMMA FollowUtf8 ==
  ASSUME NEW s, Len(s) \in Nat, NEW i \in Nat, i < Len(s), s[i + 1] \in Nat
  PROVE  Follow(Utf8Tails(s[i + 1]), s, i) <=> Whole8(s, i)
<1>. DEFINE b == s[i + 1]
            F == Follow(Utf8Tails(b), s, i)
            W == \/ b < 128 /\ i + 1 <= Len(s)
                 \/ 194 <= b /\ b <= 223 /\ i + 2 <= Len(s) /\ Cont(s[i + 2])
                 \/ /\ 224 <= b /\ b <= 239 /\ i + 3 <= Len(s) /\ Cont(s[i + 2]) /\ Cont(s[i + 3])
                    /\ b = 224 => s[i + 2] >= 160
                    /\ b = 237 => s[i + 2] < 160
                 \/ /\ 240 <= b /\ b <= 244 /\ i + 4 <= Len(s)
                    /\ Cont(s[i + 2]) /\ Cont(s[i + 3]) /\ Cont(s[i + 4])
                    /\ b = 240 => s[i + 2] >= 144
                    /\ b = 244 => s[i + 2] < 144
<1>a. SUFFICES F <=> W
  BY DEF Whole8
<1>b. b \in Nat /\ i + 1 <= Len(s)
  OBVIOUS
<1>d. F <=> Follow(Utf8Tails(b), s, i)
  OBVIOUS
<1>. HIDE DEF b, F
<1>1. CASE b < 128
  <2>1. Utf8Tails(b) = <<>>
    BY <1>1, <1>b, TableOfUtf8
  <2>2. F
    BY <1>b, <1>d, <2>1 DEF Follow
  <2>. QED
    BY <1>b, <1>1, <2>2
<1>2. CASE 194 <= b /\ b <= 223
  <2>1. F <=> i + 2 <= Len(s) /\ s[i + 2] \in FullTail
    <3>1. Utf8Tails(b) = <<FullTail>>
      BY <1>2, <1>b, TableOfUtf8
    <3>. QED
      BY <1>d, <3>1, FollowOf1
  <2>. QED
    BY <1>b, <1>2, <2>1, Ranges
<1>3. CASE b = 224
  <2>1. F <=> i + 3 <= Len(s) /\ s[i + 2] \in TailFromA0 /\ s[i + 3] \in FullTail
    <3>1. Utf8Tails(b) = <<TailFromA0, FullTail>>
      BY <1>3, <1>b, TableOfUtf8
    <3>. QED
      BY <1>d, <3>1, FollowOf2
  <2>. QED
    BY <1>b, <1>3, <2>1, Ranges
<1>4. CASE b = 237
  <2>1. F <=> i + 3 <= Len(s) /\ s[i + 2] \in TailUpTo9F /\ s[i + 3] \in FullTail
    <3>1. Utf8Tails(b) = <<TailUpTo9F, FullTail>>
      BY <1>4, <1>b, TableOfUtf8
    <3>. QED
      BY <1>d, <3>1, FollowOf2
  <2>. QED
    BY <1>b, <1>4, <2>1, Ranges
<1>5. CASE 225 <= b /\ b <= 239 /\ b # 237
  <2>1. F <=> i + 3 <= Len(s) /\ s[i + 2] \in FullTail /\ s[i + 3] \in FullTail
    <3>1. Utf8Tails(b) = <<FullTail, FullTail>>
      BY <1>5, <1>b, TableOfUtf8
    <3>. QED
      BY <1>d, <3>1, FollowOf2
  <2>. QED
    BY <1>b, <1>5, <2>1, Ranges
<1>6. CASE b = 240
  <2>1. F <=> i + 4 <= Len(s) /\ s[i + 2] \in TailFrom90 /\ s[i + 3] \in FullTail /\ s[i + 4] \in FullTail
    <3>1. Utf8Tails(b) = <<TailFrom90, FullTail, FullTail>>
      BY <1>6, <1>b, TableOfUtf8
    <3>. QED
      BY <1>d, <3>1, FollowOf3
  <2>. QED
    BY <1>b, <1>6, <2>1, Ranges
<1>7. CASE 241 <= b /\ b <= 243
  <2>1. F <=> i + 4 <= Len(s) /\ s[i + 2] \in FullTail /\ s[i + 3] \in FullTail /\ s[i + 4] \in FullTail
    <3>1. Utf8Tails(b) = <<FullTail, FullTail, FullTail>>
      BY <1>7, <1>b, TableOfUtf8
    <3>. QED
      BY <1>d, <3>1, FollowOf3
  <2>. QED
    BY <1>b, <1>7, <2>1, Ranges
<1>8. CASE b = 244
  <2>1. F <=> i + 4 <= Len(s) /\ s[i + 2] \in TailUpTo8F /\ s[i + 3] \in FullTail /\ s[i + 4] \in FullTail
    <3>1. Utf8Tails(b) = <<TailUpTo8F, FullTail, FullTail>>
      BY <1>8, <1>b, TableOfUtf8
    <3>. QED
      BY <1>d, <3>1, FollowOf3
  <2>. QED
    BY <1>b, <1>8, <2>1, Ranges
<1>9. CASE (128 <= b /\ b < 194) \/ b > 244
  <2>1. ~ F
    <3>1. Utf8Tails(b) = <<{}>>
      BY <1>9, <1>b, TableOfUtf8
    <3>2. Follow(<<{}>>, s, i) <=> i + 2 <= Len(s) /\ s[i + 2] \in {}
      BY FollowOf1
    <3>. QED
      BY <1>d, <3>1, <3>2
  <2>. QED
    BY <1>b, <1>9, <2>1
<1>. QED
  BY <1>b, <1>1, <1>2, <1>3, <1>4, <1>5, <1>6, <1>7, <1>8, <1>9

(* The table and the encoding agree: what it allows are the scalar values. *)
LEMMA ScalarsAreWhole8 ==
  ASSUME NEW s, Len(s) \in Nat, NEW i \in Nat, NEW c, Scalar(c), Sits(EncodeUtf8(c), s, i)
  PROVE  i < Len(s) /\ s[i + 1] \in Nat /\ Whole8(s, i)
<1>1. c \in Nat /\ c <= 1114111 /\ (c < 55296 \/ c > 57343)
  BY ScalarIs
<1>2. CASE c < 128
  <2>1. EncodeUtf8(c) = <<c>>
    BY <1>1, <1>2, EncodeOf1, SMT
  <2>2. i + 1 <= Len(s) /\ s[i + 1] = c
    BY <2>1, SitsOf1
  <2>. QED
    BY <1>1, <1>2, <2>2, SMT DEF Whole8
<1>3. ASSUME NEW x \in Nat, NEW z \in Nat, 1 < x, x < 32, z < 64, c = Of2(x, z)
      PROVE  i < Len(s) /\ s[i + 1] \in Nat /\ Whole8(s, i)
  <2>1. EncodeUtf8(c) = <<192 + x, 128 + z>>
    BY <1>3, EncodeOf2
  <2>2. i + 2 <= Len(s) /\ s[i + 1] = 192 + x /\ s[i + 2] = 128 + z
    BY <2>1, SitsOf2
  <2>. QED
    BY <1>3, <2>2, SMT DEF Whole8, Cont
<1>4. ASSUME NEW x \in Nat, NEW y \in Nat, NEW z \in Nat, x < 16, y < 64, z < 64, c = Of3(x, y, z), c > 2047
      PROVE  i < Len(s) /\ s[i + 1] \in Nat /\ Whole8(s, i)
  <2>1. EncodeUtf8(c) = <<224 + x, 128 + y, 128 + z>>
    BY <1>4, EncodeOf3
  <2>2. i + 3 <= Len(s) /\ s[i + 1] = 224 + x /\ s[i + 2] = 128 + y /\ s[i + 3] = 128 + z
    BY <2>1, SitsOf3
  <2>3. (x = 0 => y >= 32) /\ (x = 13 => y < 32)
    BY <1>1, <1>4, SMT DEF Of3
  <2>. QED
    BY <1>4, <2>2, <2>3, SMT DEF Whole8, Cont
<1>5. ASSUME NEW w \in Nat, NEW x \in Nat, NEW y \in Nat, NEW z \in Nat,
             w < 5, x < 64, y < 64, z < 64, c = Of4(w, x, y, z), c > 65535
      PROVE  i < Len(s) /\ s[i + 1] \in Nat /\ Whole8(s, i)
  <2>1. EncodeUtf8(c) = <<240 + w, 128 + x, 128 + y, 128 + z>>
    BY <1>5, EncodeOf4, SMT
  <2>2. i + 4 <= Len(s) /\ s[i + 1] = 240 + w /\ s[i + 2] = 128 + x /\ s[i + 3] = 128 + y /\ s[i + 4] = 128 + z
    BY <2>1, SitsOf4
  <2>3. (w = 0 => x >= 16) /\ (w = 4 => x < 16) /\ w < 5 /\ x < 64 /\ y < 64 /\ z < 64
    BY <1>1, <1>5, SMT DEF Of4
  <2>. QED
    BY <2>2, <2>3, SMT DEF Whole8, Cont
<1>6. CASE \E x, z \in Nat : 1 < x /\ x < 32 /\ z < 64 /\ c = Of2(x, z)
  BY <1>3, <1>6
<1>7. CASE c > 2047 /\ \E x, y, z \in Nat : x < 16 /\ y < 64 /\ z < 64 /\ c = Of3(x, y, z)
  BY <1>4, <1>7
<1>8. CASE c > 65535 /\ \E w, x, y, z \in Nat : w < 5 /\ x < 64 /\ y < 64 /\ z < 64 /\ c = Of4(w, x, y, z)
  BY <1>5, <1>8, SMT
<1>. QED
  BY <1>2, <1>6, <1>7, <1>8, ScalarForms, SMT

(* Where the table finds a character there is the encoding of a scalar.    *)
LEMMA WholeAreScalars8 ==
  ASSUME NEW s, Len(s) \in Nat, NEW i \in Nat, i < Len(s), s[i + 1] \in Nat, Whole8(s, i)
  PROVE  \E c : Scalar(c) /\ Sits(EncodeUtf8(c), s, i)
<1>1. CASE s[i + 1] < 128
  <2>1. EncodeUtf8(s[i + 1]) = <<s[i + 1]>>
    BY <1>1, EncodeOf1
  <2>2. Scalar(s[i + 1])
    BY <1>1, ScalarIs, SMT
  <2>. QED
    BY <2>1, <2>2, SitsOf1
<1>2. CASE 194 <= s[i + 1] /\ s[i + 1] <= 223
  <2>1. i + 2 <= Len(s) /\ s[i + 2] \in Nat /\ 128 <= s[i + 2] /\ s[i + 2] <= 191
    BY <1>2 DEF Whole8, Cont
  <2>2. PICK x \in Nat : s[i + 1] = 192 + x
    BY <1>2, Offset
  <2>3. PICK z \in Nat : s[i + 2] = 128 + z
    BY <2>1, Offset
  <2>4. 1 < x /\ x < 32 /\ z < 64
    BY <1>2, <2>1, <2>2, <2>3
  <2>5. Scalar(Of2(x, z))
    BY <2>4, ScalarIs, SMT DEF Of2
  <2>. QED
    BY <2>1, <2>2, <2>3, <2>4, <2>5, EncodeOf2, SitsOf2
<1>3. CASE 224 <= s[i + 1] /\ s[i + 1] <= 239
  <2>1. /\ i + 3 <= Len(s) /\ s[i + 2] \in Nat /\ 128 <= s[i + 2] /\ s[i + 2] <= 191
        /\ s[i + 3] \in Nat /\ 128 <= s[i + 3] /\ s[i + 3] <= 191
        /\ (s[i + 1] = 224 => s[i + 2] >= 160) /\ (s[i + 1] = 237 => s[i + 2] < 160)
    BY <1>3 DEF Whole8, Cont
  <2>2. PICK x \in Nat : s[i + 1] = 224 + x
    <3>1. s[i + 1] \in Nat /\ 224 <= s[i + 1]
      BY <1>3
    <3>. QED
      BY ONLY <3>1, Offset
  <2>3. PICK y \in Nat : s[i + 2] = 128 + y
    BY <2>1, Offset
  <2>4. PICK z \in Nat : s[i + 3] = 128 + z
    BY <2>1, Offset
  <2>5. x < 16 /\ y < 64 /\ z < 64 /\ (x = 0 => y >= 32) /\ (x = 13 => y < 32)
    BY <1>3, <2>1, <2>2, <2>3, <2>4
  <2>6. Of3(x, y, z) > 2047 /\ Scalar(Of3(x, y, z))
    BY <2>5, ScalarIs, SMT DEF Of3
  <2>. QED
    BY <2>1, <2>2, <2>3, <2>4, <2>5, <2>6, EncodeOf3, SitsOf3, SMTT(40)
<1>4. CASE 240 <= s[i + 1] /\ s[i + 1] <= 244
  <2>1. /\ i + 4 <= Len(s) /\ s[i + 2] \in Nat /\ 128 <= s[i + 2] /\ s[i + 2] <= 191
        /\ s[i + 3] \in Nat /\ 128 <= s[i + 3] /\ s[i + 3] <= 191
        /\ s[i + 4] \in Nat /\ 128 <= s[i + 4] /\ s[i + 4] <= 191
        /\ (s[i + 1] = 240 => s[i + 2] >= 144) /\ (s[i + 1] = 244 => s[i + 2] < 144)
    BY <1>4 DEF Whole8, Cont
  <2>2. PICK w \in Nat : s[i + 1] = 240 + w
    <3>1. s[i + 1] \in Nat /\ 240 <= s[i + 1]
      BY <1>4
    <3>. QED
      BY ONLY <3>1, Offset
  <2>3. PICK x \in Nat : s[i + 2] = 128 + x
    BY <2>1, Offset
  <2>4. PICK y \in Nat : s[i + 3] = 128 + y
    BY <2>1, Offset
  <2>5. PICK z \in Nat : s[i + 4] = 128 + z
    BY <2>1, Offset
  <2>6. w < 5 /\ w < 8 /\ x < 64 /\ y < 64 /\ z < 64 /\ (w = 0 => x >= 16) /\ (w = 4 => x < 16)
    BY <1>4, <2>1, <2>2, <2>3, <2>4, <2>5
  <2>7. Of4(w, x, y, z) > 65535 /\ Scalar(Of4(w, x, y, z))
    BY <2>6, ScalarIs, SMT DEF Of4
  <2>8. EncodeUtf8(Of4(w, x, y, z)) = <<240 + w, 128 + x, 128 + y, 128 + z>>
    BY <2>6, <2>7, EncodeOf4, SMT
  <2>9. Sits(EncodeUtf8(Of4(w, x, y, z)), s, i)
    <3>1. Sits(<<240 + w, 128 + x, 128 + y, 128 + z>>, s, i)
      BY ONLY Len(s) \in Nat, <2>1, <2>2, <2>3, <2>4, <2>5, SitsOf4, SMTT(40)
    <3>. QED
      BY <2>8, <3>1
  <2>10. Scalar(Of4(w, x, y, z))
    BY <2>7, SMT
  <2>. QED
    BY <2>9, <2>10
<1>. QED
  BY <1>1, <1>2, <1>3, <1>4 DEF Whole8

(* A character is as long as its leading byte says.                        *)
LEMMA TailLength8 ==
  ASSUME NEW s, Len(s) \in Nat, NEW i \in Nat, s[i + 1] \in Nat, Whole8(s, i)
  PROVE  1 + Len(Utf8Tails(s[i + 1])) = SizeOf(s[i + 1])
<1>. DEFINE b == s[i + 1]
<1>1. b < 128 \/ (194 <= b /\ b <= 244)
  BY DEF Whole8
<1>2. b \in Nat
  OBVIOUS
<1>. SUFFICES 1 + Len(Utf8Tails(b)) = SizeOf(b)
  OBVIOUS
<1>. HIDE DEF b
<1>3. CASE b < 128
  <2>1. Len(Utf8Tails(b)) = 0
    BY <1>2, <1>3, TableOfUtf8
  <2>. QED
    BY <1>2, <1>3, <2>1, SMT DEF SizeOf
<1>4. CASE 194 <= b /\ b <= 223
  <2>1. Len(Utf8Tails(b)) = 1
    BY <1>2, <1>4, TableOfUtf8
  <2>. QED
    BY <1>2, <1>4, <2>1, SMT DEF SizeOf
<1>5. CASE 224 <= b /\ b <= 239
  <2>1. Len(Utf8Tails(b)) = 2
    BY <1>2, <1>5, TableOfUtf8
  <2>. QED
    BY <1>2, <1>5, <2>1, SMT DEF SizeOf
<1>6. CASE 240 <= b /\ b <= 244
  <2>1. Len(Utf8Tails(b)) = 3
    BY <1>2, <1>6, TableOfUtf8
  <2>. QED
    BY <1>2, <1>6, <2>1, SMT DEF SizeOf
<1>. QED
  BY <1>1, <1>2, <1>3, <1>4, <1>5, <1>6

-----------------------------------------------------------------------------
(* The same for UTF-16.                                                    *)
PairOf(h, l) == 65536 + 1024 * h + l

(* The surrogates, by their bounds.                                        *)
LEMMA UnitsIs ==
  ASSUME NEW u \in Nat
  PROVE  /\ u \in Surrogates <=> 55296 <= u /\ u <= 57343
         /\ u \in HighSurrogates <=> 55296 <= u /\ u <= 56319
         /\ u \in LowSurrogates <=> 56320 <= u /\ u <= 57343
<1>1. u \in Surrogates <=> 55296 <= u /\ u <= 57343
  BY SMT DEF Surrogates
<1>2. u \in HighSurrogates <=> 55296 <= u /\ u <= 56319
  BY SMT DEF HighSurrogates
<1>3. u \in LowSurrogates <=> 56320 <= u /\ u <= 57343
  BY SMT DEF LowSurrogates
<1>. QED
  BY <1>1, <1>2, <1>3, SMT

(* encode_utf16 writes what is below 65536 as it is.                       *)
LEMMA EncodeOfUnit ==
  ASSUME NEW c \in Nat, c < 65536
  PROVE  EncodeUtf16(c) = <<c>> /\ CalculateUtf16Len(c) = 1
  BY SMT DEF EncodeUtf16, CalculateUtf16Len, BmpEnd

(* It writes what is above as a high and a low surrogate.                  *)
LEMMA EncodeOfPair ==
  ASSUME NEW h \in Nat, NEW l \in Nat, h < 1024, l < 1024
  PROVE  /\ EncodeUtf16(PairOf(h, l)) = <<55296 + h, 56320 + l>>
         /\ CalculateUtf16Len(PairOf(h, l)) = 2
         /\ Scalar(PairOf(h, l)) /\ PairOf(h, l) # InvalidCodepoint
<1>. DEFINE c == PairOf(h, l)
<1>1. c \in Nat /\ c > 65535 /\ c <= 1114111 /\ c - 65536 = h * 1024 + l /\ c % 1024 = l
  BY SMT DEF PairOf
<1>. HIDE DEF c
<1>2. (c - 65536) \div 1024 = h /\ (c - 65536) % 1024 = l /\ h % 1024 = h
  BY <1>1, SMT
<1>3. EncodeUtf16(c) = <<55296 + h, 56320 + l>>
  BY <1>1, <1>2, SMT DEF EncodeUtf16, BmpEnd
<1>4. CalculateUtf16Len(c) = 2 /\ Scalar(c) /\ c # InvalidCodepoint
  BY <1>1, ScalarIs, SMT DEF CalculateUtf16Len, BmpEnd, InvalidCodepoint
<1>. QED
  BY <1>3, <1>4 DEF c

(* Every scalar is of one of the two kinds.                                *)
LEMMA PairForms ==
  ASSUME NEW c, Scalar(c)
  PROVE  c < 65536 \/ \E h, l \in Nat : h < 1024 /\ l < 1024 /\ c = PairOf(h, l)
<1>1. c \in Nat /\ c <= 1114111
  BY ScalarIs, SMT
<1>2. CASE c > 65535
  <2>. DEFINE h == (c - 65536) \div 1024
              l == (c - 65536) % 1024
  <2>1. h \in Nat /\ l \in Nat /\ h < 1024 /\ l < 1024 /\ c = 65536 + 1024 * h + l
    BY <1>1, <1>2, SMT
  <2>. HIDE DEF h, l
  <2>2. c = PairOf(h, l)
    BY <2>1, SMT DEF PairOf
  <2>. QED
    BY <2>1, <2>2
<1>. QED
  BY <1>1, <1>2, SMT

(* What must follow a unit, by the names of the surrogates.                *)
LEMMA TailsOfUnits ==
  ASSUME NEW u
  PROVE  Utf16Tails(u) = IF u \in HighSurrogates THEN <<LowSurrogates>>
                         ELSE IF u \in LowSurrogates THEN <<{}>> ELSE <<>>
  BY DEF Utf16Tails, HighSurrogates, LowSurrogates

(* decode_utf16 gives back a scalar that encode_utf16 has written,         *)
(* whatever is behind it.                                                  *)
LEMMA DecodesUtf16 ==
  ASSUME NEW s, Len(s) \in Nat, NEW i \in Nat, NEW c, Scalar(c), Sits(EncodeUtf16(c), s, i)
  PROVE  /\ DecodeUtf16(s, i + 1) = Decoded(c, Len(EncodeUtf16(c)))
         /\ Len(EncodeUtf16(c)) = CalculateUtf16Len(c) /\ CalculateUtf16Len(c) \in 1..2
         /\ Len(EncodeUtf16(c)) = 1 + Len(Utf16Tails(s[i + 1]))
         /\ i < Len(s) /\ s[i + 1] \in Nat
         /\ Follow(Utf16Tails(s[i + 1]), s, i)
<1>1. c \in Nat /\ (c < 55296 \/ c > 57343)
  BY ScalarIs, SMT
<1>2. CASE c < 65536
  <2>1. EncodeUtf16(c) = <<c>> /\ CalculateUtf16Len(c) = 1
    BY <1>1, <1>2, EncodeOfUnit, SMT
  <2>2. i + 1 <= Len(s) /\ s[i + 1] = c /\ Len(EncodeUtf16(c)) = 1
    BY <2>1, SitsOf1
  <2>3. c \notin Surrogates
    BY DEF Scalar
  <2>4. DecodeUtf16(s, i + 1) = Decoded(c, 1)
    BY <2>2, <2>3 DEF DecodeUtf16
  <2>5. Utf16Tails(c) = <<>>
    BY <1>1, SMTT(40) DEF Utf16Tails
  <2>6. Follow(<<>>, s, i)
    BY <2>2 DEF Follow
  <2>. QED
    BY <1>1, <2>1, <2>2, <2>4, <2>5, <2>6
<1>3. ASSUME NEW h \in Nat, NEW l \in Nat, h < 1024, l < 1024, c = PairOf(h, l)
      PROVE  /\ DecodeUtf16(s, i + 1) = Decoded(c, Len(EncodeUtf16(c)))
             /\ Len(EncodeUtf16(c)) = CalculateUtf16Len(c) /\ CalculateUtf16Len(c) \in 1..2
             /\ Len(EncodeUtf16(c)) = 1 + Len(Utf16Tails(s[i + 1]))
             /\ i < Len(s) /\ s[i + 1] \in Nat
             /\ Follow(Utf16Tails(s[i + 1]), s, i)
  <2>. DEFINE a == 55296 + h
              b == 56320 + l
  <2>1. /\ a \in Nat /\ 55296 <= a /\ a <= 56319 /\ a % 1024 = h
        /\ b \in Nat /\ 56320 <= b /\ b <= 57343 /\ b % 1024 = l
    BY <1>3, SMT
  <2>2. EncodeUtf16(c) = <<a, b>> /\ CalculateUtf16Len(c) = 2
    BY <1>3, EncodeOfPair, SMT
  <2>. HIDE DEF a, b
  <2>3. i + 2 <= Len(s) /\ s[i + 1] = a /\ s[i + 2] = b /\ Len(EncodeUtf16(c)) = 2
    BY <2>2, SitsOf2
  <2>4. a \in Surrogates /\ a \in HighSurrogates /\ b \in LowSurrogates
    BY <2>1, UnitsIs, SMT
  <2>5. i + 1 + 1 = i + 2 /\ i + 1 # Len(s) /\ i < Len(s)
    BY <2>3
  <2>6. DecodeUtf16(s, i + 1) = Decoded((a % 1024) * 1024 + (b % 1024) + \h10000, 2)
    BY <2>3, <2>4, <2>5, SMT DEF DecodeUtf16
  <2>7. (a % 1024) * 1024 + (b % 1024) + \h10000 = c
    BY <1>3, <2>1, SMT DEF PairOf
  <2>8. Utf16Tails(a) = <<LowSurrogates>>
    BY <2>4, TailsOfUnits, Zenon
  <2>9. Len(<<LowSurrogates>>) = 1 /\ Follow(<<LowSurrogates>>, s, i)
    BY <2>3, <2>4, FollowOf1
  <2>. QED
    BY <2>1, <2>2, <2>3, <2>5, <2>6, <2>7, <2>8, <2>9, SMT
<1>4. CASE \E h, l \in Nat : h < 1024 /\ l < 1024 /\ c = PairOf(h, l)
  BY <1>3, <1>4
<1>. QED
  BY <1>2, <1>4, PairForms, SMT

(* A unit of UTF-16.                                                       *)
Unit(u) == u \in Nat /\ u < 65536
(* Whatever decode_utf16 is given, it reads at least one unit and gives a  *)
(* scalar: one that is written there, or the mark of damage.               *)
LEMMA ReadUtf16 ==
  ASSUME NEW s, Len(s) \in Nat, NEW i \in Nat, i < Len(s), Unit(s[i + 1]), i + 1 < Len(s) => Unit(s[i + 2]),
         NEW d, d = DecodeUtf16(s, i + 1)
  PROVE  /\ d.size \in 1..4 /\ i + d.size <= Len(s)
         /\ Scalar(d.codepoint)
         /\ d.codepoint # InvalidCodepoint =>
              Sits(EncodeUtf16(d.codepoint), s, i) /\ d.size = Len(EncodeUtf16(d.codepoint))
<1>. DEFINE u == s[i + 1]
            v == s[i + 2]
<1>1. u \in Nat /\ u < 65536 /\ i + 1 <= Len(s) /\ i + 1 + 1 = i + 2
  BY SMT DEF Unit
<1>2. d = IF u \notin Surrogates THEN Decoded(u, 1)
          ELSE IF u \in HighSurrogates /\ i + 1 # Len(s) /\ v \in LowSurrogates
               THEN Decoded((u % 1024) * 1024 + (v % 1024) + \h10000, 2)
               ELSE Invalid(1)
  BY <1>1, SMT DEF DecodeUtf16
<1>3. i + 1 < Len(s) => v \in Nat
  BY DEF Unit
<1>4. ASSUME NEW a, NEW b, Sits(<<a, b>>, s, i) PROVE i + 2 <= Len(s)
  BY <1>4, SitsOf2
<1>5. s[i + 1] = u /\ s[i + 2] = v
  OBVIOUS
<1>. HIDE DEF u, v
<1>6. CASE u \notin Surrogates
  <2>1. d.size = 1 /\ d.codepoint = u
    BY <1>2, <1>6 DEF Decoded
  <2>2. Scalar(u)
    <3>1. u < 55296 \/ u > 57343
      BY <1>1, <1>6, UnitsIs, SMT
    <3>. QED
      BY <1>1, <3>1, ScalarIs, SMT
  <2>3. EncodeUtf16(u) = <<u>>
    BY <1>1, EncodeOfUnit, SMT
  <2>4. Sits(EncodeUtf16(u), s, i) /\ Len(EncodeUtf16(u)) = 1
    BY <1>1, <1>5, <2>3, SitsOf1, SMT
  <2>. QED
    <3>1. i + 1 <= Len(s)
      BY <1>1, SMT
    <3>2. d.size \in 1..4 /\ i + d.size <= Len(s)
      BY <2>1, <3>1
    <3>. QED
      BY <2>1, <2>2, <2>4, <3>1, <3>2
<1>7. CASE u \in Surrogates /\ u \in HighSurrogates /\ i + 1 # Len(s) /\ v \in LowSurrogates
  <2>1. v \in Nat /\ i + 2 <= Len(s)
    BY <1>1, <1>3, <1>7, SMT
  <2>2. PICK h \in Nat : u = 55296 + h
    <3>1. 55296 <= u
      BY <1>1, <1>7, UnitsIs, SMT
    <3>2. u - 55296 \in Nat /\ u = 55296 + (u - 55296)
      BY <1>1, <3>1, SMT
    <3>. QED
      BY <3>2, SMT
  <2>3. PICK l \in Nat : v = 56320 + l
    <3>1. 56320 <= v
      BY <1>7, <2>1, UnitsIs, SMT
    <3>2. v - 56320 \in Nat /\ v = 56320 + (v - 56320)
      BY <2>1, <3>1, SMT
    <3>. QED
      BY <3>2, SMT
  <2>4. u <= 56319 /\ v <= 57343
    BY <1>1, <1>7, <2>1, UnitsIs, SMT
  <2>5. h < 1024 /\ l < 1024 /\ u % 1024 = h /\ v % 1024 = l
    BY <2>2, <2>3, <2>4, SMT
  <2>6. d = Decoded(PairOf(h, l), 2)
    <3>1. d = Decoded((u % 1024) * 1024 + (v % 1024) + \h10000, 2)
      BY <1>2, <1>7
    <3>2. (u % 1024) * 1024 + (v % 1024) + \h10000 = PairOf(h, l)
      BY <2>5, SMT DEF PairOf
    <3>. QED
      BY <3>1, <3>2, SMT
  <2>7. EncodeUtf16(PairOf(h, l)) = <<u, v>> /\ Scalar(PairOf(h, l))
    BY <2>2, <2>3, <2>5, EncodeOfPair, SMT
  <2>8. Sits(EncodeUtf16(PairOf(h, l)), s, i) /\ Len(EncodeUtf16(PairOf(h, l))) = 2
    BY <1>5, <2>1, <2>7, SitsOf2, SMT
  <2>9. d.size = 2 /\ d.codepoint = PairOf(h, l)
    BY <2>6, SMT DEF Decoded
  <2>. QED
    <3>1. i + 2 <= Len(s) /\ Scalar(PairOf(h, l))
      BY <2>1, <2>7, SMT
    <3>2. d.size \in 1..4 /\ i + d.size <= Len(s)
      BY <2>9, <3>1
    <3>. QED
      BY <2>8, <2>9, <3>1, <3>2
<1>8. CASE u \in Surrogates /\ ~ (u \in HighSurrogates /\ i + 1 # Len(s) /\ v \in LowSurrogates)
  <2>1. d.size = 1 /\ d.codepoint = InvalidCodepoint
    BY <1>2, <1>8 DEF Invalid, Decoded
  <2>2. Scalar(InvalidCodepoint)
    BY ScalarIs, SMT DEF InvalidCodepoint
  <2>. QED
    BY <1>1, <2>1, <2>2, SMT
<1>. QED
  BY <1>6, <1>7, <1>8, SMT

(* Where a unit has the tail it needs there is the encoding of a scalar.   *)
LEMMA WholeAreScalars16 ==
  ASSUME NEW s, Len(s) \in Nat, NEW i \in Nat, i < Len(s), Unit(s[i + 1]), i + 1 < Len(s) => Unit(s[i + 2]),
         Follow(Utf16Tails(s[i + 1]), s, i)
  PROVE  \E c : Scalar(c) /\ Sits(EncodeUtf16(c), s, i)
<1>. DEFINE u == s[i + 1]
            v == s[i + 2]
<1>1. u \in Nat /\ u < 65536 /\ i + 1 <= Len(s) /\ s[i + 1] = u /\ s[i + 2] = v
  BY SMT DEF Unit
<1>2. Follow(Utf16Tails(u), s, i)
  OBVIOUS
<1>3. i + 1 < Len(s) => v \in Nat
  BY DEF Unit
<1>4. Utf16Tails(u) = IF u \in HighSurrogates THEN <<LowSurrogates>>
                      ELSE IF u \in LowSurrogates THEN <<{}>> ELSE <<>>
  BY TailsOfUnits, Zenon
<1>. HIDE DEF u, v
<1>5. CASE u \in HighSurrogates
  <2>1. i + 2 <= Len(s) /\ v \in LowSurrogates
    <3>1. Follow(<<LowSurrogates>>, s, i) <=> i + 2 <= Len(s) /\ s[i + 2] \in LowSurrogates
      BY FollowOf1
    <3>2. Follow(<<LowSurrogates>>, s, i)
      BY <1>2, <1>4, <1>5
    <3>. QED
      BY <1>1, <3>1, <3>2, SMT
  <2>2. v \in Nat
    BY <1>3, <2>1
  <2>3. 55296 <= u /\ u <= 56319 /\ 56320 <= v /\ v <= 57343
    BY <1>1, <1>5, <2>1, <2>2, UnitsIs, SMT
  <2>4. PICK h \in Nat : u = 55296 + h
    <3>1. u - 55296 \in Nat /\ u = 55296 + (u - 55296)
      BY <1>1, <2>3, SMT
    <3>. QED
      BY <3>1, SMT
  <2>5. PICK l \in Nat : v = 56320 + l
    <3>1. v - 56320 \in Nat /\ v = 56320 + (v - 56320)
      BY <2>2, <2>3, SMT
    <3>. QED
      BY <3>1, SMT
  <2>6. h < 1024 /\ l < 1024
    BY <2>3, <2>4, <2>5, SMT
  <2>7. EncodeUtf16(PairOf(h, l)) = <<u, v>> /\ Scalar(PairOf(h, l))
    BY <2>4, <2>5, <2>6, EncodeOfPair, SMT
  <2>8. Sits(EncodeUtf16(PairOf(h, l)), s, i)
    BY <1>1, <2>1, <2>7, SitsOf2, SMT
  <2>. QED
    BY <2>7, <2>8
<1>6. CASE u \notin HighSurrogates /\ u \in LowSurrogates
  <2>1. Follow(<<{}>>, s, i) <=> i + 2 <= Len(s) /\ s[i + 2] \in {}
    BY FollowOf1
  <2>. QED
    BY <1>2, <1>4, <1>6, <2>1
<1>7. CASE u \notin HighSurrogates /\ u \notin LowSurrogates
  <2>1. Scalar(u)
    BY <1>1, <1>7, UnitsIs, ScalarIs, SMT
  <2>2. EncodeUtf16(u) = <<u>>
    BY <1>1, EncodeOfUnit, SMT
  <2>3. Sits(EncodeUtf16(u), s, i)
    BY <1>1, <2>2, SitsOf1, SMT
  <2>. QED
    BY <2>1, <2>3
<1>. QED
  BY <1>5, <1>6, <1>7

-----------------------------------------------------------------------------
(* The two encodings in one.                                               *)

(* Both encodings at once: e for UTF-8, ~e for UTF-16.                     *)
CodeUnits(e) == IF e THEN Uint8 ELSE Uint16
Enc(e, c) == IF e THEN EncodeUtf8(c) ELSE EncodeUtf16(c)
Dec(e, s, i) == IF e THEN DecodeUtf8(s, i) ELSE DecodeUtf16(s, i)
Tails(e, u) == IF e THEN Utf8Tails(u) ELSE Utf16Tails(u)
Count(e, c) == IF e THEN CalculateUtf8Len(c) ELSE CalculateUtf16Len(c)
WellFormedText(e, s) == IF e THEN WellFormedUtf8(s) ELSE WellFormedUtf16(s)
Mark(e) == IF e THEN \hEF ELSE InvalidCodepoint
Text(e, s) == s \in Seq(CodeUnits(e))
(* c is in s behind its first i places                                     *)
At(e, s, i, c) == Scalar(c) /\ Sits(Enc(e, c), s, i)
Past(e, i, c) == i + Len(Enc(e, c))

(* A text is an array of its units.                                        *)
LEMMA TextIs ==
  ASSUME NEW e \in BOOLEAN, NEW s, Text(e, s)
  PROVE  /\ Len(s) \in Nat /\ s = [i \in 1..Len(s) |-> s[i]]
         /\ \A i \in 1..Len(s) : s[i] \in CodeUnits(e) /\ s[i] \in Nat
         /\ ~e => \A i \in 1..Len(s) : Unit(s[i])
<1>. DEFINE C == CodeUnits(e)
<1>1. s \in Seq(C)
  BY SMTT(40) DEF Text
<1>2. \A x \in C : x \in Nat /\ (~e => Unit(x))
  <2>. DEFINE lo == 255 hi == 65535
  <2>1. Uint8 = 0..lo /\ Uint16 = 0..hi
    BY SMT DEF Uint8, Uint16
  <2>2. lo \in Nat /\ hi \in Nat /\ hi < 65536
    BY SMT
  <2>. HIDE DEF lo, hi
  <2>. QED
    BY <2>1, <2>2 DEF CodeUnits, Unit
<1>. HIDE DEF C
<1>3. Len(s) \in Nat /\ s = [i \in 1..Len(s) |-> s[i]] /\ \A i \in 1..Len(s) : s[i] \in C
  BY <1>1
<1>. QED
  BY <1>2, <1>3 DEF C


(* A unit of UTF-16 is one of its code units.                              *)
LEMMA UnitsUpTo ==
  ASSUME NEW x, Unit(x)
  PROVE  x \in CodeUnits(FALSE)
<1>1. PICK m \in Nat : m = 65535
  BY SMT
<1>2. x \in Nat /\ x <= m
  BY <1>1, SMT DEF Unit
<1>3. CodeUnits(FALSE) = 0..m
  BY <1>1, SMT DEF CodeUnits, Uint8, Uint16
<1>4. x \in 0..m
  BY <1>2, SMT
<1>. QED
  BY <1>3, <1>4, Zenon

(* A scalar is encoded in one to four bytes.                               *)
LEMMA EncodedUtf8 ==
  ASSUME NEW c, Scalar(c)
  PROVE  /\ EncodeUtf8(c) \in Seq(CodeUnits(TRUE)) /\ Len(EncodeUtf8(c)) \in 1..4
<1>. DEFINE B == CodeUnits(TRUE)
<1>. SUFFICES EncodeUtf8(c) \in Seq(B) /\ Len(EncodeUtf8(c)) \in 1..4
  BY Zenon
<1>1. \A x \in Nat : x < 256 => x \in B
  BY SMT DEF CodeUnits, Uint8, Uint16
<1>. HIDE DEF B
<1>2. ASSUME NEW a \in B PROVE <<a>> \in Seq(B) /\ Len(<<a>>) \in 1..4
  OBVIOUS
<1>3. ASSUME NEW a \in B, NEW b \in B PROVE <<a, b>> \in Seq(B) /\ Len(<<a, b>>) \in 1..4
  OBVIOUS
<1>4. ASSUME NEW a \in B, NEW b \in B, NEW d \in B PROVE <<a, b, d>> \in Seq(B) /\ Len(<<a, b, d>>) \in 1..4
  OBVIOUS
<1>5. ASSUME NEW a \in B, NEW b \in B, NEW d \in B, NEW f \in B
      PROVE <<a, b, d, f>> \in Seq(B) /\ Len(<<a, b, d, f>>) \in 1..4
  OBVIOUS
<1>6. CASE c < 128
  <2>1. c \in B /\ EncodeUtf8(c) = <<c>>
    BY <1>1, <1>6, EncodeOf1, ScalarIs, SMT
  <2>. QED
    BY <1>2, <2>1
<1>7. CASE \E x, z \in Nat : 1 < x /\ x < 32 /\ z < 64 /\ c = Of2(x, z)
  <2>1. PICK x \in Nat, z \in Nat : 1 < x /\ x < 32 /\ z < 64 /\ c = Of2(x, z)
    BY <1>7
  <2>2. 192 + x \in B /\ 128 + z \in B
    BY <1>1, <2>1, SMT
  <2>3. EncodeUtf8(c) = <<192 + x, 128 + z>>
    BY <2>1, EncodeOf2
  <2>. QED
    BY <1>3, <2>2, <2>3
<1>8. CASE c > 2047 /\ \E x, y, z \in Nat : x < 16 /\ y < 64 /\ z < 64 /\ c = Of3(x, y, z)
  <2>1. PICK x \in Nat, y \in Nat, z \in Nat : x < 16 /\ y < 64 /\ z < 64 /\ c = Of3(x, y, z)
    BY <1>8
  <2>2. 224 + x \in B /\ 128 + y \in B /\ 128 + z \in B
    BY <1>1, <2>1, SMT
  <2>3. EncodeUtf8(c) = <<224 + x, 128 + y, 128 + z>>
    BY <1>8, <2>1, EncodeOf3
  <2>. QED
    BY <1>4, <2>2, <2>3
<1>9. CASE c > 65535 /\ \E w, x, y, z \in Nat : w < 5 /\ x < 64 /\ y < 64 /\ z < 64 /\ c = Of4(w, x, y, z)
  <2>1. PICK w \in Nat, x \in Nat, y \in Nat, z \in Nat :
          w < 5 /\ x < 64 /\ y < 64 /\ z < 64 /\ c = Of4(w, x, y, z)
    BY <1>9
  <2>2. 240 + w \in B /\ 128 + x \in B /\ 128 + y \in B /\ 128 + z \in B
    BY <1>1, <2>1, SMT
  <2>3. w < 8 /\ Of4(w, x, y, z) > 65535
    BY <1>9, <2>1, SMT
  <2>4. EncodeUtf8(c) = <<240 + w, 128 + x, 128 + y, 128 + z>>
    BY <2>1, <2>3, EncodeOf4
  <2>. QED
    BY <1>5, <2>2, <2>4
<1>. QED
  BY <1>6, <1>7, <1>8, <1>9, ScalarForms, SMT

(* It is encoded in one or two units.                                      *)
LEMMA EncodedUtf16 ==
  ASSUME NEW c, Scalar(c)
  PROVE  /\ EncodeUtf16(c) \in Seq(CodeUnits(FALSE)) /\ Len(EncodeUtf16(c)) \in 1..4
<1>. DEFINE B == CodeUnits(FALSE)
<1>. SUFFICES EncodeUtf16(c) \in Seq(B) /\ Len(EncodeUtf16(c)) \in 1..4
  BY Zenon
<1>1. ASSUME NEW x, Unit(x) PROVE x \in B
  BY <1>1, UnitsUpTo, Zenon
<1>. HIDE DEF B
<1>2. ASSUME NEW a \in B PROVE <<a>> \in Seq(B) /\ Len(<<a>>) \in 1..4
  OBVIOUS
<1>3. ASSUME NEW a \in B, NEW b \in B PROVE <<a, b>> \in Seq(B) /\ Len(<<a, b>>) \in 1..4
  OBVIOUS
<1>4. CASE c < 65536
  <2>1. Unit(c) /\ EncodeUtf16(c) = <<c>>
    BY <1>4, EncodeOfUnit, ScalarIs, SMT DEF Unit
  <2>. QED
    BY <1>1, <1>2, <2>1, SMT
<1>5. CASE \E h, l \in Nat : h < 1024 /\ l < 1024 /\ c = PairOf(h, l)
  <2>1. PICK h \in Nat, l \in Nat : h < 1024 /\ l < 1024 /\ c = PairOf(h, l)
    BY <1>5
  <2>2. Unit(55296 + h) /\ Unit(56320 + l)
    BY <2>1, SMT DEF Unit
  <2>3. EncodeUtf16(c) = <<55296 + h, 56320 + l>>
    BY <2>1, EncodeOfPair, SMT
  <2>. QED
    BY <1>1, <1>3, <2>2, <2>3, SMT
<1>. QED
  BY <1>4, <1>5, PairForms, SMT

(* The two in one, with the lengths that the converters count.             *)
LEMMA Encoded ==
  ASSUME NEW e \in BOOLEAN, NEW c, Scalar(c)
  PROVE  /\ Text(e, Enc(e, c)) /\ Len(Enc(e, c)) \in 1..4 /\ Len(Enc(e, c)) = Count(e, c)
<1>1. Text(e, Enc(e, c)) /\ Len(Enc(e, c)) \in 1..4
  BY EncodedUtf8, EncodedUtf16, Zenon DEF Text, Enc
<1>2. CASE e
  <2>1. Len(EncodeUtf8(c)) \in Nat /\ Sits(EncodeUtf8(c), EncodeUtf8(c), 0)
    BY <1>1, <1>2 DEF Enc, Sits
  <2>2. Len(EncodeUtf8(c)) = CalculateUtf8Len(c)
    BY <2>1, DecodesUtf8
  <2>. QED
    BY <1>1, <1>2, <2>2 DEF Enc, Count
<1>3. CASE ~e
  <2>1. Len(EncodeUtf16(c)) \in Nat /\ Sits(EncodeUtf16(c), EncodeUtf16(c), 0)
    BY <1>1, <1>3 DEF Enc, Sits
  <2>2. Len(EncodeUtf16(c)) = CalculateUtf16Len(c)
    BY <2>1, DecodesUtf16
  <2>. QED
    BY <1>1, <1>3, <2>2 DEF Enc, Count
<1>. QED
  BY <1>2, <1>3

(* A character that is there is decoded.                                   *)
LEMMA Decodes ==
  ASSUME NEW e \in BOOLEAN, NEW s, Text(e, s), NEW i \in Nat, NEW c, At(e, s, i, c)
  PROVE  /\ Dec(e, s, i + 1) = Decoded(c, Len(Enc(e, c)))
         /\ i < Len(s) /\ Past(e, i, c) <= Len(s)
         /\ Len(Enc(e, c)) = 1 + Len(Tails(e, s[i + 1]))
         /\ Follow(Tails(e, s[i + 1]), s, i)
<1>1. Len(s) \in Nat /\ \A k \in 1..Len(s) : s[k] \in Nat
  BY TextIs
<1>2. Scalar(c) /\ Sits(Enc(e, c), s, i)
  BY DEF At
<1>3. Past(e, i, c) <= Len(s)
  BY <1>2 DEF Sits, Past
<1>4. CASE e
  <2>1. Sits(EncodeUtf8(c), s, i)
    BY <1>2, <1>4 DEF Enc
  <2>2. DecodeUtf8(s, i + 1) = Decoded(c, Len(EncodeUtf8(c))) /\ Len(EncodeUtf8(c)) = SizeOf(s[i + 1])
    BY <1>1, <1>2, <2>1, DecodesUtf8
  <2>3. i < Len(s) /\ s[i + 1] \in Nat /\ Whole8(s, i)
    BY <1>1, <1>2, <2>1, ScalarsAreWhole8
  <2>4. Follow(Utf8Tails(s[i + 1]), s, i)
    BY <1>1, <2>3, FollowUtf8
  <2>5. 1 + Len(Utf8Tails(s[i + 1])) = SizeOf(s[i + 1])
    BY <1>1, <2>3, TailLength8
  <2>. QED
    BY <1>3, <1>4, <2>2, <2>3, <2>4, <2>5, Zenon DEF Enc, Dec, Tails
<1>5. CASE ~e
  <2>1. Sits(EncodeUtf16(c), s, i)
    BY <1>2, <1>5 DEF Enc
  <2>2. /\ DecodeUtf16(s, i + 1) = Decoded(c, Len(EncodeUtf16(c)))
        /\ Len(EncodeUtf16(c)) = 1 + Len(Utf16Tails(s[i + 1]))
        /\ i < Len(s)
        /\ Follow(Utf16Tails(s[i + 1]), s, i)
    BY <1>1, <1>2, <2>1, DecodesUtf16
  <2>. QED
    BY <1>3, <1>5, <2>2, Zenon DEF Enc, Dec, Tails
<1>. QED
  BY <1>4, <1>5

(* Whatever is there, some of it is read, as a character; when that is not *)
(* the replacement character, it is there.                                 *)
LEMMA Reads ==
  ASSUME NEW e \in BOOLEAN, NEW s, Text(e, s), NEW i \in Nat, i < Len(s), NEW d, d = Dec(e, s, i + 1)
  PROVE  /\ d.size \in 1..4 /\ i + d.size <= Len(s)
         /\ Scalar(d.codepoint)
         /\ e => Count(FALSE, d.codepoint) <= d.size
         /\ d.codepoint # InvalidCodepoint => At(e, s, i, d.codepoint) /\ d.size = Len(Enc(e, d.codepoint))
<1>1. Len(s) \in Nat /\ s[i + 1] \in Nat
  BY TextIs
<1>2. CASE e
  <2>1. d = DecodeUtf8(s, i + 1)
    BY <1>2 DEF Dec
  <2>2. /\ d.size \in 1..4 /\ i + d.size <= Len(s)
        /\ Scalar(d.codepoint)
        /\ CalculateUtf16Len(d.codepoint) <= d.size
        /\ d.codepoint # InvalidCodepoint =>
              Sits(EncodeUtf8(d.codepoint), s, i) /\ d.size = Len(EncodeUtf8(d.codepoint))
    BY <1>1, <2>1, ReadUtf8
  <2>. QED
    BY <1>2, <2>2, Zenon DEF At, Enc, Count
<1>3. CASE ~e
  <2>1. d = DecodeUtf16(s, i + 1)
    BY <1>3 DEF Dec
  <2>2. Unit(s[i + 1]) /\ (i + 1 < Len(s) => Unit(s[i + 2]))
    BY <1>1, <1>3, TextIs
  <2>3. /\ d.size \in 1..4 /\ i + d.size <= Len(s)
        /\ Scalar(d.codepoint)
        /\ d.codepoint # InvalidCodepoint =>
              Sits(EncodeUtf16(d.codepoint), s, i) /\ d.size = Len(EncodeUtf16(d.codepoint))
    BY <1>1, <2>1, <2>2, ReadUtf16
  <2>. QED
    BY <1>3, <2>3, Zenon DEF At, Enc
<1>. QED
  BY <1>2, <1>3

(* Units with what must follow the first are a character.                  *)
LEMMA WholeIsThere ==
  ASSUME NEW e \in BOOLEAN, NEW s, Text(e, s), NEW i \in Nat, i < Len(s), Follow(Tails(e, s[i + 1]), s, i)
  PROVE  \E c : At(e, s, i, c)
<1>1. Len(s) \in Nat /\ s[i + 1] \in Nat
  BY TextIs
<1>2. CASE e
  <2>1. Whole8(s, i)
    BY <1>1, <1>2, FollowUtf8 DEF Tails
  <2>2. \E c : Scalar(c) /\ Sits(EncodeUtf8(c), s, i)
    BY <1>1, <2>1, WholeAreScalars8
  <2>. QED
    BY <1>2, <2>2 DEF At, Enc
<1>3. CASE ~e
  <2>1. Unit(s[i + 1]) /\ (i + 1 < Len(s) => Unit(s[i + 2]))
    BY <1>1, <1>3, TextIs
  <2>2. Follow(Utf16Tails(s[i + 1]), s, i)
    BY <1>3 DEF Tails
  <2>3. \E c : Scalar(c) /\ Sits(EncodeUtf16(c), s, i)
    BY <1>1, <2>1, <2>2, WholeAreScalars16
  <2>. QED
    BY <1>3, <2>3 DEF At, Enc
<1>. QED
  BY <1>2, <1>3

(* The replacement character begins with a unit of its own.                *)
LEMMA MarkIs ==
  ASSUME NEW e \in BOOLEAN
  PROVE  Scalar(InvalidCodepoint) /\ Enc(e, InvalidCodepoint)[1] = Mark(e)
<1>1. Scalar(InvalidCodepoint)
  BY ScalarIs, SMT DEF InvalidCodepoint
<1>2. InvalidCodepoint = Of3(15, 63, 61) /\ Of3(15, 63, 61) > 2047
  BY SMT DEF Of3, InvalidCodepoint
<1>3. EncodeUtf8(InvalidCodepoint) = <<224 + 15, 128 + 63, 128 + 61>>
  BY <1>2, EncodeOf3, SMT
<1>4. EncodeUtf8(InvalidCodepoint)[1] = \hEF
  BY <1>3, SMT
<1>5. InvalidCodepoint \in Nat /\ InvalidCodepoint < 65536
  BY SMT DEF InvalidCodepoint
<1>6. EncodeUtf16(InvalidCodepoint)[1] = InvalidCodepoint
  BY <1>5, EncodeOfUnit, SMT
<1>. QED
  BY <1>1, <1>4, <1>6, SMT DEF Enc, Mark

-----------------------------------------------------------------------------
(* Well-formed texts. WellFormed is recursive; a set of places, closed     *)
(* under reading a character, says the same without induction.             *)

(* A set of places, each of them the end of s or where a character begins  *)
(* whose end is one of them.                                               *)
Closed(e, s, B) ==
  /\ B \in SUBSET (0..Len(s))
  /\ \A i \in B : i = Len(s) \/ \E c : At(e, s, i, c) /\ Past(e, i, c) \in B

(* s is characters from its beginning to its end.                          *)
Fills(e, s) == \E B : Closed(e, s, B) /\ 0 \in B

(* The function that WellFormed defines recursively.                       *)
IsWhole(s, tails, w) ==
  w = [i \in 1..(Len(s) + 1) |->
        IF i = Len(s) + 1 THEN TRUE
        ELSE /\ i + Len(tails[i]) <= Len(s)
             /\ \A k \in 1..Len(tails[i]) : s[i + k] \in tails[i][k]
             /\ w[i + Len(tails[i]) + 1]]

(* A character takes at least one place.                                   *)
LEMMA PastIs ==
  ASSUME NEW e \in BOOLEAN, NEW s, Text(e, s), NEW i \in Nat, NEW c, At(e, s, i, c)
  PROVE  /\ Past(e, i, c) \in Nat /\ i < Past(e, i, c) /\ Past(e, i, c) <= Len(s) /\ i < Len(s)
         /\ Past(e, i, c) = (i + 1) + Len(Tails(e, s[i + 1]))
         /\ Dec(e, s, i + 1).size = Len(Enc(e, c)) /\ Dec(e, s, i + 1).codepoint = c
<1>1. Scalar(c)
  BY DEF At
<1>2. Len(Enc(e, c)) \in 1..4
  BY <1>1, Encoded
<1>3. Past(e, i, c) = i + Len(Enc(e, c))
  BY DEF Past
<1>4. /\ Dec(e, s, i + 1) = Decoded(c, Len(Enc(e, c)))
      /\ i < Len(s) /\ Past(e, i, c) <= Len(s)
      /\ Len(Enc(e, c)) = 1 + Len(Tails(e, s[i + 1]))
  BY Decodes
<1>5. Len(Tails(e, s[i + 1])) = Len(Enc(e, c)) - 1
  <2>1. Len(Tails(e, s[i + 1])) \in Nat
    <3>1. e \/ ~e
      OBVIOUS
    <3>. QED
      BY DEF Tails, Utf8Tails, Utf16Tails
  <2>. QED
    BY <1>2, <1>4, <2>1
<1>6. Dec(e, s, i + 1).size = Len(Enc(e, c)) /\ Dec(e, s, i + 1).codepoint = c
  BY <1>4 DEF Decoded
<1>. QED
  BY <1>2, <1>3, <1>4, <1>5, <1>6

(* The definition by recursion says just that there is such a set with the *)
(* beginning in it.                                                        *)
LEMMA WellFormedIs ==
  ASSUME NEW e \in BOOLEAN, NEW s, Text(e, s)
  PROVE  WellFormedText(e, s) <=> Fills(e, s)
<1>. DEFINE tails == [i \in 1..Len(s) |-> Tails(e, s[i])]
            w == CHOOSE v : IsWhole(s, tails, v)
            n == Len(s)
<1>1. n \in Nat
  BY TextIs
<1>2. WellFormedText(e, s) <=> WellFormed(s, tails)
  <2>1. CASE e
    BY <2>1 DEF WellFormedText, WellFormedUtf8, Tails
  <2>2. CASE ~e
    BY <2>2 DEF WellFormedText, WellFormedUtf16, Tails
  <2>. QED
    BY <2>1, <2>2
<1>3. WellFormed(s, tails) <=> w[1]
  BY Zenon DEF WellFormed, IsWhole
<1>4. \A i \in 0..n : i # n => tails[i + 1] = Tails(e, s[i + 1])
  BY <1>1
<1>. HIDE DEF tails, w
<1>5. ASSUME NEW i \in 0..n, i # n, Follow(Tails(e, s[i + 1]), s, i)
      PROVE  \E c : At(e, s, i, c) /\ Past(e, i, c) = (i + 1) + Len(Tails(e, s[i + 1]))
  <2>1. i \in Nat /\ i < Len(s)
    BY <1>1, <1>5
  <2>2. PICK c : At(e, s, i, c)
    BY <1>5, <2>1, WholeIsThere
  <2>. QED
    BY <2>1, <2>2, PastIs
(* A function that is what the definition asks for.                        *)
<1>. DEFINE Good(i) == \E B : Closed(e, s, B) /\ i \in B
            f == [i \in 1..(n + 1) |-> Good(i - 1)]
<1>6. Good(n)
  <2>1. Closed(e, s, {n})
    BY <1>1 DEF Closed
  <2>. QED
    BY <2>1
<1>7. ASSUME NEW i \in 0..n, i # n
      PROVE  Good(i) <=> Follow(Tails(e, s[i + 1]), s, i) /\ Good((i + 1) + Len(Tails(e, s[i + 1])))
  <2>0. i \in Nat
    OBVIOUS
  <2>1. ASSUME Good(i) PROVE Follow(Tails(e, s[i + 1]), s, i) /\ Good((i + 1) + Len(Tails(e, s[i + 1])))
    <3>1. PICK B : Closed(e, s, B) /\ i \in B
      BY <2>1
    <3>2. PICK c : At(e, s, i, c) /\ Past(e, i, c) \in B
      BY <1>7, <3>1 DEF Closed
    <3>3. Follow(Tails(e, s[i + 1]), s, i)
      BY <2>0, <3>2, Decodes
    <3>4. Past(e, i, c) = (i + 1) + Len(Tails(e, s[i + 1]))
      BY <2>0, <3>2, PastIs
    <3>. QED
      BY <3>1, <3>2, <3>3, <3>4
  <2>2. ASSUME Follow(Tails(e, s[i + 1]), s, i), Good((i + 1) + Len(Tails(e, s[i + 1]))) PROVE Good(i)
    <3>1. PICK c : At(e, s, i, c) /\ Past(e, i, c) = (i + 1) + Len(Tails(e, s[i + 1]))
      BY <1>5, <1>7, <2>2
    <3>2. PICK B : Closed(e, s, B) /\ Past(e, i, c) \in B
      BY <2>2, <3>1
    <3>3. Closed(e, s, B \cup {i})
      BY <3>1, <3>2 DEF Closed
    <3>. QED
      BY <3>3
  <2>. QED
    BY <2>1, <2>2
<1>. HIDE DEF Good
<1>8. ASSUME NEW j \in 1..(n + 1), j # n + 1, NEW v
      PROVE  /\ Follow(Tails(e, s[(j - 1) + 1]), s, j - 1) <=>
                  j + Len(tails[j]) <= n /\ \A k \in 1..Len(tails[j]) : s[j + k] \in tails[j][k]
             /\ ((j - 1) + 1) + Len(Tails(e, s[(j - 1) + 1])) = j + Len(tails[j])
  <2>1. j - 1 \in 0..n /\ j - 1 # n /\ (j - 1) + 1 = j
    BY <1>1, <1>8
  <2>2. tails[j] = Tails(e, s[j])
    BY <1>4, <2>1
  <2>. QED
    BY <2>1, <2>2 DEF Follow
(* The length of a tail, and what a function has behind it.                *)
<1>9. ASSUME NEW j \in 1..(n + 1), j # n + 1 PROVE Len(tails[j]) \in Nat
  <2>1. tails[j] = Tails(e, s[j])
    <3>1. j - 1 \in 0..n /\ j - 1 # n /\ (j - 1) + 1 = j
      BY <1>1, <1>9
    <3>. QED
      BY <1>4, <3>1
  <2>2. e \/ ~e
    OBVIOUS
  <2>. QED
    BY <2>1, <2>2, SMTT(30) DEF Tails, Utf8Tails, Utf16Tails
<1>. DEFINE Body(j, v) == /\ j + Len(tails[j]) <= n
                          /\ \A k \in 1..Len(tails[j]) : s[j + k] \in tails[j][k]
                          /\ v[j + Len(tails[j]) + 1]
<1>10. \A j \in 1..(n + 1) : f[j] = Good(j - 1)
  BY Zenon
<1>. HIDE DEF f
<1>11. ASSUME NEW j \in 1..(n + 1), j # n + 1 PROVE f[j] = Body(j, f)
  <2>. DEFINE m == j + Len(tails[j])
  <2>1. j - 1 \in 0..n /\ j - 1 # n /\ (m + 1) - 1 = m /\ m \in Nat
    BY <1>1, <1>9, <1>11
  <2>2. Good(j - 1) <=> Follow(Tails(e, s[(j - 1) + 1]), s, j - 1)
                        /\ Good(((j - 1) + 1) + Len(Tails(e, s[(j - 1) + 1])))
    BY <1>7, <2>1, Zenon
  <2>3. Good(j - 1) <=> /\ m <= n /\ \A k \in 1..Len(tails[j]) : s[j + k] \in tails[j][k]
                        /\ Good(m)
    BY <1>8, <1>11, <2>2, Zenon
  <2>4. m <= n => f[m + 1] = Good(m)
    <3>1. m <= n => m + 1 \in 1..(n + 1)
      BY <1>1, <2>1
    <3>. QED
      BY <1>10, <2>1, <3>1
  <2>5. Good(j - 1) <=> Body(j, f)
    BY <2>3, <2>4, Zenon
  <2>6. f[j] = Good(j - 1)
    BY <1>10, Zenon
  <2>7. Good(j - 1) \in BOOLEAN /\ Body(j, f) \in BOOLEAN
    BY Zenon DEF Good
  <2>. QED
    BY <2>5, <2>6, <2>7, Zenon
<1>12. f[n + 1] = TRUE
  <2>1. n + 1 \in 1..(n + 1) /\ (n + 1) - 1 = n
    BY <1>1
  <2>2. f[n + 1] = Good(n)
    BY <1>10, <2>1, Zenon
  <2>3. Good(n) \in BOOLEAN
    BY Zenon DEF Good
  <2>. QED
    BY <1>6, <2>2, <2>3, Zenon
<1>13. IsWhole(s, tails, f)
  <2>1. \A j \in 1..(n + 1) : f[j] = IF j = n + 1 THEN TRUE ELSE Body(j, f)
    BY <1>11, <1>12, Zenon
  <2>2. f = [j \in 1..(n + 1) |-> f[j]]
    BY Zenon DEF f
  <2>3. f = [j \in 1..(n + 1) |-> IF j = n + 1 THEN TRUE ELSE Body(j, f)]
    BY <2>1, <2>2, Zenon
  <2>. QED
    BY <2>3, Zenon DEF IsWhole
<1>14. IsWhole(s, tails, w)
  BY <1>13, Zenon DEF w
<1>15. \A j \in 1..(n + 1) : w[j] = IF j = n + 1 THEN TRUE ELSE Body(j, w)
  BY <1>14, Zenon DEF IsWhole
<1>16. ASSUME w[1] PROVE Fills(e, s)
  <2>. DEFINE B == {i \in 0..n : w[i + 1]}
  <2>0. \A i : i \in B <=> i \in 0..n /\ w[i + 1]
    BY Zenon
  <2>3. B \in SUBSET (0..n)
    BY Zenon
  <2>. HIDE DEF B
  <2>1. 0 \in B
    <3>1. 0 \in 0..n /\ 0 + 1 = 1
      BY <1>1
    <3>. QED
      BY <1>16, <2>0, <3>1, Zenon
  <2>2. ASSUME NEW i \in B, i # n PROVE \E c : At(e, s, i, c) /\ Past(e, i, c) \in B
    <3>. DEFINE j == i + 1
                m == j + Len(tails[j])
    <3>0. w[j]
      BY <2>0, <2>2, Zenon
    <3>1. i \in 0..n
      BY <2>0, Zenon
    <3>2. j \in 1..(n + 1) /\ j # n + 1 /\ j - 1 = i
      BY <1>1, <2>2, <3>1
    <3>3. Body(j, w)
      <4>1. w[j] = IF j = n + 1 THEN TRUE ELSE Body(j, w)
        BY <1>15, <3>2, Zenon
      <4>2. w[j] <=> Body(j, w)
        BY <3>2, <4>1, Zenon
      <4>. QED
        BY <3>0, <4>2, Zenon
    <3>4. Follow(Tails(e, s[j]), s, i) /\ j + Len(Tails(e, s[j])) = m
      BY <1>8, <3>2, <3>3
    <3>5. PICK c : At(e, s, i, c) /\ Past(e, i, c) = m
      BY <1>5, <2>2, <3>1, <3>4
    <3>6. m \in 0..n
      <4>1. Len(tails[j]) \in Nat /\ m <= n
        BY <1>9, <3>2, <3>3, Zenon
      <4>2. \A a, t \in Nat : a + t <= n => a + t \in 0..n
        BY <1>1
      <4>3. j \in Nat
        BY <1>1, <3>1
      <4>. QED
        BY <4>1, <4>2, <4>3, Zenon
    <3>7. w[m + 1]
      BY <3>3, Zenon
    <3>8. m \in B
      BY <2>0, <3>6, <3>7, Zenon
    <3>. QED
      BY <3>5, <3>8, Zenon
  <2>4. Closed(e, s, B)
    BY <2>2, <2>3, Zenon DEF Closed
  <2>. QED
    BY <2>1, <2>4, Zenon DEF Fills
<1>17. ASSUME Fills(e, s) PROVE w[1]
  <2>1. PICK B : Closed(e, s, B) /\ 0 \in B
    BY <1>17 DEF Fills
  <2>. DEFINE Bad == {i \in 1..(n + 1) : i - 1 \in B /\ ~w[i]}
  <2>2. SUFFICES ASSUME Bad # {} PROVE FALSE
    <3>1. 1 \in 1..(n + 1) /\ 1 - 1 = 0
      BY <1>1
    <3>2. ~w[1] => 1 \in Bad
      BY <2>1, <3>1, Zenon
    <3>. QED
      BY <3>2, Zenon
  <2>3. Bad \in SUBSET (1..(n + 1)) /\ n + 1 \in Nat
    BY <1>1
  <2>. HIDE DEF Bad
  <2>4. PICK j \in Bad : \A i \in Bad : i <= j
    BY <2>2, <2>3, LastExists
  <2>5. j \in 1..(n + 1) /\ j - 1 \in B /\ ~w[j]
    BY Zenon DEF Bad
  <2>6. j # n + 1
    BY <1>15, <2>5, Zenon
  <2>7. j - 1 \in 0..n /\ j - 1 # n /\ (j - 1) + 1 = j /\ j - 1 \in Nat
    BY <1>1, <2>5, <2>6
  <2>8. PICK c : At(e, s, j - 1, c) /\ Past(e, j - 1, c) \in B
    BY <2>1, <2>5, <2>7 DEF Closed
  <2>9. Follow(Tails(e, s[(j - 1) + 1]), s, j - 1)
    BY <2>7, <2>8, Decodes
  <2>10. Past(e, j - 1, c) = j + Len(tails[j]) /\ Past(e, j - 1, c) <= n
    <3>1. Past(e, j - 1, c) = ((j - 1) + 1) + Len(Tails(e, s[(j - 1) + 1])) /\ Past(e, j - 1, c) <= n
      BY <2>7, <2>8, PastIs
    <3>. QED
      BY <1>8, <2>5, <2>6, <3>1
  <2>. DEFINE m == j + Len(tails[j])
  <2>11. m + 1 \in 1..(n + 1) /\ (m + 1) - 1 = m /\ ~ (m + 1 <= j)
    BY <1>1, <1>9, <2>5, <2>6, <2>10
  <2>12. m + 1 \notin Bad
    BY <2>4, <2>11, Zenon
  <2>13. w[m + 1]
    BY <2>8, <2>10, <2>11, <2>12, Zenon DEF Bad
  <2>14. m <= n /\ \A k \in 1..Len(tails[j]) : s[j + k] \in tails[j][k]
    BY <1>8, <2>5, <2>6, <2>9, Zenon
  <2>15. w[j]
    BY <1>15, <2>5, <2>6, <2>13, <2>14, Zenon
  <2>. QED
    BY <2>5, <2>15
<1>. QED
  BY <1>2, <1>3, <1>16, <1>17, Zenon

-----------------------------------------------------------------------------
(* Texts that say the same. A set of pairs of places goes through both at  *)
(* once, one character at a time.                                          *)

(* What a concatenation holds.                                             *)
LEMMA JoinedIs ==
  ASSUME NEW C, NEW s \in Seq(C), NEW p \in Seq(C)
  PROVE  /\ s \o p \in Seq(C) /\ Len(s \o p) = Len(s) + Len(p)
         /\ Len(s) \in Nat /\ Len(p) \in Nat
         /\ \A i \in 1..Len(s) : (s \o p)[i] = s[i]
         /\ \A k \in 1..Len(p) : (s \o p)[Len(s) + k] = p[k]
OBVIOUS

(* What a concatenation of texts holds.                                    *)
LEMMA Joined ==
  ASSUME NEW e \in BOOLEAN, NEW s, NEW p, Text(e, s), Text(e, p)
  PROVE  /\ Text(e, s \o p) /\ Len(s \o p) = Len(s) + Len(p)
         /\ Len(s) \in Nat /\ Len(p) \in Nat
         /\ \A i \in 1..Len(s) : (s \o p)[i] = s[i]
         /\ \A k \in 1..Len(p) : (s \o p)[Len(s) + k] = p[k]
<1>. DEFINE C == CodeUnits(e)
<1>1. s \in Seq(C) /\ p \in Seq(C)
  BY Zenon DEF Text
<1>2. s \o p \in Seq(C) => Text(e, s \o p)
  BY Zenon DEF Text
<1>. HIDE DEF C
<1>. QED
  BY <1>1, <1>2, JoinedIs

(* t begins with s.                                                        *)
Begins(s, t) ==
  /\ Len(s) <= Len(t)
  /\ \A i \in 1..Len(s) : t[i] = s[i]

(* A character stays where it is when something is written behind it.      *)
LEMMA AtMore ==
  ASSUME NEW e \in BOOLEAN, NEW s, NEW t, Len(s) \in Nat, Len(t) \in Nat, Begins(s, t),
         NEW i \in Nat, NEW c, At(e, s, i, c)
  PROVE  At(e, t, i, c)
<1>1. Scalar(c) /\ Sits(Enc(e, c), s, i)
  BY DEF At
<1>2. Len(Enc(e, c)) \in 1..4
  BY <1>1, Encoded
<1>3. Sits(Enc(e, c), t, i)
  BY <1>1, <1>2 DEF Sits, Begins
<1>. QED
  BY <1>1, <1>3 DEF At

(* A character written at the end is there.                                *)
LEMMA AtEnd ==
  ASSUME NEW e \in BOOLEAN, NEW s, Text(e, s), NEW c, Scalar(c)
  PROVE  /\ Text(e, s \o Enc(e, c)) /\ Begins(s, s \o Enc(e, c))
         /\ At(e, s \o Enc(e, c), Len(s), c)
         /\ Len(s \o Enc(e, c)) = Len(s) + Len(Enc(e, c)) /\ Past(e, Len(s), c) = Len(s \o Enc(e, c))
         /\ Len(s) \in Nat /\ Len(Enc(e, c)) \in 1..4
<1>1. Text(e, Enc(e, c)) /\ Len(Enc(e, c)) \in 1..4
  BY Encoded
<1>2. /\ Text(e, s \o Enc(e, c)) /\ Len(s \o Enc(e, c)) = Len(s) + Len(Enc(e, c))
      /\ Len(s) \in Nat
      /\ \A i \in 1..Len(s) : (s \o Enc(e, c))[i] = s[i]
      /\ \A k \in 1..Len(Enc(e, c)) : (s \o Enc(e, c))[Len(s) + k] = Enc(e, c)[k]
  BY <1>1, Joined
<1>3. Sits(Enc(e, c), s \o Enc(e, c), Len(s))
  BY <1>1, <1>2 DEF Sits
<1>4. Begins(s, s \o Enc(e, c))
  BY <1>1, <1>2 DEF Begins
<1>. QED
  BY <1>1, <1>2, <1>3, <1>4 DEF At, Past

(* A text of characters stays one when a character is written.             *)
LEMMA FillsMore ==
  ASSUME NEW e \in BOOLEAN, NEW s, Text(e, s), Fills(e, s), NEW c, Scalar(c)
  PROVE  Fills(e, s \o Enc(e, c))
<1>. DEFINE t == s \o Enc(e, c)
<1>1. /\ Begins(s, t) /\ At(e, t, Len(s), c) /\ Text(e, t)
      /\ Len(t) = Len(s) + Len(Enc(e, c)) /\ Past(e, Len(s), c) = Len(t)
      /\ Len(s) \in Nat /\ Len(Enc(e, c)) \in 1..4
  BY AtEnd
<1>. HIDE DEF t
<1>2. PICK B : Closed(e, s, B) /\ 0 \in B
  BY DEF Fills
<1>3. B \cup {Len(t)} \in SUBSET (0..Len(t))
  <2>1. \A i \in B : i \in 0..Len(s)
    BY <1>2 DEF Closed
  <2>2. \A i \in 0..Len(s) : i \in 0..Len(t)
    BY <1>1
  <2>3. Len(t) \in 0..Len(t)
    BY <1>1
  <2>. QED
    BY <2>1, <2>2, <2>3
<1>4. ASSUME NEW i \in B \cup {Len(t)}, i # Len(t)
      PROVE  \E a : At(e, t, i, a) /\ Past(e, i, a) \in B \cup {Len(t)}
  <2>1. i \in B /\ i \in Nat
    BY <1>2, <1>4 DEF Closed
  <2>2. CASE i = Len(s)
    BY <1>1, <2>2
  <2>3. CASE i # Len(s)
    <3>1. PICK a : At(e, s, i, a) /\ Past(e, i, a) \in B
      BY <1>2, <2>1, <2>3 DEF Closed
    <3>2. Len(t) \in Nat
      BY <1>1
    <3>3. At(e, t, i, a)
      BY <1>1, <2>1, <3>1, <3>2, AtMore
    <3>. QED
      BY <3>1, <3>3
  <2>. QED
    BY <2>2, <2>3
<1>5. Closed(e, t, B \cup {Len(t)})
  BY <1>3, <1>4 DEF Closed
<1>6. Fills(e, t)
  BY <1>2, <1>5 DEF Fills
<1>. QED
  BY <1>6 DEF t

(* The first r places of s, in encoding e, and t, in encoding f, are the   *)
(* same characters: pairs of places where one begins in both.              *)
Paired(e, f, s, r, t, P) ==
  /\ P \in SUBSET ((0..r) \X (0..Len(t)))
  /\ <<0, 0>> \in P
  /\ \A p \in P : \/ p = <<r, Len(t)>>
                  \/ \E c : /\ At(e, s, p[1], c) /\ At(f, t, p[2], c)
                            /\ <<Past(e, p[1], c), Past(f, p[2], c)>> \in P
Twin(e, f, s, r, t) == \E P : Paired(e, f, s, r, t, P)

(* Reading a character and writing it keeps the texts alike.               *)
LEMMA TwinMore ==
  ASSUME NEW e \in BOOLEAN, NEW f \in BOOLEAN, NEW s, NEW t, Text(e, s), Text(f, t),
         NEW r \in Nat, Twin(e, f, s, r, t), NEW c, At(e, s, r, c)
  PROVE  Twin(e, f, s, Past(e, r, c), t \o Enc(f, c))
<1>. DEFINE u == t \o Enc(f, c)
            q == Past(e, r, c)
<1>1. Scalar(c)
  BY DEF At
<1>2. /\ Begins(t, u) /\ At(f, u, Len(t), c) /\ Text(f, u)
      /\ Len(u) = Len(t) + Len(Enc(f, c)) /\ Past(f, Len(t), c) = Len(u)
      /\ Len(t) \in Nat /\ Len(Enc(f, c)) \in 1..4
  BY <1>1, AtEnd
<1>3. q \in Nat /\ r < q
  BY PastIs
<1>. HIDE DEF u
<1>4. PICK P : Paired(e, f, s, r, t, P)
  BY DEF Twin
<1>. DEFINE Q == P \cup {<<q, Len(u)>>}
<1>5. Q \in SUBSET ((0..q) \X (0..Len(u))) /\ <<0, 0>> \in Q
  BY <1>2, <1>3, <1>4 DEF Paired
<1>6. ASSUME NEW p \in Q, p # <<q, Len(u)>>
      PROVE  \E a : /\ At(e, s, p[1], a) /\ At(f, u, p[2], a)
                    /\ <<Past(e, p[1], a), Past(f, p[2], a)>> \in Q
  <2>1. p \in P /\ p[1] \in Nat /\ p[2] \in Nat
    BY <1>2, <1>4, <1>6 DEF Paired
  <2>2. CASE p = <<r, Len(t)>>
    <3>1. p[1] = r /\ p[2] = Len(t)
      BY <2>2
    <3>2. <<Past(e, p[1], c), Past(f, p[2], c)>> = <<q, Len(u)>>
      BY <1>2, <3>1
    <3>. QED
      BY <1>2, <3>1, <3>2
  <2>3. CASE p # <<r, Len(t)>>
    <3>1. PICK a : /\ At(e, s, p[1], a) /\ At(f, t, p[2], a)
                   /\ <<Past(e, p[1], a), Past(f, p[2], a)>> \in P
      BY <1>4, <2>1, <2>3 DEF Paired
    <3>2. Len(u) \in Nat
      BY <1>2
    <3>3. At(f, u, p[2], a)
      BY <1>2, <2>1, <3>1, <3>2, AtMore
    <3>. QED
      BY <3>1, <3>3
  <2>. QED
    BY <2>2, <2>3
<1>7. Paired(e, f, s, q, u, Q)
  BY <1>5, <1>6 DEF Paired
<1>8. Twin(e, f, s, q, u)
  BY <1>7 DEF Twin
<1>. QED
  BY <1>8 DEF u

(* Seen from the other side, with more behind the other.                   *)
LEMMA TwinBack ==
  ASSUME NEW e \in BOOLEAN, NEW f \in BOOLEAN, NEW s, NEW t, NEW u,
         Len(s) \in Nat, Len(t) \in Nat, Len(u) \in Nat, Begins(t, u),
         Twin(e, f, s, Len(s), t)
  PROVE  Twin(f, e, u, Len(t), s)
<1>1. PICK P : Paired(e, f, s, Len(s), t, P)
  BY DEF Twin
<1>. DEFINE Q == {p \in (0..Len(t)) \X (0..Len(s)) : <<p[2], p[1]>> \in P}
<1>2. Q \in SUBSET ((0..Len(t)) \X (0..Len(s))) /\ <<0, 0>> \in Q
  BY <1>1 DEF Paired
<1>3. \A a, b : <<a, b>> \in P => <<b, a>> \in Q
  BY <1>1 DEF Paired
<1>4. ASSUME NEW p \in Q, p # <<Len(t), Len(s)>>
      PROVE  \E c : /\ At(f, u, p[1], c) /\ At(e, s, p[2], c)
                    /\ <<Past(f, p[1], c), Past(e, p[2], c)>> \in Q
  <2>1. <<p[2], p[1]>> \in P /\ p[1] \in Nat /\ p[2] \in Nat /\ p = <<p[1], p[2]>>
    OBVIOUS
  <2>2. <<p[2], p[1]>> # <<Len(s), Len(t)>>
    BY <1>4, <2>1
  <2>3. PICK c : /\ At(e, s, p[2], c) /\ At(f, t, p[1], c)
                 /\ <<Past(e, p[2], c), Past(f, p[1], c)>> \in P
    BY <1>1, <2>1, <2>2 DEF Paired
  <2>4. At(f, u, p[1], c)
    BY <2>1, <2>3, AtMore
  <2>. QED
    BY <1>3, <2>3, <2>4
<1>. HIDE DEF Q
<1>5. Paired(f, e, u, Len(t), s, Q)
  BY <1>2, <1>4 DEF Paired
<1>. QED
  BY <1>5 DEF Twin

(* The empty text.                                                         *)
LEMMA NothingIs ==
  ASSUME NEW e \in BOOLEAN, NEW f \in BOOLEAN, NEW s
  PROVE  Text(f, <<>>) /\ Len(<<>>) = 0 /\ Fills(f, <<>>) /\ Twin(e, f, s, 0, <<>>)
<1>1. Text(f, <<>>) /\ Len(<<>>) = 0
  BY DEF Text
<1>2. Closed(f, <<>>, {0})
  BY <1>1 DEF Closed
<1>3. Paired(e, f, s, 0, <<>>, {<<0, 0>>})
  BY <1>1 DEF Paired
<1>. QED
  BY <1>1, <1>2, <1>3 DEF Fills, Twin

-----------------------------------------------------------------------------
(* One iteration of a conversion.                                          *)

(* An iteration that decodes e and encodes f.                              *)
Iteration(e, f, s, n, st) ==
  LET d == Dec(e, s, st.read + 1) IN
  [read |-> st.read + d.size,
   out |-> Put(st.out, Enc(f, d.codepoint), n),
   size |-> st.size + Count(f, d.codepoint)]

(* The mark of damage has been written.                                    *)
Marked(f, t) == \E i \in 1..Len(t) : t[i] = Mark(f)

(* What holds between iterations.                                          *)
Counted(n, st) ==
  /\ Len(st.out) <= n /\ Len(st.out) <= st.size
  /\ st.size <= n => Len(st.out) = st.size

(* The reader is where a character begins or at the end.                   *)
Between(e, s, st) == \E B : Closed(e, s, B) /\ st.read \in B
(* What holds of the state of a conversion, at each iteration.             *)
Underway(e, f, s, n, st) ==
  /\ st.read \in 0..Len(s) /\ st.size \in Nat /\ Text(f, st.out)
  /\ Counted(n, st)
  /\ Fills(f, st.out)
  /\ e /\ ~f => st.size <= st.read
  /\ Fills(e, s) => Between(e, s, st)
  /\ st.size <= n /\ (Fills(e, s) \/ ~Marked(f, st.out)) => Twin(e, f, s, st.read, st.out)

(* It holds at the start.                                                  *)
LEMMA StartIs ==
  ASSUME NEW e \in BOOLEAN, NEW f \in BOOLEAN, NEW s, Text(e, s), NEW n \in Nat
  PROVE  Underway(e, f, s, n, Start)
<1>1. Start.read = 0 /\ Start.size = 0 /\ Start.out = <<>>
  BY DEF Start
<1>2. Len(s) \in Nat
  BY TextIs
<1>3. Text(f, Start.out) /\ Len(Start.out) = 0 /\ Fills(f, Start.out) /\ Twin(e, f, s, Start.read, Start.out)
  BY <1>1, NothingIs, Zenon
<1>4. Counted(n, Start)
  BY <1>1, <1>3 DEF Counted
<1>5. Fills(e, s) => Between(e, s, Start)
  BY <1>1 DEF Fills, Between
<1>6. Start.read \in 0..Len(s) /\ Start.size \in Nat /\ Start.size <= Start.read
  BY <1>1, <1>2
<1>. QED
  BY <1>3, <1>4, <1>5, <1>6, Zenon DEF Underway

(* What Put writes: the whole of a character, or nothing.                  *)
LEMMA PutIs ==
  ASSUME NEW f \in BOOLEAN, NEW t, NEW n \in Nat, Text(f, t), NEW c, Scalar(c), NEW o, o = Put(t, Enc(f, c), n)
  PROVE  /\ Text(f, o) /\ Len(t) \in Nat /\ Len(Enc(f, c)) \in 1..4
         /\ \/ Len(t) + Len(Enc(f, c)) > n /\ o = t
            \/ /\ Len(t) + Len(Enc(f, c)) <= n /\ o = t \o Enc(f, c)
               /\ Len(o) = Len(t) + Len(Enc(f, c))
<1>1. /\ Text(f, t \o Enc(f, c))
      /\ Len(t \o Enc(f, c)) = Len(t) + Len(Enc(f, c))
      /\ Len(t) \in Nat /\ Len(Enc(f, c)) \in 1..4
  BY AtEnd
<1>. QED
  BY <1>1 DEF Put

(* What fits has the mark in it if it is the replacement character's.      *)
LEMMA MarkShows ==
  ASSUME NEW f \in BOOLEAN, NEW t, Text(f, t)
  PROVE  /\ Marked(f, t \o Enc(f, InvalidCodepoint))
         /\ \A c : Scalar(c) /\ Marked(f, t) => Marked(f, t \o Enc(f, c))
<1>1. ASSUME NEW c, Scalar(c), Marked(f, t) PROVE Marked(f, t \o Enc(f, c))
  <2>1. /\ Begins(t, t \o Enc(f, c)) /\ Len(t) \in Nat /\ Len(t \o Enc(f, c)) \in Nat
    BY <1>1, AtEnd
  <2>. QED
    BY <1>1, <2>1 DEF Marked, Begins
<1>2. Marked(f, t \o Enc(f, InvalidCodepoint))
  <2>. DEFINE p == Enc(f, InvalidCodepoint)
  <2>1. Scalar(InvalidCodepoint) /\ p[1] = Mark(f)
    BY MarkIs
  <2>2. Text(f, p) /\ Len(p) \in 1..4
    BY <2>1, Encoded
  <2>3. Len(t \o p) = Len(t) + Len(p) /\ Len(t) \in Nat /\ \A k \in 1..Len(p) : (t \o p)[Len(t) + k] = p[k]
    BY <2>2, Joined
  <2>. HIDE DEF p
  <2>4. (t \o p)[Len(t) + 1] = Mark(f) /\ Len(t) + 1 \in 1..Len(t \o p)
    BY <2>1, <2>2, <2>3
  <2>5. Marked(f, t \o p)
    BY <2>4 DEF Marked
  <2>. QED
    BY <2>5 DEF p
<1>. QED
  BY <1>1, <1>2

(* An iteration keeps it, and reads something.                             *)
LEMMA UnderwayStep ==
  ASSUME NEW e \in BOOLEAN, NEW f \in BOOLEAN, NEW s, Text(e, s), NEW n \in Nat, NEW st,
         Underway(e, f, s, n, st), st.read < Len(s), NEW su, su = Iteration(e, f, s, n, st)
  PROVE  Underway(e, f, s, n, su) /\ su.read > st.read
<1>. DEFINE d == Dec(e, s, st.read + 1)
            c == d.codepoint
            r == st.read
            t == st.out
            z == st.size
            k == Len(Enc(f, c))
<1>1. su.read = r + d.size /\ su.out = Put(t, Enc(f, c), n) /\ su.size = z + Count(f, c)
  BY DEF Iteration
<1>2. /\ r \in Nat /\ r < Len(s) /\ Len(s) \in Nat /\ z \in Nat /\ Text(f, t)
      /\ Len(t) <= n /\ Len(t) <= z /\ (z <= n => Len(t) = z)
      /\ Fills(f, t) /\ (e /\ ~f => z <= r)
  BY TextIs DEF Underway, Counted
<1>3. /\ Fills(e, s) => Between(e, s, st)
      /\ z <= n /\ (Fills(e, s) \/ ~Marked(f, t)) => Twin(e, f, s, r, t)
  BY DEF Underway
<1>4. /\ d.size \in 1..4 /\ r + d.size <= Len(s)
      /\ Scalar(c)
      /\ e => Count(FALSE, c) <= d.size
      /\ c # InvalidCodepoint => At(e, s, r, c) /\ d.size = Len(Enc(e, c))
  BY <1>2, Reads, ZenonT(40)
<1>. HIDE DEF d, c, r, t, z
<1>5. k = Count(f, c) /\ k \in 1..4
  BY <1>4, Encoded
<1>6. /\ Text(f, su.out) /\ Len(t) \in Nat
      /\ \/ Len(t) + k > n /\ su.out = t
         \/ Len(t) + k <= n /\ su.out = t \o Enc(f, c) /\ Len(su.out) = Len(t) + k
  BY <1>1, <1>2, <1>4, PutIs, SMTT(40)
<1>. HIDE DEF k
<1>7. su.read \in 0..Len(s) /\ su.size \in Nat /\ su.read > r
  BY <1>1, <1>2, <1>4, <1>5, SMTT(40)
<1>8. Counted(n, su)
  <2>1. Len(su.out) <= n /\ Len(su.out) <= su.size
    BY <1>1, <1>2, <1>5, <1>6
  <2>2. su.size <= n => Len(su.out) = su.size
    BY <1>1, <1>2, <1>5, <1>6
  <2>. QED
    BY <2>1, <2>2 DEF Counted
<1>9. Fills(f, su.out)
  BY <1>2, <1>4, <1>6, FillsMore
<1>10. e /\ ~f => su.size <= su.read
  <2>1. e /\ ~f => Count(f, c) <= d.size
    BY <1>4 DEF Count
  <2>. QED
    BY <1>1, <1>2, <1>4, <1>5, <2>1
<1>11. ASSUME Fills(e, s) PROVE At(e, s, r, c) /\ d.size = Len(Enc(e, c)) /\ Between(e, s, su)
  <2>1. PICK B : Closed(e, s, B) /\ r \in B
    BY <1>3, <1>11 DEF Between, r
  <2>2. PICK a : At(e, s, r, a) /\ Past(e, r, a) \in B
    BY <1>2, <2>1 DEF Closed
  <2>3. d.size = Len(Enc(e, a)) /\ c = a
    BY <1>2, <2>2, PastIs DEF c, d, r
  <2>4. su.read \in B
    BY <1>1, <2>2, <2>3 DEF Past
  <2>. QED
    BY <2>1, <2>2, <2>3, <2>4 DEF Between
<1>12. ASSUME su.size <= n, Fills(e, s) \/ ~Marked(f, su.out) PROVE Twin(e, f, s, su.read, su.out)
  <2>1. su.out = t \o Enc(f, c) /\ z <= n
    BY <1>1, <1>2, <1>5, <1>6, <1>12
  <2>2. At(e, s, r, c) /\ d.size = Len(Enc(e, c))
    <3>1. CASE Fills(e, s)
      BY <1>11, <3>1
    <3>2. CASE ~Marked(f, su.out)
      <4>1. c # InvalidCodepoint
        BY <1>2, <2>1, <3>2, MarkShows
      <4>. QED
        BY <1>4, <4>1
    <3>. QED
      BY <1>12, <3>1, <3>2
  <2>3. Fills(e, s) \/ ~Marked(f, t)
    BY <1>2, <1>4, <1>12, <2>1, MarkShows
  <2>4. Twin(e, f, s, r, t)
    BY <1>3, <2>1, <2>3
  <2>5. su.read = Past(e, r, c)
    BY <1>1, <2>2 DEF Past
  <2>6. Twin(e, f, s, Past(e, r, c), t \o Enc(f, c))
    BY <1>2, <2>2, <2>4, TwinMore
  <2>. QED
    BY <2>1, <2>5, <2>6
<1>13. Underway(e, f, s, n, su)
  BY <1>6, <1>7, <1>8, <1>9, <1>10, <1>11, <1>12, Zenon DEF Underway
<1>. QED
  BY <1>7, <1>13 DEF r

-----------------------------------------------------------------------------
(* The whole loop, from the function that defines it.                      *)

(* An iteration, or nothing at the end.                                    *)
Iterated(e, f, s, n, st) == IF st.read = Len(s) THEN st ELSE Iteration(e, f, s, n, st)

(* S holds at the start, and every iteration keeps it and reads something. *)
Keeps(e, f, s, n, S) ==
  /\ Start \in S
  /\ \A st \in S : /\ st.read \in 0..Len(s)
                   /\ st.read < Len(s) => /\ Iteration(e, f, s, n, st) \in S
                                          /\ Iteration(e, f, s, n, st).read > st.read

(* w is the run of the loop: its state by the number of iterations.        *)
Loop(e, f, s, n, w) ==
  \A k \in 0..Len(s) : w[k] = IF k = 0 THEN Start ELSE Iterated(e, f, s, n, w[k - 1])

(* The loop has a run, and it stays in S.                                  *)
LEMMA LoopExists ==
  ASSUME NEW e \in BOOLEAN, NEW f \in BOOLEAN, NEW s, Len(s) \in Nat, NEW n, NEW S, Keeps(e, f, s, n, S)
  PROVE  \E w \in [0..Len(s) -> S] : Loop(e, f, s, n, w)
<1>. DEFINE h == [k \in 1..Len(s) |-> [st \in S |-> Iterated(e, f, s, n, st)]]
<1>1. ASSUME NEW st \in S PROVE Iterated(e, f, s, n, st) \in S
  BY DEF Keeps, Iterated
<1>2. h \in [1..Len(s) -> [S -> S]] /\ Start \in S
  BY <1>1 DEF Keeps
<1>3. \A k \in 1..Len(s) : \A st \in S : h[k][st] = Iterated(e, f, s, n, st)
  OBVIOUS
<1>. HIDE DEF h
<1>4. PICK w \in [0..Len(s) -> S] : Follows(w, Len(s), Start, h)
  BY <1>2, RecursionExists
<1>5. ASSUME NEW k \in 0..Len(s)
      PROVE  w[k] = IF k = 0 THEN Start ELSE Iterated(e, f, s, n, w[k - 1])
  <2>1. w[k] = IF k = 0 THEN Start ELSE h[k][w[k - 1]]
    BY <1>4 DEF Follows
  <2>2. k # 0 => k \in 1..Len(s) /\ w[k - 1] \in S
    BY <1>4
  <2>. QED
    BY <1>3, <2>1, <2>2
<1>. QED
  BY <1>5 DEF Loop

(* It has read everything after as many iterations as there are units.     *)
LEMMA LoopEnds ==
  ASSUME NEW e \in BOOLEAN, NEW f \in BOOLEAN, NEW s, Len(s) \in Nat, NEW n, NEW S, Keeps(e, f, s, n, S),
         NEW w, Loop(e, f, s, n, w)
  PROVE  w[Len(s)] \in S /\ w[Len(s)].read = Len(s)
<1>. DEFINE G == {k \in 0..Len(s) : w[k] \in S /\ k <= w[k].read}
<1>1. w[0] = Start /\ Start \in S
  BY DEF Loop, Keeps
<1>2. \A st \in S : st.read \in 0..Len(s)
  BY DEF Keeps
<1>3. 0 \in G
  BY <1>1, <1>2
<1>4. ASSUME NEW k \in 1..Len(s), k - 1 \in G PROVE k \in G
  <2>1. w[k - 1] \in S /\ k - 1 <= w[k - 1].read
    BY <1>4
  <2>2. w[k] = Iterated(e, f, s, n, w[k - 1])
    BY DEF Loop
  <2>3. w[k - 1].read \in 0..Len(s)
    BY <1>2, <2>1
  <2>4. CASE w[k - 1].read = Len(s)
    BY <2>1, <2>2, <2>4 DEF Iterated
  <2>5. CASE w[k - 1].read # Len(s)
    <3>1. w[k] = Iteration(e, f, s, n, w[k - 1])
      BY <2>2, <2>5 DEF Iterated
    <3>2. w[k - 1].read < Len(s)
      BY <2>3, <2>5
    <3>3. w[k] \in S /\ w[k].read > w[k - 1].read
      BY <2>1, <3>1, <3>2 DEF Keeps
    <3>4. w[k].read \in 0..Len(s)
      BY <1>2, <3>3
    <3>. QED
      BY <2>1, <2>3, <3>3, <3>4
  <2>. QED
    BY <2>4, <2>5
<1>. HIDE DEF G
<1>5. \A k \in 0..Len(s) : k \in G
  BY <1>3, <1>4, EveryPlace
<1>6. Len(s) \in G
  BY <1>5
<1>7. w[Len(s)] \in S /\ Len(s) <= w[Len(s)].read
  BY <1>6 DEF G
<1>8. w[Len(s)].read \in 0..Len(s)
  BY <1>2, <1>7
<1>. QED
  BY <1>7, <1>8

(* The functions by which the two conversions are defined.                 *)
IsLoopOf8(s, n, w) ==
  w = [k \in 0..Len(s) |-> IF k = 0 THEN Start
                           ELSE IF w[k - 1].read = Len(s) THEN w[k - 1]
                           ELSE ToUtf16Iteration(s, n, w[k - 1])]
IsLoopOf16(s, n, w) ==
  w = [k \in 0..Len(s) |-> IF k = 0 THEN Start
                           ELSE IF w[k - 1].read = Len(s) THEN w[k - 1]
                           ELSE ToUtf8Iteration(s, n, w[k - 1])]

(* Both iterations of the converters are this one.                         *)
LEMMA IterationIs ==
  ASSUME NEW s, NEW n, NEW st
  PROVE  /\ ToUtf16Iteration(s, n, st) = Iteration(TRUE, FALSE, s, n, st)
         /\ ToUtf8Iteration(s, n, st) = Iteration(FALSE, TRUE, s, n, st)
  BY DEF ToUtf16Iteration, ToUtf8Iteration, Iteration, Dec, Enc, Count

(* What an iteration keeps holds of the result: utf8_to_utf16, and         *)
(* utf16_to_utf8.                                                          *)
LEMMA LoopOf8 ==
  ASSUME NEW s, Len(s) \in Nat, NEW n, NEW S, Keeps(TRUE, FALSE, s, n, S)
  PROVE  Utf8ToUtf16(s, n) \in S /\ Utf8ToUtf16(s, n).read = Len(s)
<1>. DEFINE w == CHOOSE v : IsLoopOf8(s, n, v)
<1>1. Utf8ToUtf16(s, n) = w[Len(s)]
  BY Zenon DEF Utf8ToUtf16, IsLoopOf8
<1>2. PICK v \in [0..Len(s) -> S] : Loop(TRUE, FALSE, s, n, v)
  BY LoopExists
<1>3. ASSUME NEW k \in 0..Len(s)
      PROVE  v[k] = IF k = 0 THEN Start
                    ELSE IF v[k - 1].read = Len(s) THEN v[k - 1]
                    ELSE ToUtf16Iteration(s, n, v[k - 1])
  BY <1>2, IterationIs, Zenon DEF Loop, Iterated
<1>4. IsLoopOf8(s, n, v)
  BY <1>2, <1>3 DEF IsLoopOf8
<1>5. IsLoopOf8(s, n, w)
  BY <1>4, Zenon
<1>. HIDE DEF w
<1>6. ASSUME NEW k \in 0..Len(s) PROVE w[k] = IF k = 0 THEN Start ELSE Iterated(TRUE, FALSE, s, n, w[k - 1])
  <2>1. w[k] = IF k = 0 THEN Start
               ELSE IF w[k - 1].read = Len(s) THEN w[k - 1]
               ELSE ToUtf16Iteration(s, n, w[k - 1])
    BY <1>5, Zenon DEF IsLoopOf8
  <2>. QED
    BY <2>1, IterationIs, Zenon DEF Iterated
<1>7. Loop(TRUE, FALSE, s, n, w)
  BY <1>6, Zenon DEF Loop
<1>8. w[Len(s)] \in S /\ w[Len(s)].read = Len(s)
  BY <1>7, LoopEnds, Zenon
<1>. QED
  BY <1>1, <1>8

(* The other one.                                                          *)
LEMMA LoopOf16 ==
  ASSUME NEW s, Len(s) \in Nat, NEW n, NEW S, Keeps(FALSE, TRUE, s, n, S)
  PROVE  Utf16ToUtf8(s, n) \in S /\ Utf16ToUtf8(s, n).read = Len(s)
<1>. DEFINE w == CHOOSE v : IsLoopOf16(s, n, v)
<1>1. Utf16ToUtf8(s, n) = w[Len(s)]
  BY Zenon DEF Utf16ToUtf8, IsLoopOf16
<1>2. PICK v \in [0..Len(s) -> S] : Loop(FALSE, TRUE, s, n, v)
  BY LoopExists
<1>3. ASSUME NEW k \in 0..Len(s)
      PROVE  v[k] = IF k = 0 THEN Start
                    ELSE IF v[k - 1].read = Len(s) THEN v[k - 1]
                    ELSE ToUtf8Iteration(s, n, v[k - 1])
  BY <1>2, IterationIs, Zenon DEF Loop, Iterated
<1>4. IsLoopOf16(s, n, v)
  BY <1>2, <1>3 DEF IsLoopOf16
<1>5. IsLoopOf16(s, n, w)
  BY <1>4, Zenon
<1>. HIDE DEF w
<1>6. ASSUME NEW k \in 0..Len(s) PROVE w[k] = IF k = 0 THEN Start ELSE Iterated(FALSE, TRUE, s, n, w[k - 1])
  <2>1. w[k] = IF k = 0 THEN Start
               ELSE IF w[k - 1].read = Len(s) THEN w[k - 1]
               ELSE ToUtf8Iteration(s, n, w[k - 1])
    BY <1>5, Zenon DEF IsLoopOf16
  <2>. QED
    BY <2>1, IterationIs, Zenon DEF Iterated
<1>7. Loop(FALSE, TRUE, s, n, w)
  BY <1>6, Zenon DEF Loop
<1>8. w[Len(s)] \in S /\ w[Len(s)].read = Len(s)
  BY <1>7, LoopEnds, Zenon
<1>. QED
  BY <1>1, <1>8

-----------------------------------------------------------------------------
(* What the loop writes, when there is a text that says the same.          *)

(* The states of a conversion to f.                                        *)
States(f) == [read : Nat, out : Seq(CodeUnits(f)), size : Nat]

(* An iteration leads from state to state, and forward.                    *)
LEMMA StateIs ==
  ASSUME NEW e \in BOOLEAN, NEW f \in BOOLEAN, NEW s, Text(e, s), NEW n \in Nat
  PROVE  /\ Start \in States(f)
         /\ \A st \in States(f) : st.read < Len(s) =>
              /\ Iteration(e, f, s, n, st) \in States(f)
              /\ Iteration(e, f, s, n, st).read > st.read
              /\ Iteration(e, f, s, n, st).read <= Len(s)
              /\ Begins(st.out, Iteration(e, f, s, n, st).out)
<1>1. Start \in States(f)
  BY DEF Start, States
<1>2. ASSUME NEW st \in States(f), st.read < Len(s)
      PROVE  /\ Iteration(e, f, s, n, st) \in States(f)
             /\ Iteration(e, f, s, n, st).read > st.read
             /\ Iteration(e, f, s, n, st).read <= Len(s)
             /\ Begins(st.out, Iteration(e, f, s, n, st).out)
  <2>. DEFINE d == Dec(e, s, st.read + 1)
              c == d.codepoint
              o == Put(st.out, Enc(f, c), n)
              su == Iteration(e, f, s, n, st)
  <2>1. st.read \in Nat /\ st.out \in Seq(CodeUnits(f)) /\ st.size \in Nat
    BY Zenon DEF States
  <2>2. Text(f, st.out)
    BY <2>1, Zenon DEF Text
  <2>3. d.size \in 1..4 /\ st.read + d.size <= Len(s) /\ Scalar(c)
    BY <1>2, <2>1, Reads
  <2>4. Count(f, c) \in Nat
    BY <2>3, Encoded
  <2>7. su = [read |-> st.read + d.size, out |-> o, size |-> st.size + Count(f, c)]
    BY Zenon DEF Iteration
  <2>12. o = Put(st.out, Enc(f, c), n)
    OBVIOUS
  <2>. HIDE DEF su, o, c, d
  <2>5. /\ Text(f, o) /\ Len(st.out) \in Nat
        /\ \/ o = st.out
           \/ o = st.out \o Enc(f, c)
    <3>. DEFINE t == st.out
    <3>1. Text(f, t) /\ Scalar(c) /\ o = Put(t, Enc(f, c), n)
      BY <2>2, <2>3, <2>12
    <3>. HIDE DEF t
    <3>2. /\ Text(f, o) /\ Len(t) \in Nat
          /\ \/ o = t
             \/ o = t \o Enc(f, c)
      BY <3>1, PutIs
    <3>. QED
      BY <3>2 DEF t
  <2>6. Begins(st.out, o)
    <3>1. Begins(st.out, st.out \o Enc(f, c))
      BY <2>2, <2>3, AtEnd
    <3>2. Begins(st.out, st.out)
      BY <2>5 DEF Begins
    <3>. QED
      BY <2>5, <3>1, <3>2, Zenon
  <2>8. o \in Seq(CodeUnits(f))
    BY <2>5, Zenon DEF Text
  <2>9. su \in States(f)
    BY <2>1, <2>3, <2>4, <2>7, <2>8, SMTT(40) DEF States
  <2>10. su.read = st.read + d.size /\ su.out = o
    BY <2>7
  <2>11. su.read > st.read /\ su.read <= Len(s) /\ Begins(st.out, su.out)
    BY <2>1, <2>3, <2>6, <2>10
  <2>. QED
    BY <2>9, <2>11 DEF su
<1>. QED
  BY <1>1, <1>2

(* Every conversion keeps what holds between iterations, to the end.       *)
LEMMA Finishes ==
  ASSUME NEW e \in BOOLEAN, NEW f \in BOOLEAN, NEW s, Text(e, s), NEW n \in Nat
  PROVE  Keeps(e, f, s, n, {st \in States(f) : Underway(e, f, s, n, st)})
<1>. DEFINE S == {st \in States(f) : Underway(e, f, s, n, st)}
<1>1. Start \in S
  BY StateIs, StartIs
<1>2. ASSUME NEW st \in S PROVE st.read \in 0..Len(s)
  BY DEF Underway
<1>3. ASSUME NEW st \in S, st.read < Len(s)
      PROVE  Iteration(e, f, s, n, st) \in S /\ Iteration(e, f, s, n, st).read > st.read
  <2>1. st \in States(f) /\ Underway(e, f, s, n, st)
    BY Zenon
  <2>2. Underway(e, f, s, n, Iteration(e, f, s, n, st)) /\ Iteration(e, f, s, n, st).read > st.read
    BY <1>3, <2>1, UnderwayStep
  <2>3. Iteration(e, f, s, n, st) \in States(f)
    BY <1>3, <2>1, StateIs
  <2>. QED
    BY <2>2, <2>3
<1>. HIDE DEF S
<1>4. Keeps(e, f, s, n, S)
  BY <1>1, <1>2, <1>3 DEF Keeps
<1>. QED
  BY <1>4 DEF S

(* What begins like t is on its way there, or past it.                     *)
OnTheWay(s, r, t, P, st) ==
  /\ st.read \in 0..Len(s)
  /\ \/ <<st.read, Len(st.out)>> \in P /\ Begins(st.out, t)
     \/ st.read > r /\ Begins(t, st.out)

(* An iteration writes the next character of the text that is alike.       *)
LEMMA OnTheWayStep ==
  ASSUME NEW e \in BOOLEAN, NEW f \in BOOLEAN, NEW s, Text(e, s), NEW t, Text(f, t), NEW r \in 0..Len(s),
         NEW P, Paired(e, f, s, r, t, P), NEW n \in Nat, Len(t) <= n,
         NEW st \in States(f), OnTheWay(s, r, t, P, st), st.read < Len(s),
         NEW su, su = Iteration(e, f, s, n, st)
  PROVE  OnTheWay(s, r, t, P, su)
<1>1. /\ su \in States(f) /\ su.read > st.read /\ su.read <= Len(s) /\ Begins(st.out, su.out)
  BY StateIs
<1>2. Text(f, st.out) /\ Text(f, su.out)
  <2>1. st.out \in Seq(CodeUnits(f)) /\ su.out \in Seq(CodeUnits(f))
    BY <1>1, Zenon DEF States
  <2>. QED
    BY <2>1, Zenon DEF Text
<1>3. /\ Len(s) \in Nat /\ Len(t) \in Nat /\ Len(st.out) \in Nat /\ Len(su.out) \in Nat
      /\ st.read \in Nat /\ su.read \in Nat /\ r \in Nat
  <2>1. st.read \in Nat /\ su.read \in Nat
    BY <1>1 DEF States
  <2>2. Len(s) \in Nat /\ Len(t) \in Nat /\ Len(st.out) \in Nat /\ Len(su.out) \in Nat
    BY <1>2, TextIs
  <2>. QED
    BY <2>1, <2>2
<1>4. su.read \in 0..Len(s)
  BY <1>1, <1>3
<1>5. CASE st.read > r /\ Begins(t, st.out)
  <2>1. Begins(t, su.out)
    BY <1>1, <1>3, <1>5 DEF Begins
  <2>2. su.read > r
    BY <1>1, <1>3, <1>5
  <2>. QED
    BY <1>4, <2>1, <2>2 DEF OnTheWay
<1>6. CASE <<st.read, Len(st.out)>> = <<r, Len(t)>> /\ Begins(st.out, t)
  <2>1. st.read = r /\ Len(st.out) = Len(t)
    BY <1>6
  <2>2. Begins(t, su.out)
    BY <1>1, <1>3, <1>6, <2>1 DEF Begins
  <2>3. su.read > r
    BY <1>1, <2>1
  <2>. QED
    BY <1>4, <2>2, <2>3 DEF OnTheWay
<1>7. CASE <<st.read, Len(st.out)>> \in P /\ <<st.read, Len(st.out)>> # <<r, Len(t)>> /\ Begins(st.out, t)
  <2>. DEFINE p == <<st.read, Len(st.out)>>
  <2>1. p[1] = st.read /\ p[2] = Len(st.out) /\ p \in P /\ p # <<r, Len(t)>>
    BY <1>7
  <2>. HIDE DEF p
  <2>2. PICK c : /\ At(e, s, p[1], c) /\ At(f, t, p[2], c)
                 /\ <<Past(e, p[1], c), Past(f, p[2], c)>> \in P
    BY <2>1 DEF Paired
  <2>3. /\ At(e, s, st.read, c) /\ At(f, t, Len(st.out), c)
        /\ <<Past(e, st.read, c), Past(f, Len(st.out), c)>> \in P
    BY <2>1, <2>2
  <2>4. /\ Dec(e, s, st.read + 1).size = Len(Enc(e, c)) /\ Dec(e, s, st.read + 1).codepoint = c
    BY <1>3, <2>3, PastIs, SMTT(40)
  <2>5. su.read = Past(e, st.read, c) /\ su.out = Put(st.out, Enc(f, c), n)
    BY <2>4 DEF Iteration, Past
  <2>6. Scalar(c) /\ Sits(Enc(f, c), t, Len(st.out))
    BY <2>3 DEF At
  <2>7. /\ Len(st.out) + Len(Enc(f, c)) <= Len(t)
        /\ \A k \in 1..Len(Enc(f, c)) : t[Len(st.out) + k] = Enc(f, c)[k]
    BY <2>6 DEF Sits
  <2>8. Text(f, Enc(f, c)) /\ Len(Enc(f, c)) \in 1..4
    BY <2>6, Encoded
  <2>9. su.out = st.out \o Enc(f, c)
    <3>1. Len(Enc(f, c)) \in Nat
      BY <2>8
    <3>2. ~ (Len(st.out) + Len(Enc(f, c)) > n)
      BY ONLY <1>3, <2>7, <3>1, Len(t) <= n, n \in Nat, SMTT(40)
    <3>. QED
      BY <2>5, <3>2, Zenon DEF Put
  <2>10. /\ Len(su.out) = Len(st.out) + Len(Enc(f, c))
         /\ \A i \in 1..Len(st.out) : su.out[i] = st.out[i]
         /\ \A k \in 1..Len(Enc(f, c)) : su.out[Len(st.out) + k] = Enc(f, c)[k]
    BY ONLY <1>2, <2>8, <2>9, f \in BOOLEAN, Joined, SMTT(40)
  <2>11. ASSUME NEW i \in 1..Len(su.out) PROVE t[i] = su.out[i]
    <3>1. CASE i <= Len(st.out)
      <4>1. i \in 1..Len(st.out)
        BY <1>3, <3>1
      <4>. QED
        BY <1>7, <2>10, <4>1 DEF Begins
    <3>2. CASE i > Len(st.out)
      <4>. DEFINE k == i - Len(st.out)
      <4>1. k \in 1..Len(Enc(f, c)) /\ i = Len(st.out) + k
        BY <1>3, <2>8, <2>10, <3>2
      <4>. HIDE DEF k
      <4>. QED
        BY <2>7, <2>10, <4>1
    <3>. QED
      BY <1>3, <3>1, <3>2
  <2>12. Begins(su.out, t)
    BY <2>7, <2>10, <2>11 DEF Begins
  <2>13. <<su.read, Len(su.out)>> \in P
    BY <2>3, <2>5, <2>10 DEF Past
  <2>. QED
    BY <1>4, <2>12, <2>13 DEF OnTheWay
<1>. QED
  BY <1>5, <1>6, <1>7 DEF OnTheWay

(* So the loop stays on the way.                                           *)
LEMMA Arrives ==
  ASSUME NEW e \in BOOLEAN, NEW f \in BOOLEAN, NEW s, Text(e, s), NEW t, Text(f, t), NEW r \in 0..Len(s),
         NEW P, Paired(e, f, s, r, t, P), NEW n \in Nat, Len(t) <= n
  PROVE  Keeps(e, f, s, n, {st \in States(f) : OnTheWay(s, r, t, P, st)})
<1>. DEFINE S == {st \in States(f) : OnTheWay(s, r, t, P, st)}
<1>1. Start \in S
  <2>1. Start \in States(f)
    BY StateIs
  <2>2. Start.read = 0 /\ Start.out = <<>> /\ Len(Start.out) = 0
    BY DEF Start
  <2>3. Begins(Start.out, t)
    BY <2>2, TextIs DEF Begins
  <2>4. <<Start.read, Len(Start.out)>> \in P
    BY <2>2 DEF Paired
  <2>5. Start.read \in 0..Len(s)
    BY <2>2, TextIs
  <2>. QED
    BY <2>1, <2>3, <2>4, <2>5 DEF OnTheWay
<1>2. ASSUME NEW st \in S PROVE st.read \in 0..Len(s)
  BY DEF OnTheWay
<1>3. ASSUME NEW st \in S, st.read < Len(s)
      PROVE  Iteration(e, f, s, n, st) \in S /\ Iteration(e, f, s, n, st).read > st.read
  <2>1. st \in States(f) /\ OnTheWay(s, r, t, P, st)
    BY Zenon
  <2>2. OnTheWay(s, r, t, P, Iteration(e, f, s, n, st))
    BY <1>3, <2>1, OnTheWayStep
  <2>3. Iteration(e, f, s, n, st) \in States(f) /\ Iteration(e, f, s, n, st).read > st.read
    BY <1>3, <2>1, StateIs
  <2>. QED
    BY <2>2, <2>3
<1>. HIDE DEF S
<1>4. Keeps(e, f, s, n, S)
  BY <1>1, <1>2, <1>3 DEF Keeps
<1>. QED
  BY <1>4 DEF S

(* A text that begins with another of its length is that text.             *)
LEMMA SameText ==
  ASSUME NEW f \in BOOLEAN, NEW t, NEW u, Text(f, t), Text(f, u), Len(t) = Len(u), Begins(t, u)
  PROVE  t = u
<1>1. t = [i \in 1..Len(t) |-> t[i]] /\ u = [i \in 1..Len(u) |-> u[i]]
  BY TextIs, Zenon
<1>2. \A i \in 1..Len(t) : t[i] = u[i]
  BY DEF Begins
<1>. QED
  BY <1>1, <1>2

(* At the end of the way the text has been written.                        *)
LEMMA AtTheEnd ==
  ASSUME NEW e \in BOOLEAN, NEW f \in BOOLEAN, NEW s, Text(e, s), NEW t, Text(f, t), NEW r \in 0..Len(s),
         NEW P, Paired(e, f, s, r, t, P),
         NEW st \in States(f), OnTheWay(s, r, t, P, st), st.read = Len(s)
  PROVE  Begins(t, st.out) /\ (r = Len(s) => st.out = t)
<1>1. Text(f, st.out)
  <2>1. st.out \in Seq(CodeUnits(f))
    BY Zenon DEF States
  <2>. QED
    BY <2>1, Zenon DEF Text
<1>2. Len(s) \in Nat /\ Len(t) \in Nat /\ Len(st.out) \in Nat
  BY <1>1, TextIs
<1>3. CASE st.read > r /\ Begins(t, st.out)
  BY <1>2, <1>3
<1>4. CASE <<st.read, Len(st.out)>> \in P /\ Begins(st.out, t)
  <2>. DEFINE p == <<st.read, Len(st.out)>>
  <2>1. p[1] = st.read /\ p[2] = Len(st.out) /\ p \in P
    BY <1>4
  <2>. HIDE DEF p
  <2>2. p = <<r, Len(t)>>
    <3>1. SUFFICES ASSUME p # <<r, Len(t)>> PROVE FALSE
      OBVIOUS
    <3>2. PICK c : At(e, s, p[1], c)
      BY <2>1, <3>1 DEF Paired
    <3>3. At(e, s, Len(s), c)
      BY <2>1, <3>2
    <3>4. Len(s) < Len(s)
      BY <1>2, <3>3, PastIs
    <3>. QED
      BY <1>2, <3>4
  <2>3. Len(st.out) = Len(t)
    BY <2>1, <2>2
  <2>4. st.out = t
    BY <1>1, <1>4, <2>3, SameText
  <2>5. Begins(t, t)
    BY <1>2 DEF Begins
  <2>. QED
    BY <2>4, <2>5
<1>. QED
  BY <1>3, <1>4 DEF OnTheWay

-----------------------------------------------------------------------------
(* The conversions, whole.                                                 *)

(* A text that has a twin is characters to its end.                        *)
LEMMA TwinFills ==
  ASSUME NEW e \in BOOLEAN, NEW f \in BOOLEAN, NEW s, NEW t, Len(s) \in Nat, Len(t) \in Nat,
         Twin(e, f, s, Len(s), t)
  PROVE  Fills(e, s)
<1>1. PICK P : Paired(e, f, s, Len(s), t, P)
  BY DEF Twin
<1>. DEFINE B == {i \in 0..Len(s) : \E j : <<i, j>> \in P}
<1>2. B \in SUBSET (0..Len(s)) /\ 0 \in B
  BY <1>1 DEF Paired
<1>3. ASSUME NEW i \in B, i # Len(s) PROVE \E c : At(e, s, i, c) /\ Past(e, i, c) \in B
  <2>1. PICK j : <<i, j>> \in P
    OBVIOUS
  <2>. DEFINE p == <<i, j>>
  <2>2. p[1] = i /\ p \in P /\ p # <<Len(s), Len(t)>>
    BY <1>3, <2>1
  <2>. HIDE DEF p
  <2>3. PICK c : /\ At(e, s, p[1], c)
                 /\ <<Past(e, p[1], c), Past(f, p[2], c)>> \in P
    BY <1>1, <2>2 DEF Paired
  <2>4. At(e, s, i, c) /\ <<Past(e, i, c), Past(f, p[2], c)>> \in P
    BY <2>2, <2>3
  <2>5. Past(e, i, c) \in 0..Len(s)
    BY <1>1, <2>4 DEF Paired
  <2>. QED
    BY <2>4, <2>5
<1>. HIDE DEF B
<1>4. Closed(e, s, B)
  BY <1>2, <1>3 DEF Closed
<1>. QED
  BY <1>2, <1>4 DEF Fills

(* What the state says of the conversion.                                  *)
LEMMA UnderwayIs ==
  ASSUME NEW e \in BOOLEAN, NEW f \in BOOLEAN, NEW s, Text(e, s), NEW n \in Nat, NEW st, Underway(e, f, s, n, st)
  PROVE  /\ st.read \in 0..Len(s) /\ st.size \in Nat /\ Text(f, st.out) /\ Len(st.out) <= n
         /\ st.size <= n => Len(st.out) = st.size
         /\ WellFormedText(f, st.out)
         /\ st.read = Len(s) /\ st.size <= n =>
              /\ WellFormedText(e, s) => Twin(f, e, st.out, Len(st.out), s)
              /\ ~WellFormedText(e, s) => Marked(f, st.out)
<1>. DEFINE o == st.out
<1>1. /\ st.read \in 0..Len(s) /\ st.size \in Nat /\ Text(f, o) /\ Fills(f, o)
      /\ Counted(n, st)
      /\ st.size <= n /\ (Fills(e, s) \/ ~Marked(f, o)) => Twin(e, f, s, st.read, o)
  BY Zenon DEF Underway
<1>2. Len(o) <= n /\ (st.size <= n => Len(o) = st.size)
  BY <1>1, Zenon DEF Counted
<1>. HIDE DEF o
<1>3. WellFormedText(e, s) <=> Fills(e, s)
  BY WellFormedIs
<1>4. WellFormedText(f, o)
  BY <1>1, WellFormedIs
<1>5. Len(s) \in Nat /\ Len(o) \in Nat
  BY <1>1, TextIs
<1>6. ASSUME st.read = Len(s), st.size <= n, WellFormedText(e, s) PROVE Twin(f, e, o, Len(o), s)
  <2>1. Twin(e, f, s, Len(s), o)
    BY <1>1, <1>3, <1>6
  <2>2. Begins(o, o)
    BY <1>5 DEF Begins
  <2>. QED
    BY <1>5, <2>1, <2>2, TwinBack
<1>7. ASSUME st.read = Len(s), st.size <= n, ~WellFormedText(e, s) PROVE Marked(f, o)
  <2>1. SUFFICES ASSUME ~Marked(f, o) PROVE FALSE
    OBVIOUS
  <2>2. Twin(e, f, s, Len(s), o)
    BY <1>1, <1>7, <2>1
  <2>3. Fills(e, s)
    BY <1>5, <2>2, TwinFills
  <2>. QED
    BY <1>3, <1>7, <2>3
<1>. QED
  BY <1>1, <1>2, <1>4, <1>6, <1>7 DEF o

(* What a loop ends with, when a text t fits.                              *)
LEMMA Ending ==
  ASSUME NEW e \in BOOLEAN, NEW f \in BOOLEAN, NEW s, Text(e, s), NEW n \in Nat, NEW st,
         \A Z : Keeps(e, f, s, n, Z) => st \in Z, st.read = Len(s),
         NEW t, NEW r \in 0..Len(s), Text(f, t), Len(t) <= n, Twin(e, f, s, r, t)
  PROVE  Begins(t, st.out) /\ (r = Len(s) => st.out = t)
<1>1. PICK P : Paired(e, f, s, r, t, P)
  BY Zenon DEF Twin
<1>. DEFINE Z == {su \in States(f) : OnTheWay(s, r, t, P, su)}
<1>2. Keeps(e, f, s, n, Z)
  BY <1>1, Arrives
<1>. HIDE DEF Z
<1>3. st \in Z
  BY <1>2
<1>4. st \in States(f) /\ OnTheWay(s, r, t, P, st)
  BY <1>3, Zenon DEF Z
<1>. QED
  BY <1>1, <1>4, AtTheEnd

(* The whole of utf8_to_utf16: what holds on the way holds of its result,  *)
(* and a text that is alike, and for which there is room, is what it       *)
(* writes.                                                                 *)
LEMMA ConvertedUtf8 ==
  ASSUME NEW s, Text(TRUE, s), NEW n \in Nat
  PROVE  /\ Underway(TRUE, FALSE, s, n, Utf8ToUtf16(s, n)) /\ Utf8ToUtf16(s, n).read = Len(s)
         /\ \A t, r : Text(FALSE, t) /\ Len(t) <= n /\ r \in 0..Len(s) /\ Twin(TRUE, FALSE, s, r, t) =>
              /\ Begins(t, Utf8ToUtf16(s, n).out)
              /\ r = Len(s) => Utf8ToUtf16(s, n).out = t
<1>0. TRUE \in BOOLEAN /\ FALSE \in BOOLEAN
  OBVIOUS
<1>1. Len(s) \in Nat
  BY TextIs
<1>. DEFINE S == {st \in States(FALSE) : Underway(TRUE, FALSE, s, n, st)}
            st == Utf8ToUtf16(s, n)
<1>2. Keeps(TRUE, FALSE, s, n, S)
  BY <1>0, Finishes, Zenon
<1>3. st \in S /\ st.read = Len(s)
  BY <1>1, <1>2, LoopOf8, Zenon
<1>5. \A Z : Keeps(TRUE, FALSE, s, n, Z) => st \in Z
  BY <1>1, LoopOf8, Zenon
<1>. HIDE DEF st, S
<1>4. ASSUME NEW t, NEW r \in 0..Len(s), Text(FALSE, t), Len(t) <= n, Twin(TRUE, FALSE, s, r, t)
      PROVE  Begins(t, st.out) /\ (r = Len(s) => st.out = t)
  BY <1>0, <1>3, <1>4, <1>5, Ending, ZenonT(40)
<1>. QED
  BY <1>3, <1>4, Zenon DEF st, S

(* The whole of utf16_to_utf8.                                             *)
LEMMA ConvertedUtf16 ==
  ASSUME NEW s, Text(FALSE, s), NEW n \in Nat
  PROVE  /\ Underway(FALSE, TRUE, s, n, Utf16ToUtf8(s, n)) /\ Utf16ToUtf8(s, n).read = Len(s)
         /\ \A t, r : Text(TRUE, t) /\ Len(t) <= n /\ r \in 0..Len(s) /\ Twin(FALSE, TRUE, s, r, t) =>
              /\ Begins(t, Utf16ToUtf8(s, n).out)
              /\ r = Len(s) => Utf16ToUtf8(s, n).out = t
<1>0. TRUE \in BOOLEAN /\ FALSE \in BOOLEAN
  OBVIOUS
<1>1. Len(s) \in Nat
  BY TextIs
<1>. DEFINE S == {st \in States(TRUE) : Underway(FALSE, TRUE, s, n, st)}
            st == Utf16ToUtf8(s, n)
<1>2. Keeps(FALSE, TRUE, s, n, S)
  BY <1>0, Finishes, Zenon
<1>3. st \in S /\ st.read = Len(s)
  BY <1>1, <1>2, LoopOf16, Zenon
<1>5. \A Z : Keeps(FALSE, TRUE, s, n, Z) => st \in Z
  BY <1>1, LoopOf16, Zenon
<1>. HIDE DEF st, S
<1>4. ASSUME NEW t, NEW r \in 0..Len(s), Text(TRUE, t), Len(t) <= n, Twin(FALSE, TRUE, s, r, t)
      PROVE  Begins(t, st.out) /\ (r = Len(s) => st.out = t)
  BY <1>0, <1>3, <1>4, <1>5, Ending, ZenonT(40)
<1>. QED
  BY <1>3, <1>4, Zenon DEF st, S

-----------------------------------------------------------------------------

(* The inductive invariant of the loop.                                    *)
Converting(e, f) == Text(e, source) /\ room \in Nat /\ Underway(e, f, source, room, state)
LoopIInv ==
  /\ toUtf8 \in BOOLEAN
  /\ toUtf8 => Converting(FALSE, TRUE)
  /\ ~toUtf8 => Converting(TRUE, FALSE)

(* The strings given to the loop are texts.                                *)
LEMMA StringsAreText ==
  /\ \A s \in Utf8Strings : Text(TRUE, s)
  /\ \A s \in Utf16Strings : Text(FALSE, s)
  BY LoopAssumption, Zenon DEF Text, CodeUnits

(* Every iteration keeps the invariant.                                    *)
LEMMA LoopStep == LoopIInv /\ [LoopNext]_loopVars => LoopIInv'
<1>. SUFFICES ASSUME LoopIInv, [LoopNext]_loopVars PROVE LoopIInv'
  OBVIOUS
<1>1. CASE ToUtf8
  <2>1. toUtf8 /\ state.read < Len(source) /\ UNCHANGED <<toUtf8, source, room>>
        /\ state' = Iteration(FALSE, TRUE, source, room, state)
    BY <1>1, IterationIs, Zenon DEF ToUtf8
  <2>2. Text(FALSE, source) /\ room \in Nat /\ Underway(FALSE, TRUE, source, room, state)
    BY <2>1, Zenon DEF LoopIInv, Converting
  <2>3. Underway(FALSE, TRUE, source, room, state')
    BY <2>1, <2>2, UnderwayStep, Zenon
  <2>. QED
    BY <2>1, <2>2, <2>3, Zenon DEF LoopIInv, Converting
<1>2. CASE ToUtf16
  <2>1. ~toUtf8 /\ state.read < Len(source) /\ UNCHANGED <<toUtf8, source, room>>
        /\ state' = Iteration(TRUE, FALSE, source, room, state)
    BY <1>2, IterationIs, Zenon DEF ToUtf16
  <2>2. Text(TRUE, source) /\ room \in Nat /\ Underway(TRUE, FALSE, source, room, state)
    BY <2>1, Zenon DEF LoopIInv, Converting
  <2>3. Underway(TRUE, FALSE, source, room, state')
    BY <2>1, <2>2, UnderwayStep, Zenon
  <2>. QED
    BY <2>1, <2>2, <2>3, Zenon DEF LoopIInv, Converting
<1>3. CASE UNCHANGED loopVars
  BY <1>3, Zenon DEF loopVars, LoopIInv, Converting
<1>. QED
  BY <1>1, <1>2, <1>3, Zenon DEF LoopNext

(* It holds at the start.                                                  *)
LEMMA LoopStart == LoopInit => LoopIInv
<1>. SUFFICES ASSUME LoopInit PROVE LoopIInv
  OBVIOUS
<1>1. room \in Nat
  BY LoopAssumption DEF LoopInit
<1>2. \A e, f \in BOOLEAN : Text(e, source) => Underway(e, f, source, room, state)
  BY <1>1, StartIs, Zenon DEF LoopInit
<1>3. TRUE \in BOOLEAN /\ FALSE \in BOOLEAN
  OBVIOUS
<1>4. CASE toUtf8 = TRUE /\ source \in Utf16Strings
  <2>1. Text(FALSE, source)
    BY <1>4, StringsAreText, Zenon
  <2>. QED
    BY <1>1, <1>2, <1>3, <1>4, <2>1, Zenon DEF LoopIInv, Converting
<1>5. CASE toUtf8 = FALSE /\ source \in Utf8Strings
  <2>1. Text(TRUE, source)
    BY <1>5, StringsAreText, Zenon
  <2>. QED
    BY <1>1, <1>2, <1>3, <1>5, <2>1, Zenon DEF LoopIInv, Converting
<1>. QED
  BY <1>4, <1>5, Zenon DEF LoopInit

(* It has the properties of the conversions as consequences.               *)
LEMMA ConverterIs == LoopIInv => ConverterInv
<1>. SUFFICES ASSUME LoopIInv PROVE ConverterInv
  OBVIOUS
<1>0. TRUE \in BOOLEAN /\ FALSE \in BOOLEAN /\ toUtf8 \in BOOLEAN
  BY Zenon DEF LoopIInv
<1>. DEFINE o == state.out
<1>1. ASSUME toUtf8 PROVE ConverterInv
  <2>1. Text(FALSE, source) /\ room \in Nat /\ Underway(FALSE, TRUE, source, room, state)
    BY <1>1, Zenon DEF LoopIInv, Converting
  <2>2. /\ state.read \in 0..Len(source) /\ state.size \in Nat /\ Text(TRUE, o) /\ Len(o) <= room
        /\ state.size <= room => Len(o) = state.size
        /\ WellFormedText(TRUE, o)
        /\ state.read = Len(source) /\ state.size <= room =>
             /\ WellFormedText(FALSE, source) => Twin(TRUE, FALSE, o, Len(o), source)
             /\ ~WellFormedText(FALSE, source) => Marked(TRUE, o)
    BY <1>0, <2>1, UnderwayIs, Zenon
  <2>. HIDE DEF o
  <2>3. LoopTypeOK
    <3>1. \A i \in 1..Len(o) : o[i] \in CodeUnits(TRUE)
      BY <1>0, <2>2, TextIs, Zenon
    <3>2. CodeUnits(TRUE) = IF toUtf8 THEN Uint8 ELSE Uint16
      BY <1>1, Zenon DEF CodeUnits
    <3>. QED
      BY <2>2, <3>1, <3>2, Zenon DEF LoopTypeOK, o
  <2>4. WithinRoom
    BY <2>2, Zenon DEF WithinRoom, o
  <2>5. OutputWellFormed
    BY <1>1, <2>2, Zenon DEF OutputWellFormed, WellFormedText, o
  <2>6. SizeQueryExact
    BY <2>2, Zenon DEF SizeQueryExact, Finished, o
  <2>7. RoundTrip
    <3>1. SUFFICES ASSUME Finished, state.size <= room, WellFormedUtf16(source)
                   PROVE  Utf8ToUtf16(o, Len(source)).out = source
      BY <1>1, Zenon DEF RoundTrip, o
    <3>2. Twin(TRUE, FALSE, o, Len(o), source)
      BY <2>2, <3>1, Zenon DEF Finished, WellFormedText
    <3>3. Len(source) \in Nat /\ Len(o) \in Nat
      BY <1>0, <2>1, <2>2, TextIs, Zenon
    <3>4. Len(source) <= Len(source) /\ Len(o) \in 0..Len(o)
      BY <3>3
    <3>. QED
      BY <2>1, <2>2, <3>2, <3>3, <3>4, ConvertedUtf8, Zenon
  <2>8. DamageShows
    <3>1. SUFFICES ASSUME Finished, state.size <= room, ~WellFormedUtf16(source)
                   PROVE  \E i \in 1..Len(o) : o[i] = \hEF
      BY <1>1, Zenon DEF DamageShows, o
    <3>2. Marked(TRUE, o)
      BY <2>2, <3>1, Zenon DEF Finished, WellFormedText
    <3>. QED
      BY <3>2, SMT DEF Marked, Mark
  <2>. QED
    BY <2>3, <2>4, <2>5, <2>6, <2>7, <2>8, Zenon DEF ConverterInv
<1>2. ASSUME ~toUtf8 PROVE ConverterInv
  <2>1. Text(TRUE, source) /\ room \in Nat /\ Underway(TRUE, FALSE, source, room, state)
    BY <1>2, Zenon DEF LoopIInv, Converting
  <2>2. /\ state.read \in 0..Len(source) /\ state.size \in Nat /\ Text(FALSE, o) /\ Len(o) <= room
        /\ state.size <= room => Len(o) = state.size
        /\ WellFormedText(FALSE, o)
        /\ state.read = Len(source) /\ state.size <= room =>
             /\ WellFormedText(TRUE, source) => Twin(FALSE, TRUE, o, Len(o), source)
             /\ ~WellFormedText(TRUE, source) => Marked(FALSE, o)
    BY <1>0, <2>1, UnderwayIs, Zenon
  <2>. HIDE DEF o
  <2>3. LoopTypeOK
    <3>1. \A i \in 1..Len(o) : o[i] \in CodeUnits(FALSE)
      BY <1>0, <2>2, TextIs, Zenon
    <3>2. CodeUnits(FALSE) = IF toUtf8 THEN Uint8 ELSE Uint16
      BY <1>2, Zenon DEF CodeUnits
    <3>. QED
      BY <2>2, <3>1, <3>2, Zenon DEF LoopTypeOK, o
  <2>4. WithinRoom
    BY <2>2, Zenon DEF WithinRoom, o
  <2>5. OutputWellFormed
    BY <1>2, <2>2, Zenon DEF OutputWellFormed, WellFormedText, o
  <2>6. SizeQueryExact
    BY <2>2, Zenon DEF SizeQueryExact, Finished, o
  <2>7. RoundTrip
    <3>1. SUFFICES ASSUME Finished, state.size <= room, WellFormedUtf8(source)
                   PROVE  Utf16ToUtf8(o, Len(source)).out = source
      BY <1>2, Zenon DEF RoundTrip, o
    <3>2. Twin(FALSE, TRUE, o, Len(o), source)
      BY <2>2, <3>1, Zenon DEF Finished, WellFormedText
    <3>3. Len(source) \in Nat /\ Len(o) \in Nat
      BY <1>0, <2>1, <2>2, TextIs, Zenon
    <3>4. Len(source) <= Len(source) /\ Len(o) \in 0..Len(o)
      BY <3>3
    <3>. QED
      BY <2>1, <2>2, <3>2, <3>3, <3>4, ConvertedUtf16, Zenon
  <2>8. DamageShows
    <3>1. SUFFICES ASSUME Finished, state.size <= room, ~WellFormedUtf8(source)
                   PROVE  \E i \in 1..Len(o) : o[i] = InvalidCodepoint
      BY <1>2, Zenon DEF DamageShows, o
    <3>2. Marked(FALSE, o)
      BY <2>2, <3>1, Zenon DEF Finished, WellFormedText
    <3>. QED
      BY <3>2, SMT DEF Marked, Mark
  <2>. QED
    BY <2>3, <2>4, <2>5, <2>6, <2>7, <2>8, Zenon DEF ConverterInv
<1>. QED
  BY <1>0, <1>1, <1>2, Zenon

(* Both conversions, over every string and every room: they write          *)
(* well-formed text within their buffer, count what they would write, come *)
(* back from well-formed text to where they began, and mark damage.        *)
THEOREM ConversionsInOrder == LoopSpec => []ConverterInv
<1>1. LoopInit => LoopIInv
  BY LoopStart
<1>2. LoopIInv /\ [LoopNext]_loopVars => LoopIInv'
  BY LoopStep
<1>3. LoopIInv => ConverterInv
  BY ConverterIs
<1>. QED
  BY <1>1, <1>2, <1>3, PTL DEF LoopSpec

(* The loops of utf16_to_utf8 and utf8_to_utf16 end: every iteration, over *)
(* whatever bytes or units, damaged ones too, reads at least one more of   *)
(* them and none beyond the last.                                          *)
THEOREM ConversionsReadOn ==
  LoopSpec => [][state'.read > state.read /\ state'.read <= Len(source)]_loopVars
<1>1. ASSUME LoopIInv, ToUtf8 PROVE state'.read > state.read /\ state'.read <= Len(source)
  <2>1. toUtf8 /\ state.read < Len(source) /\ state' = Iteration(FALSE, TRUE, source, room, state)
    BY <1>1, IterationIs, Zenon DEF ToUtf8
  <2>2. Text(FALSE, source) /\ room \in Nat /\ Underway(FALSE, TRUE, source, room, state)
    BY <1>1, <2>1, Zenon DEF LoopIInv, Converting
  <2>3. Underway(FALSE, TRUE, source, room, state') /\ state'.read > state.read
    BY <2>1, <2>2, UnderwayStep, Zenon
  <2>4. state'.read \in 0..Len(source) /\ Len(source) \in Nat
    BY <2>2, <2>3, UnderwayIs, TextIs, Zenon
  <2>. QED
    BY <2>3, <2>4
<1>2. ASSUME LoopIInv, ToUtf16 PROVE state'.read > state.read /\ state'.read <= Len(source)
  <2>1. ~toUtf8 /\ state.read < Len(source) /\ state' = Iteration(TRUE, FALSE, source, room, state)
    BY <1>2, IterationIs, Zenon DEF ToUtf16
  <2>2. Text(TRUE, source) /\ room \in Nat /\ Underway(TRUE, FALSE, source, room, state)
    BY <1>2, <2>1, Zenon DEF LoopIInv, Converting
  <2>3. Underway(TRUE, FALSE, source, room, state') /\ state'.read > state.read
    BY <2>1, <2>2, UnderwayStep, Zenon
  <2>4. state'.read \in 0..Len(source) /\ Len(source) \in Nat
    BY <2>2, <2>3, UnderwayIs, TextIs, Zenon
  <2>. QED
    BY <2>3, <2>4
<1>3. LoopIInv /\ [LoopNext]_loopVars => [state'.read > state.read /\ state'.read <= Len(source)]_loopVars
  BY <1>1, <1>2 DEF LoopNext
<1>4. LoopInit => LoopIInv
  BY LoopStart
<1>5. LoopIInv /\ [LoopNext]_loopVars => LoopIInv'
  BY LoopStep
<1>. QED
  BY <1>3, <1>4, <1>5, PTL DEF LoopSpec

-----------------------------------------------------------------------------
(* Strings.                                                                *)

(* A descriptor whose array has the length it says.                        *)
Exact(jda) ==
  /\ jda = Jda(jda.len, jda.data)
  /\ jda.len \in Nat
  /\ jda.data = [i \in 1..jda.len |-> jda.data[i]]

(* The two arrays of a string agree.                                       *)
Agree(s) ==
  /\ Exact(s.utf16)
  /\ (s.utf8 # NULL => Exact(s.utf8) /\ s.utf8.len = s.utf16.len + 1)

(* A function on 1..n has length n.                                        *)
LEMMA LenOfArray ==
  ASSUME NEW n \in Nat, NEW f, f = [i \in 1..n |-> f[i]]
  PROVE  Len(f) = n
<1> DEFINE S == {f[i] : i \in 1..n}
<1>1. f \in [1..n -> S]
  OBVIOUS
<1>2. f \in Seq(S)
  BY <1>1, SeqDef
<1> QED
  BY <1>1, <1>2, LenProperties

(* Writing over an array and setting one of its elements keep its length.  *)
LEMMA WritingKeepsLength ==
  ASSUME NEW jda, Exact(jda), NEW out, NEW n
  PROVE  /\ Exact(Jda(jda.len, Overwritten(jda.data, out)))
         /\ Exact(Jda(jda.len, Terminated(Overwritten(jda.data, out), n)))
<1>1. Len(jda.data) = jda.len
  BY LenOfArray DEF Exact
<1> DEFINE filled == Overwritten(jda.data, out)
<1>2. filled = [i \in 1..jda.len |-> IF i <= Len(out) THEN out[i] ELSE jda.data[i]]
  BY <1>1 DEF Overwritten
<1>3. DOMAIN filled = 1..jda.len /\ filled = [i \in 1..jda.len |-> filled[i]]
  BY <1>2
<1> HIDE DEF filled
<1>4. Exact(Jda(jda.len, filled))
  BY <1>3 DEF Exact, Jda
<1> DEFINE ended == Terminated(filled, n)
<1>5. ended = [i \in 1..jda.len |-> ended[i]]
  BY <1>3 DEF Terminated
<1> HIDE DEF ended
<1>6. Exact(Jda(jda.len, ended))
  BY <1>5 DEF Exact, Jda
<1> QED
  BY <1>4, <1>6 DEF filled, ended

(* A fresh array is as long as it is asked to be.                          *)
LEMMA FreshIsExact ==
  ASSUME NEW n \in Nat, NEW junk
  PROVE  Exact(Jda(n, Fresh(n, junk)))
<1> DEFINE d == Fresh(n, junk)
<1>1. d = [i \in 1..n |-> d[i]]
  BY DEF Fresh
<1> HIDE DEF d
<1>2. Exact(Jda(n, d))
  BY <1>1 DEF Exact, Jda
<1> QED
  BY <1>2 DEF d

(* The array a conversion to UTF-8 writes to is one longer than the UTF-16 *)
(* array, new or old: an existing one is never too short.                  *)
LEMMA Utf8ArrayAgrees ==
  ASSUME NEW s, Agree(s), NEW junk
  PROVE  Exact(Utf8Array(s, junk)) /\ Utf8Array(s, junk).len = s.utf16.len + 1
<1>1. s.utf16.len \in Nat
  BY DEF Agree, Exact
<1>2. CASE s.utf8 = NULL
  <2>1. Exact(Jda(s.utf16.len + 1, Fresh(s.utf16.len + 1, junk)))
    BY <1>1, FreshIsExact
  <2>2. Jda(s.utf16.len + 1, Fresh(s.utf16.len + 1, junk)).len = s.utf16.len + 1
    BY DEF Jda
  <2> QED
    BY <1>2, <2>1, <2>2 DEF Utf8Array
<1>3. CASE s.utf8 # NULL
  BY <1>1, <1>3 DEF Utf8Array, Agree, Exact
<1> QED
  BY <1>2, <1>3

(* A conversion to UTF-8 leaves arrays that agree.                         *)
LEMMA ConversionAgrees ==
  ASSUME NEW s, Agree(s), NEW o \in JstrUtf16ToUtf8(s)
  PROVE  /\ Agree(o.string) /\ o.string.utf16 = s.utf16
         /\ (o.ok => o.string.utf8.len = s.utf16.len + 1)
<1>1. CASE o = Outcome(s, FALSE)
  BY <1>1 DEF Outcome
<1>2. ASSUME NEW junk \in JunkBytes, o = Outcome(ToUtf8Array(s, Utf8Array(s, junk)), TRUE)
      PROVE  /\ Agree(o.string) /\ o.string.utf16 = s.utf16
             /\ o.string.utf8.len = s.utf16.len + 1
  <2> DEFINE u == Utf8Array(s, junk)
             out == Utf16ToUtf8(SubSeq(s.utf16.data, 1, s.utf16.len), u.len).out
             data == Terminated(Overwritten(u.data, out), u.len)
  <2>1. Exact(u) /\ u.len = s.utf16.len + 1
    BY Utf8ArrayAgrees
  <2>2. Exact(Jda(u.len, data))
    BY <2>1, WritingKeepsLength
  <2>3. o.string = [utf16 |-> s.utf16, utf8 |-> Jda(u.len, data)]
    BY <1>2 DEF Outcome, ToUtf8Array
  <2> HIDE DEF u, data
  <2>4. Jda(u.len, data).len = u.len
    BY DEF Jda
  <2>5. o.string.utf16 = s.utf16 /\ o.string.utf8 = Jda(u.len, data)
    BY <2>3
  <2> QED
    BY <2>1, <2>2, <2>4, <2>5 DEF Agree
<1> QED
  BY <1>1, <1>2 DEF JstrUtf16ToUtf8


(* The same characters are there when more is written behind u.            *)
LEMMA TwinBehind ==
  ASSUME NEW e \in BOOLEAN, NEW f \in BOOLEAN, NEW s, NEW t, NEW u, NEW r \in Nat,
         Len(s) \in Nat, Len(u) \in Nat, Len(t) \in Nat, Begins(s, u), Twin(e, f, s, r, t)
  PROVE  Twin(e, f, u, r, t)
<1>1. PICK P : Paired(e, f, s, r, t, P)
  BY DEF Twin
<1>2. ASSUME NEW p \in P, p # <<r, Len(t)>>
      PROVE  \E c : /\ At(e, u, p[1], c) /\ At(f, t, p[2], c)
                    /\ <<Past(e, p[1], c), Past(f, p[2], c)>> \in P
  <2>1. PICK c : /\ At(e, s, p[1], c) /\ At(f, t, p[2], c)
                 /\ <<Past(e, p[1], c), Past(f, p[2], c)>> \in P
    BY <1>1, <1>2 DEF Paired
  <2>2. p[1] \in Nat
    BY <1>1, <1>2 DEF Paired
  <2>3. At(e, u, p[1], c)
    BY <2>1, <2>2, AtMore
  <2>. QED
    BY <2>1, <2>3
<1>3. Paired(e, f, u, r, t, P)
  BY <1>1, <1>2 DEF Paired
<1>. QED
  BY <1>3 DEF Twin

(* ASCII is the same in both.                                              *)
LEMMA AsciiIs ==
  ASSUME NEW s \in Seq(Uint16), Ascii(s)
  PROVE  /\ s \in Seq(Uint8 \ {0}) /\ Twin(FALSE, TRUE, s, Len(s), s)
<1>1. \A x : x \in 1..\h7F => x \in Nat /\ x < 128 /\ x # 0
  OBVIOUS
<1>2. Len(s) \in Nat /\ DOMAIN s = 1..Len(s) /\ s = [i \in 1..Len(s) |-> s[i]]
  OBVIOUS
<1>3. \A i \in 1..Len(s) : s[i] \in Nat /\ s[i] < 128 /\ s[i] # 0
  BY <1>1, <1>2, Zenon DEF Ascii
<1>4. \A x \in Nat : x < 128 /\ x # 0 => x \in Uint8 \ {0}
  BY SMT DEF Uint8
<1>5. s \in Seq(Uint8 \ {0})
  BY <1>2, <1>3, <1>4
<1>6. ASSUME NEW i \in 0..Len(s), i # Len(s)
      PROVE  \E c : /\ At(FALSE, s, i, c) /\ At(TRUE, s, i, c)
                    /\ Past(FALSE, i, c) = i + 1 /\ Past(TRUE, i, c) = i + 1
  <2>. DEFINE c == s[i + 1]
  <2>1. i + 1 \in 1..Len(s) /\ i \in Nat /\ i + 1 <= Len(s)
    BY <1>2, <1>6
  <2>2. c \in Nat /\ c < 128 /\ s[i + 1] = c
    BY <1>3, <2>1
  <2>. HIDE DEF c
  <2>3. EncodeUtf8(c) = <<c>> /\ EncodeUtf16(c) = <<c>> /\ Scalar(c)
    <3>1. c < 65536
      BY <2>2, SMT
    <3>. QED
      BY <2>2, <3>1, EncodeOf1, EncodeOfUnit, ScalarIs, SMT
  <2>4. Sits(<<c>>, s, i) /\ Len(<<c>>) = 1
    BY <1>2, <2>1, <2>2, SitsOf1
  <2>. QED
    BY <2>3, <2>4, Zenon DEF At, Past, Enc
<1>7. Twin(FALSE, TRUE, s, Len(s), s)
  <2>. DEFINE P == {p \in (0..Len(s)) \X (0..Len(s)) : p[1] = p[2]}
  <2>1. P \in SUBSET ((0..Len(s)) \X (0..Len(s))) /\ <<0, 0>> \in P
    BY <1>2
  <2>2. ASSUME NEW p \in P, p # <<Len(s), Len(s)>>
        PROVE  \E c : /\ At(FALSE, s, p[1], c) /\ At(TRUE, s, p[2], c)
                      /\ <<Past(FALSE, p[1], c), Past(TRUE, p[2], c)>> \in P
    <3>1. p[1] \in 0..Len(s) /\ p[1] # Len(s) /\ p[2] = p[1]
      BY <2>2
    <3>2. PICK c : /\ At(FALSE, s, p[1], c) /\ At(TRUE, s, p[1], c)
                   /\ Past(FALSE, p[1], c) = p[1] + 1 /\ Past(TRUE, p[1], c) = p[1] + 1
      BY <1>6, <3>1
    <3>3. <<p[1] + 1, p[1] + 1>> \in P
      BY <1>2, <3>1
    <3>. QED
      BY <3>1, <3>2, <3>3, Zenon
  <2>. HIDE DEF P
  <2>3. Paired(FALSE, TRUE, s, Len(s), s, P)
    BY <2>1, <2>2, Zenon DEF Paired
  <2>. QED
    BY <2>3, Zenon DEF Twin
<1>. QED
  BY <1>5, <1>7, Zenon

(* An array that begins with text, with a NUL behind it, is read as text.  *)
LEMMA ReadUpToNul ==
  ASSUME NEW text \in Seq(Uint8 \ {0}), NEW a, NEW n \in Nat, n = Len(text),
         a = [i \in 1..(n + 1) |-> a[i]], \A i \in 1..n : a[i] = text[i], a[n + 1] = 0
  PROVE  UpToNul(SubSeq(a, 1, n + 1)) = text
<1>1. SubSeq(a, 1, n + 1) = a
  <2>1. SubSeq(a, 1, n + 1) = [i \in 1..(n + 1) |-> a[i]]
    BY DEF SubSeq
  <2>. QED
    BY <2>1, Zenon
<1>2. text = [i \in 1..n |-> text[i]] /\ \A i \in 1..n : text[i] # 0
  <2>. DEFINE S == Uint8 \ {0}
  <2>1. text \in Seq(S) /\ \A x \in S : x # 0
    BY Zenon
  <2>. HIDE DEF S
  <2>2. text = [i \in 1..n |-> text[i]] /\ \A i \in 1..n : text[i] \in S
    BY <2>1
  <2>. QED
    BY <2>1, <2>2
<1>. DEFINE nuls == {i \in DOMAIN a : a[i] = 0}
<1>3. nuls = {n + 1}
  <2>1. DOMAIN a = 1..(n + 1)
    BY Zenon
  <2>2. \A i \in 1..(n + 1) : i \in 1..n \/ i = n + 1
    OBVIOUS
  <2>3. n + 1 \in 1..(n + 1)
    OBVIOUS
  <2>4. ASSUME NEW i \in 1..(n + 1), i # n + 1 PROVE a[i] # 0
    <3>1. i \in 1..n
      BY <2>2, <2>4
    <3>. QED
      BY <1>2, <3>1
  <2>. QED
    BY <2>1, <2>3, <2>4, Zenon
<1>. DEFINE z == CHOOSE i \in nuls : \A j \in nuls : i <= j
<1>4. UpToNul(a) = IF nuls = {} THEN a ELSE SubSeq(a, 1, z - 1)
  BY Zenon DEF UpToNul
<1>. HIDE DEF nuls
<1>5. z = n + 1 /\ z - 1 = n /\ nuls # {}
  <2>1. n + 1 \in nuls /\ \A j \in nuls : n + 1 <= j
    BY <1>3
  <2>2. z \in nuls
    BY <2>1, Zenon
  <2>. HIDE DEF z
  <2>. QED
    BY <1>3, <2>2
<1>. HIDE DEF z
<1>6. SubSeq(a, 1, n) = [i \in 1..n |-> a[i]]
  BY DEF SubSeq
<1>7. [i \in 1..n |-> a[i]] = text
  BY <1>2
<1>. QED
  BY <1>1, <1>4, <1>5, <1>6, <1>7

(* What an array that begins with a text has at its beginning.             *)
LEMMA BeginningIs ==
  ASSUME NEW e \in BOOLEAN, NEW t, NEW u, Text(e, t), Begins(t, u)
  PROVE  SubSeq(u, 1, Len(t)) = t
<1>1. Len(t) \in Nat /\ t = [i \in 1..Len(t) |-> t[i]]
  BY TextIs, Zenon
<1>2. SubSeq(u, 1, Len(t)) = [i \in 1..Len(t) |-> u[i]]
  BY <1>1 DEF SubSeq
<1>3. [i \in 1..Len(t) |-> u[i]] = [i \in 1..Len(t) |-> t[i]]
  BY DEF Begins
<1>. QED
  BY <1>1, <1>2, <1>3, Zenon

(* All of an array, of the length its descriptor says.                     *)
LEMMA AllOfArray ==
  ASSUME NEW jda, Exact(jda)
  PROVE  jda.len \in Nat /\ Len(jda.data) = jda.len /\ SubSeq(jda.data, 1, jda.len) = jda.data
<1>. DEFINE n == jda.len
            a == jda.data
<1>1. n \in Nat /\ a = [i \in 1..n |-> a[i]]
  BY Zenon DEF Exact
<1>. HIDE DEF n, a
<1>2. Len(a) = n
  BY <1>1, LenOfArray, Zenon
<1>3. SubSeq(a, 1, n) = [i \in 1..n |-> a[i]]
  BY <1>1 DEF SubSeq
<1>4. SubSeq(a, 1, n) = a
  BY <1>1, <1>3, Zenon
<1>. QED
  BY <1>1, <1>2, <1>4 DEF n, a

(* Text whose characters begin the UTF-16 array is what a conversion gives *)
(* up to the NUL, if it is as long as that array.                          *)
LEMMA ReadBack ==
  ASSUME NEW s, Agree(s), Text(FALSE, s.utf16.data),
         NEW text \in Seq(Uint8 \ {0}), Len(text) = s.utf16.len,
         NEW r \in 0..s.utf16.len, Twin(FALSE, TRUE, s.utf16.data, r, text),
         NEW o \in JstrUtf16ToUtf8(s), o.ok
  PROVE  UpToNul(SubSeq(o.string.utf8.data, 1, o.string.utf8.len)) = text
<1>. DEFINE n == s.utf16.len
            units == s.utf16.data
<1>1. n \in Nat /\ Len(units) = n /\ SubSeq(units, 1, n) = units
  BY AllOfArray DEF Agree
<1>2. Text(TRUE, text)
  <2>1. Uint8 \ {0} \subseteq Uint8
    OBVIOUS
  <2>2. \A S, V : S \subseteq V => Seq(S) \subseteq Seq(V)
    OBVIOUS
  <2>. QED
    BY <2>1, <2>2, Zenon DEF Text, CodeUnits
<1>3. PICK junk \in JunkBytes : o = Outcome(ToUtf8Array(s, Utf8Array(s, junk)), TRUE)
  <2>1. o # Outcome(s, FALSE)
    BY DEF Outcome
  <2>. QED
    BY <2>1 DEF JstrUtf16ToUtf8
<1>. DEFINE u == Utf8Array(s, junk)
            out == Utf16ToUtf8(units, u.len).out
            data == Terminated(Overwritten(u.data, out), u.len)
<1>4. Exact(u) /\ u.len = n + 1
  BY Utf8ArrayAgrees
<1>5. Exact(Jda(u.len, data))
  BY <1>4, WritingKeepsLength
<1>6. o.string = [utf16 |-> s.utf16, utf8 |-> Jda(u.len, data)]
  BY <1>1, <1>3 DEF Outcome, ToUtf8Array
<1>7. Begins(text, out)
  <2>1. Len(text) <= n + 1 /\ n + 1 \in Nat /\ r \in 0..Len(units)
    BY <1>1
  <2>2. Begins(text, Utf16ToUtf8(units, n + 1).out)
    BY <1>2, <2>1, ConvertedUtf16, Zenon
  <2>. QED
    BY <1>4, <2>2, Zenon
<1>12. Len(out) \in Nat
  <2>1. n + 1 \in Nat
    BY <1>1
  <2>5. TRUE \in BOOLEAN /\ Text(FALSE, units)
    BY Zenon
  <2>2. Underway(FALSE, TRUE, units, n + 1, Utf16ToUtf8(units, n + 1))
    BY <2>1, <2>5, ConvertedUtf16, Zenon
  <2>3. Text(TRUE, Utf16ToUtf8(units, n + 1).out)
    BY <2>2, Zenon DEF Underway
  <2>4. Text(TRUE, out)
    BY <1>4, <2>3, Zenon
  <2>. HIDE DEF out
  <2>. QED
    BY <2>4, <2>5, TextIs, Zenon
<1>8. Len(u.data) = n + 1 /\ n + 1 \in Nat
  BY <1>1, <1>4, AllOfArray
<1>. HIDE DEF out, u, n
<1>9. data = [i \in 1..(n + 1) |-> data[i]] /\ data[n + 1] = 0 /\ \A i \in 1..n : data[i] = text[i]
  <2>1. Overwritten(u.data, out) = [i \in 1..(n + 1) |-> IF i <= Len(out) THEN out[i] ELSE u.data[i]]
    BY <1>8 DEF Overwritten
  <2>2. data = [Overwritten(u.data, out) EXCEPT ![n + 1] = 0]
    BY <1>4 DEF Terminated
  <2>3. data = [i \in 1..(n + 1) |-> data[i]] /\ data[n + 1] = 0
    BY <1>1, <2>1, <2>2
  <2>4. ASSUME NEW i \in 1..n PROVE data[i] = text[i]
    <3>1. i \in 1..(n + 1) /\ i # n + 1
      BY <1>1
    <3>2. data[i] = IF i <= Len(out) THEN out[i] ELSE u.data[i]
      BY <2>1, <2>2, <3>1
    <3>3. Len(text) = n
      BY DEF n
    <3>4. i <= n /\ n <= Len(out) /\ out[i] = text[i]
      BY <1>7, <3>3 DEF Begins
    <3>5. Len(out) \in Nat => i <= Len(out)
      BY <1>1, <3>4
    <3>. QED
      BY <1>12, <3>2, <3>4, <3>5
  <2>. QED
    BY <2>3, <2>4
<1>. HIDE DEF data
<1>10. o.string.utf8.data = data /\ o.string.utf8.len = n + 1
  BY <1>4, <1>6 DEF Jda
<1>11. UpToNul(SubSeq(data, 1, n + 1)) = text
  <2>1. n = Len(text)
    BY DEF n
  <2>. QED
    BY <1>1, <1>9, <2>1, ReadUpToNul, ZenonT(40)
<1>. QED
  BY <1>10, <1>11, Zenon

(* What the UTF-16 array holds, of a string made from a text.              *)
Contents(s, m) ==
  \/ /\ m.by = "NewString" /\ m.text \in Units
     /\ s.utf16.data = m.text
  \/ /\ m.by = "NewStringUTF" /\ m.text \in Bytes
     /\ s.utf16.len = Len(m.text)
     /\ Text(FALSE, s.utf16.data)
     /\ Begins(Utf8ToUtf16(m.text, Len(m.text)).out, s.utf16.data)

(* The strings given to the constructors are texts.                        *)
LEMMA UnitsAreText == \A u \in Units : u \in Seq(Uint16) /\ Text(FALSE, u)
  BY StringAssumption, Zenon DEF Text, CodeUnits

(* The bytes as well, and no NUL is among them.                            *)
LEMMA BytesAreText ==
  \A b \in Bytes : b \in Seq(Uint8 \ {0}) /\ Text(TRUE, b)
<1>1. Uint8 \ {0} \subseteq Uint8
  OBVIOUS
<1>2. \A S, V : S \subseteq V => Seq(S) \subseteq Seq(V)
  OBVIOUS
<1>. QED
  BY <1>1, <1>2, StringAssumption, Zenon DEF Text, CodeUnits

(* A conversion to UTF-8 gives the text back that the string was made      *)
(* from.                                                                   *)
LEMMA ContentsReadBack ==
  ASSUME NEW s, Agree(s), NEW m, Contents(s, m), NEW o \in JstrUtf16ToUtf8(s), o.ok,
         IF m.by = "NewStringUTF" THEN WellFormedUtf8(m.text) ELSE Ascii(m.text)
  PROVE  UpToNul(SubSeq(o.string.utf8.data, 1, o.string.utf8.len)) = m.text
<1>. DEFINE text == m.text
            units == s.utf16.data
            n == s.utf16.len
<1>0. n \in Nat /\ Len(units) = n /\ TRUE \in BOOLEAN /\ FALSE \in BOOLEAN
  BY AllOfArray DEF Agree
<1>1. CASE m.by = "NewString" /\ text \in Units /\ units = text
  <2>1. units \in Seq(Uint16) /\ Text(FALSE, units) /\ Ascii(units)
    BY <1>1, UnitsAreText
  <2>2. units \in Seq(Uint8 \ {0}) /\ Twin(FALSE, TRUE, units, Len(units), units)
    BY <2>1, AsciiIs
  <2>3. Len(units) \in 0..n
    BY <1>0
  <2>. QED
    BY <1>0, <1>1, <2>1, <2>2, <2>3, ReadBack, Zenon
<1>2. CASE /\ m.by = "NewStringUTF" /\ text \in Bytes
           /\ n = Len(text) /\ Text(FALSE, units) /\ Begins(Utf8ToUtf16(text, Len(text)).out, units)
  <2>. DEFINE st == Utf8ToUtf16(text, n)
              out == st.out
  <2>1. text \in Seq(Uint8 \ {0}) /\ Text(TRUE, text) /\ WellFormedUtf8(text)
    BY <1>2, BytesAreText
  <2>2. Underway(TRUE, FALSE, text, n, st) /\ st.read = Len(text)
    BY <1>0, <2>1, ConvertedUtf8, Zenon
  <2>3. st.size <= st.read
    BY <2>2, Zenon DEF Underway
  <2>4. st.size <= n
    BY <1>2, <2>2, <2>3, Zenon
  <2>5. Text(FALSE, out) /\ Len(out) <= n /\ Twin(FALSE, TRUE, out, Len(out), text)
    BY <1>0, <2>1, <2>2, <2>4, UnderwayIs, Zenon DEF WellFormedText
  <2>. HIDE DEF out
  <2>6. Len(out) \in Nat /\ Len(text) \in Nat /\ Len(units) \in Nat
    BY <1>0, <1>2, <2>1, <2>5, TextIs, Zenon
  <2>7. Begins(out, units)
    BY <1>2, Zenon DEF out
  <2>8. Twin(FALSE, TRUE, units, Len(out), text)
    BY <1>0, <2>5, <2>6, <2>7, TwinBehind, Zenon
  <2>9. Len(out) \in 0..n
    BY <1>0, <2>5, <2>6
  <2>. QED
    BY <1>2, <2>1, <2>8, <2>9, ReadBack, Zenon
<1>. QED
  BY <1>1, <1>2, Zenon DEF Contents

(* What is written over a fresh array begins it, and leaves it a text.     *)
LEMMA WrittenOver ==
  ASSUME NEW n \in Nat, NEW junk \in Uint16, NEW out, Text(FALSE, out), Len(out) <= n
  PROVE  /\ Text(FALSE, Overwritten(Fresh(n, junk), out))
         /\ Begins(out, Overwritten(Fresh(n, junk), out))
<1>. DEFINE d == Fresh(n, junk)
            data == Overwritten(d, out)
<1>1. d = [i \in 1..n |-> junk]
  BY DEF Fresh
<1>2. Len(d) = n /\ \A i \in 1..n : d[i] = junk
  <2>1. d = [i \in 1..n |-> d[i]]
    BY <1>1
  <2>. HIDE DEF d
  <2>. QED
    BY <1>1, <2>1, LenOfArray
<1>. HIDE DEF d
<1>3. data = [i \in 1..n |-> IF i <= Len(out) THEN out[i] ELSE junk]
  <2>1. data = [i \in 1..n |-> IF i <= Len(out) THEN out[i] ELSE d[i]]
    BY <1>2 DEF Overwritten
  <2>. QED
    BY <1>2, <2>1
<1>. HIDE DEF data
<1>4. Len(out) \in Nat /\ \A i \in 1..Len(out) : out[i] \in Uint16
  <2>1. FALSE \in BOOLEAN /\ CodeUnits(FALSE) = Uint16
    BY Zenon DEF CodeUnits
  <2>. QED
    BY <2>1, TextIs, Zenon
<1>5. data \in [1..n -> Uint16]
  <2>1. ASSUME NEW i \in 1..n PROVE (IF i <= Len(out) THEN out[i] ELSE junk) \in Uint16
    <3>1. i <= Len(out) => i \in 1..Len(out)
      BY <1>4
    <3>. QED
      BY <1>4, <3>1
  <2>. QED
    BY <1>3, <2>1
<1>6. data \in Seq(Uint16) /\ Len(data) = n
  BY <1>5, SeqDef, LenProperties
<1>7. Text(FALSE, data)
  BY <1>6, Zenon DEF Text, CodeUnits
<1>8. ASSUME NEW i \in 1..Len(out) PROVE data[i] = out[i]
  BY <1>3, <1>4
<1>9. Begins(out, data)
  BY <1>6, <1>8 DEF Begins
<1>. QED
  BY <1>7, <1>9 DEF data, d

(* What either constructor makes: two arrays that agree, and the text in   *)
(* them.                                                                   *)
LEMMA MadeFromUnits ==
  ASSUME NEW units \in Units, NewString(units)
  PROVE  Agree(string') /\ Contents(string', made')
<1>. DEFINE s == [utf16 |-> Jda(Len(units), units), utf8 |-> NULL]
<1>1. units \in Seq(Uint16)
  BY StringAssumption
<1>2. Len(units) \in Nat /\ units = [i \in 1..Len(units) |-> units[i]]
  BY <1>1
<1>3. Exact(Jda(Len(units), units))
  BY <1>2 DEF Exact, Jda
<1>4. Agree(s) /\ s.utf16.data = units
  BY <1>3 DEF Agree, Jda
<1>5. PICK o \in JstrUtf16ToUtf8(s) : string' = o.string
  BY DEF NewString
<1>. HIDE DEF s
<1>6. Agree(string') /\ string'.utf16.data = units
  BY <1>4, <1>5, ConversionAgrees
<1>7. made'.by = "NewString" /\ made'.text = units
  BY DEF NewString
<1>. QED
  BY <1>6, <1>7, Zenon DEF Contents

(* From bytes.                                                             *)
LEMMA MadeFromBytes ==
  ASSUME NEW bytes \in Bytes, NewStringUTF(bytes)
  PROVE  Agree(string') /\ Contents(string', made')
<1>1. bytes \in Seq(Uint8 \ {0}) /\ Text(TRUE, bytes)
  BY BytesAreText
<1>. DEFINE n == Len(bytes)
            text == SubSeq(Append(bytes, 0), 1, n + 1)
            utf8 == Jda(n + 1, text)
            new(junk) == [utf16 |-> Jda(n, Fresh(n, junk)), utf8 |-> utf8]
<1>2. PICK junk \in JunkUnits : string' = ToUtf16Array(new(junk), Utf16Array(new(junk), junk))
  BY DEF NewStringUTF, Utf16Length, Utf8Length
<1>3. n \in Nat /\ text = [i \in 1..(n + 1) |-> text[i]] /\ SubSeq(text, 1, n) = bytes
  <2>. DEFINE S == Uint8
  <2>0. bytes \in Seq(S) /\ 0 \in S
    <3>1. 0 \in Uint8
      BY SMT DEF Uint8
    <3>. QED
      BY <1>1, <3>1, Zenon DEF Text, CodeUnits
  <2>. HIDE DEF S
  <2>1. Append(bytes, 0) \in Seq(S) /\ Len(Append(bytes, 0)) = n + 1 /\ n \in Nat
    BY <2>0
  <2>2. text = Append(bytes, 0)
    BY <2>1
  <2>3. \A i \in 1..n : Append(bytes, 0)[i] = bytes[i]
    BY <2>0
  <2>4. SubSeq(text, 1, n) = [i \in 1..n |-> bytes[i]]
    <3>1. SubSeq(text, 1, n) = [i \in 1..n |-> text[i]]
      BY <2>1 DEF SubSeq
    <3>. QED
      BY <2>2, <2>3, <3>1
  <2>5. bytes = [i \in 1..n |-> bytes[i]]
    BY <2>0
  <2>. QED
    BY <2>1, <2>2, <2>4, <2>5
<1>4. Exact(utf8) /\ utf8.len = n + 1 /\ utf8.data = text
  <2>. HIDE DEF text
  <2>. QED BY <1>3 DEF Exact, Jda
<1>5. Exact(Jda(n, Fresh(n, junk)))
  BY <1>3, FreshIsExact
<1>. DEFINE out == Utf8ToUtf16(bytes, n).out
            data == Overwritten(Fresh(n, junk), out)
<1>6. Text(FALSE, data) /\ Begins(out, data)
  <2>1. TRUE \in BOOLEAN /\ FALSE \in BOOLEAN /\ junk \in Uint16
    BY StringAssumption
  <2>2. Underway(TRUE, FALSE, bytes, n, Utf8ToUtf16(bytes, n))
    BY <1>1, <1>3, ConvertedUtf8, Zenon
  <2>3. Text(FALSE, out) /\ Len(out) <= n
    BY <1>1, <1>3, <2>1, <2>2, UnderwayIs, Zenon
  <2>. HIDE DEF out
  <2>. QED
    BY <1>3, <2>1, <2>3, WrittenOver, Zenon
<1>7. SubSeq(utf8.data, 1, utf8.len - 1) = bytes
  <2>. HIDE DEF utf8, text
  <2>. QED
    BY <1>3, <1>4
<1>. HIDE DEF n, utf8
<1>8. Jda(n, Fresh(n, junk)).len = n /\ Jda(n, Fresh(n, junk)).data = Fresh(n, junk)
  BY DEF Jda
<1>9. Utf16Array(new(junk), junk) = Jda(n, Fresh(n, junk))
  BY <1>3, <1>4, <1>8 DEF Utf16Array
<1>10. string' = [utf8 |-> utf8, utf16 |-> Jda(n, data)]
  BY <1>2, <1>7, <1>8, <1>9 DEF ToUtf16Array
<1>11. Exact(Jda(n, data))
  BY <1>5, <1>8, WritingKeepsLength
<1>. HIDE DEF data
<1>12. Jda(n, data).len = n /\ Jda(n, data).data = data
  BY DEF Jda
<1>13. string'.utf8 = utf8 /\ string'.utf16 = Jda(n, data)
  BY <1>10
<1>14. Agree(string')
  BY <1>4, <1>11, <1>12, <1>13 DEF Agree
<1>15. made'.by = "NewStringUTF" /\ made'.text = bytes
  BY DEF NewStringUTF
<1>16. /\ string'.utf16.len = Len(bytes) /\ Text(FALSE, string'.utf16.data)
       /\ Begins(Utf8ToUtf16(bytes, Len(bytes)).out, string'.utf16.data)
  BY <1>6, <1>12, <1>13, Zenon DEF n
<1>. QED
  BY <1>14, <1>15, <1>16, Zenon DEF Contents

(* What GetStringChars gives back, of a string that holds its text.        *)
LEMMA ContentsAre ==
  ASSUME NEW s, Agree(s), NEW m, Contents(s, m)
  PROVE  /\ SubSeq(s.utf16.data, 1, s.utf16.len) = s.utf16.data
         /\ IF m.by = "NewString" THEN s.utf16.data = m.text
            ELSE LET units == Utf8ToUtf16(m.text, Len(m.text)).out IN
                 SubSeq(s.utf16.data, 1, Len(units)) = units
         /\ m.by = "NewStringUTF" => s.utf16.len = Len(m.text)
<1>1. SubSeq(s.utf16.data, 1, s.utf16.len) = s.utf16.data
  BY AllOfArray DEF Agree
<1>2. CASE m.by = "NewString" /\ s.utf16.data = m.text
  BY <1>1, <1>2
<1>3. CASE /\ m.by = "NewStringUTF" /\ m.text \in Bytes /\ s.utf16.len = Len(m.text)
           /\ Begins(Utf8ToUtf16(m.text, Len(m.text)).out, s.utf16.data)
  <2>. DEFINE text == m.text
              out == Utf8ToUtf16(text, Len(text)).out
  <2>1. TRUE \in BOOLEAN /\ FALSE \in BOOLEAN /\ Text(TRUE, text)
    BY <1>3, BytesAreText, Zenon
  <2>2. Len(text) \in Nat
    BY <2>1, TextIs, Zenon
  <2>3. Underway(TRUE, FALSE, text, Len(text), Utf8ToUtf16(text, Len(text)))
    BY <2>1, <2>2, ConvertedUtf8, Zenon
  <2>4. Text(FALSE, out)
    BY <2>3, Zenon DEF Underway
  <2>5. SubSeq(s.utf16.data, 1, Len(out)) = out
    <3>1. Begins(out, s.utf16.data)
      BY <1>3, Zenon
    <3>. HIDE DEF out
    <3>. QED
      BY <2>1, <2>4, <3>1, BeginningIs, Zenon
  <2>. QED
    BY <1>1, <1>3, <2>5, Zenon
<1>. QED
  BY <1>2, <1>3, Zenon DEF Contents

(* Inductive: the arrays agree, they hold the text that was given, no copy *)
(* has run over, and what was last answered is right.                      *)
AnswerIsRight == TextComesBack /\ UnitsComeBack /\ UTFLengthMatches
StringIInv ==
  /\ string # NULL => Agree(string) /\ Contents(string, made)
  /\ overrun = FALSE
  /\ AnswerIsRight

(* Nothing is asked of other answers.                                      *)
LEMMA Unasked ==
  ASSUME answer'.call \notin {"GetStringUTFChars", "GetStringChars",
                              "GetStringCritical", "GetStringUTFLength"}
  PROVE  AnswerIsRight'
BY Zenon DEF AnswerIsRight, TextComesBack, UnitsComeBack, UTFLengthMatches

(* Converting again leaves the text and the agreement as they were.        *)
LEMMA StillThere ==
  ASSUME StringIInv, string # NULL, NEW o \in JstrUtf16ToUtf8(string), string' = o.string,
         made' = made
  PROVE  /\ (string # NULL => Agree(string) /\ Contents(string, made))'
         /\ (o.ok => o.string.utf8.len = string.utf16.len + 1)
<1>1. Agree(string) /\ Contents(string, made)
  BY Zenon DEF StringIInv
<1>2. /\ Agree(o.string) /\ o.string.utf16 = string.utf16
      /\ (o.ok => o.string.utf8.len = string.utf16.len + 1)
  BY <1>1, ConversionAgrees, Zenon
<1>3. Agree(string') /\ Contents(string', made')
  BY <1>1, <1>2, Zenon DEF Contents
<1>. QED
  BY <1>2, <1>3, Zenon

(* Every call keeps the invariant.                                         *)
LEMMA StringStep ==
  ASSUME StringIInv, [StringNext]_stringVars
  PROVE  StringIInv'
<1>1. CASE \/ \E units \in Units : NewString(units)
           \/ \E bytes \in Bytes : NewStringUTF(bytes)
  <2>1. Agree(string') /\ Contents(string', made')
    BY <1>1, MadeFromUnits, MadeFromBytes, Zenon
  <2>2. UNCHANGED overrun /\ answer' = Nothing
    BY <1>1, Zenon DEF NewString, NewStringUTF
  <2>3. AnswerIsRight'
    BY <2>2, Unasked DEF Nothing, Answer
  <2> QED
    BY <2>1, <2>2, <2>3, Zenon DEF StringIInv
<1>2. ASSUME string # NULL
      PROVE  /\ SubSeq(string.utf16.data, 1, string.utf16.len) = string.utf16.data
             /\ IF made.by = "NewString" THEN string.utf16.data = made.text
                ELSE LET units == Utf8ToUtf16(made.text, Len(made.text)).out IN
                     SubSeq(string.utf16.data, 1, Len(units)) = units
             /\ made.by = "NewStringUTF" => string.utf16.len = Len(made.text)
  <2>1. Agree(string) /\ Contents(string, made)
    BY <1>2, Zenon DEF StringIInv
  <2>. QED
    BY <2>1, ContentsAre, Zenon
<1>3. ASSUME NEW call, NEW value, Shown(call, value), AnswerIsRight'
      PROVE  StringIInv'
  BY <1>3, StillThere, Zenon DEF Shown, StringIInv
<1>4. CASE GetStringLength \/ ReleaseStringChars
  <2>1. AnswerIsRight'
    BY <1>4, Unasked DEF GetStringLength, ReleaseStringChars, Shown, Answer
  <2>. QED
    BY <1>3, <1>4, <2>1, Zenon DEF GetStringLength, ReleaseStringChars
<1>5. CASE GetStringUTFLength
  <2>1. /\ string # NULL /\ made' = made
        /\ answer'.call = "GetStringUTFLength" /\ answer'.value = string.utf16.len
    BY <1>5 DEF GetStringUTFLength, Shown, Answer
  <2>2. AnswerIsRight'
    BY <1>2, <2>1, Zenon DEF AnswerIsRight, TextComesBack, UnitsComeBack, UTFLengthMatches
  <2>. QED
    BY <1>3, <1>5, <2>2, Zenon DEF GetStringUTFLength
<1>6. ASSUME string # NULL, made' = made, answer'.call \in {"GetStringChars", "GetStringCritical"},
             answer'.value = string.utf16.data
      PROVE  AnswerIsRight'
  BY <1>2, <1>6, Zenon DEF AnswerIsRight, TextComesBack, UnitsComeBack, UTFLengthMatches
<1>7. CASE GetStringChars
  <2>1. /\ string # NULL /\ made' = made /\ answer'.call = "GetStringChars"
        /\ answer'.value = SubSeq(string.utf16.data, 1, string.utf16.len)
    BY <1>7 DEF GetStringChars, Shown, Answer
  <2>2. AnswerIsRight'
    BY <1>2, <1>6, <2>1, Zenon
  <2>. QED
    BY <1>3, <1>7, <2>2, Zenon DEF GetStringChars
<1>8. CASE GetStringCritical
  <2>1. /\ string # NULL /\ UNCHANGED <<string, overrun, made>>
        /\ answer'.call = "GetStringCritical" /\ answer'.value = string.utf16.data
    BY <1>8 DEF GetStringCritical, Answer
  <2>2. AnswerIsRight'
    BY <1>6, <2>1, Zenon
  <2>. QED
    BY <2>1, <2>2, Zenon DEF StringIInv
<1>9. CASE GetStringUTFChars
  <2>1. PICK o \in JstrUtf16ToUtf8(string) :
          /\ string' = o.string
          /\ o.ok => /\ answer' = Answer("GetStringUTFChars", SubSeq(o.string.utf8.data, 1, o.string.utf8.len))
                     /\ overrun' = (overrun \/ o.string.utf8.len > string.utf16.len + 1)
          /\ ~o.ok => answer' = Nothing /\ overrun' = overrun
    BY <1>9 DEF GetStringUTFChars
  <2>2. string # NULL /\ made' = made
    BY <1>9 DEF GetStringUTFChars
  <2>3. /\ (string # NULL => Agree(string) /\ Contents(string, made))'
        /\ (o.ok => o.string.utf8.len = string.utf16.len + 1)
    BY <2>1, <2>2, StillThere, Zenon
  <2>4. Agree(string) /\ Contents(string, made) /\ string.utf16.len \in Nat
    BY <2>2, Zenon DEF StringIInv, Agree, Exact
  <2>5. ASSUME o.ok PROVE ~(o.string.utf8.len > string.utf16.len + 1)
    BY <2>3, <2>4, <2>5
  <2>6. overrun' = FALSE
    BY <2>1, <2>5, Zenon DEF StringIInv
  <2>7. CASE o.ok
    <3>1. /\ answer'.call = "GetStringUTFChars"
          /\ answer'.value = SubSeq(o.string.utf8.data, 1, o.string.utf8.len)
      BY <2>1, <2>7 DEF Answer
    <3>2. (IF made.by = "NewStringUTF" THEN WellFormedUtf8(made.text) ELSE Ascii(made.text))
          => UpToNul(answer'.value) = made.text
      BY <2>4, <2>7, <3>1, ContentsReadBack, Zenon
    <3>3. AnswerIsRight'
      BY <2>2, <3>1, <3>2, Zenon DEF AnswerIsRight, TextComesBack, UnitsComeBack, UTFLengthMatches
    <3>. QED
      BY <2>3, <2>6, <3>3, Zenon DEF StringIInv
  <2>8. CASE ~o.ok
    <3>1. AnswerIsRight'
      BY <2>1, <2>8, Unasked DEF Nothing, Answer
    <3>. QED
      BY <2>3, <2>6, <3>1, Zenon DEF StringIInv
  <2> QED
    BY <2>7, <2>8
<1>10. ASSUME NEW start \in Number, NEW length \in Number,
              GetStringRegion(start, length) \/ GetStringUTFRegion(start, length)
       PROVE  StringIInv'
  <2>1. string # NULL /\ UNCHANGED <<overrun, made>>
    BY <1>10, Zenon DEF GetStringRegion, GetStringUTFRegion
  <2>2. \/ answer' = Nothing
        \/ answer' = Answer("GetStringRegion", "descriptor")
        \/ answer' = Answer("GetStringUTFRegion", "descriptor")
    BY <1>10, Zenon DEF GetStringRegion, GetStringUTFRegion
  <2>3. AnswerIsRight'
    BY <2>2, Unasked DEF Nothing, Answer
  <2>4. UNCHANGED string \/ \E o \in JstrUtf16ToUtf8(string) : string' = o.string
    BY <1>10, Zenon DEF GetStringRegion, GetStringUTFRegion
  <2> QED
    BY <2>1, <2>3, <2>4, StillThere, Zenon DEF StringIInv
<1>11. CASE CreationFails
  <2>1. UNCHANGED <<string, overrun, made>> /\ answer' = Nothing
    BY <1>11, Zenon DEF CreationFails
  <2>2. AnswerIsRight'
    BY <2>1, Unasked DEF Nothing, Answer
  <2>. QED
    BY <2>1, <2>2, Zenon DEF StringIInv
<1>12. CASE UNCHANGED stringVars
  BY <1>12, Zenon DEF stringVars, StringIInv, AnswerIsRight, TextComesBack, UnitsComeBack, UTFLengthMatches
<1> QED
  BY <1>1, <1>4, <1>5, <1>7, <1>8, <1>9, <1>10, <1>11, <1>12, Zenon DEF StringNext

(* So it holds in every behaviour.                                         *)
LEMMA StringInductive == StringSpec => []StringIInv
<1>1. StringInit => StringIInv
  <2>1. SUFFICES ASSUME StringInit PROVE StringIInv
    OBVIOUS
  <2>2. string = NULL /\ overrun = FALSE /\ answer.call = "none"
    BY <2>1 DEF StringInit, Nothing, Answer
  <2>. QED
    BY <2>2 DEF StringIInv, AnswerIsRight, TextComesBack, UnitsComeBack, UTFLengthMatches
<1>2. StringIInv /\ [StringNext]_stringVars => StringIInv'
  BY StringStep
<1> QED
  BY <1>1, <1>2, PTL DEF StringSpec

(* The two arrays of a string always have the lengths that go together:    *)
(* jda_realloc, which would part them, is never reached.                   *)
THEOREM ShapeIsKept == StringSpec => []StringShape
<1>1. StringIInv => StringShape
  <2>1. ASSUME NEW jda, Exact(jda) PROVE DOMAIN jda.data = 1..jda.len
    BY <2>1 DEF Exact
  <2> QED
    BY <2>1, Zenon DEF StringIInv, Agree, StringShape
<1> QED
  BY <1>1, StringInductive, PTL

(* GetStringUTFChars never writes past the buffer it allocates.            *)
THEOREM CopiesAlwaysFit == StringSpec => []CopiesFit
<1>1. StringIInv => CopiesFit
  BY DEF StringIInv, CopiesFit
<1> QED
  BY <1>1, StringInductive, PTL

(* Every call on a string reads the text it was made from.                 *)
THEOREM StringsInOrder == StringSpec => []StringInv
<1>1. ASSUME NEW jda, Exact(jda) PROVE IsJda(jda) /\ DOMAIN jda.data = 1..jda.len
  <2>1. jda.len \in Nat /\ Len(jda.data) = jda.len /\ DOMAIN jda.data = 1..jda.len
    BY <1>1, AllOfArray DEF Exact
  <2>2. DOMAIN jda = {"len", "data"}
    <3>1. DOMAIN Jda(jda.len, jda.data) = {"len", "data"}
      BY DEF Jda
    <3>. QED
      BY <1>1, <3>1, Zenon DEF Exact
  <2>. QED
    BY <2>1, <2>2 DEF IsJda
<1>2. StringIInv => StringInv
  <2>1. SUFFICES ASSUME StringIInv PROVE StringInv
    OBVIOUS
  <2>2. StringShape
    BY <1>1, <2>1, Zenon DEF StringIInv, Agree, StringShape
  <2>3. string # NULL => /\ IsJda(string.utf16)
                         /\ (string.utf8 # NULL => IsJda(string.utf8))
    BY <1>1, <2>1, Zenon DEF StringIInv, Agree
  <2>. QED
    BY <2>1, <2>2, <2>3 DEF StringIInv, AnswerIsRight, StringInv, CopiesFit, StringTypeOK
<1>. QED
  BY <1>2, StringInductive, PTL
=============================================================================
