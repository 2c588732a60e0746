----------------------------- MODULE JavaCalls -----------------------------
(***************************************************************************)
(* Methods and fields of FalsoJNI: names are looked up in tables the       *)
(* program supplies, and an id stands for code or for one value, whatever  *)
(* the object or class.  The tables are parameters; this program's are     *)
(* empty, so that every lookup fails and every call answers its default.   *)
(* A name is a pair: the class for a constructor, "" for all others.       *)
(***************************************************************************)
EXTENDS Integers, Sequences

CONSTANTS
  Class,           (* the classes Caustic finds by name                    *)
  FieldValue,      (* the values it sets                                   *)
  NameToMethodId,  (* nameToMethodId[]: id and name                        *)
  Methods,         (* methodsObject[] and the others: ids by result type   *)
  NameToFieldId,   (* nameToFieldId[]: id, name and type                   *)
  InitialFields    (* fieldsObject[] and the others: ids and values        *)

FieldType == {"object", "boolean", "byte", "char", "short", "int", "long", "float", "double"}
MethodType == FieldType \cup {"void"}

ASSUME TableAssumption ==
  /\ DOMAIN Methods = MethodType
  /\ InitialFields \in [FieldType -> Seq([id : Int, value : STRING])]
  /\ NameToFieldId \in Seq([id : Int, name : Seq(STRING), type : FieldType])
  /\ NameToMethodId \in Seq([id : Int, name : Seq(STRING)])
  /\ FieldValue \subseteq STRING

(* An id is one method: what it runs is found by the id alone.             *)
ASSUME IdAssumption ==
  \A i, j \in DOMAIN NameToMethodId :
    NameToMethodId[i].id = NameToMethodId[j].id => NameToMethodId[i].name[1] = NameToMethodId[j].name[1]

VARIABLES
  fields,          (* the containers of field values                       *)
  methodIDs,       (* history: the method ids Caustic has looked up        *)
  reply,           (* what the last call answered; "fault": it read memory *)
                   (* that is no string                                    *)
  written          (* history: the value each field was last given under   *)
                   (* its type                                             *)

callVars == <<fields, methodIDs, reply, written>>

NoId == 0
FakeClass == "0x42424242"
Reply(op, type, id, value) == [op |-> op, type |-> type, id |-> id, value |-> value]

CallInit ==
  /\ fields = InitialFields
  /\ methodIDs = {}
  /\ reply = Reply("none", "void", NoId, "none")
  /\ written = [t \in FieldType |-> <<>>]

-----------------------------------------------------------------------------
(* strcmp down the table: the first entry with the name decides.           *)
IdByName(table, name) ==
  LET named == {i \in DOMAIN table : table[i].name = name} IN
  IF named = {} THEN NoId ELSE table[CHOOSE i \in named : \A j \in named : i <= j].id

(* A constructor is told from others by the name of its class.             *)
FullName(class, name) == IF name = "<init>" THEN <<class, name>> ELSE <<"", name>>

(* GetMethodID.  What FindClass returned is the class's name; NULL is      *)
(* refused for a constructor, and the value GetObjectClass answers is read *)
(* as if it were a name.                                                   *)
LookUpMethod(class, name) ==
  LET id == IdByName(NameToMethodId, FullName(class, name)) IN
  /\ UNCHANGED <<fields, written>>
  /\ IF name = "<init>" /\ class \in {"NULL", FakeClass}
     THEN /\ reply' = Reply(IF class = FakeClass THEN "fault" ELSE "lookup", "void", NoId, "none")
          /\ UNCHANGED methodIDs
     ELSE /\ reply' = Reply("lookup", "void", id, "none")
          /\ methodIDs' = methodIDs \cup {[name |-> IF name = "<init>" THEN <<class, name>> ELSE <<"", name>>, id |-> id]}
GetMethodID(class, name) == LookUpMethod(class, name)
GetStaticMethodID(class, name) == LookUpMethod(class, name)

LookUpField(name) ==
  LET id == IdByName(NameToFieldId, name) IN
  /\ reply' = Reply("lookup", "void", id, "none")
  /\ UNCHANGED <<fields, methodIDs, written>>
GetFieldID(name) == LookUpField(name)
GetStaticFieldID(name) == LookUpField(name)

-----------------------------------------------------------------------------
(* What a method nobody defined answers.                                   *)
MissingMethod ==
  [t \in MethodType |->
    CASE t = "void" -> "none"
      [] t = "object" -> "NULL"
      [] t = "boolean" -> "false"
      [] t \in {"long", "int", "float"} -> "-1"
      [] OTHER -> "0"]

(* methodObjectCall and the others search the container of the type that   *)
(* is called for; the type in the table of names is not consulted.         *)
HasCode(type, id) == \E i \in DOMAIN Methods[type] : Methods[type][i] = id
CallById(type, id) ==
  /\ reply' = IF HasCode(type, id) THEN Reply("run", type, id, "own")
                                 ELSE Reply("call", type, id, MissingMethod[type])
  /\ UNCHANGED <<fields, methodIDs, written>>

(* The A forms hand the method a va_list into a frame that is gone (_AtoV).*)
CallByIdA(type, id) ==
  /\ reply' = IF HasCode(type, id) THEN Reply("run", type, id, "any")
                                 ELSE Reply("call", type, id, MissingMethod[type])
  /\ UNCHANGED <<fields, methodIDs, written>>

CallEither(type, id) == CallById(type, id) \/ CallByIdA(type, id)
CallMethod(type, id) == CallEither(type, id)
CallNonvirtualMethod(type, id) == CallEither(type, id)
CallStaticMethod(type, id) == CallEither(type, id)
NewObject(id) == CallEither("object", id)

-----------------------------------------------------------------------------
(* getFieldValueById: the first entry with the id must have the type, and  *)
(* of the values with the id the last one counts.                          *)
FieldEntries(id) == {i \in DOMAIN NameToFieldId : NameToFieldId[i].id = id}
FirstEntry(id) == NameToFieldId[CHOOSE i \in FieldEntries(id) : \A j \in FieldEntries(id) : i <= j]
Typed(type, id) == FieldEntries(id) # {} /\ FirstEntry(id).type = type
Places(type, id) == {u \in DOMAIN fields[type] : fields[type][u].id = id}
FirstPlace(type, id) == CHOOSE u \in Places(type, id) : \A v \in Places(type, id) : u <= v
Place(type, id) == CHOOSE u \in Places(type, id) : \A v \in Places(type, id) : v <= u

MissingField ==
  [t \in FieldType |->
    CASE t = "object" -> "0x42424242"
      [] t = "boolean" -> "false"
      [] t = "byte" -> "a"
      [] t = "char" -> "b"
      [] OTHER -> "1"]

GetValue(type, id) ==
  /\ reply' = Reply("get", type, id,
       IF Typed(type, id) /\ Places(type, id) # {} THEN fields[type][Place(type, id)].value ELSE MissingField[type])
  /\ UNCHANGED <<fields, methodIDs, written>>
GetField(type, id) == GetValue(type, id)
GetStaticField(type, id) == GetValue(type, id)

(* setFieldValueById goes on down the table after it has set a value, up   *)
(* to an entry of another type.  The mutant stops at the first.            *)
WithId(f, id, value) == [i \in DOMAIN f \cup {id} |-> IF i = id THEN value ELSE f[i]]
With(type, u, value) == [fields EXCEPT ![type][u].value = value]
StoredFirst(type, id, value) ==
  IF Typed(type, id) /\ Places(type, id) # {} THEN With(type, FirstPlace(type, id), value) ELSE fields
Stored(type, id, value) ==
  IF Typed(type, id) /\ Places(type, id) # {} THEN With(type, Place(type, id), value) ELSE fields

SetValue(type, id, value) ==
  /\ fields' = Stored(type, id, value)
  /\ written' = IF Typed(type, id) THEN [written EXCEPT ![type] = WithId(@, id, value)] ELSE written
  /\ reply' = Reply("set", type, id, value)
  /\ UNCHANGED methodIDs
SetField(type, id, value) == SetValue(type, id, value)
SetStaticField(type, id, value) == SetValue(type, id, value)

(* An id is used any time after it was looked up, NULL if it was not found.*)
FieldIDs == {NoId} \cup {NameToFieldId[i].id : i \in DOMAIN NameToFieldId}
MethodIDs == {NoId} \cup {NameToMethodId[i].id : i \in DOMAIN NameToMethodId}

CallNext ==
  \/ \E class \in Class \cup {"NULL", FakeClass}, name \in {"<init>", "play"} :
       GetMethodID(class, name) \/ GetStaticMethodID(class, name)
  \/ \E i \in DOMAIN NameToFieldId : GetFieldID(NameToFieldId[i].name) \/ GetStaticFieldID(NameToFieldId[i].name)
  \/ GetFieldID(<<"", "unknown">>)
  \/ \E id \in MethodIDs : NewObject(id)
  \/ \E type \in MethodType, id \in MethodIDs :
       CallMethod(type, id) \/ CallNonvirtualMethod(type, id) \/ CallStaticMethod(type, id)
  \/ \E type \in FieldType, id \in FieldIDs : GetField(type, id) \/ GetStaticField(type, id)
  \/ \E type \in FieldType, id \in FieldIDs, value \in FieldValue :
       SetField(type, id, value) \/ SetStaticField(type, id, value)

CallSpec == CallInit /\ [][CallNext]_callVars

-----------------------------------------------------------------------------
CallTypeOK ==
  /\ \A t \in FieldType :
       /\ DOMAIN fields[t] = DOMAIN InitialFields[t]
       /\ \A u \in DOMAIN fields[t] : fields[t][u].id = InitialFields[t][u].id
  /\ reply.op \in {"none", "lookup", "call", "run", "get", "set", "fault"}
  /\ reply.op = "call" => ~HasCode(reply.type, reply.id)

(* What a field was last given is what the next reader gets, whatever the  *)
(* tables hold twice or not at all; a field of another type, without a     *)
(* value or unknown answers the default of the type asked for.             *)
ReadsBackWhatWasSet ==
  reply.op = "get" =>
    LET type == reply.type
        id == reply.id IN
    reply.value =
      IF ~Typed(type, id) \/ Places(type, id) = {} THEN MissingField[type]
      ELSE IF id \in DOMAIN written[type] THEN written[type][id]
      ELSE InitialFields[type][Place(type, id)].value

(* The constructors of two classes the program knows have different ids.   *)
ConstructorsTellClasses ==
  \A x, y \in methodIDs :
    (x.name[1] # y.name[1] /\ x.id # NoId) => x.id # y.id

(* Fields are read as they were set, and a class's constructor is its own. *)
CallInv ==
  /\ CallTypeOK
  /\ ReadsBackWhatWasSet
  /\ ConstructorsTellClasses
=============================================================================
