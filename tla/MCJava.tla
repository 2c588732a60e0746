------------------------------- MODULE MCJava -------------------------------
(***************************************************************************)
(* The parts of FalsoJNI, and the conversions of its converter.c iteration *)
(* by iteration.  They are checked side by side: a behaviour is one of a   *)
(* single part, and the others stay as they began.                         *)
(***************************************************************************)
EXTENDS JavaCalls, JavaHeap, JavaStrings, ConverterLoop

(* Tables with what can go wrong in them: an id with two names and two     *)
(* values, a declared field without a value, a value under another type    *)
(* than declared.                                                          *)
MCNameToMethodId ==
  << [id |-> 1, name |-> <<"", "play">>], [id |-> 2, name |-> <<"Song", "<init>">>],
     [id |-> 3, name |-> <<"Pattern", "<init>">>], [id |-> 4, name |-> <<"", "play">>] >>
MCMethods ==
  [t \in MethodType |-> IF t = "void" THEN <<1>> ELSE IF t = "object" THEN <<2, 2, 4>> ELSE <<>>]
MCNameToFieldId ==
  << [id |-> 1, name |-> <<"", "volume">>, type |-> "int"], [id |-> 2, name |-> <<"", "title">>, type |-> "object"],
     [id |-> 2, name |-> <<"", "caption">>, type |-> "object"], [id |-> 3, name |-> <<"", "gain">>, type |-> "float"] >>
MCInitialFields ==
  [t \in FieldType |->
    CASE t = "int" -> <<[id |-> 1, value |-> "zero"]>>
      [] t = "object" -> <<[id |-> 2, value |-> "zero"], [id |-> 2, value |-> "one"]>>
      [] t = "long" -> <<[id |-> 1, value |-> "zero"]>>
      [] OTHER -> <<>>]

MCLength == {-1, 2}
MCIndex == {-1, 0, 1, 2}

(* Strings of characters of one to four bytes, and of bytes that are not.  *)
MCCharacter == {\h41, \hE9, \h20AC, \h1F3B5}
UpTo(S, n) == UNION {[1..k -> S] : k \in 0..n}
MCTexts == UpTo(MCCharacter, 3)
Encoded(text, Encode(_)) ==
  LET whole[k \in 0..Len(text)] == IF k = 0 THEN <<>> ELSE whole[k - 1] \o Encode(text[k])
  IN whole[Len(text)]
MCBytes ==
  {Encoded(t, EncodeUtf8) : t \in MCTexts} \cup
  {<<\h42, \hC3>>, <<\hE2, \h82, \h41>>, <<\hED, \hA0, \h80>>, <<\hBF, \hF0, \h9F, \h8E>>}
MCUnits == {Encoded(t, EncodeUtf16) : t \in MCTexts}

(* Strings over the values on both sides of every limit the converter has. *)
BoundaryBytes ==
  {\h41, \h7F, \h80, \h8F, \h90, \h9F, \hA0, \hBF, \hC1, \hC2, \hDF, \hE0, \hED, \hEF, \hF0, \hF4, \hF7, \hF8}
BoundaryUnits == {\h41, \h7F, \h80, \h7FF, \h800, \hD7FF, \hD800, \hDBFF, \hDC00, \hDFFF, \hE000, \hFFFF}
MCUtf8Strings ==
  UpTo(BoundaryBytes, 3) \cup
  {<<a, b, c, d>> : a \in {\h41, \hDF, \hED, \hF0, \hF4, \hF7}, b \in BoundaryBytes,
                    c \in {\h41, \h80, \hBF, \hF0}, d \in {\h41, \h80, \hBF}}
MCUtf16Strings == UpTo(BoundaryUnits, 3)

VARIABLE part

Only(p, Step) ==
  /\ part = p /\ Step /\ UNCHANGED part
  /\ p # "calls" => UNCHANGED callVars
  /\ p # "heap" => UNCHANGED heapVars
  /\ p # "strings" => UNCHANGED stringVars
  /\ p # "converter" => UNCHANGED loopVars

Unused == toUtf8 = TRUE /\ source = <<>> /\ room = 1 /\ state = Start
MCInit ==
  /\ CallInit /\ HeapInit /\ StringInit
  /\ \/ part \in {"calls", "heap", "strings"} /\ Unused
     \/ part = "converter" /\ LoopInit

MCNext ==
  \/ Only("calls", CallNext) \/ Only("heap", HeapNext)
  \/ Only("strings", StringNext) \/ Only("converter", LoopNext)

MCSpec == MCInit /\ [][MCNext]_<<part, callVars, heapVars, stringVars, loopVars>>
=============================================================================
