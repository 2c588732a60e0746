------------------------------ MODULE MCFiles -------------------------------
(***************************************************************************)
(* The file calls, the formatting that writes text for them, and the       *)
(* extraction of the demo assets.  They share no state, so that one run    *)
(* checks them side by side: a behaviour is one of a single part, and the  *)
(* others stay as they began.                                              *)
(***************************************************************************)
EXTENDS FileBridge, Formatting, ZipReader

(* The cases of tests/path_policy_test.c, presets and renames among them.  *)
MCWithColon == {"ux0:", "ux0:x", "app0:", "uma0:", "a:b"}
MCSegment == MCWithColon \cup
  {"", "..", "storage", "emulated", "0", "sdcard", "data", "CAUSTIC3", "CAUSTIC3evil",
   "caustic", "presets", "p", "proc", "assets"}
MCInput ==
  {<<"">>, <<"", "sdcard", "presets", "p">>, <<"", "sdcard", "">>, <<"", "sdcard">>,
   <<"", "storage", "emulated", "0", "caustic", "presets", "p">>,
   <<"ux0:", "data", "CAUSTIC3", "p">>, <<"ux0:", "data", "CAUSTIC3">>,
   <<"ux0:", "data", "CAUSTIC3evil", "p">>, <<"ux0:x", "p">>,
   <<"app0:", "assets", "presets", "p">>, <<"p">>, <<"caustic", "p">>,
   <<"", "sdcard", "..", "..", "data">>, <<"p", "..", "..", "p">>, <<"uma0:", "p">>,
   <<"", "proc", "p">>, <<"p", "a:b">>, <<"", "sdcard", "p", "p", "p", "p", "p">>}

(* Formats of up to three items: a character, a short and a long word, an  *)
(* integer of two words, a double, an unknown conversion and a lone '%'.   *)
Is(conv, wide, count) == [conv |-> conv, wide |-> wide, count |-> count]
MCItem ==
  {Is("char", FALSE, 1), Is("word", FALSE, 2), Is("word", FALSE, 5), Is("word", TRUE, 1),
   Is("double", TRUE, 3), Is("other", FALSE, 2), Is("end", FALSE, 0)}

(* Packages of up to two entries.  One differs from a plain asset in a     *)
(* single respect at most, the other is a plain asset under either path.   *)
Asset == [asset |-> TRUE, directory |-> FALSE, inLimits |-> TRUE, fits |-> TRUE, local |-> TRUE,
          method |-> 8, good |-> TRUE, path |-> <<"a">>, size |-> 1]
Names == {<<"a">>, <<"a", "b">>, <<"..", "a">>, <<"a", "..", "b">>, <<"", "a">>, <<"a", "">>, <<".", "a">>, <<>>}
Odd ==
  {[Asset EXCEPT !.path = p] : p \in Names}
  \cup {[Asset EXCEPT !.asset = FALSE], [Asset EXCEPT !.directory = TRUE], [Asset EXCEPT !.inLimits = FALSE],
        [Asset EXCEPT !.fits = FALSE], [Asset EXCEPT !.local = FALSE], [Asset EXCEPT !.method = 0],
        [Asset EXCEPT !.method = 9], [Asset EXCEPT !.good = FALSE], [Asset EXCEPT !.size = 2]}
Rows == {<<>>} \cup {<<x>> : x \in Odd}
        \cup {<<x, [Asset EXCEPT !.path = p]>> : x \in Odd, p \in {<<"a">>, <<"b">>}}
MCPackages == [entries : Rows, end : {"found", "misled", "missing"}]
Paths == Names \cup {<<"b">>}
Missing == [what |-> "absent", entry |-> 0, size |-> 0]
MCDisks ==
  {[p \in Paths |-> IF p = <<"a">> THEN f ELSE Missing]
     : f \in {Missing} \cup [what : {"user"}, entry : {0}, size : {1, 3}]}

VARIABLE part

vars == <<part, fileVars, formatVars, zipVars>>

Only(p, Step) ==
  /\ part = p /\ Step /\ UNCHANGED part
  /\ p # "bridge" => UNCHANGED fileVars
  /\ p # "format" => UNCHANGED formatVars
  /\ p # "zip" => UNCHANGED zipVars

MCInit ==
  /\ part \in {"bridge", "format", "zip"}
  /\ FileInit /\ FormatInit /\ ZipInit
  /\ part # "format" => object = 1
  /\ part # "zip" =>
       /\ package = [entries |-> <<>>, end |-> "found"]
       /\ \A p \in Paths : disk[p] = Missing

MCNext == Only("bridge", FileNext) \/ Only("format", FormatNext) \/ Only("zip", ZipNext)
MCSpec == MCInit /\ [][MCNext]_vars
=============================================================================
