------------------------------ MODULE MCInstall ------------------------------
(***************************************************************************)
(* A small data root: a factory preset and a font override in the APK, a   *)
(* skin with an override that is removed before its installation and one   *)
(* that is removed after it, and the demo song, which one bundle installs  *)
(* over what is there and the welcome installs only if missing.            *)
(***************************************************************************)
EXTENDS Install

MCSkins == <<"newskin">>

MCPack == [p \in Package |->
  CASE p = "demo" -> {"factory", "darker.glf"}
    [] p = "newskin" -> {"machinetext.cfg", "clean.fnt"}
    [] p \in {"songs", "welcome"} -> {"song"}
    [] OTHER -> {}]
MCStripped == [r \in Removal |->
  CASE r = "Darker" -> {"darker.glf"}
    [] r = "before_newskin" -> {"machinetext.cfg"}
    [] r = "newskin" -> {"clean.fnt"}
    [] OTHER -> {}]

ASSUME PackagesApart == PacksApart /\ StripsApart
=============================================================================
