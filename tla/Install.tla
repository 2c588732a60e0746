------------------------------- MODULE Install -------------------------------
(***************************************************************************)
(* What the full322 build does to ux0:/data/CAUSTIC3 at every launch:      *)
(* main() of src/main.c (597-676, 822-830) runs a fixed script of steps    *)
(* out of src/apk_extract.c, each guarded by a marker file it writes last. *)
(* Any step may fail half-way, main() then goes on with the next one; and  *)
(* the console may lose power between any two writes.                      *)
(*                                                                         *)
(* A file is known by what it holds, the configuration by its lines.       *)
(***************************************************************************)
EXTENDS Sequences, Naturals, Functions

CONSTANTS
  File,          (* the packaged files under the data root                 *)
  Pack,          (* the files of each package: the APK's demo assets and   *)
                 (* the optional bundles                                   *)
  Stripped,      (* the files each removal step deletes                    *)
  Skins,         (* the skin bundles in their order: newskin, Julia, Echo  *)
  Editable,      (* the files the user saves or deletes in Caustic         *)
  Choices        (* the skins the user may choose in Caustic               *)

(* "welcome" is the second installation of the demo song, after the        *)
(* machines are created.                                                   *)
Package == {"demo", "presets", "songs", "welcome"} \cup Range(Skins)
Removal == {"Darker", "before_newskin"} \cup Range(Skins)

ASSUME InstallAssumption ==
  /\ Pack \in [Package -> SUBSET File]
  /\ Stripped \in [Removal -> SUBSET File]
  /\ Pack["welcome"] = Pack["songs"]
  /\ Editable \subseteq File
  /\ Skins \in Seq(STRING) /\ IsInjective(Skins)
  /\ Range(Skins) \cap {"demo", "presets", "songs", "welcome", "default",
                        "Darker", "before_newskin"} = {}
  /\ {"nothing", "config"} \cap File = {}
  /\ {"default", "fill", "other", "nothing"} \cap Choices = {}

Skin == {"default"} \cup Choices
Line == {"fill", "other"} \cup Skin

(* Two facts about the packages that their paths suggest, and that what is *)
(* said of markers and of overrides depends on.  No file of the demo       *)
(* assets or of a skin belongs to another package.                         *)
PacksApart ==
  \A p \in {"demo"} \cup Range(Skins), q \in Package :
    p # q => Pack[p] \cap Pack[q] = {}

(* What is stripped belongs to the package of the step before or to none,  *)
(* but for the file of newskin that main() removes before it installs the  *)
(* skin (main.c 619).                                                      *)
StripsApart ==
  \A r \in Removal, p \in Package :
    Stripped[r] \cap Pack[p] # {} =>
      \/ r = "Darker" /\ p = "demo"
      \/ r = "before_newskin" /\ p = "newskin"
      \/ r \in Range(Skins) /\ p = r

VARIABLES
  disk,          (* what each file holds                                   *)
  markers,       (* the packages whose .ready file exists                  *)
  config,        (* the lines of caustic/config, none if there is no file  *)
  step,          (* the step of the script main() is at                    *)
  visited,       (* the files of the package the step has dealt with       *)
  writing,       (* the file open for writing, if any                      *)
  output,        (* the lines the configuration is being rewritten with    *)
  startup_demo_pending,
  (* History of the launch: whether a step has failed, the files whose     *)
  (* removal has, whether newskin was still to install when it began.      *)
  failed, stuck, newskin_pending,
  (* History of the user's choice: the skin chosen last, if any, whether   *)
  (* the welcome was done with by then, whether the configuration was cut  *)
  (* short or could not be opened for reading since.                       *)
  chosen, settled, damaged

storage == <<disk, markers, config>>
launch  == <<startup_demo_pending, failed, stuck, newskin_pending>>
choice  == <<chosen, settled, damaged>>
vars == <<disk, markers, config, step, visited, writing, output,
          startup_demo_pending, failed, stuck, newskin_pending,
          chosen, settled, damaged>>

Content == {"absent", "part", "package", "user", "removed"}
Nothing == "nothing"
CONFIG  == "config"

-----------------------------------------------------------------------------
(* The files of a skin are installed and then stripped of its overrides.   *)
SkinScript ==
  [i \in 1 .. 2 * Len(Skins) |->
     <<IF i % 2 = 1 THEN "install" ELSE "remove", Skins[(i + 1) \div 2]>>]

(* The script of main().  The mutant strips the demo assets too early.     *)
ScriptStripsFirst ==
  << <<"remove", "Darker">>, <<"install", "demo">>, <<"config", "fill">>,
     <<"remove", "before_newskin">> >>
  \o SkinScript \o
  << <<"install", "presets">>, <<"install", "songs">>,
     <<"startup", "pending">>, <<"config", "default">>,
     <<"install", "welcome">> >>
Script ==
  << <<"install", "demo">>, <<"config", "fill">>, <<"remove", "Darker">>,
     <<"remove", "before_newskin">> >>
  \o SkinScript \o
  << <<"install", "presets">>, <<"install", "songs">>,
     <<"startup", "pending">>, <<"config", "default">>,
     <<"install", "welcome">> >>

Running == step = Len(Script) + 1
At(do) == ~ Running /\ Script[step][1] = do
Subject == Script[step][2]

(* The startup demo was presented by an earlier launch.  The mutant asks   *)
(* for the marker of its first installation.                               *)
WelcomedBySongs == "songs" \in markers
Welcomed == "welcome" \in markers

(* The steps under "if (startup_demo_pending)" in main().                  *)
Welcoming == Subject \in {"default", "welcome"}
Skipped == Welcoming /\ ~ startup_demo_pending

(* The files a package leaves as they are: of the demo assets those of the *)
(* right size, of a bundle installed with preserve_existing any that       *)
(* exist.  The mutants take the one rule for the other, and for all.       *)
KeepsAnything(p, f) == disk[f] \in {"part", "package", "user"}
Keeps(p, f) ==
  CASE p = "demo" -> disk[f] = "package"
    [] p \in {"presets", "welcome"} -> disk[f] \in {"part", "package", "user"}
    [] OTHER -> FALSE

(* ensure_caustic_config_line: replace the line with the same key or       *)
(* append it.  The mutant forgets the rest of the file.                    *)
LineAlone(lines, line) == {line}
WithLine(lines, line) ==
  IF line \in Skin THEN (lines \ Skin) \cup {line} ELSE lines \cup {line}

Init ==
  /\ disk = [f \in File |-> "absent"]
  /\ markers = {} /\ config = {}
  /\ step = 1 /\ visited = {} /\ writing = Nothing /\ output = {}
  /\ startup_demo_pending = FALSE
  /\ failed = FALSE /\ stuck = {} /\ newskin_pending = TRUE
  /\ chosen = Nothing /\ settled = FALSE /\ damaged = FALSE

-----------------------------------------------------------------------------
(* main() goes on with the next step.                                      *)
NextStep == step' = step + 1 /\ visited' = {} /\ writing' = Nothing /\ output' = {}

(* The marker is there, or the step is not for this launch.                *)
SkipStep ==
  /\ \/ At("install") /\ (Skipped \/ (Subject \in markers /\ visited = {}))
     \/ At("config") /\ Skipped
  /\ writing = Nothing
  /\ NextStep
  /\ UNCHANGED <<storage, launch, choice>>

Installing == At("install") /\ ~ Skipped /\ Subject \notin markers

KeepFile ==
  /\ Installing /\ writing = Nothing
  /\ \E f \in Pack[Subject] \ visited :
       /\ Keeps(Subject, f)
       /\ visited' = visited \cup {f}
  /\ UNCHANGED <<storage, step, writing, output, launch, choice>>

(* SCE_O_TRUNC: from here to the last write the file is a part of itself.  *)
OpenFile ==
  /\ Installing /\ writing = Nothing
  /\ \E f \in Pack[Subject] \ visited :
       /\ ~ Keeps(Subject, f)
       /\ disk' = [disk EXCEPT ![f] = "part"]
       /\ writing' = f
  /\ UNCHANGED <<markers, config, step, visited, output, launch, choice>>

FinishFile ==
  /\ Installing /\ writing \in File
  /\ disk' = [disk EXCEPT ![writing] = "package"]
  /\ visited' = visited \cup {writing}
  /\ writing' = Nothing
  /\ UNCHANGED <<markers, config, step, output, launch, choice>>

(* What a failure of the present step leaves of the launch's history.      *)
Fails == failed' = TRUE /\ UNCHANGED <<startup_demo_pending, stuck, newskin_pending>>

(* A read, a write, an allocation or a checksum fails: the package is left *)
(* for the next launch, the file being written as it is.                   *)
InstallFails ==
  /\ Installing
  /\ Fails
  /\ NextStep
  /\ UNCHANGED <<storage, choice>>

(* The marker counts from the moment it is created, even if writing into   *)
(* it fails then.                                                          *)
WriteMarker ==
  /\ Installing /\ writing = Nothing
  /\ visited = Pack[Subject]
  /\ markers' = markers \cup {Subject}
  /\ Fails \/ UNCHANGED launch
  /\ NextStep
  /\ UNCHANGED <<disk, config, choice>>

(* One sceIoRemove() of a row of them.  Its result is not looked at.       *)
RemoveFile ==
  /\ At("remove")
  /\ \E f \in Stripped[Subject] \ visited :
       /\ disk' = [disk EXCEPT ![f] = IF @ = "absent" THEN @ ELSE "removed"]
       /\ visited' = visited \cup {f}
  /\ UNCHANGED <<markers, config, step, writing, output, launch, choice>>

RemoveFails ==
  /\ At("remove")
  /\ \E f \in Stripped[Subject] \ visited :
       /\ disk[f] \notin {"absent", "removed"}
       /\ stuck' = stuck \cup {f}
       /\ visited' = visited \cup {f}
  /\ UNCHANGED <<storage, step, writing, output, startup_demo_pending, failed,
                 newskin_pending, choice>>

EndRemoval ==
  /\ At("remove")
  /\ visited = Stripped[Subject]
  /\ NextStep
  /\ UNCHANGED <<storage, launch, choice>>

(* The whole file is rewritten in place, whether or not the line was there *)
(* already; its old lines live in memory only until the last write.  A     *)
(* file that cannot be opened for reading is taken for one that is not     *)
(* there, and overwritten with the one line.                               *)
OpenConfig ==
  /\ At("config") /\ ~ Skipped /\ writing = Nothing
  /\ writing' = CONFIG
  /\ \/ output' = WithLine(config, Subject) /\ UNCHANGED damaged
     \/ config # {} /\ output' = {Subject} /\ damaged' = TRUE
  /\ UNCHANGED <<storage, step, visited, launch, chosen, settled>>

FinishConfig ==
  /\ At("config") /\ writing = CONFIG
  /\ config' = output
  /\ NextStep
  /\ UNCHANGED <<disk, markers, launch, choice>>

(* What is left of a rewrite that was cut short: some of its lines.        *)
TornConfig ==
  /\ config' \in SUBSET output
  /\ damaged' = (damaged \/ config' # output)

(* Nothing is written when the size, memory or the read fails, or the file *)
(* cannot be opened for writing either; or writing fails half-way.         *)
ConfigFails ==
  /\ At("config") /\ ~ Skipped
  /\ IF writing = CONFIG THEN TornConfig ELSE UNCHANGED <<config, damaged>>
  /\ Fails
  /\ NextStep
  /\ UNCHANGED <<disk, markers, chosen, settled>>

CheckStartup ==
  /\ At("startup")
  /\ startup_demo_pending' = ~ Welcomed
  /\ NextStep
  /\ UNCHANGED <<storage, failed, stuck, newskin_pending, choice>>

-----------------------------------------------------------------------------
(* The session, once main() has reached the render loop.                   *)
SaveFile ==
  /\ Running
  /\ \E f \in Editable : disk' = [disk EXCEPT ![f] = "user"]
  /\ UNCHANGED <<markers, config, step, visited, writing, output, launch, choice>>

DeleteFile ==
  /\ Running
  /\ \E f \in Editable : /\ disk[f] # "absent"
                         /\ disk' = [disk EXCEPT ![f] = "removed"]
  /\ UNCHANGED <<markers, config, step, visited, writing, output, launch, choice>>

ChooseSkin ==
  /\ Running
  /\ chosen' \in Choices
  /\ config' = WithLine(config, chosen') \cup {"other"}
  /\ settled' = ("welcome" \in markers)
  /\ damaged' = FALSE
  /\ UNCHANGED <<disk, markers, step, visited, writing, output, launch>>

(* The session ends, or the power goes at any step: the next launch starts *)
(* the script again with what the storage holds.                           *)
Relaunch ==
  /\ step' = 1 /\ visited' = {} /\ writing' = Nothing /\ output' = {}
  /\ startup_demo_pending' = FALSE
  /\ failed' = FALSE /\ stuck' = {}
  /\ newskin_pending' = ("newskin" \notin markers)
  /\ IF writing = CONFIG THEN TornConfig ELSE UNCHANGED <<config, damaged>>
  /\ UNCHANGED <<disk, markers, chosen, settled>>

Next ==
  \/ SkipStep \/ KeepFile \/ OpenFile \/ FinishFile \/ InstallFails
  \/ WriteMarker \/ RemoveFile \/ RemoveFails \/ EndRemoval \/ OpenConfig
  \/ FinishConfig \/ ConfigFails \/ CheckStartup \/ SaveFile \/ DeleteFile \/ ChooseSkin \/ Relaunch

Spec == Init /\ [][Next]_vars

-----------------------------------------------------------------------------
TypeOK ==
  /\ disk \in [File -> Content]
  /\ markers \in SUBSET Package
  /\ config \in SUBSET Line
  /\ step \in 1 .. Len(Script) + 1
  /\ visited \in SUBSET File
  /\ writing \in File \cup {Nothing, CONFIG}
  /\ output \in SUBSET Line
  /\ startup_demo_pending \in BOOLEAN /\ failed \in BOOLEAN
  /\ stuck \in SUBSET File /\ newskin_pending \in BOOLEAN
  /\ chosen \in Choices \cup {Nothing} /\ settled \in BOOLEAN
  /\ damaged \in BOOLEAN

(***************************************************************************)
(* A marker vouches for its package: whatever was cut short on the way,    *)
(* every file of the demo assets and of a skin was complete when the       *)
(* marker appeared, and is not a fragment afterwards.  (The demo song may  *)
(* be, if the user deletes it and its second installation is cut short.)   *)
(***************************************************************************)
MarkerMeansComplete ==
  \A p \in markers \cap ({"demo"} \cup Range(Skins)) :
    \A f \in Pack[p] : disk[f] \notin {"absent", "part"}

(***************************************************************************)
(* One launch in which nothing fails installs everything there was left to *)
(* install: earlier launches cut short leave no obstacle.                  *)
(***************************************************************************)
CleanLaunchInstalls ==
  Running /\ ~ failed => markers = Package

(***************************************************************************)
(* When the renderer starts, the font overrides Caustic scales wrongly are *)
(* gone, even those of a package that was only half installed.  An         *)
(* override is left only if its own removal failed in this launch, or if   *)
(* it is newskin's, removed before its package and therefore back in a     *)
(* launch that still had newskin to install (main.c 614-654).              *)
(***************************************************************************)
OverridesGone ==
  [][~ Running /\ Running' =>
       \A r \in Removal : \A f \in Stripped[r] :
         \/ disk'[f] \in {"absent", "removed"}
         \/ f \in stuck'
         \/ r = "before_newskin" /\ newskin_pending']_vars

(***************************************************************************)
(* "This is one-shot; later user skin choices persist" (main.c 670): a     *)
(* skin chosen once the welcome is done with survives every later launch,  *)
(* and so do the user's other lines, unless one tears the configuration or *)
(* cannot open it for reading; and even then no other skin takes its place.*)
(***************************************************************************)
SettledSkinPersists ==
  settled => /\ config \cap Skin \subseteq {chosen}
             /\ ~ damaged => {chosen, "other"} \subseteq config

(***************************************************************************)
(* The same comment of every skin the user chose: it is not taken back.    *)
(***************************************************************************)
SkinChoicePersists ==
  chosen # Nothing /\ ~ damaged => chosen \in config

(***************************************************************************)
(* docs/FEATURES.md: "Existing user files are preserved when optional      *)
(* bundles are installed."                                                 *)
(***************************************************************************)
UserFilesPreserved ==
  [][\A f \in File :
       disk[f] = "user" /\ Installing /\ Subject # "demo"
         => disk'[f] = "user"]_vars
=============================================================================
