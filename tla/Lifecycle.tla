----------------------------- MODULE Lifecycle ------------------------------
(***************************************************************************)
(* The life of the program: main() loads and patches the library, tells    *)
(* Caustic its settings, starts the audio and microphone threads and goes  *)
(* into the render loop, while any code of the library may fault and end   *)
(* it.  What the boot installs on the disk is in Install, the frames are   *)
(* in RenderLoop, the samples of the microphone in MicResampler.           *)
(***************************************************************************)
EXTENDS Integers, Sequences, FiniteSets

CONSTANT NoArray   (* what GetByteArrayElements answers for no array       *)

VARIABLES
  full322,         (* the build: CAUSTIC_FULL_322 or the 3.3.2.0 profile   *)
  step,            (* how far main() is in Script                          *)
  pending,         (* startup_demo_pending                                 *)
  stale,           (* the caches do not hold the patched code              *)
  welcomed,        (* the marker of the welcome project was written        *)
  running,         (* g_audio.running, g_audio.mic_running                 *)
  place,           (* thread -> where it is                                *)
  buffer,          (* thread -> the elements of its Java array             *)
  handling,        (* handling_exception                                   *)
  begun,           (* thread -> how many reports it has begun              *)
  exited

bootVars == <<step, full322, pending, stale, welcomed, running>>
faultVars == <<handling, begun, exited>>
lifeVars == <<bootVars, place, buffer, faultVars>>

Threads == {"main", "audio", "mic"}

When(condition, steps) == IF condition THEN steps ELSE <<>>

(* The lifecycle calls in their order; what is asked for by required_symbol*)
(* besides them is called from the loops.                                  *)
Settings ==
  <<"SetOSVersion", "CanUseOpenSL", "HasMicrophone", "SetMIDISupported", "SetGetMoreSupported">>
  \o When(full322, <<"SetBillingSupported", "HasStoragePermission", "HasRecordPermission">>)
  \o <<"SetAPKPath", "SetRootPath", "SetLaunchFile", "SetIPAddress", "SetPrefs">>
  \o When(~full322, <<"SetPrefs">>)
  \o <<"IsUnlocked", "SetScreenSize", "CreateMachines">>
Graphics == <<"nativeInitGraphics", "nativeResize", "SetLatency", "SetProcessBufferSize">>
SymbolsOf(calls) == {calls[k] : k \in DOMAIN calls}
Required ==
  SymbolsOf(Settings) \cup SymbolsOf(Graphics)
    \cup {"OnStart", "ConsumeReturnCode", "nativeRender", "nativeTouchBegin", "nativeTouchWhile",
          "nativeTouchEnd", "ProcessAudioTrack"}
    \cup (IF full322 THEN {"ProcessAudioRecordMono"} ELSE {})

(* The names of caustic_exports.                                           *)
LoopExports ==
  {"nativeRender", "nativeTouchBegin", "nativeTouchWhile", "nativeTouchEnd", "ProcessAudioTrack"}
CommonExports ==
  {"SetOSVersion", "CanUseOpenSL", "HasMicrophone", "SetMIDISupported", "SetGetMoreSupported",
   "SetAPKPath", "SetRootPath", "SetLaunchFile", "SetIPAddress", "SetScreenSize", "SetLatency",
   "SetProcessBufferSize", "SetPrefs", "IsUnlocked", "CreateMachines", "OnStart",
   "ConsumeReturnCode", "nativeInitGraphics", "nativeResize"} \cup LoopExports
FullExports ==
  {"SetBillingSupported", "HasStoragePermission", "HasRecordPermission", "ProcessAudioRecordMono"}
Exports == CommonExports \cup (IF full322 THEN FullExports ELSE {})

(* The mutants start the audio before the buffer size is known and raise   *)
(* the flag after the thread is started.                                   *)
Loading == <<"load", "patch", "flush", "constructors", "symbols">>
StartingEarly ==
  <<"startAudio", "audioRuns">> \o When(full322, <<"startMic", "micRuns">>) \o <<"OnStart">>
Starting ==
  <<"audioRuns", "startAudio">> \o When(full322, <<"micRuns", "startMic">>) \o <<"OnStart">>
ScriptEager == Loading \o Settings \o <<"welcome">> \o Starting \o Graphics
Script == Loading \o Settings \o <<"welcome">> \o Graphics \o Starting

Voices == {"audio", "mic"}
LifeInit ==
  /\ step = 1 /\ full322 \in BOOLEAN
  /\ pending \in IF full322 THEN BOOLEAN ELSE {FALSE}
  /\ stale = FALSE /\ welcomed = FALSE
  /\ running = [t \in Voices |-> FALSE]
  /\ place = [t \in Threads |-> IF t = "main" THEN "boot" ELSE "none"]
  /\ buffer = [t \in Voices |-> NoArray]
  /\ handling = FALSE /\ begun = [t \in Threads |-> 0] /\ exited = "no"

-----------------------------------------------------------------------------
Booting == exited = "no" /\ place["main"] = "boot" /\ step <= Len(Script)
At(name) == Booting /\ Script[step] = name
Goes == step' = step + 1
Exit(how) == exited' = how /\ UNCHANGED <<handling, begun>>

(* so_file_load, so_relocate and resolve_imports.                          *)
Load ==
  /\ At("load")
  /\ \/ Goes /\ UNCHANGED faultVars
     \/ Exit("no library") /\ UNCHANGED step
  /\ UNCHANGED <<full322, pending, stale, welcomed, running, place, buffer>>

(* The frame limiter is patched out, and libzip hooked; the caches follow. *)
Patch ==
  /\ At("patch") /\ stale' = TRUE /\ Goes
  /\ UNCHANGED <<full322, pending, welcomed, running, place, buffer, faultVars>>
Flush ==
  /\ At("flush") /\ stale' = FALSE /\ Goes
  /\ UNCHANGED <<full322, pending, welcomed, running, place, buffer, faultVars>>

(* jni_init, then required_symbol: the first name that the table lacks ends*)
(* the program.                                                            *)
Symbols ==
  /\ At("symbols")
  /\ IF Required \subseteq Exports THEN Goes /\ UNCHANGED faultVars
     ELSE Exit("missing symbol") /\ UNCHANGED step
  /\ UNCHANGED <<full322, pending, stale, welcomed, running, place, buffer>>

Native == {"constructors", "OnStart"} \cup SymbolsOf(Settings) \cup SymbolsOf(Graphics)
Skipped == Script[step] = "SetLaunchFile" /\ ~pending

(* main() is in the native function that its step names until that returns;*)
(* the launch file is set only when the welcome is pending.                *)
Calls ==
  /\ Booting /\ Script[step] \in Native /\ ~Skipped
  /\ place' = [place EXCEPT !["main"] = "native"]
  /\ UNCHANGED <<bootVars, buffer, faultVars>>
SkipsLaunchFile ==
  /\ Booting /\ Skipped /\ Goes
  /\ UNCHANGED <<full322, pending, stale, welcomed, running, place, buffer, faultVars>>
CallReturns ==
  /\ exited = "no" /\ place["main"] = "native" /\ step <= Len(Script)
  /\ place' = [place EXCEPT !["main"] = "boot"]
  /\ Goes
  /\ UNCHANGED <<full322, pending, stale, welcomed, running, buffer, faultVars>>

(* The bundle of the welcome project once more, now with its marker, which *)
(* may fail to be written.                                                 *)
Welcome ==
  /\ At("welcome") /\ Goes
  /\ welcomed' \in IF pending THEN BOOLEAN ELSE {FALSE}
  /\ UNCHANGED <<full322, pending, stale, running, place, buffer, faultVars>>

Raise(name, t) ==
  /\ At(name) /\ Goes
  /\ running' = [running EXCEPT ![t] = TRUE]
  /\ UNCHANGED <<full322, pending, stale, welcomed, place, buffer, faultVars>>
(* A thread that cannot be created is done without.                        *)
Start(name, t) ==
  /\ At(name) /\ Goes
  /\ place' \in {place, [place EXCEPT ![t] = "open"]}
  /\ UNCHANGED <<full322, pending, stale, welcomed, running, buffer, faultVars>>

(* The render loop: into native code, and out of it to the display.        *)
Draw ==
  /\ exited = "no" /\ step > Len(Script) /\ place["main"] \in {"boot", "native"}
  /\ place' = [place EXCEPT !["main"] = IF @ = "boot" THEN "native" ELSE "boot"]
  /\ UNCHANGED <<bootVars, buffer, faultVars>>

MainStep ==
  \/ Load \/ Patch \/ Flush \/ Symbols \/ Calls \/ SkipsLaunchFile \/ CallReturns \/ Welcome
  \/ Raise("audioRuns", "audio") \/ Start("startAudio", "audio")
  \/ Raise("micRuns", "mic") \/ Start("startMic", "mic")
  \/ Draw

-----------------------------------------------------------------------------
Moves(t, from, to) ==
  /\ exited = "no" /\ place[t] = from /\ place' = [place EXCEPT ![t] = to]
  /\ UNCHANGED <<bootVars, faultVars>>
Steps(t, from, to) == Moves(t, from, to) /\ UNCHANGED buffer

(* The port, or for the microphone both kinds of it, may not open; an      *)
(* array may not be had.                                                   *)
PortFails(t) == Steps(t, "open", "left")
OpenPort(t) ==
  /\ Moves(t, "open", "loop")
  /\ \E elements \in {NoArray, t} : buffer' = [buffer EXCEPT ![t] = elements]
LeaveLoop(t) == ~running[t] /\ Steps(t, "loop", "left")

(* ProcessAudioTrack, then the copy out of the array and the output,       *)
(* whatever that answers.                                                  *)
Process == running["audio"] /\ Steps("audio", "loop", "native")
Processed == Steps("audio", "native", "copy")
Output == buffer["audio"] # NoArray /\ Steps("audio", "copy", "loop")
AudioStep ==
  \/ PortFails("audio") \/ OpenPort("audio") \/ LeaveLoop("audio")
  \/ Process \/ Processed \/ Output

(* A buffer from the port goes to the library in blocks, none or several,  *)
(* each of them copied into the array.                                     *)
CaptureFails == running["mic"] /\ Steps("mic", "loop", "left")
Capture == running["mic"] /\ \E next \in {"copy", "loop"} : Steps("mic", "loop", next)
Record == buffer["mic"] # NoArray /\ Steps("mic", "copy", "native")
Recorded == \E next \in {"copy", "loop"} : Steps("mic", "native", next)
MicStep ==
  \/ PortFails("mic") \/ OpenPort("mic") \/ LeaveLoop("mic")
  \/ CaptureFails \/ Capture \/ Record \/ Recorded

-----------------------------------------------------------------------------
(* A thread faults in the library, in the report, or where it copies out of*)
(* or into an array that it did not get, and is in the handler.            *)
Faulty(t) ==
  \/ place[t] \in {"native", "report"}
  \/ place[t] = "copy" /\ buffer[t] = NoArray
Fault(t) ==
  /\ exited = "no" /\ Faulty(t)
  /\ place' = [place EXCEPT ![t] = "handler"]
  /\ UNCHANGED <<bootVars, buffer, faultVars>>

(* A fault while another is handled ends the program without a report; the *)
(* flag is looked at and raised in two steps.  One mutant does not look,   *)
(* the other holds the second thread back.                                 *)
Enter(t) ==
  /\ exited = "no" /\ place[t] = "handler"
  /\ place' = [place EXCEPT ![t] = "claim"]
  /\ UNCHANGED <<bootVars, buffer, faultVars>>
HandleAlways(t) == Enter(t)
HandleWaits(t) == ~handling /\ Enter(t)
Handle(t) ==
  \/ ~handling /\ Enter(t)
  \/ /\ handling /\ exited = "no" /\ place[t] = "handler"
     /\ Exit("unreported")
     /\ UNCHANGED <<bootVars, place, buffer>>
Claim(t) ==
  /\ exited = "no" /\ place[t] = "claim"
  /\ place' = [place EXCEPT ![t] = "report"]
  /\ handling' = TRUE /\ begun' = [begun EXCEPT ![t] = @ + 1]
  /\ UNCHANGED <<bootVars, buffer, exited>>
Reports(t) ==
  /\ exited = "no" /\ place[t] = "report"
  /\ Exit("reported")
  /\ UNCHANGED <<bootVars, place, buffer>>

Handling == \E t \in Threads : Handle(t) \/ Claim(t) \/ Reports(t)
LifeNext == MainStep \/ AudioStep \/ MicStep \/ Handling \/ \E t \in Threads : Fault(t)

(* Every thread is scheduled, and what it calls returns or faults.         *)
LifeSpec ==
  /\ LifeInit /\ [][LifeNext]_lifeVars
  /\ WF_lifeVars(MainStep) /\ WF_lifeVars(AudioStep) /\ WF_lifeVars(Handling)
  /\ \A t \in Voices : WF_lifeVars(place[t] = "copy" /\ Fault(t))

-----------------------------------------------------------------------------
(* Where the threads can be; a build without a microphone has no thread    *)
(* for it.                                                                 *)
LifeTypeOK ==
  /\ step \in 1..Len(Script) + 1
  /\ place["main"] \in {"boot", "native", "handler", "claim", "report"}
  /\ \A t \in Voices :
       place[t] \in {"none", "open", "loop", "native", "copy", "left", "handler", "claim", "report"}
  /\ place["mic"] # "none" => full322
  /\ exited = "reported" => handling
  /\ exited \in {"no", "no library", "missing symbol", "reported", "unreported"}

Done(name) == \E k \in 1..step - 1 : Script[k] = name

(* Code of the library runs only when the caches hold what was patched.    *)
NativeCodeIsReady == (\E t \in Threads : place[t] = "native") => ~stale

(* Every function that either build asks for is in its table.              *)
EverySymbolIsThere == exited # "missing symbol"

(* The threads' calls, which nothing holds back until main() has come as   *)
(* far, find Caustic with its machines, its buffer size and its paths, and *)
(* the microphone its permission.                                          *)
SoundAfterSetup ==
  /\ place["audio"] = "native" =>
       Done("CreateMachines") /\ Done("SetProcessBufferSize") /\ Done("SetRootPath")
  /\ place["mic"] = "native" => Done("HasRecordPermission") /\ Done("SetProcessBufferSize")

(* A thread that has its port leaves its loop only when the port fails: it *)
(* never finds the flag still down.                                        *)
LoopsAreEntered ==
  [][\A t \in Voices : place[t] = "loop" /\ place'[t] = "left" => running[t]]_lifeVars

(* The welcome is marked as shown only after Caustic was given its project *)
(* and has made its machines from it: a fault before that shows it at the  *)
(* next launch.                                                            *)
WelcomeWasGiven == welcomed => Done("SetLaunchFile") /\ Done("CreateMachines")

(* A thread that faults in its own report does not begin another.          *)
OneReportEach == \A t \in Threads : begun[t] <= 1

(* A boot that has its library comes to the render loop or the program     *)
(* ends, whether or not there are threads for sound.                       *)
BootEnds == step > 1 ~> (step > Len(Script) \/ exited # "no")

(* Once it is in its loop, the audio thread puts out one buffer after the  *)
(* other until the program ends.                                           *)
SoundGoesOn == place["audio"] = "loop" ~> (place["audio"] = "copy" \/ exited # "no")

(* What holds at every moment of the program's life: both builds find all  *)
(* their functions, native code finds the caches written, the welcome is   *)
(* marked only when it was given, and no thread begins two reports.        *)
LifeInv ==
  /\ LifeTypeOK
  /\ EverySymbolIsThere
  /\ NativeCodeIsReady
  /\ WelcomeWasGiven
  /\ OneReportEach

(* Nothing waits for ever: the boot has an end, and the audio thread plays *)
(* from then on.                                                           *)
LifeGoesOn ==
  /\ BootEnds
  /\ SoundGoesOn
=============================================================================
