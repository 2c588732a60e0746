# A TLA+ development of caustic3-vita

caustic3-vita is a wrapper that runs the Android library `libcaustic.so` on a
PlayStation Vita: it loads the ELF image, binds its imports to bridges, plays
the Java side of JNI, installs the content of the APK, and then drives the
library from a render loop and two audio threads. These modules model the
wrapper. The library itself, the kernel, newlib and VitaSDK are external: they
appear only as what the wrapper's code relies on.

## The system

Paths are relative to `src/`. "Part" means that some operations are left out;
"Not modelled" below says which.

| component | state | modules | what makes it correct |
|---|---|---|---|
| touch slots (`src/main.c` 898-954) | `physical_touches[]`, `physical_touch_count` | `TouchSlots`, `CausticPointers` | every gesture is begun, moved and ended on one pointer; slots and fingers agree |
| controller layer (`src/main.c` 956-1087) | mode, grab, tap, swipe, focus, hold counters | `Controller`, `CausticPointers` | the reserved pointers are down exactly when the flags say so; nothing stays stuck |
| frame end (`src/main.c` 1089-1134; part) | none of its own | `Controller` (`Render`) | – |
| microphone thread (`src/main.c` 475-587) | queue, phase, carried frame | `MicResampler`, `Lifecycle` | no frame lost, no access out of bounds, no seam between buffers |
| audio output thread (`src/main.c` 432-473) | its running flag, its array | `Lifecycle` | it starts after Caustic has its settings and plays to the end |
| boot and thread creation (`src/main.c` 717-893) | the order of the steps | `Lifecycle` | code is flushed before it runs, symbols are found, no step waits for ever |
| exception handlers (`src/main.c` 90-193) | the reporting flag | `Lifecycle` | one report for one fault, then the end |
| installation (`src/main.c` 597-676, 822-830; `src/apk_extract.c`) | files, markers, configuration | `Install` | converges over interrupted launches; keeps what is the user's |
| ZIP reader (`src/apk_extract.c` 268-419) | file position, memory held | `ZipReader` | it stays on its track; every file is an entry, whole, and under the root |
| debug hooks (`src/main.c` 195-355, `lib/so_util/so_util.c` 58-110) | patched words, saved words, kept archive | `Hooks`, `DebugHooks` | a function is patched exactly when armed; what was saved is the original |
| ELF loader (`lib/so_util/so_util.c`) | blocks, modules, memory, arenas | `SoLoader`, `SoLink`, `CodeArena` | failures give back; linking follows the ABI; branches arrive |
| pthread bridge (`src/reimpl/pthr.c`; part) | pointers in Android's objects | `Mutex`, `StaticMutex`, `OnceBridge`, `SemBridge`, `CondBridge` | one native object per Android object; POSIX's promises |
| logging (`src/utils/logger.c`, `lib/FalsoJNI/FalsoJNI_Logger.c`; part) | the lazily created lock, two buffers | `LogLock` | a message is printed by who formatted it |
| path policy and file bridge (`src/reimpl/path_policy.c`, `io.c`; part) | open files, preset flag | `PathPolicy`, `FileBridge` | confinement, whatever is asked for |
| fortify (`src/reimpl/fortify.c`; part) | the formatted text, the argument words | `Formatting` | inside the object, C99's text, the right arguments |
| FalsoJNI methods and fields (`lib/FalsoJNI/FalsoJNI_ImplBridge.*`) | tables | `JavaCalls` | what is set is read |
| FalsoJNI arrays and references (`lib/FalsoJNI/FalsoJNI.c`, `FalsoJNI_ImplBridge.c`) | blocks, references | `JavaHeap` | blocks are owned once; references lead to objects |
| FalsoJNI strings (`FalsoJNI_ImplBridge.c`, `converter.c`) | two arrays per string | `JavaStrings`, `Converter`, `ConverterLoop` | texts come back; nothing is written past an end |
| FalsoJNI's function table, libm, ctype, libc and memory bridges, shaders, import table, settings, scripts | – | – | – |

How they interact. `main()` is one thread: it runs the installation, the loader
and the JNI lifecycle in a fixed order, starts the two audio threads, and stays
in the render loop. Touch slots and controller share that loop, so they never
interleave; they meet in Caustic's pointer table (distinct ids) and in
`physical_touch_count`, which the slots keep and the rack swipe reads. The
microphone thread shares nothing with the loop but the library, and the running
flag `main()` raises for it. The library calls back into the pthread, file, JNI
and formatting bridges from any thread; those bridges share no state with each
other. The loader produces what the hooks patch and the boot flushes. The
installation communicates with later launches through files only: markers,
the files themselves, and the configuration.

What is hard here: sequences of legal presses and landings that no test writes
down; a reader and a writer of the same touch state in the same frame; the
arithmetic of the resampler over many buffers; launches that fail half-way and
are retried over what the user did in between; lazy initialisation in bridges
several threads enter; a dozen ways out of a load or an extraction, each with
other things to give back; two representations of one text that must agree.

## Modules

Each module has one action per handler, block or step, named for the function
it stands for where there is one, and its variables have the source's names
where they are fields or locals of it; history variables are marked as such at
their declaration. `PROJECT.json` maps every definition to its lines.

### Input: `CausticPointers`, `TouchSlots`, `Controller`, `RenderLoop`

**`CausticPointers`** is the contract between the loop and the library: a table
of pointers, each up or down at a place. `touch_begin`, `touch_move` and
`touch_end` are external; a call that breaks the contract (begin while down,
move or end while up, end elsewhere than the last place) leaves the pointer
"confused", so `PointersLegal` says that no such call is ever made.

**`TouchSlots`** has one action per outcome of a report: `MoveReport`,
`BeginReport`, `SkipReport` (no slot free), between `Peek` (899-907) and `Lift`
(945-954). `physical_touches[]` is split by field. `Peek` chooses any sample of
distinct fingers; `glass` and `lastGlass` are history variables that remember
which fingers the present and the previous sample showed.

**`Controller`** has one action per block of the handler, in its order:
`ReleaseTap`, `ReadPad`, `EnableControls` or `DisableControls`, `SwipeRack` or
`RestRack`, `PressStart`, `PressSelect` or `Cross`, `DragGrabbed` or
`MoveFocus`, `Render`. Blocks that make several calls compose them in the order
of the code (a grab is let go of before a tap begins; a swipe is ended and
begun again before it moves). `direction_hold` counts modulo the repeat cycle,
which is all the code asks of it; `transport_playing` is what START assumes.

**`RenderLoop`** composes the two: each step is a step of one half, and `pc`
makes them alternate within a frame.

### Sound and boot: `MicResampler`, `Lifecycle`

**`MicResampler`** models the capture loop sample by sample. A sample is the
number of its frame, so that what is interpolated is a place in time; `last`
is a history variable with the place of the previous sample.

**`Lifecycle`** is the program from the loading of the library to its end, in
both builds. `Script` is what `main()` does, in order, as steps of four kinds
(load or patch, look a symbol up, call native code, start a thread), and the
actions interpret it; the two sound threads run beside it from the moment they
are created, the audio thread first since its priority is higher, each leaving
its loop at once if its flag is not up. Any native call may fault in any
thread, inside the report of an earlier fault too: the handlers are `Enter`,
`Handle`, `Claim`, `Reports`. What is installed before is in `Install`.

### Installation: `Install`, `ZipReader`

**`Install`** is the script `main()` runs at each launch, as a sequence of
steps (`Script`) and actions that interpret it. The files of a package are
written one at a time, in any order; opening a file truncates it (`OpenFile`),
and between that and `FinishFile` the step may fail or the launch may end
(`InstallFails`, `Relaunch`). A row of removals is taken one by one, each may
fail, and main() looks at none of the results (`RemoveFile`, `RemoveFails`,
`EndRemoval`). The removal of `newskin/machinetext.cfg` precedes the package
that brings it (`main.c` 619-624), so that the file is back for the session of
the launch that installs newskin, and gone from the next one on. `Keeps` is the difference between the extractor,
which skips files of the right size, and the two ways to install a bundle. The
size comparison is modelled as telling the packaged content from everything
else; a user's file of exactly the packaged size would be kept as well. The
configuration is a set of lines. `OpenConfig` truncates it, with what it will
hold in `output`, and a torn rewrite leaves any subset of that. If the file
cannot be opened for reading, for whatever reason, the code takes it for one
that is not there and overwrites it with the one line; other failures write
nothing. The user's session (`SaveFile`, `DeleteFile`, `ChooseSkin`) is external.
`failed`, `stuck` (the files whose removal failed) and `newskin_pending` are the
history of the launch, `chosen`, `settled` and `damaged` that of the user's
choice; `damaged` says that the configuration was torn or unreadable since. The build modelled is full322
with its optional bundles; without them the script stops after the first
removal.

**`ZipReader`** is the extraction of the demo assets inside one step of that
script: `Locate` finds the end record, `ReadCentral` and the filters take the
directory record by record, `ToData` and `ReadData` send the one handle to the
entry and `Continue` brings it back. Every read, allocation and write may fail,
the launch may end anywhere, and the next one begins again on the disk it
finds. A write that is cut short may leave the first part of the file and no
more, and the marker's own writing may fail after the marker is there
(`CutShort`). A name is a row of segments and a package a row of entries;
`inflate` and the checksum are an outcome.

### Threads: `Mutex`, `StaticMutex`, `OnceBridge`, `SemBridge`, `CondBridge`, `LogLock`

**`Mutex`** is what a POSIX mutex promises; it models no code. **`StaticMutex`**
is the bridge that has to keep it. `word` is the client's object, `native` the
Vita's mutexes, `call` the place of each thread in the bridge: `BeginLock` reads
the word, `InitStatic` and `Store` are `init_static_mutex`, `Resolve` chooses
what the native call is given. The source reads `*mutex` twice without
synchronisation, so a compiler may keep the value it knows or read again;
`Resolve` allows both. `Grant`, `Refuse` and `Unlock` are the native calls, and
external: a normal mutex does not check who unlocks it, the others do, which is
how the library VitaSDK ships behaves. The client is external as well. It
unlocks what it believes to hold, does not lock a normal mutex twice, and
initialises or destroys a mutex while nobody uses it. `firstAlone`, chosen at
the start, says whether its first use precedes the creation of threads. `late`
is a history variable for `RaceHeals`.

**`OnceBridge`**: `Claim` is the atomic exchange; a thread's calls are a stack
of frames, since the initializer may come back to the same control word.

**`SemBridge`** has time, in steps finer than a microsecond. `ClockUs` counts
milliseconds, as `current_timestamp_ms` does, `DeadlineUs` the microseconds of
the caller's deadline, and `Timeout` is bounded by the 32 bits the kernel
takes. The kernel's semaphore (`Grant`, `Expire`, `Deleted`) is external.

**`CondBridge`**: `NeedsInit` tells what each of the four calls does with a
variable that is still `NULL`; `Make` and `StoreWord` are the initialisation,
two steps another thread may enter. Waiters and notifiers are the usual
clients, and the mutex and the native variables are external.

**`LogLock`** is the pair of macros around the two buffers of both loggers.
Creating the lock a second time forgets who held it and leaves its sleepers
(`Create`, `Store`); `Released` wakes any thread the kernel may choose.

### Files and text: `PathPolicy`, `FileBridge`, `Formatting`

**`PathPolicy`** is `caustic_map_path` as an operator on sequences of segments,
with the errors it answers; lengths are counted in segments. **`FileBridge`**
has one action per call of `io.c` that takes a path or changes one of its two
globals; each maps, asks and records what it asked the kernel for (`request`).
Modes and flags are sets of letters and bits, translated as the code does.

**`Formatting`** is `android_vformat` and its two entries. A format is a row of
items, the arguments lie in words as the procedure call standard puts them, and
`taken` records which words each conversion was given; `Passed` computes
independently which ones the caller laid out.

### Java: `JavaCalls`, `JavaHeap`, `JavaStrings`, `Converter`, `ConverterLoop`

**`JavaCalls`** looks names up in tables and calls or reads what it finds;
getter and setter search differently in the code, and so they do here
(`GetValue`, `Stored`). **`JavaHeap`** is memory: arrays are two blocks, a
reference is an address, addresses are used again, any allocation may fail.
Its client counts references as a program of Java's rules may: any number of
global ones to an object, local ones beside them, deleted in any order. What a
deletion leaves over becomes `stale`, and an element pointer into a freed array
a `StalePointer`; using either, writing past an array, or a region of negative
length makes the behaviour `astray`, after which nothing is said. A region that
starts inside and ends outside its array is copied, as in the code: reading one
may go astray or go on with what was copied, of which the array's own part is
compared with what was stored. **`JavaStrings`** is one string
with its two arrays: memory is filled with junk, and every call converts what
the code converts and sizes what it sizes. **`Converter`** has the conversions
of `converter.c` as operators, one iteration each, on real code units;
**`ConverterLoop`** runs them iteration by iteration, against definitions of
well-formedness taken from the tables of the Unicode standard.

### Machine code: `SoLoader`, `SoLink`, `CodeArena`, `Hooks`, `DebugHooks`

**`SoLoader`** maps modules. Each step may fail, and each failure frees what
its label of the error path frees (`ErrFreeSo` to `ErrFreeData`); a block is
the triple of its module, use and segment, and identifiers are positive, errors
negative. **`SoLink`** relocates, resolves and runs constructors over a row of
words, packed relocations decoded bit by bit; `Meaning` says independently
what the ABI wants of each word. What a linker writes is `ImageAssumption`: one
relocation for a word, each packed word in one entry, no addend where an
import is replaced; after that a slot of a `JUMP_SLOT` relocation may be called
at any time (`CallImport`). **`CodeArena`** replaces the `LDMIA`
instructions of functions by branches to stubs: distances, the bias and the
cut offsets of the encoding are the code's. `Execute` is what a processor does
with a stub, `LdmiaDoes` with the instruction. **`Hooks`** is `hook_addr`,
`so_unhook` and the two halves of `SO_CONTINUE` over rows of halfwords;
`Reaches` is where a processor goes from a function's entry. **`DebugHooks`**
adds the four hooks over libzip, with the calls under way as a stack, the
second attempt and the kept archive; libzip itself is external. The debugging
build hooks are one thread's.

### Instances and proofs

`MCRenderLoop`, `MCSound`, `MCInstall`, `MCStaticMutex`, `MCBridges`,
`MCFiles`, `MCJava` and `MCSoUtil` give TLC the constants. Components that
share no state are checked side by side in one run: a variable, chosen at the
start, says which of them moves in this behaviour, and the others stay as they
began, so that the states add up instead of multiplying. `MCRenderLoop` splits
its instance likewise into three audiences that never meet. The proof modules
are `MainProofs` (`main.c`: the render loop, the microphone, the program's
life), `InstallProofs`, `StaticMutexProofs`, `BridgeProofs`, `FilesProofs` (the
path policy, the file bridge, the extraction, formatting), `JavaProofs`
(FalsoJNI) and `SoUtilProofs`; `Recursion` holds the lemmas on loops and places
that several of them need.

An invariant such as `FileInv` or `LoaderInv` is the conjunction of named
parts, each with its own comment, which tells what it is about. An operator
with a name such as `LetGoAtFocus`, `LeavesTooLate` or `HandleWaits`, defined
immediately before the one it resembles, is a faulty variant of it: replacing
the original by the variant makes TLC report the property named with it in
`PROJECT.json`. The comments call it the mutant; no specification uses one
otherwise.

## What TLC checks

| run | module | checks |
|---|---|---|
| `loop` | `MCRenderLoop` | `SlotsFollowGlass`, `IInv`, `PointersLegal`, `FingerKeepsPointer`, `LiftedFingersReleased`, `TapsReleased`, `RackFollowsStick` |
| `sound` | `MCSound` | `MicInv`, `StreamSmooth`, `EveryBufferRecorded` of the resampler; `LifeInv`, `SoundAfterSetup`, `LoopsAreEntered`, `LifeGoesOn` of the program's life |
| `install` | `MCInstall` | `MarkerMeansComplete`, `CleanLaunchInstalls`, `OverridesGone`, `SettledSkinPersists` |
| `mutex` | `MCStaticMutex` | `MutualExclusion`, `NeverWaitsForItself`, `RaceHeals`, and `KeepsPromise`: the bridge implements `Mutex` |
| `bridges` | `MCBridges` | `OnceInv`, `SemInv`, `CondInv`, `LogInv`, `EveryCallReturns`, `WaitsEnd`, `MessagesEnd` |
| `files` | `MCFiles` | `FileInv`, `ZipInv`, `FormatInv` |
| `java` | `MCJava` | `CallInv`, `HeapInv`, `StringInv`, `ConverterInv` |
| `so_util` | `MCSoUtil` | `LoaderInv`, `LinkInv`, `ArenaInv`, `HooksInv` |
| `firstchoice`, `userfiles`, `writable`, `references` | as above | one violated property each; see "Four disagreements" |

The invariants that gather several promises are made of these parts, besides a
type invariant:

* `IInv`: slots and controller flags agree with Caustic's pointers, the mode
  releases what it held, the swipe yields.
* `MicInv`: a buffer is converted to its end, no access leaves an array.
* `LifeInv`: `EverySymbolIsThere`, `NativeCodeIsReady`, `WelcomeWasGiven`,
  `OneReportEach`; `LifeGoesOn`: `BootEnds`, `SoundGoesOn`.
* `OnceInv`: `RunsOnce`, `ReturnsStarted`. `SemInv`: `TokensConserved`,
  `NeverEarly`, `LateByAMillisecondAtMost`. `CondInv`: `SleepersReachable`, and
  one native variable where notifications are under the mutex. `LogInv`:
  `PrintsItsOwn`, `LateMessagesExclude`. `WaitsEnd`: `TimedWaitsReturn`,
  `WaitersServed`.
* `FileInv`: `RequestsConfined`, `WritersConfined`, `TraceMeansPreset`.
  `ZipInv`: `OnTrack`, `FilesAreTheirEntries`, `MarkerVouches`. `FormatInv`:
  `InsideObject`, `LikeSnprintf`, `RightArguments`.
* `CallInv`: `ReadsBackWhatWasSet`, `ConstructorsTellClasses`. `HeapInv`:
  `LiveRefsUsable`, `ElementsOwned`, `ReadsWhatWasStored`, `PointersLead`.
  `StringInv`: `StringShape`, `CopiesFit`, `TextComesBack`, `UnitsComeBack`,
  `UTFLengthMatches`. `ConverterInv`: `WithinRoom`, `OutputWellFormed`,
  `SizeQueryExact`, `RoundTrip`, `DamageShows`.
* `LoaderInv`: `ListedAreMapped`, `ListIsOfLoaded`, `FailureGivesBack`,
  `FilesClosed`, `FailuresAnswerNegative`. `LinkInv`: `LinkedLikeTheABI`,
  `ConstructorsInOrder`, `MissingImportNamed`. `ArenaInv`: `StubsApart`,
  `BranchesArrive`, `StubsLoadAlike`. `HooksInv`: `HookedGoOver`,
  `UnhookedRunsItsOwn`, `SavedIsTheProgram`, `HookedUnlessRunning`,
  `AnswersAreOpen`.

### Bounds, and why they are enough

**`loop`.** Two slots and three fingers are the least that has a full table with
a finger left over, and a slot freed below one still in use; more slots repeat
the same search. The screen is 7 by 12 pixels: wide enough for every fixed
target and for both directions of drag and focus, narrow enough that both clamps
are met. Its rail leaves five pixels on each side of the center, the least the
re-anchoring needs and less than the device has. The stick positions are rest, a
deflection up by the largest delta, 5, and one down by 3, which does not divide
the rail: one re-anchors on the edge of the rail, the other short of it. The
hold counters run 2 and 2 frames instead of 12 and 4, once over the delay and
twice round the cycle. The eleven samples of buttons are each button, and the
chords whose blocks' order matters; other chords are unions the handler treats
as their parts.

**`sound`.** The resampler has the device's numbers. Phase and queue repeat
after 160 buffers and TLC visits all of them, one sample at a time; only the
history `last` is bounded, since a place one buffer ago stands for all earlier
ones. The program's life is finite without a bound.

**`install`.** No bound on launches, failures or power losses. One package of
each treatment: the demo assets with an override that is stripped, a bundle that
keeps what exists, a skin that overwrites and brings two more overrides, one
removed before it is installed (newskin's, the only one of its kind) and one
after, the welcome song. The other two skins are treated like newskin without
its early removal. The user edits the song, the one file that is installed by
both rules, and chooses one skin, since two choices differ in nothing.

**`mutex`.** Three threads are one more than a race needs, so that a latecomer
meets what it left; three native mutexes are as many as can be made at once, and
a destroyed one is used again. Nesting twice is the least that tells a recursive
mutex from the others. Threads and native mutexes are symmetric.

**`bridges`.** Three callers of once with two calls each, nested two deep: a
winner that comes back to its own control word and two that find it taken. Two
clients of a semaphore, one post; the deadlines lie before the start, inside
the range of the timeout and beyond it, so that a call is refused, expires, and
is clamped (to 3 microseconds here); a call may be held back for one step
between its reading of the clock and its wait. Two waiters and two notifiers of
a condition variable with six native ones, so that an allocation never fails.
Three threads that log, on three levels of which two are compiled.

**`files`.** Eighteen paths cover the cases of `tests/path_policy_test.c`:
relative, absolute, over-long, with dots and with drives; two handles, so that
a preset and another file are open at once. Formats have up to three items,
which is a wide argument behind a narrow one and before another, and the three
objects are too small, just full and large. A package has up to two entries,
one of which may be odd in one respect (each check of the walk has its own),
over disks that are empty or hold something in the way.

**`java`.** Five addresses let an array, its elements and a second array live at
once and be used again. Arrays have two elements (or are asked for with a
negative length), indices, starts and lengths run from -1 to 2, so that a region
is empty, inside, past the end by one or two, or refused. Two references at a
time (`MaxRefs`) are a global one and another beside it, or one in each of two
objects; one address at a time has stale references (`MaxStale`), and there is
one element pointer (`MaxPointers`) and one class (`MaxClasses`). Texts have up to three characters of one to four bytes,
and four byte strings are not well formed. The strings the loops convert are up
to three long (four where a character takes as many) over the values at the
edges of every range of UTF-8 and UTF-16.

**`so_util`.** Module by module: code first, data first, too much data; two data
segments instead of four. A packed relocation entry has four bits and a word two
bytes, so that eight words need several maps and a gap; two relocations of every
pair of types and symbols. The LDMIA fix has four registers, a patch block of 24
bytes and a cave of 36 that hold some of the stubs and not all, and an offset of
six bits. Four functions on nineteen halfwords, ARM, Thumb on a word and Thumb
behind one, next to each other; calls of the hooks nest three deep, which is
one more than a recursion needs to meet itself, over three archives.

### Fairness

`RenderLoop` and `MicResampler` assume weak fairness of their next step: the
loop waits for nothing but the display's vertical blank, and the microphone's
thread runs above its priority and blocks in the capture call only. `Lifecycle`
assumes that `main()`, the audio thread and the handlers are scheduled, that
what they call returns or faults, and that a copy through no array does fault;
the second is about the library and external. `OnceBridge`: every call that can
move does. `SemBridge`: time passes, and the kernel ends a wait whose time is
over. `CondBridge`: a thread that can run runs; strong fairness of `Lock`
says that a thread that keeps asking for the mutex gets it, which the kernel's
queues give. `LogLock` assumes the same of `Take`. The other modules assume
nothing and have no liveness property: their clients owe them nothing. What
could be a liveness property of `Install`, that the installation is finished
eventually, is stated as the safety property that one launch without a failure
finishes it.

Deadlock is checked in `loop`, `install`, `firstchoice`, `userfiles` and
`mutex`. The other instances have behaviours that really end: the program
(`sound`), the last call a client may make (`bridges`), a formatted text
(`files`, `writable`), a converted string or a heap that went astray (`java`,
`references`), a module that is loaded, linked and fixed (`so_util`). In `bridges` the liveness
properties see to it that nothing stops before.

### Four disagreements

`firstchoice`: `main.c` 670-671 says of the reset of the skin for the welcome
project "This is one-shot; later user skin choices persist." The marker that
ends it is written by the welcome installation after the machines exist. If
that fails (a full card is enough), `main()` carries on, the user may choose a
skin, and the next launch puts `S SKIN default` over it. `SettledSkinPersists`
is what does hold: a choice made once the marker exists persists, as long as
no rewrite of the configuration is torn and none finds it unreadable; and even
then no other skin takes its place.

`userfiles`: `docs/FEATURES.md` 39 says "Existing user files are preserved when
optional bundles are installed." Only the presets and the second installation
of the welcome song are installed that way; the skins and the first
installation of the song overwrite. Because a failed bundle is retried at the
next launch, a file the user saved in between is truncated.

`writable`: `docs/ARCHITECTURE.md` 66 says "writable access is confined to the
Caustic data root", and so does the audit (`clean-sweep.md` 35). A plain
relative name is handed to the kernel as it is (`path_policy.c` 94), to be
written as well as to be read. `WritersConfined` is what holds: under the data
root, or relative without a way up.

`references`: the comment in `NewGlobalRef` (`FalsoJNI.c` 190-192) says that "it
should be safe to just return `obj` back", since all references are the same
pointer. `DeleteGlobalRef` frees the object, whatever else leads to it: a global
reference beside the local one, deleted first, leaves the local one leading to
freed memory, which the next allocation may give out. `HeapInv` is what holds: a
reference made since the last deletion leads to an object, and arrays, their
elements and their contents stay in order until a stale one is used.

Also worth knowing, although no document promises otherwise:

* A preset cut short by a power loss is "existing" to the retry and stays a
  fragment; the configuration is rewritten in place at every launch, also when
  its line is there already, so that a power loss there loses the other lines.
* A configuration that cannot be opened for reading at one launch is overwritten
  with the one line of the step, and the user's other lines are gone
  (`apk_extract.c` 197-202).
* A font override whose removal fails stays for the session, and
  `newskin/machinetext.cfg` is present in the session of the launch that installs
  newskin; `OverridesGone` names both.
* A region's check compares the start with 0 and `length` alone with the array's
  (`FalsoJNI_ImplBridge.h` 218, 239): it adds nothing, and what runs past the end
  is copied.
* The load of a base register is delayed "to the very end" (`so_util.c` 659-660).
  If the list has the program counter too, its load, which comes before, is a
  jump, and the delayed one never runs; `StubsLoadAlike` is about all others.
  Nothing in this repository calls `so_symbol_fix_ldmia`, the only way there.
* One data segment too many leaves the loader through the error path with the
  positive result of the last call. `FailuresAnswerNegative` is about the other
  failures.
* The archive the debugging hooks keep may be one the library has closed since,
  or another than the one in the way. `AnswersAreOpen` is reserved to the
  behaviours in which only the package itself was asked for (`~strayed`), and
  libzip is taken to refuse the package only while a stream of it is open; in
  these the kept archive is the open one. For the others no property covers it.

## What is proved

The proofs hold for every value of the constants that satisfies the named
assumptions; TLC evaluates those of each instance.

**`MainProofs`**, the render loop, for every number of slots, set of fingers and
geometry with `ScreenAssumption`, `PanelAssumption` and `ControllerAssumption`:
`IInv` and with it `PointersLegal`; `SlotsFollowGlass`; and the action
properties `FingerKeepsPointer` and `RackFollowsStick`. The assumption that
matters is that the rail leaves five pixels on both sides of its center: it is
what makes the clamp after a re-anchored move idle, and the device's 200 pixels
satisfy it. The inductive invariant is `IInv`: types, both correspondences
between flags and pointers, `RackYields`, and `PadFrame`. `PadFrame` is the
strengthening: none of the properties is inductive alone, because whether a tap
is pending or a flag may be set depends on where in the frame the loop is (the
tap is released before the pad is read; the blocks after the toggle run only
with the mode on; with the mode off no flag is set). One lemma for each half of
the argument: a step of the panel preserves the slots' part
(`TouchStepKeepsSlots`) and leaves the reserved pointers alone
(`TouchStepKeepsPad`); a step of the controller preserves its part
(`PadStepKeepsPad`) and leaves the slots alone (`PadStepKeepsSlots`). Counting is
by the cardinality lemmas of the library (`ActiveBound`), and `FirstMember`
shows that the first free slot exists. `LiftedInTheirFrame` is the part of
`LiftedFingersReleased` that needs no fairness: no step of the frame loses the
slot of a finger that is gone, each one shortens the reports left or releases
the pointer.

The microphone, for every pair of rates and sizes with `MicAssumption` (the
queue holds a block and what one buffer yields; a buffer holds a period of each
rate): `MicInv` and `StreamSmooth`. The strengthening of `MicInv` is
`QueueFollowsPhase`: while a buffer is converted the queue exceeds a rest shorter
than a block by one sample per `InRate` of phase. So an unread buffer always
finds room (`RoomWhileUnread`), and the loop ends because the buffer does.
`SamplesAreEven` needs one fact more, `Smooth`: the last sample lies one output
period behind the phase, also when the phase was carried into the next buffer
and the frame before it is `previous`. `BlockFromEveryBuffer` is the same for
`EveryBufferRecorded`: where a buffer spans a block, as the 768 frames at 48 kHz
span the 256 at 44.1 kHz, a conversion ends with a block in the queue.

The program's life, for both builds: `LifeInv`, `SoundAfterSetup` and
`LoopsAreEntered` follow from `LifeIInv`. The script has some thirty steps and
depends on the build; the proof never looks at a step by its number, but shows
once (`Shape`) which steps precede which, from the parts the script is joined
from. `Ready` then says what each thread may rely on: wherever the audio thread
is, the steps that start and feed it are done. `Reporting` says that a thread
inside its report has claimed it, so that a fault in there finds the flag up.

**`StaticMutexProofs`**, for every set of threads, supply of native mutexes and
depth. In the behaviours whose first use is alone (`firstAlone`):
`MutualExclusion`, `NeverWaitsForItself`, and `KeepsPromise`, the refinement of
`Mutex` with the owner and depth of the mutex in use as holder and depth. The
inductive invariant is `AloneInv`: until the word is a pointer only `Main` runs,
so whoever is inside `init_static_mutex` is alone; from then on every call acts
on that one mutex (`Reached`), which is of the client's kind and counts what the
threads believe to hold (`Believed`). In all the others two threads may hold the
mutex at once; what is true then is `RaceHeals`. Its invariant `RaceInv` says
little of the mutexes a race leaves behind and enough of the one the word names:
once everyone who met the race has left, nobody stores any more, and who comes
after is counted by that mutex.

**`InstallProofs`**, for every set of files and row of skins. `WellTyped` puts
the script's pointer where the script is. `MarkersVouch` needs `PacksApart`,
that the demo assets and the skins share no file with another package: its
invariant `VouchInv` adds that the files an installation has visited are whole.
`LaunchConverges` needs no assumption: what the launch has passed is marked
(`LaunchInv`). `OverridesStayGone` needs `StripsApart`, that no later step
installs what an earlier one strips, the file newskin loses before its own
installation excepted; its invariant is that what the script has removed so far
is gone or stuck, or waits for newskin's package of this very launch.
`SettledSkinStays` rests on `SettledInv`: once the user has settled, no launch
has a welcome pending, and neither the configuration nor what a rewrite is about
to put there names another skin than the user's.

**`BridgeProofs`**, for any threads (finitely many where they are counted).
`OncePromise`: the initializer was entered as often as the control word says,
and whoever is past the exchange found it claimed. `SemPromise`: `TimesInv`
follows a deadline through the reading of the clock, the cut to milliseconds,
the clamp and the wait; `TokensInv` counts what was granted and not yet
answered. `CondPromise`: under the mutex, from the test of the variable to the
notification, at most one thread makes the native variable, and it makes the
only one (`OneNative`). `LogInOrder`: once a message has begun when nobody
creates the lock, nobody will again, and a late message that is inside holds
the lock (`LateInv`); `LateOnesExclude` and `OwnMessages` are its two halves.

**`FilesProofs`**, for any segments and lengths. `MapConfines` is the heart of
the file bridge: what `caustic_map_path` accepts is confined. From it
`RequestsAreConfined`, `WritersAreConfined` and `TraceIsOfPreset`, together
`FilesInOrder`. `ZipInOrder`, for any packages and disks: `ZipIInv` says of each
file whether it is the user's, an entry's or a part of one, that a part is only
ever one of the entry the loop is at or of one still to come, and that
everything behind the index is dealt with; so the marker, set at the end, vouches
for all. `FormatInOrder`, for any formats, words and objects: `TextSoFar` and
`WordsSoFar` compare what was written and taken up to an item with the functions
that define what C99 writes and what the caller passed.

**`JavaProofs`**. `CallsInOrder`, for any tables in which an id is one method
(`IdAssumption`): the containers hold for each field what was set last, in the
place the getter looks in, though the setter looks for it differently (`Holds`).
`HeapInOrder`, for any number of addresses and of references, deleted in any
order: `Whole` is what `malloc` keeps, a deletion takes the history and the
pointers of its object along, and under any failed allocation a reference made
since leads to an object that has its elements to itself and holds what was
stored, in regions up to the array's end. `ConversionsInOrder`, for any
strings of 8-bit and 16-bit units and any sizes of the buffer
(`LoopAssumption`): first what the four forms of `encode_utf8` write, by
arithmetic instead of shifts (`EncodeOf1` to `EncodeOf4`); then that the decoders
give back what the encoders wrote whatever is behind it (`Decodes`), and that
whatever else they are given they read something and call it damage (`Reads`).
Well-formed text is defined recursively; the proof replaces it by a set of places
closed under reading a character (`Fills`), and "says the same in the other
encoding" by a set of pairs of places (`Twin`), which grow by one element as a
character is written (`FillsMore`, `TwinMore`), so nothing needs induction. The
invariant of an iteration is `Underway`, and `ConvertedUtf8` and `ConvertedUtf16`
carry it to the result of the whole loop; `ConversionsReadOn` says that the loop
comes to its end, since no iteration stands still or reads past the text.
`StringsInOrder`, for every text and
every content of fresh memory (`StringAssumption`: the units have 16 bits, the
bytes eight, and none is NUL, which the code takes for their end): `Agree` says
that the arrays keep the lengths that go together, so that `jda_realloc` is never
reached (`ShapeIsKept`) and no copy overruns (`CopiesAlwaysFit`), and `Contents`
that the UTF-16 array holds the units, or begins with the characters of the
bytes; what may lie behind those when characters have several bytes comes out
behind the text, beyond what the buffer keeps of it, so a string made from
well-formed UTF-8 is read back as it was (`ContentsReadBack`).

**`SoUtilProofs`**. `LoadsGiveBack`, for any modules under `OneText` (one
segment of code each; the identifiers of a second would take the place of the
first's) and any limit of data segments. The invariant says, block by block,
who holds what: `Holdings` for the module being loaded, the loaded ones and the
failed ones, `Identifiers` for what the error path will free, `Answers` and
`InList` for the results. `HooksKeepTheProgram`, for any functions that do not
overlap (`Apart`, with the halfword a hook may write before its jump),
destinations and archives: each function holds its original or its hook as its
history says (`Kempt`), and which of them is unhooked follows from the calls on
the stack (`Placed`). `StubsStandIn`, for any program, registers and arenas with
`ArenaAssumption` (the arenas are around the program and near it): a stub is the
trampoline of its own address and below its arena's head (`IsStub`), so no two
overlap; the cut offset of a branch decodes to its target because the distance is
within half the limit (`BranchReaches`); and the stub loads alike by a
comparison of two loops over the registers, place by place. `LinksLikeTheABI`,
for any modules with `ImageAssumption` and any tables with `LinkAssumption`:
`RelWords` and `OtherWords` say of each word whether its loop has passed it, and
then it has its meaning, or else what the file holds; `Behind` says without a loop
where a map of packed words begins, and `LoopsFollow` that `where` is there.
`CalledBefore` counts the constructors passed, so each call lands at its rank.

`ModulesAndFunctionsFit` has TLC evaluate `OneText` and `Apart`, and
`PackagesApart` those of `InstallProofs`.

The provers have no induction over data: the library's theorems take an
operator, which none of them can instantiate. Where an argument needs one,
`Recursion` replaces it by the first place at which the claim would fail, which
exists because the order of the naturals is well-founded (`FirstExists`); so a
loop over places has a result (`RecursionExists`) and what holds from place to
place holds at all (`EveryPlace`).

Only model-checked are the liveness properties (fairness and ENABLED are out of
the prover's reach): `LiftedFingersReleased`, `TapsReleased`,
`EveryBufferRecorded`, `LifeGoesOn`, `EveryCallReturns`, `WaitsEnd`,
`MessagesEnd`.

## Not modelled

FalsoJNI's function table and its stubs, which log and return; the ctype
tables, libm, libc and environment shims, the import table, which are data or
stateless; memory and system bridges, one call each; the shader hooks and the
glue to vitaGL, which depend on the driver; settings, string helpers and hash;
build scripts. `so_resolve_with_dummy` and `so_hash` are called by nothing;
`so_symbol_fix_ldmia` is not called either, but `CodeArena` models it; and
the hooks of the full322 build that are not installed have the shape of those
that are.

Of the parts listed as "part": drawing and the logging of events at the end of a
frame; reads, writes and seeks of an open file, which pass through, and the
copying of fields of `stat` and directory entries; fortify's other checks, each
one comparison before one call; attributes, keys and priorities of threads; the
wording of messages.

Hazards of the code that no property covers: the panel's last column 1919
scales to 960, one pixel past the screen, and only Caustic knows what it makes
of it; `transport_playing` is stale after a tap on the on-screen transport,
which the wrapper cannot see; Caustic's events are drained until it has none,
and whether it ever has none is its own affair; `pthread_self` answers the
address of one static and `readdir` one static entry, so that a second thread
overwrites what the first compares or reads, and nothing in the repository says
who compares; destroying a static mutex that was never locked passes its
initializer on to the native destroy, which the client of `StaticMutex` does not
do; how `va_list` reaches the callbacks of `methodVoidCall` and its siblings,
and how newlib takes `%lld`, depend on the compiler and the library.
