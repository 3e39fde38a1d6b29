# slt_engine in TLA+

Specifications of the parts of slt_engine that are hard to test: its queues and
threads, the engine that is made of them and its shutdown, the loading of
resources, and the data structures whose invariants span many calls. Every
definition is translated from the C++ under `src/`; `PROJECT.json` maps each one
to its lines, and lists the hazards that the properties are for.

## 1. The system

slt_engine is a small game engine. A program makes a `Core` (threads, logging,
settings), then a `Runtime` (window, OpenGL, main queue), calls `sync()` once a
frame and destroys the two in reverse order. Resources are read on a filesystem
thread, sometimes decoded on a worker, and delivered by `sync()`.

| part | state | operations | interacts with |
|---|---|---|---|
| `concur::BlockingQueue` | a `std::queue`, a mutex, a condition variable | `push`, `pop` | any threads |
| `concur::Worker`, `Core`'s workers | the static task queue; one thread per worker | `queueTask`, `main`, joins | popped by workers, pushed by anybody |
| `concur::EventQueue` | FIFO of handlers, mutex, condition variable | `queueEvent`, `executeAll`, `executeUntil` | handlers queue events; other threads queue events |
| filesystem (`file.cpp`) | `pending_load_operations`, `filesystem_thread` | `read`, `asyncRead`, `asyncReadtoWorker`, start, stop | hands outcomes to an EventQueue or to the workers |
| `Core` | `instance`, workers | constructor, destructor | settings, logging, filesystem |
| settings, logging | registered settings and their defaults; the two loggers | `set`, `setDefault`, `init`, `resetAll`, `shutdown` | `Core` |
| `Runtime` | `instance`, `main_queue`; GLFW, the window, the audio and GUI systems | constructor, destructor, `sync` | executes the main queue |
| on-demand registries | per name: weak cache, pending callbacks | `addRegistry`, `removeRegistry`, `get` | filesystem, factories of textures, programs, fonts, sounds |
| preloaded registries | the resources of the index; count of pending loads | `addRegistry`, `hasPendingLoads`, `getPreloaded` | the same |
| `self_nulling_ptr` | a counted block that two sides share | copy, move, assign, destroy | the object pointed at |
| `RectPacker2D` | free rectangles with counterpart indices | `pack` | the atlas |
| `TextureAtlas`, `Font` | texture, packer, glyph cache | `add_image`, `getGlyph` | text widgets |
| programs, attributes, uniform blocks | locations, binding points, shader objects | construct, link, resolve, register, bind | OpenGL |
| textures, models, `RawRenderer` | none beside OpenGL's | create, update, upload, draw | OpenGL, the atlas |
| `Sound`, `Emmiter` | the decoder's cursor; the sound that a source plays | decode, `play`, `stop` | OpenAL, libvorbisfile, a worker |
| `split`, `join` | an iterator's views and payload | `++`, `*` | settings, shaders |
| `slt_build.py` and the tools | a cache file per command line | `Exec` | the files that the user edits |
| math, memory blocks, GUI layout | none over time | | |

What is hard in it:

- *Interleavings.* `BlockingQueue::push` notifies after it unlocks. Executors
  of one EventQueue sleep, wake spuriously, and are woken one per event.
- *Shutdown.* `~Core` stops workers with "pills" that share the queue with tasks,
  before it joins the filesystem thread that still queues tasks, while
  operations hold raw pointers to a main queue that is gone already.
- *Failure.* A read fails, a constructor throws, and somebody waits for ever or
  the next `Core` finds what the last one left behind. A sound that cannot be
  decoded ends the process or keeps its worker for ever.
- *Reentrancy.* Callbacks ask the registry again, release what they were given,
  or drop the last reference to the registry that is calling them.
- *Global state.* An OpenGL or OpenAL call acts on what an earlier call, of somebody
  else, has bound, attached or left set.
- *Staleness.* A cache (of resources, of build products) says what was
  true when it was written.
- *Long sequences.* The packer's free list is kept right by index arithmetic
  that only goes wrong after particular sequences of packings.

## 2. The modules

| module | models | refines, uses |
|---|---|---|
| `FifoChannel` | what a blocking queue promises: items come out once, in order | abstract |
| `BlockingQueue` | `push` and `pop` step by step | implements `FifoChannel` |
| `WorkerPool` | the workers and both ends of `Core` | its queue is a `FifoChannel` |
| `EventQueue` | `executeAll` and `executeUntil` step by step, the mutex included | |
| `FileService` | the filesystem thread | used by `Engine` |
| `AsyncLoads` | what a request promises: one answer, on the main thread, before the end, but for decoders that hang | abstract |
| `Engine` | the owner, the filesystem thread and the workers together | `INSTANCE`s of `WorkerPool`, `FileService`; implements `AsyncLoads` |
| `Settings` | the settings a Core is constructed from: validator, arguments, defaults | used by `CoreLifecycle` |
| `CoreLifecycle` | construction and destruction of several Cores in a row | EXTENDS `Settings` |
| `RuntimeLifecycle` | construction and destruction of several Runtimes in a row | |
| `OnDemandRegistry` | `OnDemandTypedRegistry` with the loads it starts | |
| `PreloadRegistry` | `PreloadTypedRegistry`, the load of its index and of the entries | |
| `SelfNullingPtr` | `self_nulling_ptr` and `enable_self_nulling_ptr` | |
| `RectPacker` | `RectPacker2D` under any scorer | |
| `GlyphAtlas` | fonts, the atlas and the default scorer | EXTENDS and implements `RectPacker` |
| `Programs` | `GLFWProgram` and the registries of attributes and uniform blocks | |
| `Drawing` | textures, models and `RawRenderer` on the state of an OpenGL context | |
| `Audio` | `Sound` with the callbacks of its decoder, and `Emmiter` | |
| `SplitJoin` | the lazy splitter and joiner | |
| `BuildCache` | `slt_build.py`, its cache, the tool it runs, and the user | |
| `MC...` | the constants of TLC's instances | |
| `..._proofs` | theorems: `Lifecycle_proofs` about Cores and Runtimes, `Registries_proofs` about both registries, `Atlas_proofs` about the packer and the fonts, `Parts_proofs` about the parts of `MCParts` that share no state, the others about the module of their name | |

Operators named `...WithoutX`, `...Twice`, `...OffByOne` and so on, introduced
by "A plausible bug", are wrong variants of the definition that follows. No
specification uses them: substituting one for the definition must make TLC
refute a property, and does (`PROJECT.json`, "mutants").

**BlockingQueue.** A step is a critical section or a move between two. `pop` is
"locking" until it gets the mutex, tests the queue, and either takes the front
or goes to sleep, in one step with the release of the mutex; `push` is a critical
section followed by `NotifyOne`, which is a step of its own because the code
unlocks first (`blocking_queue.h:31-36`). Spurious wake-ups may happen at any
time. The mutex itself is not a variable: nothing blocks while holding it.

**WorkerPool.** `Core`'s constructor and destructor, and `Worker::main` of every
worker: pop, stop on an empty function, run anything else. The destructor pushes one
pill per worker and then joins them. Tasks may be queued by anybody at any time,
during the destruction too (the filesystem thread does). Here every task returns;
`Engine` has the tasks that do not. `early` and `late` are history: tasks queued
before and after the destruction began.

**EventQueue.** Here the mutex *is* a variable: the predicate is called with it
held, the handler without it. `mode` distinguishes `executeAll`, which is
`executeUntil` with a true predicate, and `batch` is `current_batch_count`.
`Child` makes one handler queue another. The predicate is the one the tools
pass. `owed` and `overrun` are history.

**Engine.** The request is a token: it is in the filesystem queue, on the
filesystem thread, in the task queue, on a worker, in the main queue, answered,
or gone with the Runtime. The owner walks through `Core`'s constructor, frames,
`~Runtime`, and `~Core` in the code's order. A request made through `asyncRead`
goes straight from the filesystem thread to the main queue, one made by
`loadSound` through a worker. A file reads as data, as damaged data, or as an error,
for which `asyncReadtoWorker` hands over an empty block (`file.cpp:85-91`). What the
constructor of `Sound` then does on the worker is one of three steps. Of data it makes
the sound, whose callback goes to the main queue (`FinishSound`). On a file that opens
but does not decode to its end it adds `ov_read`'s 0 for ever (`Spin`,
`sound.cpp:42-44`): `Hung` are the requests whose worker does. And where
`ov_open_callbacks` fails, which is ignored, it dereferences the null of `ov_info`
(`CrashSound`, `sound.cpp:27-33`): the owner is "crashed", and nothing moves any more.
`AsyncLoads` says what that leaves of the promise: a request whose decoding hangs keeps
a decoder, the process may end at any time, and every other request is answered as
long as it needs no decoder or some decoder does not hang.

**OnDemandRegistry.** `get` has three branches (cached, pending, missing);
a load is reading, queued as an event, delivering or over; a delivery is one
step per callback, because callbacks may release, ask again, and remove the
registry. The references that keep the registry alive are counted where the
closures are copied: `asyncRead`'s operation is a `const` lambda, so its
`move(cb)` copies, and the filesystem thread may drop the last one.

**PreloadRegistry.** `addRegistry` begins the load of `reg.cap`, whose callback adds
every entry, each with a load of its own; `pending_loads_` goes up where a load is
begun, and down only where its callback is called, which a failed read does not do.
The callback of the index counts its own load down first (`resources.cpp:36`) and then
reads the index through accessors that validate lazily: a damaged one may throw with
none or some of its entries begun (`PopulatePartly`), or before the count
(`IndexUnreadable`). Two entries may name one resource: the one delivered last is
kept.

**CoreLifecycle, Settings.** Each line of `Core`'s constructor that can throw, what it
leaves behind when it does, and what the destructor resets. `Asserts` is what a
failed `SLT_ASSERT` does in the build. The arguments are any of the ones that
`settings::init` can be given, good and bad: what a text extracts to follows
`operator>>` (0 for what is no number, anything for no text at all), and the
program may change settings and defaults while a Core is up.

**RuntimeLifecycle.** The constructor of the GLFW runtime line by line: GLFW, the
window, GLEW, `commonInit` with the audio device, its context and the GUI, each of
which may fail. An exception runs no destructor of Runtime, so the next
constructor meets what is left.

**SelfNullingPtr.** One object, its block, and pointers that are constructed,
copied, moved, assigned, read and destroyed in any order, with the code's own
count. A pointer is unborn, has the block as its storage, or has none (moved from, or
made from one that was). `Dereference` is any of its reads: it looks into the
storage without asking whether there is one (`self_nulling_ptr.h:47-51`), so that a
pointer without one ends the process. `found` is what the last step read. Both assignments
end without the return they declare, which is undefined; the model has them work.

**RectPacker, GlyphAtlas.** The free list is a sequence, so counterpart indices
and swap-with-the-last are as in the code, with indices counted from 1 and 0 for
"no counterpart". `RectPacker` may choose any slot that fits (a perfect
one first, as `chooseSlot` does); `GlyphAtlas` computes the choice of the default
scorer, with its quirk of keeping the upright score after a flipped fit, draws
each glyph into a texture of labelled pixels, and reads it back through the
corners that `add_image` returns.

**Programs.** The constructor of a program is followed call by call: compile,
attach, link, resolve the attributes, link again, resolve the blocks, detach. OpenGL
is modelled by the rules that this code relies on: a location bound by
`glBindAttribLocation` counts from the next link on, and a link sets all block
bindings back to 0. The registries change between constructions, and a program that
was made before keeps what it was linked with.

**Drawing.** `gl` is what one context remembers: active unit, textures of the units,
row length, vertex array, array buffer, and what textures and buffers hold. Each
GL call is an operator from context to context and each function of the code
their composition. `frame` is history: what a draw was asked for, and what it read.

**Audio.** Opening may fail, which ends the process (`OpenFails`). libvorbisfile may
seek and read through the callbacks of `sound.cpp` in any order, and seek anywhere:
`decode_seek` checks nothing, so the cursor may be before the file or after it, where the
unsigned difference that `decode_read` cuts a read to wraps around. `ov_read` may
return any count up to what it may write, 0, or an error, and all are added to
`bytes_read`. `faults` is history: that libvorbisfile sought outside the file, that
`ov_read` reported an error, that a read was outside the file, a write outside the
samples. A source keeps the buffer it is attached to, and OpenAL refuses to delete
that. `displaced` is history too.

**SplitJoin.** Strings are sequences, a `string_view` a position and a length, and
the null view the one at 0, since its difference from an empty view is what ends
the iteration. A behaviour splits and joins again.

**BuildCache.** One output that one of two commands makes. `Exec` is cut into the
steps between which a user can edit, delete and restore files or kill it: look, stamp,
run (one read at a time), write, remember. Times are seconds cut to integers where
Python cuts them, and finer where the file system is.

## 3. What TLC checks

| run | instance | shows |
|---|---|---|
| `MCBlockingQueue` | 3 poppers, 2 pushers, 2 items, at most 3 queued | no wake-up is lost (`WakeupCovered`), and the queue is a FIFO channel that serves poppers while it has items (`ImplementsChannel`) |
| `MCWorkerPool` | 2 workers, 3 tasks | one pill per worker (`PillPerWorker`), every task queued before `~Core` has run when the joins are over (`DrainedWhenJoined`), the joins end (`ShutdownEnds`); no deadlock |
| `MCEventQueue` | 2 executors, 4 events, one queued by another, batches of 2 | `WakeupCovered`; what was queued at a call has been taken when it returns (`DrainedOnReturn`); at most a batch begins with the predicate true already (`BatchBoundsOverrun`) |
| `MCEventQueue_frames` | 1 executor, the frame loop, 4 events | `executeUntil` returns once what it waits for has run (`UntilReturns`); every queued event runs (`QueuedEventsRun`) |
| `MCEngine` | 2 workers, 1 request of the first kind, 2 of the second | `InOnePlace`, `InstanceWhenUsed`, `QuietWhenDown`; the destruction ends, unless a sound crashes the process or never lets go of its worker (`DestructionEnds`); and `ImplementsAsyncLoads`: an answer to every request as long as the owner syncs and the process lives, unless its own decoding hangs or that of every worker |
| `MCEngine_stray` | 2 workers, 1 request of each kind | **refuted**: an outcome is never queued on a main queue that has been destroyed; `read.h:24` promises that it "will be put into queue", and the operation uses a raw pointer to the caller's queue after `~Runtime` |
| `MCCoreLifecycle` | 3 Cores in a row, 3 settings, 4 integers, any arguments | threads always have a log (`ThreadsHaveLog`), without a failure a Core starts as clean as the first (`CleanBetweenCores`), constructions end (`ConstructionEnds`) |
| `MCRegistries` | on demand: 2 names, 3 gets, 2 loads; preloaded: 3 entries, two of one name | `OneInstance`, `CalledOnce`, `RegistryOutlivesLoads`, `AnsweredUnlessFailed`; no pending loads means that all is there that was begun, which is all of the index unless reading it threw midway (`ReadyMeansLoaded`), and it comes to that unless a load fails, after which it never does (`ReadyUnlessFailed`) |
| `MCRegistries_failures` | on demand: 1 name, 3 gets, 2 loads | **refuted**: a failed load answers nobody, where `resources.h:45-47` promises a default `ResourceRef` |
| `MCGlyphAtlas` | 4 glyphs of 6 sizes in an atlas of 7 by 6 | `PlacedApart`, `FreeSpaceSound`, `NothingLost`, `GlyphsReadable`, `NoBleeding`, `ImplementsPacker` |
| `MCParts` | seven parts (sounds in two ways), one at a time, see below | programs and registries name the same locations (`LocationsAgree`), no shader is leaked but by the one handler that does (`ShadersReleased`); uploads reach their texture, with rows as given (`UploadsLand`); draws read what was asked for (`DrawsWhatWasGiven`); decoding stays in the samples, in the file too unless libvorbisfile leaves it, and is complete unless `ov_read` reports an error (`DecodesInBounds`); OpenAL buffers go with their sounds (`BuffersReleased`); Runtimes in a row (`RuntimesIndependent`); what is read through a pointer is the object or null, never deleted (`PointersSound`); splitting and joining mean what their definitions say (`SplitJoinRight`); what a build skips is fresh and has its inputs (`SkippedIsFresh`) |
| `MCParts_freed` | the pointers of `MCParts` | **refuted**: the block is freed (`self_nulling_ptr.h:88-89`); the count is compared before it is decremented, and never is zero there |

Some of these properties say where the code falls short, because the run shows
that it does so only there: `ShadersReleased` counts the fragment shader that
is lost when a geometry shader does not compile; `BuffersReleased` excepts the
sounds an emmiter displaced while its source kept their buffer;
`DrawsWhatWasGiven` excepts the vertices of a model that is updated while
another's vertex buffer is bound (`UpdateData` binds the vertex array only);
`RuntimesIndependent` excepts what a failed start of the audio or GUI system leaves;
`SkippedIsFresh` excepts an output that another command wrote or a kill cut short;
`PointersSound` excepts reads of pointers without a storage, `DecodesInBounds` what
libvorbisfile reads after it sought outside the file, and `DestructionEnds` and
`ImplementsAsyncLoads` the sounds that crash or hang. The hazards these are have no
property in `PROJECT.json`: nothing in the repository promises otherwise.

Modules keep a type invariant for their proofs and their readers.

`MCParts` explores parts that share no state and run on one thread at a time: a
behaviour chooses one of them (`part`) and moves only that. Interleaving
them would multiply states and show nothing more.

**Bounds.** The numbers of threads are what it takes for a signal to go to the wrong
one: two sleepers and a third thread that overtakes them. Three tasks on two workers
leave one in the queue while both work. Two sounds on two workers let one hang beside
one that is answered, and both hang beside a request that needs no worker. With four
events and a batch of two, a batch can be over and an off-by-one begin a third event.
Three Cores are one after a clean one and one after a failed one. Three gets let one
be served by a load, one join it, and one come from a callback. Three entries let two
callbacks of one resource come in either order, with another in between. `MaxLen`
bounds the queue of `BlockingQueue` in the guard of `Push`, `MaxCount` the count of
`SelfNullingPtr` (it only ever grows on copies; three pointers reach all combinations
before the bound). The atlas is full after three or four of its larger glyphs, so that
`MissGlyph` happens, and its sizes have perfect, edge, upright and flipped fits;
removal from the middle, at the end, with and without a counterpart, all happen in it,
as the mutants of `RemoveFreeRect` show. In `CoreLifecycle`, `Asserts` is "off", the
release build, in which a Core can be made after a failed one, and the integers are a
refused number of workers, none, and both sides of what spdlog refuses.

In `MCParts`: two attributes and two blocks under three binding points, with
registrations between two programs of which one is held; one shader failure, of any
kind; one renderer, one other model, one loaded texture and one atlas, so that every
upload and draw finds what another left; two sounds on two emmiters, with a file of
two bytes and samples of four, against integers of 4 bits, so that positions wrap, a
cursor up to three bytes from the start of the file (`MaxCursor`), and errors smaller
and larger than what was read (decoders share nothing, so one sound is explored with
every fault, "decoding", and two with none, "playing"); five Runtimes, of which two
leak a uniform binding each before the limit of two is met; three pointers and a count
up to 8; payloads and delimiters up to two characters of two, up to three payloads,
four pieces (an empty delimiter would give pieces for ever); two commands over two
files, which may be missing for a time, one edit of each and two seconds, which is an
edit before, during or after a run within one second or across two. The symmetric sets
are attributes and blocks, which nothing tells apart.

**Deadlock** is checked where the system runs for ever or ends in a state that
its module marks with a stuttering step (`BlockingQueue`, `WorkerPool`,
`Engine`). The others stop for good reasons: all events have run, all loads are
over, the atlas is full, all Cores have been made.

**Fairness.** A thread that can move does (weak fairness per thread, or per
group of threads that compete for one queue: a mutex does not promise which
of them wins, so fairness is stated of "some popper takes the item"). The owner
finishes what it has begun, and in `Engine` keeps going through its frames
until it leaves: that is the main loop's doing. A worker that is running a sound
comes to its end or crashes only if the sound can (`FinishSound` and `CrashSound` are
fair, and disabled on damaged data, where `Spin` is all there is); in `WorkerPool` every
task returns. Nobody is obliged to request,
queue, push, wake spuriously, or shut down. `FrameLoopSpec` adds that
the executor calls `executeAll` again and again, which is `Runtime::sync`.

## 4. What is proved

TLAPS proves these for all values of the constants.

| module | theorems | from |
|---|---|---|
| `BlockingQueue_proofs` | `TypeCorrect`, `NoLostWakeup`, `QueueImplementsChannel` | finite sets of threads |
| `WorkerPool_proofs` | `TypeCorrect`, `PillsAddUp`, `JoinDrainsQueue` | a finite, non-empty set of workers; the pill is no task |
| `EventQueue_proofs` | `EventQueueInvariant`, `NoLostWakeup`, `DrainsOnReturn`, `OverrunBounded` | a finite set of executors; `Free` is none of them |
| `Lifecycle_proofs` | `LifecycleInvariant`, `AlwaysALog`, `StartsClean`; `RuntimesAreIndependent` | 0 and 1 are among the integers; defaults pass their validators |
| `Engine_proofs` | `EngineInvariant`, `NeverTwice`, `InstanceIsThere`, `QuietAfterwards`, `EngineImplementsAsyncLoads` | a finite set of workers; kinds of requests apart; the pill is no request |
| `Registries_proofs` | `ReferencesCounted`, `RegistryOutlives`, `NoSecondInstance`, `NoSecondCall`; `CountExact`, `ReadyIsLoaded` | `None` is no load, `Nothing` no entry; finitely many entries |
| `Atlas_proofs` | the packer: `TypeCorrect`, `HandedOutOnce`, `FreeListSound`, `NoSpaceLost`; the fonts: `CachedGlyphsReadable`, `PaddingSuffices`, `DefaultScorerPacks` | a bin and sizes that are positive; images have pixels (`font.cpp` packs no others) and are packed with one pixel more each way |
| `Parts_proofs` | the build: `SkipsOnlyFresh` | commands read known files; files have times finer than a second |
| | pointers: `CountSound`, `PointersAreSound` | finitely many pointers |
| | sounds: `DecoderInBounds`, `NoBufferLeaks` | sizes are natural; `size_t` holds them; error codes are integers |
| | drawing: `UploadsAlwaysLand`, `DrawsAreRight` | glyphs are narrower than an atlas, whose width is a multiple of 4; names of different things differ |
| | programs: `RegistriesAgree`, `ShadersAreReleased` | OpenGL has a binding point; `Unset` is no location, buffer or binding |
| | strings: `SplitJoinIsRight` | |

*No lost wake-up.* `WakeupCovered` relates two counts: while somebody sleeps,
there are at least as many threads on their way to the queue (poppers that will
test it, pushers that still owe a notification) as items in it. With the
type invariant it is inductive; each action moves at most one thread from one
set to another, and the lemmas about cardinalities say what that does to
the counts. That every step maps to a step of `FifoChannel` or a stutter
follows action by action.

*The shutdown drains the queue.* `DrainedWhenJoined` alone is not inductive: it
says nothing before the joins are over. `DrainInv` adds where an early task can
be (run, running, or in the queue), that none is behind a pill, that none is in
the queue once a worker has exited, and that there are neither pills nor exited
workers before the shutdown. `PillsAddUp` is the other half: pills in the
queue and exited workers always add up to the pills pushed, so every worker gets
one.

*The event queue.* `WakeupCovered` again relates the queue's length to the
executors awake, and is inductive with the types, since testing the queue and
going to sleep are one critical section. `DrainedOnReturn` needs to know where an
event is: `OwedAccounted` says that whatever was queued is in the queue, has run,
or has been taken by an executor that is running it, and that an event is queued
only once, so it does not come back into the queue after the call found it
empty. `BatchAccounted` bounds the overrun by the batch count while the loop
goes on: the predicate stays true once it is, so the batch in which it
becomes true is the last.

*Cores in a row.* `ThreadsPlaced` says in which places of the constructor and the
destructor there may be threads, and that they have a log there. The hard case is
the filesystem thread that a failed constructor leaves running: what keeps its log
is that the logger's name is taken, so that no later constructor gets past
`InitLogging`. `Undone` lists, place by place, what a Core has set up and not yet
taken down while none has failed.

*The engine.* `InOnePlace` adds up the places a request can be in, grouped as the
queues, the hands of threads and where it ends; every action takes a request from one
and puts it into another. It needs to know what is left of the Core at each stage
of its destruction (`OwnerAndCore`), and that the filesystem thread's pill is the
last thing its queue ever gets (`StopLast`): only the owner pushes it, and by then
the workers have exited and nobody else requests. `QuietWhenDown` follows, since no queue
and no thread is left for a request to be in. The same facts say of each
step which step of `AsyncLoads` it is, or that it is a stutter: a worker that pops a
sound which will hang is a `Hang`, a crash is a `Close`, and no more requests hang than
there are workers, since each keeps one.

*The on-demand registry.* `RefsCounted` equates the count of references with
the map's share, the operations that hold a closure and the events that do, a
cardinality of each. `OneLoad` says that at most one load of a name is under way,
that while it is nothing else of its name is alive, and that the cache has
what is alive. `CallsCounted` follows each callback to the one place where it
waits, through the list that is being delivered, which may be extended meanwhile.

*The preloaded registry.* `PlInv` adds to the types that an entry is loaded only
after the index named it, and that the count of pending loads is the number of loads
begun and not delivered, wherever the index threw. A count of zero then leaves no entry
outstanding that was begun.

*`self_nulling_ptr`.* The count is at least the number of its users plus the
object's share. It is no equation, since assignments never release what the
pointer had; but every decrement takes the share of somebody who was counted, so
it is positive when compared, and no path to `delete` is ever taken. What is read is
then decided by the block's target, which follows the object (`TargetFollows`).

*The packer.* Lemma `Removed` says, for every entry of the list after
`removeFreeRect`, which old entry it is (`Origin`: itself, or the last one in the
place of the target) and what has become of it (`Cut`: shrunk, told a new
index, or untouched). `RemovedSound` and `CutFacts` derive from it that indices
point at each other again, that only counterparts overlap, that nothing
overlaps the target any more, and that no cell is lost but to the target.
The remainders lie inside the target (`RemainderFacts`, `Added`), which is why
the three invariants together are inductive (`PackStep`). Since `RectPacker`
allows any scorer, and `DefaultScorerPacks` proves that the default one is among
them, this covers the packer as the atlas uses it.

*The default scorer.* `ChooseSlot` is a fold over the free list, so what it
returns is found by induction on the position in the list. The library's
induction theorems take an operator, which no prover here instantiates;
`InductionOnNat` states the principle for a set of numbers instead and follows
from strict inclusion being well founded on finite sets (`LeastOfNat`).
`FoldExists` gives the fold its equations, `ConsiderFinds` says what one slot
changes, and `ChooseSlotFinds` that the result fits, and is perfect if any slot is.

*The fonts.* `FontInv` relates three things: the rectangles that were handed out,
the glyphs in the cache and the pixels of the texture. Every cached glyph has
a rectangle of its own (`GlyphsHandedOut`), two glyphs' rectangles are apart with
their padding (`GlyphsApart`, from `HandedOutOnce`), the inner part of each is its image,
flipped or not (`GlyphsDrawn`), and every other pixel is blank
(`NothingElseDrawn`). So a glyph reads back through its corners what was drawn, and
a filter that reaches one pixel beyond them finds blanks.

*Runtimes in a row.* `SystemsInv` says place by place which of GLFW, the window, the
audio and the GUI are up. Without a failed start of the last two, whatever a
constructor leaves behind is what the next one finds at its first line.

*The build's cache.* A skipped output is fresh because of what was true when it was
made: its versions are current, or were edited after the stamp of the cache
(`OutputKnown`), so that the next check sees the edit. `ToolReads` says the same of what
a running tool has read, for an edit may come between two of its reads. Where times
are whole seconds this fails, for an edit within the second of the stamp is not
seen to be later (TLC finds such a run with `FineTimes = FALSE`); hence the
assumption.

*Sounds.* `DecodeInv` says of each decoder that what is wrong with it is on record
(`Recorded`): the cursor is in the file unless libvorbisfile sought outside it, so that
`decode_read` cuts to what is left without wrapping around; `bytes_read` is within the
samples unless an error was added to it, and `ov_read` is asked for no more than what
is left, whatever it returned before; so the loop ends with all of them written, or
with an error on record.
`BufferInv` lists who refers to whom: what an emmiter plays is ready, what is ready
has its buffer, and a source keeps the buffer of its emmiter's sound or of one
that was displaced. Deletion fails only for the latter.

*Drawing.* `gl` stays in `Contexts`, in which a row length is at most an atlas's
width: it is what an upload of a glyph leaves set, and it must not make the
next upload read past its data. A quad's indices are part of its vertex array
(`QuadsKeepIndices`), so no binding of another model can change them.

*Programs.* `RegistryInv`: a buffer is bound, if at all, at the location of its block.
`ProgramInv` follows one construction: the locations asked for are those registered
from "relink" on, those linked are those asked for from "blocks" on, and bindings are
the latest of their names. What is registered later only adds, so a finished program
stays right. `ShaderInv` counts shader objects, by kind, as what the construction
holds and what the handler for geometry shaders has lost.

*Splitting and joining.* What `FlattenSeq` has flattened up to a payload
(`Joined`) is given by the payload before it (`JoinedIs`, by the same kind of
induction). The joiner has been read, at each of its places, what is joined
before that place (`HasRead`); sanitizing moves only over empty payloads with an
empty delimiter, which add nothing (`JoinedSkips`). The splitter's piece goes up
to the first delimiter from its start, and what is before the piece is the
pieces so far, joined, with a delimiter after each (`SplittingAt`).

Every safety invariant that section 3 names has its theorem, and so has the
safety part of each refinement. Only model-checked: liveness and fairness
(`FifoChannel`'s and `AsyncLoads`' included), since TLAPS has no way to reason about
ENABLED and fairness here. The runs that expect a violation refute what the
documentation says, and have nothing to prove.

## 5. What is not modelled

- OpenGL, OpenAL, GLFW, Cap'n Proto and the other libraries: external. What this code
  relies on of the first two is in `Programs`, `Drawing` and `Audio`, as operators
  that `PROJECT.json` marks external.
- Memory blocks (`DataBlock`, `DataView`, `ReadBuf`): value types whose behaviour is
  pointer and size arithmetic; tokens in `Engine`.
- Math and colours: floating point (`angle.h` is included by nothing).
- Widgets, layouts, canvas and viewport: computed anew each frame, no state from
  call to call beside what `Drawing` has of the renderer.
- Blending and clear flags, named uniform buffers: one call of OpenGL each.
- `file::write`: a synchronous copy to a stream; the cache of scaled fonts and
  the metrics of text: values of stb_truetype.
- Exceptions out of a task or of a handler: the process ends.
- Callers that let events queue themselves for ever.
- Undefined behaviour that goes on in other ways than those modelled: a read outside
  of a sound's file and an assignment without its return work or end the process.
- Time: no code here has a timeout. `BuildCache` has the clock that stamps files.

`PROJECT.json` lists each part with its status, and under "hazards" what
no property covers, with the reason.

## 6. Plan

Done: the queues and workers, the engine with its shutdown and its abstract
promise, Cores and Runtimes in a row with the settings they are made from, both
kinds of registries, `self_nulling_ptr`, the packer and the atlas, programs and
drawing, sounds, splitting and joining, the build's cache; theorems
about the modules of section 4.

What is left, the most important first:

1. The two registries under one `ResourceRegistry` on the threads of `Engine`,
   in place of loads that end in any order.
2. The cache of scaled fonts, as a user of `GlyphAtlas`.

## 7. Running

In this directory, `tlc -config MCEngine.cfg MCEngine` checks a run (`X.cfg` and
`X_y.cfg` belong to module `X`), and `tlapm Atlas_proofs.tla` checks proofs.
The longest runs are `MCEventQueue`, with 3.2 million states, and `MCParts`, with
1.9 million; `MCEngine` has 147 thousand, `MCRegistries` 40 thousand.
