# libKore in TLA+

libKore is a C++/Qt 4 library: a tree of *blocks* that describe themselves
through *meta blocks*, *modules* that bring meta blocks in, *tasklets* that run
on threads of a pool, a binary format for trees of blocks, and some utilities.
There are no tests in the repository, and most of its documentation is in the
comments of the headers. This directory holds TLA+ models of the parts where
state is shared, order matters or steps can fail, the TLC configurations that
check them, and proofs for TLAPS.

`PROJECT.json` maps each definition to the lines it models and lists the runs,
the hazards and the findings.

## Inventory

| part | state | operations | what is hard | what makes it correct |
|---|---|---|---|---|
| `parallel/Tasklet`, `TaskletRunner`, `KoreEngine::RunTasklet` | `_state`, `_waitMutex`, `_waitForFinished`, posted events | run (synchronous or in a pool thread), `runnerStarted/Progress/Canceled/Failed/Completed`, `cancel`, `waitForFinished`, `customEvent` | several threads write `_state`, only some under the mutex; events are delivered late; the mutex stays locked between two calls | runs exclude each other; waiters return, and only after an end; started, progress, ended come in order |
| `data/Block`, `data/Library` | list of blocks, parent pointer, index, flags | `addBlock`, `insertBlock`, `removeBlock`, `swapBlocks`, `moveBlock`, `destroy`, `clear`, `findChildren`, `totalSize` | each operation goes back and forth between two objects; slots run in the middle of a destruction | lists, pointers, indices and signals agree at every moment a slot can look |
| `plugin/Module`, `data/MetaBlock` (counting) | instantiators, loaded meta blocks, one atomic counter per class | `registerLoadable`, `load`, `unload`, `instantiate`, `destroyBlock`, `ref`, `deref` | counter accesses are repeated and race; load may fail half-way | no block outlives its meta block; the counter is right; a failed load leaves nothing |
| `serialization/KoreV1` | device, recursion | `deflate`, `inflate` | a callback may stop each step; results of children are ignored; records have no end mark | what loads successfully is what was dumped; failures leak nothing |
| `serialization/Dumper`, `Loader` | file header | write before and behind the records, read, `isValid`, `inflater` | byte order of two hosts, files that are cut | the header reads as it was meant, or the file is refused |
| `memory/SimpleMemoryManager` | heap | `mAlloc`, `mReAlloc`, `mFree`, and the aligned `mAlloc_a`, `mReAlloc_a`, `mFree_a` | pointer arithmetic, hidden word before a block | blocks are aligned and apart, free gets what malloc gave |
| `KoreEngine` registry, `MetaBlock::library` | two hashes, list of modules, cached super classes | `RegisterMetaBlock`, `UnregisterMetaBlock`, `GetMetaBlock`, `RegisterModule`, `CreateBlock`, `superMetaBlock` | ID collisions, lookups in the middle of a change, caches | the hashes agree with the loaded modules |
| `data/BlockExtension` | registrations on both sides | register, unregister, both destructors | either side may go first | no dangling pointer |
| `parallel/MetaTasklet` | sorted runners | register, unregister, `bestRunner` | scores may tie | first is best |
| `plugin/PluginsManager` | list of plug-ins | `loadPlugins`, destructor | the loader gives one object per file | each plug-in is deleted once |
| `KoreApplication`, `KoreModule`, the module macros | root, data and internal libraries, static instances | static initialisers, start, shutdown | order of initialisers, order of destruction | each module once; blocks go before what destroys them |
| `KoreEngine::Error`, `event` | posted events | `Error`, `customEvent` | any thread may report | each error once, in order, on the engine's thread |
| `util/CRC32` | table | `HashString` | width of `unsigned long` | equals the CRC-32 of the standard |
| `system/CPU` | feature flags | constructor, getters | bits of registers, two builds | the flags say what the processor has |
| settings, properties, icons, `LibraryT`, build files | none of their own | | | |

How they interact: `RunTasklet` calls a runner, on the caller's thread or on one
of `QtConcurrent`; the runner calls the Tasklet; the Tasklet talks to its own
thread through Qt events. Modules are libraries of meta blocks; adding a meta
block to a module registers it with the engine, which `inflate` asks for the
class of each record. The static initialisers of a library, which run when the
program starts or when the `PluginsManager` opens it, fill the modules; the
application's root library owns the engine, which owns the modules. `destroy`
gives an allocated block to its meta block, which deletes and un-counts it.

## Modules

**Tasklet** — one Tasklet and all threads that touch it. A step is one access to
shared state: `MarkRunning`, `LockForRun` and `AnnounceStart` are the three
statements of `runnerStarted`; `EndRun`, `PostEnd`, `WakeOne`, `UnlockRun` those
of `runnerCanceled/Failed/Completed` (`EndRun` with `handler` on the Tasklet's
own thread, where the event is handled at once). `run[t]` and `wait[t]` are
program points. The queue of posted events keeps Qt's rule for priorities: the
start and the end of a run go before progress, but behind what the dispatch in
progress covers (`batch`). `"Release"` is the system event whose number is that
of the state `Canceled`. `alive` becomes false when an automatic deletion
happens, and nothing is enabled any more: what the code does then in freed
memory is not modelled. A synchronous run on a thread other than Main and an
asynchronous one differ only in who executes them.

**TaskletPromise** — what the signals of a Tasklet look like from outside, for
any number of runs, on any threads, and any cancels. `Tasklet!PromiseKept` states
that a Tasklet implements it, with what it is about to tell (`handler`), `_state` and
the signals emitted as the mapping. As `ended( _state )` reads `_state` again,
after it was set for the event and outside of the mutex, the promise says who may
have written it in between: a cancel, the start of a run, the end of one.

**TaskletProofs** — the theorems about Tasklet.

**BlockTree** — `tree` is a record of all lists, pointers and indices. As the
operations consist of nested calls without a point where others may act, each
call is a function from tree to tree, nested as in the code: `AddBlock` calls
`SetIndex` and `SetLibrary`, which may call `RemoveBlock` of the old library.
`seen`, `placed` and `mirror` are what listeners of the signals know.
Destruction is a stack of calls, with steps between which the program does what
it likes: `blockDeleted`, `clear` and `removeBlock` all call slots.
What a slot may do is a client discipline, stated where it is assumed: it makes
no cycle, it uses no block that is being destroyed, it does not destroy what
contains a block under destruction (the code would destroy it twice), and it
does not call `clear`. Slots of the other signals, in the middle of
an `addBlock` for instance, only listen. `FindChildren` and `TotalSize` search
the tree as it stands.

**BlockTreeProofs** — the theorems about BlockTree.

**ModuleLifecycle** — one module, its meta blocks' counters, and threads that
create and destroy instances. Each access to a counter is a step, repeated while
`QAtomicInt` answers that the counter came out as zero. Load and unload
happen when no thread is in the middle of a creation; nothing in the code keeps
the two apart (see the hazards).

**ModuleLifecycleProofs** — the theorems about ModuleLifecycle.

**KoreV1** — the source tree is chosen at the start, then dumped and loaded;
the stack holds the recursion, `device` the records. The answers of the
callback are free at each call. A property is a name, whether it is stored, and
whether its value is set on loading; the cache of property hashes of a meta
block is computed as `createPropertiesCache` does it. The device may be cut
after any record or inside of one: `Cut` says what `QDataStream` reads then.
Behind the last record comes the header that the Dumper repeats, or the end
of the device, which reads as zeros; neither is the ID of a class.

**KoreFile** — KoreV1 with the file header around it. A word of the header is a
number and whether its bytes are the other way round, so the swaps of
`FileHeader`, `Dumper` and `Loader` on hosts of either byte order show. `Open`
reads the header, whole or cut, and goes on with `inflate`; `Refuse` is the host
that finds it not valid or has no inflater for its version.

**KoreFileProofs** — the theorems about KoreV1 and KoreFile.

**Registry** — the two hashes of the KoreEngine, the meta blocks that modules
bring in and take away, the extensions registered with them and the runners of
those that are MetaTasklets. Everything is one thread, but not one step: between
two steps of a meta block on its way in or out, slots of the signals run client
code, so extensions and runners may come and go at every such moment. `step[m]`
says how far a meta block is: asked for (`made`), in the list but not yet in the
hashes (`entering`), `loaded`, in a slot of `blockDeleted` or `removingBlock`
(`leaving`), out of the list (`removed`), out of the hashes (`unregistered`),
`deleted`. IDs are hashes and may collide; names are unique, which the code
asserts. Where ModuleLifecycle says when a module loads and unloads, Registry
says what each meta block does to the engine then; any module may be cleared at
any calm moment, which covers both a failed load and `unload`. Two disciplines
are assumed of clients: an extension is registered once with a meta block
(asserted in the code), and nothing is registered with a meta block in a slot of
its module's `blockRemoved`, when it has already cleared its extensions.

**RegistryProofs** — the theorems about Registry.

**Application** — a program around Registry: its steps are those of Registry, each at
the moments when a program takes it, or leave the registry alone. In `stage` "static"
the initialisers of the modules and their classes run in any order within a library,
libKore's first; `Construct` to `Constructed` is the constructor of KoreApplication,
which loads libKore's own module between the two libraries it makes; while "running" a
host opens plug-ins (their initialisers run in one go), registers, loads and unloads
modules, and makes and destroys blocks; `Close` calls the destructor, which takes the
root library down from its last child to its first. Slots run clients at every moment
the registry lets them. Any module may be unloaded, also one with super classes of
classes that stay. Clients are assumed to keep some disciplines, each stated where it
is used: they load only modules that the engine lists; they create no block in the
middle of a `clear`, nor when the data library is gone; blocks kept out of the data
library are destroyed before their class; the KoreApplication is made on the main
thread, once. `unloaded`, `order` and `came` are history: what hosts unloaded, and in
which order modules and classes came.

**ApplicationProofs** — the theorems about Application.

**AlignedMemory** — a heap of cells in which malloc and realloc choose any place
that is free and aligned; cells remember what was written to them. Alignment 0
stands for the plain functions. What one family allocates, the other does not free.

**CRC32** — words are sets of bits, of 32 or 64 bits (`LongWidth`). `One(n)` is
the int `1 << n`, with its sign. The table is built as `initialize` does it, and
a string is hashed byte by byte. `Crc` is the definition of the standard, one bit
at a time without a table. The first string is hashed by one thread alone: two
would build two instances.

**CPU** — what cpuid answers on processors of each generation, and which bits of
which register both builds take for which feature.

**Errors** — threads that call `KoreEngine::Error`, the engine's queue of events
and `customEvent`, with other events among them.

**Plugins** — managers that load a directory, one after the other, each as often
as a host asks it to; entries may be plug-ins, other libraries, links or no
libraries, several may lead to one file, and they may be gone when their turn
comes. The destructor crashes on an object that is listed twice.

**UtilitiesProofs** — the theorems about AlignedMemory, CRC32, CPU, Plugins and
Errors.

**RecursionLemmas** — no code: that recursive functions, iterations, folds and
maxima are what they seem to be. BlockTreeProofs, UtilitiesProofs and
KoreFileProofs rest on it.

The `MC*` modules give small values to the constants.

## Runs

| run | configuration | bounds | what it shows |
|---|---|---|---|
| `tasklet_runs` | `MCTaskletRuns` | three programs, both modes: one run, cancels by Main and a client, a waiter without timeout, 1 report; two runs on Main and 2 workers, two waiters, one of them with a timeout; two runs, also on a client, with such cancels and 1 report. 2 waits at most | the signals follow the promise whatever is canceled when, ended never overtakes started, runs exclude each other and the waiters, `waitForFinished` is honest, a timed wait returns, no wake-up is lost |
| `tasklet_late_cancel` (violation) | `MCTaskletLateCancel` | 1 worker, cancels by a client, 1 run | ended() says Aborted of a run that completed |
| `tasklet_cancel` (violation) | `MCTaskletCancel` | 1 worker, 1 run | ended() is missing after an asynchronous cancel |
| `tasklet_wait` (violation) | `MCTaskletWait` | 1 worker, 1 run, 1 wait | a wait that falls between the end of a run and its events never returns |
| `block_tree` | `MCBlockTree` | 2 libraries (nested or not), 2 blocks, one of them not deletable | lists, pointers, indices, signals and deletions agree, destruction ends |
| `block_reparent` (violation) | `MCBlockTreeReparent` | the same, with addBlock of blocks that have a library | the index is lost |
| `module_lifecycle` | `MCModuleLifecycle` | 3 classes, each may fail to load, 4 instances, one possibly permanent, 2 threads, drift of at most 3 | no instance outlives its class, counters are exact beside a permanent instance, failed loads leave nothing |
| `module_unused` (violation) | `MCModuleUnused` | 1 thread | an unused class cannot be unloaded once it was used |
| `korev1_round_trip` | `MCKoreFile` | all trees of 4 blocks, any flags, at most one class that fails, in any of three ways, any answers of the callback, the file cut anywhere or not, both byte orders on both sides, three headers | a load that succeeds yields the whole tree, or that before the cut; complete dumps load; nothing leaks; the header is read as meant |
| `utilities` | `MCUtilities` | memory: 2 users, sizes 1 and 3, the plain functions and alignments 1, 2, 4, pointers of 2 cells, 16 cells; hash: all strings of up to 3 letters out of 4, and "123456789"; processors of 7 generations, with and without what varies; errors: 2 threads, 3 errors each; plug-ins: 5 entries, of which one is a link to another, 2 calls of loadPlugins | blocks are aligned and apart, chunks are found again, data is kept; the hash is the CRC-32; features are those of the processor; errors are heard once, in order; plug-ins are deleted once unless one is listed twice |
| `hash_on_64_bits` (violation) | `MCHashOn64Bits` | the same, with longs of 64 bits | the hash is not the CRC-32 |
| `application` | `MCApplication` | libKore with 2 classes and a plug-in with 1, which shares an ID with one of these; 1 extension, 2 runners with different scores, 2 blocks. Or libKore and two plug-ins with 1 class each, with a super class in the other plug-in and one in the same module, and no blocks, extensions and runners | what is found is alive and what was asked for, what is loaded is found, registrations agree on both sides, the best runner is the best; modules are listed once; blocks keep their meta blocks; super classes go before their sub-classes only where a host unloads them or where they came later; the shutdown ends |

Why the bounds are enough to be interesting: two runs at once are what it takes
for one run to overwrite the state of another or to contend for the mutex; a
second client is what a synchronous run off the main thread needs, and a thread
besides the main one that cancels does so in the middle of an announcement. Two nested
libraries and two blocks give re-parenting, siblings to re-index and a recursive
destruction with a slot in between. Two threads are what it takes to race on a
counter, and a drift of 3 lets a race happen several times. Four blocks are enough
for a grandchild with an uncle before or after it. The heap has room for two
blocks with the worst alignment, and sizes below and above it. A letter with the
sign bit, one with only the lowest bit and three positions reach each byte of the
sum. A plug-in beside libKore gives a collision of IDs across modules, a module
that comes and goes while another stays; two blocks and one extension give a
destruction with something left to destroy. Three modules are what it takes for a
super class to be in a module that is neither libKore nor the class's own, and
two classes in one of them for an order within; blocks and extensions make no
difference to super classes. Where the product of all bounds is too large, a run takes
several programs with bounds of their own (`program`; `unit` in `utilities`).

Runs end where the bounds say so; those configurations switch the deadlock check off.
`module_lifecycle`, `module_unused`, `utilities`, `hash_on_64_bits` and
`application` never stop (a program that has ended, and an idle event loop,
stutter explicitly) and are checked for deadlock. The units of `utilities` share
nothing, so each behaviour exercises one of them.

### Findings

`tasklet_late_cancel`: `ended( _state )` reads `_state` again after it was set, so a
cancel by another thread in between makes it say Aborted of a run that completed
or failed, where the header promises the state at the end.
`tasklet_cancel`: `runnerCanceled` posts `Canceled` instead of `CanceledEvent`.
`tasklet_wait`: a late `StartedEvent` turns a finished Tasklet back into a
running one. `block_reparent`: `addBlock` loses the index of a block that comes
from another library. `module_unused`: `deref` takes the counter to -1 when the
last instance goes.
`hash_on_64_bits`: CRC32 relies on longs of 32 bits.

Met on the way and not checked by a run of their own:
- reallocation with an alignment above malloc's moves the data inside the block
  (`DataIsKept` excludes it);
- an automatic deletion may destroy the wait mutex while the runner has yet to
  unlock it, also in a synchronous run on the main thread; progress() may come
  after ended();
- a second `loadPlugins` of a manager, or two entries that lead to one plug-in, list an
  object twice, and the destructor deletes it twice (`PluginsAreDeletedOnce` says that
  nothing else does);
- `superMetaBlock` keeps what it has found and is never reset: when a host unloads the
  module of a super class, or when at the end that module goes before the one of the
  sub-class, the pointer dangles (`SuperIsAlive` says that nothing else does);
- a load that the callback stops at a child adds a null block and crashes (the
  code says TODO at KoreV1.cpp:207; phase "crashed" of KoreV1);
- the end of one run of a Tasklet, delivered while the next run works, makes
  `keepRunning` false for that one: it stops although nobody canceled;
- a file cut in the record of the root loads as that root alone;
- the default header of a big-endian host is swapped twice and such a file is
  refused (`HeaderIsAsMeant` excepts it);
- CPU: 3DNow is read from the bit of leaf 1 that says PBE, the leaf 0x80000001 is
  asked without a look whether it exists, the vendor string is empty, the number
  of processors is never written, and the assembler does not say that cpuid
  overwrites ebx.

One that looks like a fix is
not: letting `canUnload` accept negative counters would unload modules in use,
because the races between `ref` and `deref` make the counter negative while
instances exist (the mutant of `InstancesKeepTheirMetaBlock`).

## Fairness

`Tasklet!FairSpec` assumes that the scheduler runs each thread (`Library(t)`),
the pool starts each queued job, the event loop is run, and that a runner
does not work for ever (`RunnersEnd`). Nothing else is fair: the application
need not call anything, a runner need not report progress, and locking is only
weakly fair. `BlockTree!FairSpec` assumes that slots return, so that a
destruction in progress goes on. `Application!FairAppSpec` assumes that a call in
progress goes on: constructors, destructors, loading and the slots they call
return. A slot that makes new blocks in the data library for ever would keep its
`clear` busy, so `ShutdownEnds` starts when that library is gone; nothing is
assumed of hosts and clients. The other specifications are used for safety only.

## Proofs

`TaskletProofs`, for any sets of threads and any bounds, under the assumptions
`ThreadsAssumption` and `ParametersAssumption` of `Tasklet`:

- `TypeCorrect`: `Spec => []TypeOK`. The one non-trivial part is that `batch`
  never exceeds the length of the queue; `PostHighType` and `TakeEventType` are
  the lemmas about Qt's insertion and removal.
- `Serialised`: `Spec => []RunsAreSerialised`. The invariant alone is not
  inductive: it says which program points hold the mutex, and a thread that was
  inside of a run and of a wait at once could give the mutex away twice.
  `MutexInv` adds `NeverInBoth`; `MutexStep` has one case for each action.
- `WaitIsHonest`: `Spec => []WaitTrueMeansEnded`. As long as no run was decided,
  `NothingSaysEnded` keeps the state unfinished, no end event in the queue and no
  thread woken up; `NothingSaysEndedStep` proves it, using
  `DecidedAtEndStep` (a run past its body was decided).

`RegistryProofs`, for any modules, classes, extensions, runners and scores,
whatever IDs collide, under the three assumptions of `Registry`:

- `TypeCorrect` and `ExtensionsAgreeAlways`. The type of the lists needs
  `OnItsWay`: a meta block that is leaving is in the list of the module being
  cleared, as `RemoveOne` of anything else is not a list. `RemoveOneProperties`
  and `SortType` are the lemmas about the two sequence operators.
- `LookupsAreLiveAlways`, `ListedIsFoundAlways`. These need to know that no
  meta block is listed twice, nor waits to be loaded while it is listed:
  otherwise the removal of one would take the other's entry away. `ListsAreApart`
  says so, in four parts: what waits is new, what is listed is on its way or
  loaded, and each of the two lists has no repetition, within a module or across
  modules. `SameLists` covers all the steps that touch no list.
- `BestRunnerIsBestAlways`, from the order that `Sort` leaves, whatever it does
  with equal scores.

`ApplicationProofs`, for any modules, plug-ins, classes, super classes and blocks,
under `ApplicationAssumption` and the assumptions of Registry:

- `AppTypeCorrect`, with the type of Registry.
- `AppImplementsRegistry`: every step of a program is a step of Registry or a
  stutter, so what RegistryProofs shows holds in programs (`AppSpec => Spec`).
- `EachModuleOnceAlways`: what is listed has an object, and a module is listed only
  when its object is made, or by a host that sees it is not.
- `BlocksKeepTheirMetaBlockAlways`. The counts may be wrong, but `Ref` and `Deref`
  skip zero, so the count of a class is not zero once a block of it was made
  (`BlocksAreCounted`), and `Unload` clears no class in use (`ClearedIsUnused`). The
  modules are cleared at the end only when the data library, the last in the root
  library (`DataIsLast`), is gone. `Keeping` is the conjunction; its step rests on
  `ListsAreApart` and `LookupsAreLive` of RegistryProofs.

`ModuleLifecycleProofs`, for any meta blocks, instances and threads, without
use of the bound on the drift of the counters:

- `TypeCorrect`; `FrontProperties` is the lemma about the list that `clear`
  shortens.
- `LoadsAllOrNothingAlways`, from `WholeOrEmpty`, which says the same also of
  the checks in `unload`.
- `InstancesKeepTheirMetaBlockAlways`. The counters may be wrong, so the proof
  cannot rest on what they count. It rests on `ZeroAtRestMeansUnused`: as `ref`
  and `deref` repeat an access that comes out as zero, a class whose
  counter is zero while no thread is at it has no instances.
  `SafeToClear` carries that through the loop of `unload` (what was asked has no
  instances) and through a failed load (a module that can be loaded has none),
  and `WholeOrEmpty` links the two.

`UtilitiesProofs`:

- `PluginsAreDeletedOnceAlways`, for any finite directory, any links in it and any number
  of calls of `loadPlugins`. That what exists is just what is listed is no matter
  of how often; that an object is listed once is (`ListedOnce`): in a first call, and
  where no two entries lead to one plug-in, what is listed comes from an entry that
  was visited before, so the entry at hand leads to another file.
- `ErrorsAreHeardAlways`, for any threads and any number of errors. `HeardUpTo`
  says which posted and emitted errors are the first and the last of each
  thread, position by position; the engine's own thread never posts one.
- `BlocksAreApartHolds`, `ChunksAreFoundHolds`, `DataIsKeptHolds`, for any heap, users,
  sizes and alignments, and any sizes of a pointer and a ksize, under
  `MemoryAssumption` and `RequestAssumption`. In `MemoryInv`, chunks are apart
  (`ChunksTyped`), each block has a chunk of its own and each chunk a block
  (`OneToOne`), and `LiesIn` says how a block lies in its chunk: where rounding up
  from the base plus a pointer leads, with the address of the chunk in the word
  before. The lemmas are about rounding up (the block and the word before it fit),
  and about a write in one chunk that leaves the others alone. That there are as
  many chunks as blocks needs a bijection (`AsManyChunks`).
- `HashIsCrcHolds`, for strings of any length, one after another. `SumIsRegister` says
  that after each byte the sum is the register of the definition, which takes in one
  bit at a time and has no table. `ReflectIsMirror` is about `reflect`, `TableHasCodes`
  about `initialize`, which shifts the other way, and `ByteByTable` shows that one entry
  of the table does what eight bits do: by `BitKeepsAgree`, after each bit the
  register is the mirror image of the entry in the making, exclusive-or what is not
  yet shifted out of the rest. There are two hypotheses. `LongWidth = 32` is needed: with
  longs of 64 bits the run `hash_on_64_bits` refutes the property. That `NoHash` is no
  word is about the model alone; it is not an ASSUME of `CRC32`, since TLC
  does not compare a model value with sets of sets.
- `FeaturesAreHonestHolds`, for both builds: `CpuInv` says that the basic features
  are right as soon as leaf 1 was asked, and that nothing is enabled before its leaf;
  `RegisterBits` says which bits of a register cpuid sets.

`BlockTreeProofs`, for any blocks and libraries, nested in any way, any number of
nested destructions and whatever slots do in the middle of them:
`TypeOKHolds` (with: no list is accessed outside of its bounds),
`TreeIsConsistentHolds`, `SignalsAreAccurate`, `MirrorIsAccurateHolds`,
`InsertionIsAnnouncedHolds`, `DeletedIsForgottenHolds`. All of them have the hypothesis
`"addBlock" \notin Reparent`, which is that addBlock is given no block that still
has a library: with such a block the code does lose the index, as
`block_reparent` shows, so that without it the theorems would be false. insertBlock
may move blocks from library to library as it likes. The invariant
`BlockTreeInv` has three parts. `Sound(tree)` is about the tree and the signals;
each of removeBlock, insertBlock, addBlock, swapBlocks and moveBlock keeps it, which
are lemmas about the operators (`RemoveBlockKeeps` and so on) that rest on
lemmas about removing, inserting and moving in a sequence, position by position.
`StackFits` says what each destruction in progress may rely on when a
slot returns: its block is flagged, and from some point on has left its library.
`DeletedLeftNothing` is about what is gone.

`BlockTreeProofs` also has theorems about what goes up and down the tree, with the
same hypothesis:

- `NoCycleHolds`: no library is ever inside of itself. The code does not check
  that, and hands it to its callers: the model has a call put a library only where
  it is not below itself *at that moment* (`Above`). What is proved is that this
  suffices for ever: no other operation, nor a destruction half-way, makes a cycle.
  `NoCycle` asks for ranks that grow on the way down; `EnteringMakesNoCycle` makes
  new ranks when a block with all that is in it enters a library. As libraries are
  finite, each way up ends within as many steps as there are libraries
  (`WayUpIsShort`), and what `Above` computes is all of it (`AboveHasWayUp`).
- `SearchesAreExactHolds` and `QueriesAreExactHolds`: `findChildren` with any class
  and depth, and `totalSize`. First, that the recursions end: `HeightsExist` gives
  each library a number above those of its blocks, so there is a function that does
  what the code says (`FindExists`, `SizeExists`). Then, by induction on heights, that
  its values are right: what is in different blocks of a library has nothing in common
  (`KidsAreApart`), so nothing is found or counted twice, and what is in a library is
  in one of its blocks, one level less down (`WithinOneKid`). The loops over a list
  are described position by position (`IsGathering`, `IsCounting`). `Blocks` is
  assumed to be finite, as a count needs it.

Induction over data has no rule in the prover that these proofs could use. They take
the least number, or the least height, at which something fails (`LeastNumber` of
`RecursionLemmas`), and show that it does not fail there. What a recursive definition
computes is a CHOOSE, of which nothing is known until a function of that kind is shown to
exist; `IterationExists`, `FoldExists` and `RecursionExists` show that.

`KoreFileProofs`, for any tree, byte orders, headers and cuts:
`HeaderIsAsMeantHolds`. `WordsSurvive` and `HeadersSurvive` follow a word through the
swaps of both hosts. A header that was cut may look valid, so the invariant also
says that such a file has no records, and that without records inflate never returns
Success (`NothingToInflate`).

The theorems about what inflate makes of the records hold for any number of blocks,
any tree, flags, answers of the callback, failing classes and cuts, under
`SizeAssumption`: `SuccessMeansWholeHolds`, `CompleteDumpLoadsHolds`,
`NothingIsLostHolds`. Their invariant, `V1Inv`, has four parts:

- `DumpInv`, while deflate runs. `Ordered` says how records follow each other: a
  parent before its children, a child before its later siblings, and nothing between
  a parent and its child but what is below that parent. `DumpCallIsLast` is why the
  next record keeps that order, and `DumpGoesOn` why nothing is left out unless the
  callback stops the dump.
- `DeviceInv`, what may be loaded: a beginning of such records, the last of them
  perhaps cut.
- `LoadStack` and `BuiltInv`, at every moment of a load. Calls are nested as their
  records are, and each block that was built is in hand or the child of exactly one
  that was built before it; so the first block to be lost would have a parent that is
  not (`AllIsHeld`).
- `GoingInv`, as long as nothing failed. There are as many records due (one for the
  call that reads, and those that each call counts down) as are `Awaited` (children
  of what was read that were not read). Unless an awaited one is missing from the
  device, the load is `InStep`: each block has just the children it should have up to
  now. The heart is `NextIsDue`, that the next record is then the one that the
  innermost call asked for, by `Ordered`; and when inflate has ended well, nothing is
  due, so nothing is awaited, so nothing was missing. A dump with gaps does get out of
  step, but then it can never end well.

`V1Inv` was checked with TLC on all states of the run `korev1_round_trip` first.
`Below`, `Dumped` and `Lost` are least sets, not recursive functions, so the proofs
argue about them with the closed sets they are contained in.

`TaskletProofs` also has:

- `NoEndBeforeStartHolds`. `SignalsInv` counts: up to every place of the queue, the starts
  heard and posted are no fewer than the ends. `HighFirst` keeps what has a
  high priority before the rest, so an end is never inserted before its start;
  `RunsAreSerialised` excludes that two runs are between their start and their end.
- `PromiseIsFollowed`: each step of a Tasklet is one of TaskletPromise or a stutter,
  the safety part of the refinement that `PromiseKept` checks, for any threads, modes,
  runs, cancels, waiters and progress reports. The invariant, `PromiseInv`, keeps
  three accounts. `AccountInv` is per outcome: those told, the one being told, the one
  about to be posted and the end events in the queue are no more than the runs that
  ended with it, so ended() never comes without a run to its account. `StartsInv`: the
  starts heard and in the queue are no more than the runs that ended and the one at
  work, so a start is heard only when all runs heard of before were decided.
  `ProgressInv`, with `HighFirst`, says that before any progress event a start was
  heard or is in the queue.

`ModuleLifecycleProofs` also has `CountIsExactAlways`: each thread in `ref` is at an
instance of its own (`RefsAreDistinct`), so fewer are than there are instances if one
stays; the counter is positive then and no access of it is repeated.

`ApplicationProofs` also has `SuperIsAliveAlways`, for super classes in any modules
and any loads and unloads, with no hypothesis. The cached pointer does dangle in a
program: after an unload of the module with the super class, or at the end, when that
module came after the one of the sub-class. The property says that there is no other
way. The proof is about orders. `ModulesInOrder`: the engine lists modules as they
came and clears the last one at the end, so a deleted class whose module no host
unloaded came after every module still in the list. `ClassesInOrder`: within a module,
classes are loaded as they registered and go from the last to the first
(`ListsInOrder`, `LastGoesFirst`), since none is loaded before all have registered
(`ModulesAreWhole`). As a found class is in a listed module (`ListedModules`), the two
give the property.

### What is only model-checked

- Liveness (`WaiterReturns`, `TimedWaitReturns`, `SleeperIsWoken`, `EndIsAnnounced`,
  `DestructionEnds`, `ShutdownEnds` and that part of `PromiseKept`): out of the
  prover's reach.
- The invariants that are violated, each by a run of its own: `IndexIsPosition` when
  addBlock takes a block of another library, `HashIsCrc` with longs of 64 bits,
  `UnusedMetaBlockCanUnload` and `EndedTellsTheOutcome`.

Every invariant that a run shows to hold is stated by a theorem.

## Not modelled

- Names, icons, settings, `optimize` and the flags of blocks other than those for
  deletion and serialization: lookups in Qt's meta objects and settings, with no
  state in which an order or a failure could go wrong. (`removeFlag` of several
  flags at once sets those that were not set; nothing in the library calls it so.)
- `LibraryT`, which only converts pointers and calls Library.
- A malloc that fails: the code has no path for it.
- What the program does in freed memory, after an automatic deletion.
- Loading or unloading a module while another thread creates blocks of it.
- Classes asked for again after they were unloaded: the static pointer of a class
  to its meta block is not reset, and a module's classes load once.
- Two threads that hash the first string at once.
- Two PluginsManagers at the same time.
- The build files and the set-up of the documentation.

## Plan

1. *(done)* Tasklet with its abstract promise; BlockTree, ModuleLifecycle, KoreV1,
   AlignedMemory, Registry; their first theorems.
2. *(done)* Application on top of Registry, KoreFile on top of KoreV1, CRC32, CPU,
   Errors and Plugins; the theorems of Application.
3. *(done)* The theorems about BlockTree, AlignedMemory, KoreFile and Errors, the
   safety part of the refinement of TaskletPromise, `NoEndBeforeStart`,
   `CountIsExact` and `SuperIsAlive`; those about KoreV1.
4. *(done)* The theorems about recursion: `NoCycle`, `QueriesAreExact`, `HashIsCrc`; and
   `MirrorIsAccurate`, `FeaturesAreHonest`.
