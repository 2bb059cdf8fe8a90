# Verification of vita-mono-port

This directory holds TLA+ models of the POSIX shim that lets the Mono runtime run on the
PS Vita (`vita-shim/vita-shim.c`), of the `System.Native` entry points with state
(`vita-shim/vita-system-native.c`) and of the launcher (`vita-launcher/main.c`), the TLC configurations that model-check them, and
theorems about them that TLAPS checks. `PROJECT.json` lists the runs, the mutants that each
property detects, the source lines behind every definition, the hazards of the code and the
theorems.

Tools: `tlc -workers 2 -config X.cfg MCModule` runs a model, `tlapm XProofs.tla` checks proofs.

## 1. Inventory

The Mono runtime itself is not in the repository. What is here is the layer below it (the
shim and the `System.Native` entry points), the launcher above it, patches to it, and test
programs for it. The runtime is multithreaded: managed threads, the collector and the
launcher's worker call the shim concurrently.

| Component | State | Operations | What makes it correct |
|---|---|---|---|
| mmap / munmap (`vita-shim.c` 84-410) | `vita_mappings` (one entry per kernel block), `vita_freeranges` (sorted list of reusable ranges), both under `vita_map_lock`; the kernel's blocks | `mmap` (reuse a free range, else a new block), `munmap` (give back a whole block, else put the range on the free list), the file fill | memory has one owner; nothing live or free points into released memory; addresses are page-aligned; reused memory reads as zero; exec and data memory do not mix |
| condition variables (1437-1493) | none of its own: clocks, the primitive's wait queue, the caller's mutex | `pthread_cond_wait` (loop of 60 s timed waits), `pthread_cond_timedwait` (one timed wait, deadline converted between clocks) | no wakeup is lost; the timeout is neither early nor late |
| files (836-1063) | `vita_fds`, 64 entries, under `vita_map_lock`; the name space of the kernel | every path call strips repeated `app0:/` prefixes; `open` records, `stat` hashes the path, `fstat` looks up, `close` leaves the table alone, `F_DUPFD` falls back to `dup`; `mkdir`, `rmdir`, `unlink`, `rename` | one inode number per file under every spelling, two files never share one: Mono finds sharing violations by comparing them |
| directories (1065-1180, `vita-system-native.c` 260-311) | `struct vita_dir`: kernel handle, path, last entry | `opendir`, `readdir`, `closedir`, `rewinddir`, `SystemNative_ReadDirR` | handles have one owner and do not leak; enumeration ends, misses nothing, takes neither end for error nor error for end |
| file contents (334-351, `vita-system-native.c` 162-182) | the offsets of shared descriptors | `vita_mmap_fill`: save, move, read, restore; `SystemNative_CopyFile`: rewind both, read and write | the file's bytes arrive whole and in their places, the offset is kept |
| noted thread signals (1326-1435, patches/013) | `vita_sigpending`, 32 slots, under `vita_siglock` | `vita_note_thread_signal`, `vita_maybe_self_suspend` (called by nothing), `__wrap_pthread_kill` (dead) | a noted signal is seen by its thread |
| sigaction, fcntl, sysconf, stubs (452-834, 1255-1324) | the C library's handler table | forwards and constant answers | a query does not change the handler |
| other `System.Native` entry points (`vita-system-native.c`) | the seed of a xorshift | forwards, fixed answers, the symbol table for `mono_dl_fallback` | conventions of the managed caller |
| launcher (`vita-launcher/main.c`) | one worker thread and its result, `runasm`, the log file | choose the target, bring the runtime up, open, run, join, map the result to an exit code | exit code and log say what happened, whichever stage fails; the process always ends |
| mprotect, icache flush (412-450) | none | log; one kernel call | - |
| trace output, headers, build scripts, host tools, probes | - | - | - |
| battery test T02 (`battery/battery.cs` 66-84) | `tcounter` | 4 threads increment it in two ways | the assertion at line 82 |

How they interact: `mmap` and the descriptor table share `vita_map_lock`; every path call
goes through the normalisation, and the inode numbers are hashes of its result; `mmap` of a
file goes through the descriptor; `ReadDirR` and the other entry points call the wrapped C
functions; Mono's allocator, which asserts page alignment, sits on `mmap`, and its locks
and thread joins sit on the condition variables.

Hard behaviours, by kind (`PROJECT.json` "hazards" has each at its line): kernel calls and
the clearing of reused memory outside the lock; free ranges that merge over block
boundaries and outlive a block; unaligned lengths; a signal that meets an expiring quantum;
two clocks read one after the other; a table that only fills up; allocation failures in the
middle of an operation.

## 2. Modules

| Module | Models | Kind |
|---|---|---|
| `FreeRanges` | the free list as a set of ranges: snapping to pages, insertion with merging, first fit, carving, purging | operators |
| `VitaMem` | `mmap` and `munmap`, several threads, kernel | state machine |
| `PosixMem` | what callers of `mmap` rely on | abstract specification |
| `FreeList` | the free list as the sorted linked list of the code, with its one merging pass | state machine |
| `FreeSet` | what `mmap` relies on from the free list | abstract specification |
| `CondWait` | the two wait wrappers between consumers and producers | state machine with fairness |
| `CondDeadline` | the deadline arithmetic of the timed wait, over two clocks | state machine |
| `Files` | path normalisation, names, files, descriptors and the table behind `fstat` | state machine |
| `Dirs` | `opendir` to `rewinddir` and `ReadDirR` over a directory that changes | state machine with fairness |
| `FileIO` | the copying loops of `mmap` and `CopyFile` on shared descriptors | actions, composed by `Launcher` |
| `Launcher` | `main` and `mono_worker`, with the calls of `FileIO` inside | state machine with fairness |
| `BatteryCounter` | the counting loop of test T02 | state machine |
| `FreeRangesProofs`, `VitaMemProofs`, `FreeListProofs`, `CondWaitProofs`, `CondDeadlineProofs`, `FilesProofs`, `DirsProofs`, `LauncherProofs` (with `FileIO`) | theorems | proofs |
| `MC...` | constants for TLC | |

`VitaMem` extends `FreeRanges`; `FreeList` and `FreeSet` use its operators too, which is
what joins the two: `VitaMem` works on the set of ranges, and `FreeList` shows that the
list with its single pass is that set. `Launcher` extends `FileIO`: the worker's load of the
assembly is a fill of `mmap`, and the program's threads copy, read and map while it runs.

### VitaMem

Addresses are counted in units, `PageSize` of them to a page, so that unaligned lengths
and ranges occur. `blocks` is the kernel, `mappings` and `freeranges` are the two lists,
`live` is what the program holds, `dirty` is memory that may not read as zero, and `op[t]`
is the call of thread `t` with its locals.

One step is one section under `vita_map_lock`, or one thing done outside it:

* `mmap`: `MmapReuse` or `MmapMiss` (first section), then `MmapClear` (the `memset` after
  the unlock) and `MmapReuseReturn`; or `MmapAllocVM` / `MmapAllocData` / `MmapNoMemory`
  (kernel calls and the `memset` of a block that nobody else knows yet), then `MmapLink`
  (second section, with the tail of a VM block going to the free list).
* `munmap`: `MunmapNoMatch`, `MunmapWhole` (unlist and purge) followed by `MunmapFree` or
  `MunmapFreeFails`, or `MunmapPart`.

Every `malloc` of a list entry may fail (the range is then lost), the VM domain may refuse
(a plain block is used), the kernel may place a block anywhere it fits, also where a block
was released a moment ago. The caller writes to what it gets (`HandOver`). A caller unmaps
a range in which it holds something and which no other call has in its hands (`MayUnmap`);
the range may be unaligned, have holes, span blocks. Nothing else is assumed of callers.

### CondWait

The wrappers are `CondWaitResult` and `TimedWaitResult`: what each does with the result of
the primitive. The callers and the primitive are external; `Expire` and `Reacquire` are
separate steps because a timed wait ends first and gets the mutex back later, which is where
a signal can fall. `Fairness`: every thread keeps running and quanta end (weak fairness), and
a thread that wants the mutex gets it if it is free again and again (strong fairness on the
acquiring steps only). Nothing makes a signal meet a waiter.

### CondDeadline

The model computes on real `timespec` values. Time passes between the reading of the
monotonic clock, the reading of the realtime clock and the call. The clocks tick alike; a
realtime clock that is set while a thread waits is not modelled. `rem_ms` is a 32-bit
`long`: for a deadline further away than `LongSecs` the product overflows, and what is left
after the clamps is any number of `Overflow`.

### Files

A path is a sequence of parts: prefixes `app0:`, a device, names. `Normalize` is the loop of
`vita_fs_normalize`; `Given` is the path that the real call gets, if the kernel resolves it.
When `strdup` fails the path comes through with its prefixes; no such path exists for the
kernel, so the call fails like others that fail. `tree` is the kernel's name space, `file` and `name` say what each descriptor is open
on and under which path it was opened, `fds` is the table. A path stands for its hash, so
collisions are left out, and the made-up number `fd + 16` is not a path. `Open` and
`OpenRecord` are two steps because the table is locked only after the real `open`: other
threads may open, close, dup, rename and remove in between, but not close a descriptor that
`open` has not returned yet. Calls that fail change nothing and are left out. `dup` records
nothing: `dupped` tells its descriptors from those of `open`, and `Stale` are those of them on
whose number an entry of an earlier use stands. `OneInoPerFile` is about descriptors of `open`
that are in the table, `NoSharedIno` about all but the stale ones.

### Dirs

A kernel handle holds the names it has yet to deliver; a handle that was closed may be given
to another thread at once, which is why `rewinddir` is two steps (`RewindClose`, then
`RewindOpen` or `RewindFails`) and `opendir` as well. `ReadDirR` is one step: the reset of
`errno`, `readdir` with all its outcomes, and the answer; no other thread uses the same DIR
or `errno`. A name that comes or goes while a handle is open may be seen by it or not.
`got`, `stable` and `failed` record what the properties are about: what was delivered, what
was there all the time, whether the kernel failed to read. The buffer of 1024 bytes that the
managed enumerator asks for has room for every name, so the answer -1 for a name that does
not fit never occurs. Fairness: a thread that has a DIR goes on reading it, as the managed
enumerator's loop does.

### FileIO and Launcher

Each call of the C library is one step; `op[t]` holds the locals of a fill (`Tell`, `Seek`,
`FillRead`, `Restore`) or a copy (`RewindSrc`, `RewindDst`, `CopyRead`, `CopyWrite`). Reads
deliver less than asked for, nothing, or an error; writes run out of room; every seek may
fail, the one too that puts the offset back, whose result the code does not look at (`moved`).
`touched` remembers whose descriptors another thread moved during a call: the code takes no
lock there, so the properties promise nothing in that case but that the call returns.

In `Launcher`, `main` and `worker` say which line each of the two is about to log or which
stage it is in; `MainAfter` and `WorkerAfter` are the order of the stages. Each stage that can
fail does. The log is appended to by every launch and never truncated, so a launch starts with
any of `OldLogs` in the file; who reads it finds the last launch by its first line
(`LastLaunch`). A crash is not a step of its own: `LogTells` is an invariant, so it holds in
every state in which a crash can find the file, since each line is in it when `log_write`
returns, and what a crashed launch leaves is the old log of the next. Before a launch has
logged its first line, the last lines are still those of the launch before. Lines of the log
may get lost (`log_write` opens the file anew each time, and that may fail). `run.txt` is a sequence of characters, of which `PickTarget` takes the first line, up to the size of
the buffer. The runtime is external: it maps the assembly, runs `Main` and returns. Fairness:
`main`, the worker and every call go on; nothing makes `Main` return.

## 3. Runs and bounds

| Run | Instance | Shows |
|---|---|---|
| `mem_threads` | 2 threads, 4 pages of 2 units minus page 0, lengths 2 and 3 | `TypeOK`, `OneOwner`, `BackedByKernel`, `ZeroFilled`, and that the program sees `PosixMem` |
| `mem_sequences` | 1 thread, 5 pages minus page 0, lengths 1 and 3 | `BackedByMapping`, `PageAligned`, `ExecKind`, `Coalesced` |
| `free_list` | 5 pages and a fringe, requests of 1 and 2 pages | `Sorted`, and that the list implements `FreeSet` |
| `cond_wait` | 2 untimed and 1 timed consumer, 3 producers | `TypeOK`, `NoneStranded`, `TimedServed`, `ServedUnlessMissed` |
| `cond_wait_lost` | 1 untimed consumer, 1 producer | `WaitServed` is violated |
| `cond_deadline` | 3 x 2 starts, 26 deadlines, 3 delays around carries, truncation, the quantum and the overflow | `TypeOK`, `NotTooEarly`, `NotTooLate` |
| `cond_deadline_early` | whole-second times | `NeverEarly` is violated |
| `files` | 2 threads, one name on 2 devices in 4 spellings, 3 files, 3 descriptors, a table of 2 | `TypeOK`, `OneInoPerFile`, `NoSharedIno` |
| `files_full` | 1 thread, no dup | `FstatIsStat` is violated |
| `dirs` | 2 threads, 2 handles, a short and a longest name, 1 change | `TypeOK`, `HandlesOwned`, `EndMeansAll`, `NoFalseError`, `EnumerationEnds` |
| `startup` | worker and one more thread, 2 descriptors, one on an empty file, 3 calls, 5 texts of `run.txt`, 1 lost line, the log of a launch that crashed after its `Main` | `TypeOK`, `FillExact`, `OffsetKept`, `CopyExact`, `TargetNamed`, `ExitHonest`, `LogTells`, `CallsReturn`, `Finishes` |
| `t02_counter` | 2 threads, 2 rounds | `NoLostIncrement` is violated |

Why the bounds are enough: two units are the least for which a length is unaligned. Two
blocks side by side (4 pages after page 0, since the least exec block is two pages) are the
least for a free range that merges over a boundary; that is why `mem_sequences` has the
larger address space. Interleavings only need two calls at a time, which `mem_threads` has
on one page less. The page size, the chunk and the granularity are scaled down: 1 page = 2
units, chunk = granule = 2 pages, which keeps a tail behind each small exec request. What
the bounds leave out is covered by the theorems, which hold for every value of the
constants. The least lost wakeup needs one consumer and one producer; three of each let
signals go to the wrong consumer. A full table needs one descriptor more than entries, and an
entry of an earlier use needs a number that is opened twice. Two layers of prefix tell a loop
from a single round. In `dirs`, two threads and two handles are enough for a handle to change
hands between the steps of `rewinddir` or to run out; one change (`MaxChanges`) is enough
for a name to come or go at any moment of an enumeration. In `startup`, three calls
(`MaxCalls`) are the load of the assembly and two that interleave; one file has two bytes, the
other none, and the copy buffer is one byte, so that a loop runs more than once and a read
meets the end at once; `MaxSize` is little enough for a copy to run out of room; the old log
has a "returned" that is not of this launch and no last line; `RunMax` is 2 against a text of 3; one line may be lost
(`MaxLost`), enough to see that `ExitHonest` does not rest on the log.

`CHECK_DEADLOCK FALSE` is set where the system stops by design: all consumers served, the
wait returned, all counters joined, the process exited.

## 4. What the violations show

* **`WaitServed`**. `__wrap_pthread_cond_wait` re-enters the wait on `ETIMEDOUT` without
  returning. A signal that is sent after the quantum has ended, and before the primitive has
  the mutex back, wakes nobody, and the caller, who could check its condition, is not asked.
  The comment at line 1333 relies on callers re-entering. `ServedUnlessMissed` states that
  this window is the only way to lose a wakeup, and `TimedServed` that the timed wrapper,
  which returns, has no such window. The window is short and comes once in 60 s.
* **`NeverEarly`**. A timed wait of more than a quantum reports `ETIMEDOUT` after the
  quantum, while line 1490 promises exact POSIX semantics. `NotTooEarly` states the
  exactness that does hold.
* **`FstatIsStat`**. The table of 64 entries is never emptied; descriptors that find no room
  have the inode number `fd + 16` in `fstat` and the hash of their path in `stat`.
* **`NoLostIncrement`**. Test T02 increments one counter inside a lock and, with an
  interlocked operation, outside it. The two race, so the assertion at line 82 can fail on a
  correct runtime. `docs/PROGRESS.md` counts such failures as counts lost by the runtime;
  they need not be.

Some smaller disagreements are modelled but have no run, since the properties name them as
exceptions. The comment at `vita-system-native.c` 280-281 gives -1 the meaning of the end; an
error of `sceIoDread` sets no `errno` and is answered -1 too (the exception `failed` of
`EndMeansAll`). A fill that fails half-way is not reported by `mmap` (`failed` in
`FillExact`). When the last `lseek` of a fill fails the descriptor is left behind the bytes
that were mapped (`moved` in `OffsetKept`). A descriptor of `dup` on a number that was opened
before answers with the inode number of that earlier use (`Stale` in `NoSharedIno`): open A on
4, close 4, open B on 3, dup 3 to 4, close 3, open A on 3, and `fstat` answers A's number for
both although 4 is on B.

## 5. Proofs

**mmap and munmap** (`VitaMemProofs`, on lemmas of `FreeRangesProofs`). For every page size,
set of threads, set of lengths, address space and chunk, under `PageSizeAssumption` and
`VitaMemAssumption` (all of them positive or natural numbers):
`Spec` implies always `TypeOK` (`TypeCorrect`), `OneOwner` (`MmapExclusive`),
`BackedByMapping` and `BackedByKernel` (`NothingDangles`), `PageAligned` (`MmapAligned`),
`ZeroFilled` (`MmapZeroed`), `ExecKind` (`KindsKept`), `Coalesced` (`FullyMerged`), and
`Spec => PosixSpec` (`Refinement`).

The properties are not inductive by themselves. `IInv` adds what ties the pieces together:
the kernel's blocks do not overlap (`BlocksApart`), every mapping is exactly one block
(`MappingsAreBlocks`), a block in the hands of a call is in no list and no other hands
(`HeldBlocks`: this is what makes it safe to work on it without the lock), a reused range in
the hands of a call is mapped, neither free nor live, and of the right kind (`HeldRanges`),
free ranges are aligned, merged, mapped and of the kind of every mapping they touch
(`FreeList`), and the locals of a call fit its memory (`CallLocals`). All parts speak of
single units, which keeps set unions out of the proofs. The step of each action is a lemma;
the free-list operations enter through four lemmas: inserting keeps ranges separate
(`AddSeparate`) and adds exactly the whole pages of the range (`MergedProps`), carving takes
exactly the front of a range (`CarveProps`), purging leaves nothing in the block
(`PurgeProps`).

**Deadlines** (`CondDeadlineProofs`). For all clock readings, deadlines and delays:
`vita_add_qms` is exact and needs only one carry (`AddQmsExact`), `rem_ms` is right to a
millisecond (`RemMsAccurate`), and `Spec` implies always `TypeOK`, `NotTooEarly` and
`NotTooLate`. The invariant `Computed` says that the deadline is `rem_ms` after the reading
of the realtime clock and that at least as much time has passed on the monotonic clock,
because it was read first. The proofs count in nanoseconds (`Ns`).

Both properties are stated for deadlines that do not overflow (`Near`); for the others only
`TypeOK` holds.

**Files** (`FilesProofs`). For every name space, set of threads and descriptors and every
size of the table, under `FilesAssumption` (every path has one device, and before it only
prefixes; descriptors are numbers, parts of paths are not): `TypeOK` (`TypeCorrect`),
`OneInoPerFile` (`FstatAgrees`) and `NoSharedIno` (`NoFalseSharing`). The invariant adds that
no file has two names (`OneName`), that what is open has a real path (`Named`), and the part
that matters: every entry of a descriptor that `open` has returned is of its present use
(`Current`), since the only way to reuse a number that the wrapper sees goes through
`OpenRecord`. Descriptors of `dup` are not in `Current`: `NoSharedIno` holds for those without
an entry, which answer with a number of their own, and excepts those with one. `NormalizeIsTarget` shows that the loop of `vita_fs_normalize` leaves exactly
what starts at the device, whatever the number of prefixes; it needs no induction, because
the place where the loop stops is characterised by what is before it.

**Directories** (`DirsProofs`). For any number of threads, handles and names, under
`DirsAssumption` (names have 1 to 255 characters): `TypeOK` (`TypeCorrect`), `HandlesOwned`
(`HandlesExclusive`), `EndMeansAll` (`EndIsEnd`) and `NoFalseError` (`NoErrorInvented`). The
invariant adds that what was there all the time has been delivered or is still to come from
the handle (`Tracked`), and that a DIR just opened has answered nothing (`Fresh`). The steps
that close a handle share one lemma (`CloseStep`).

**The linked list** (`FreeListProofs`, on lemmas of `FreeRangesProofs`). For every page size,
address space and set of page-aligned sizes (`FreeListAssumption`: `vita_freerange_take_locked`
is only called with sizes that went through `page_round`), and for lists of every length:
`Spec` implies always `Sorted` (`StaysSorted`), and `Spec => ListIsSet` (`ImplementsSet`),
step by step: what insertion, merging pass, first fit, cut and purge do to the list is what
`Add`, `FirstFit`, `Carve` and `Purge` do to the set of its ranges. `Sorted` is not inductive,
since the merging pass joins neighbours only: `IInv` says that the list is `Tidy` (ranges are
not empty, and each lies behind the one before it, with a gap if they are of one kind) and
page-aligned. The passes are walks that take one element at a time (`Walked`, `Passed`).
That a recursive function on `0 .. Len(s)` takes its steps at all is proved by least
counterexample (`UpTo`, `WalkExists`, `MergePassWalks`, `PurgeWalks`), which replaces the
induction rule the provers cannot instantiate. The heart is `PassAdds`: in front of the
insertion point the pass changes nothing (`StepAppend`), the new range joins at most the one
before it (`StepInsert`), and behind it the pass has, after `i` ranges, exactly the set with
the new range added to the first `i` (`StepMerge`): one pass is enough.

With `VitaMemProofs`, which works on the set, this carries the theorems about `mmap` and
`munmap` down to the list of the code.

**Condition variables** (`CondWaitProofs`). For any finite number of consumers and as
many producers, each of one item (`CondWaitAssumption`): `TypeOK` (`TypeCorrect`),
`NoneStranded` (`NoWakeupLost`), and, from it, that when all threads have settled every
consumer is served or is one whose signal fell between the end of its quantum and its
return (`NobodyLeftBehind`). `IInv` adds that each thread is where its kind can be
(`PlacesOK`) and that items taken and left are the items added (`Counted`). The steps that
matter are those of the wrappers: `CondWaitResult` parks again only a consumer that a signal
may have missed, and `TimedWaitResult` never parks again.

**File calls and launcher** (`LauncherProofs`). For any set of threads and descriptors, all
contents, sizes, buffers, texts and old logs, under `FileIOAssumption` (contents fit the
device), `LauncherAssumption` (an absent file has no image; texts are sequences) and
`OldLogsAssumption` (earlier launches logged the same lines, in any order and number): `TypeOK`
(`TypeCorrect`), `FillExact` (`MapExact`), `OffsetKept` (`MapKeepsOffset`), `CopyExact`
(`CopyWhole`), `TargetNamed` (`RunsWhatIsNamed`), `ExitHonest` (`CodeHonest`) and `LogTells`
(`LogHonest`). The invariant has two halves. For the file calls (`IOInv`), `Undisturbed`
relates, in each stage of a call whose descriptors nobody else moved, the bytes stored or
written so far to the offset: what is there is a prefix of the file from where the call
began, and the offset is right behind it (`Behind`), which is where a restoring seek that
fails leaves it. For the launcher (`LInv`), `Places` and `Together` say which stages `main` and
the worker can be in at once, `LogOK` that the log is what was there before followed by exactly
the lines both have passed (`Logged`), and `Ran` ties the result of the worker to the stages
behind it. That the first line of this launch is where a reader finds it, and nothing of the
old log behind it, is `LastPart`.

**Only model-checked**: liveness (`TimedServed`, `ServedUnlessMissed`, `EnumerationEnds`,
`CallsReturn`, `Finishes`), which is out of the prover's reach. Every safety property of a
passing run, and both refinements, are proved.

## 6. What is not modelled

* **Widths.** Lengths and addresses are natural numbers: `page_round` within a page of
  `SIZE_MAX` is left out (no caller asks for it, and the proofs about memory would carry the
  width through every sum).
* **Memory.** `mprotect` only logs, but walks the mapping list without the lock; the model has
  no list nodes that could be met freed. `vita_flush_icache` changes no state. `MAP_SHARED`
  is a private copy and `msync` does nothing: nothing in the port relies on more.
* **Signals.** The slots for noted signals (`vita_note_thread_signal`,
  `vita_maybe_self_suspend`) have no consumer: nothing calls the second, and patch 013 keeps
  the runtime from calling `pthread_kill`. `sigaction` reads a handler by overwriting it; who
  raises which signal when is the runtime's and not in the repository.
* **Files.** Hash collisions; spellings of a path other than by prefixes; `fcntl` beyond `dup`
  (locks are constant answers); calls that fail without a change. In `FileIO` every
  descriptor has an open file of its own, although `dup` makes two share one.
* **Directories.** `opendir` keeps a copy of the path cut to 255 characters, and `rewinddir`
  opens that: with a longer path it would open another directory. Paths have no length in the
  model.
* **Launches.** The next launch after a crash or an exit is not a step: it starts again from
  `Init`, with what is in the file among `OldLogs`.
* **Entry points.** The remaining functions of `vita-system-native.c` forward, answer a
  constant or look a name up in a constant table; the xorshift's seed is their only state.
  `sysconf` and the stubs are constants.
* **Diagnosis and bring-up.** Trace and console output, `foundation.c`, `minimal.c`, probes,
  hello programs, the sequential battery tests, headers, build scripts, host tools: no state
  of the program, or straight-line code that only prints.
* **Patches.** They change a runtime that is not in the repository.

Kernel calls, the C library, the runtime and the callers are external; they are modelled by
what the code here expects of them.

Some hazards are steps of the models without a property that forbids their outcome, because the
code promises nothing there: memory that leaks when `munmap` meets two blocks, `malloc` or the
kernel fails; calls whose descriptor another thread moves (`touched`); the time between the two
clock readings, which is added to a wait (`NotTooLate` measures from the second); stale
duplicates; the error of `sceIoDread`. `PROJECT.json` says so at each.

## 7. Plan

Done: `FreeRanges`, `VitaMem` with `PosixMem`, `FreeList` with `FreeSet`, `CondWait`,
`CondDeadline` with the overflow of `rem_ms`, `Files` (normalisation, names and the
descriptor table), `Dirs`, `FileIO` inside `Launcher`, `BatteryCounter`, and theorems about
every safety property of the passing runs. Left, in this order:

1. The safety core of the liveness properties: a measure that each round of the loops of
   `vita_mmap_fill`, `CopyFile` and `ReadDirR` brings down, as an action property.
2. Lengths with their width, so that `page_round` near `SIZE_MAX` is a step of the model.
3. The handler table that `sigaction` overwrites, if a caller that shows its use comes into
   the repository.
