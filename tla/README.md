# A verification of redcli

`redcli` is a command-line benchmark of bitmap encoders. It loads DIF layout
files, rasterises them block by block, encodes every block with up to six
formats, decodes it again, optionally checks that the round trip restored the
block, and reports sizes, throughput and the result of the check.

This directory holds TLA+ models of the program, TLC configurations that check
them on small instances, and TLAPS proofs of what holds for all instances.
Paths below are relative to the repository.

## 1. The system

The program's own code is `redcli/` (some 1,850 lines); `deps/` holds headers and
binary libraries, `cmake/` and `scripts/` the build and the release.

| Part | State | Operations | Talks to |
|---|---|---|---|
| Row-block queue and phase pools: `rle4k_block_pipeline.h`, the spawn/pop/join loops of `main.cpp:282-457` | `total_`, atomic `next_`, the threads | construct, `pop`, spawn, join | created by each phase, shared by its workers |
| Strip column pipeline: `main.cpp:259-457`, `688-746` | `raw`, `digests`, `enc_cache`, `check_bufs`, `decoded_ok`, `ok`, `all_ok`, byte sums, `row0`, `rep` | raster, encode and decode phase, drop, verify, next window | queue, encoders, rasteriser; reports to the batch |
| Batch run: `main.cpp:565-846` with the report (`144-187`) and the CSV (`193-236`) | file list, `facc`, `rec`, `all_files`, `load_failures` | collect, load, one column, next format, close file, write CSV, exit code | DIF loader, strip pipeline |
| Settings and grid: `rle4k_config.h:21-52, 142-177`, `main.cpp:486-582, 634-654` | `bench_config`, grid | load, parse an option, environment, clamps, automatic width, grid | feeds the two above |
| Scanner of `redcli.json`: `rle4k_config.h:70-205` | the text, `bench_config` | look for a key, read a value, skip a comment | called by `run` |
| Command line: `main.cpp:478-549`, `main` | the words, the next one, `bench_config`, `csv_path` | choose a command, take an option, a switch or a help request | reads the scanner's result, feeds the settings |
| Life of `redcli.json`: `rle4k_config.h:207-370`, `main.cpp:459-481` | the file in each directory, a process's place | search, `init`, `edit`, write, open the editor, load | other processes and the user, through the file system |
| Buffer manager: `rle4k_buffer_mgr.{h,cpp}` | per-thread caches, `current_buffer_size`, `initialized` | alloc, free, clear, initialize, thread exit | called by the batch (initialize, clear) and the unit tests |
| Encoders and factory: `rle4k_format_encoder.{h,cpp}` | the encoder singletons, LZO's `thread_local` work memory | `process_pack`, `internal_pack`, `get_encoder` | codec libraries; called by encode workers |
| Codecs, rasteriser, DIF loader | external, binary | | |
| Timers, banner, usage, build, scripts | see `PROJECT.json` | | |

### What is hard about it

* *Workers share arrays without a lock.* A phase's workers write
  `raw[local]`, `digests[local]`, `enc_cache[local]`, `check_bufs[local]` and
  `decoded_ok[local]` concurrently. All that keeps them apart is that the
  atomic counter hands out each row once, and all that keeps the main thread
  apart from them is the join loop.
* *Slots are reused.* The same indices stand for other image rows in every
  window, every pass overwrites the results of the pass before, and a decoder
  may report success without writing.
* *Verdicts travel far.* A failed comparison must survive the passes, windows
  and columns that follow it up to the report and the CSV file, and must not
  reach the next file.
* *An exception on a worker ends the program.* Nothing in the worker lambdas
  catches what `process_pack` throws.
* *One bad file in a batch* must neither stop it nor be forgotten.
* *Four sources of settings* with an order of precedence, clamped after the
  last, some of them divisors.
* *The buffer caches* are per thread, but a buffer may be freed by a thread
  that did not allocate it, and threads race to raise the preferred size.

* *An encoder may need a second try.* RLE4K is called again, once, with a
  larger buffer; LZO keeps a work memory between two calls of its library; all
  encode workers share one encoder object.
* *`redcli.json` is found by searching text*, not by parsing it, and its name is
  looked for in seven directories some of which may be the same one. Several
  commands and the user may be at it at the same time, and a command that is
  killed leaves what it has written.

`PROJECT.json` lists each such hazard at its line with the properties for it.

### What makes each part correct

| Part | Correctness |
|---|---|
| Queue | each row processed once, by one worker; the join is a barrier; every phase ends |
| Strip pipeline | a slot holds what belongs to its row; bitmaps are dropped neither early nor late; the verdict is the round trip of every block in every pass; totals are those of all blocks; a column ends |
| Batch | records tell of their own file; each good file is reported, in order; exit code, console and CSV agree; the batch ends |
| Settings | the strongest source decides; what reaches the pipeline is in range; the grid covers the image and no more |
| Buffers | one owner each, large enough, none leaked; a raise is never lost |
| Encoders | every caller gets its own block in the format asked for, or the exception of its cause; calls end |
| Scanner, command line | a plain file is read as meant, the last option wins, no value is taken for an option, the built-in file is the defaults, only values that cannot be read end the process |
| Life of `redcli.json` | damage is accounted for, a file that is found is not overwritten, `init`, `edit` and `run` mean the same file |

## 2. The modules

`Blocks` <- `StripSpec`; `RowBlockQueue`, `Blocks` <- `StripPipeline`, which
instantiates `StripSpec` as `Strip`; `EncoderSpec` <- `FormatEncoder`;
`ConfigScan` <- `CommandLine`. `BatchRun`, `Settings`, `ConfigFile` and
`BufferManager` stand on their own, and meet the others where one's result is
the other's parameter: `Settings!Parameters` is an option record of `Blocks`, a
column of `BatchRun` is a behaviour of `StripSpec`, an encode step of
`StripPipeline` is a call of `EncoderSpec`, and the `cfg` that `CommandLine`
ends with is the file and the options of `Settings`. An `MC...` module gives the
constants of the module it is named after. Operators commented *Faulty* are not
part of any specification: they are single mistakes that the properties are
tested against.

**`RowBlockQueue`** (`rle4k_block_pipeline.h:15-30` and the loops of the three
phase functions). The main thread is `mpc` (spawning, joining, joined), a worker
is `wpc[t]`. `Spawn` is `emplace_back`: the new thread runs while later ones are
still being created. `Pop(t)` is `pop()` and the `break`: the `fetch_add` is one
atomic step and the comparison with `total_` reads a local and a constant, so
they are one action. `Finish(t)` is the end of the loop body. `Join` is one join,
in the order of creation. `StartQueue` is the construction of a queue by the next
phase, `PoolSize` the clamp `max(1, min(n, min(nwin, 10)))`.
`fetch_add` is relaxed in the code. That is enough: the modification order of
one atomic is total, and what the workers write is published by the thread's
end and the join, not by the counter.

**`Blocks`** gives the data: a block is `null` (no bitmap), `empty` (a bitmap
without data, which `validate_bitmap` rejects), `blank` or `drawn`. `blank` is
told apart because a fresh check buffer holds zeros too, so that a decoder that
writes nothing is right about a blank block.

**`StripPipeline`** is one column with one format: `main.cpp:697-734` and the
bodies of the phases. `RasterBlock`, `EncodeBlock` and `DecodeBlock` are the
worker bodies, conjoined with the queue's `Finish`; `EncodeThrows` is the
exception nobody catches; `RasterJoined`, `EncodeJoined`, `DropRaw`,
`DecodeJoined` and `CloseWindow` are what the main thread does between phases.
A body is one action: workers share nothing but the counter and the sticky
atomic `ok`, and touch only the slot of their row (`RowIssuedOnce`). The codec
is external: an encoder may throw; a decoder may restore the block, write
garbage, report success without writing, or report an error. The hash is its
content: collisions are not modelled. Without `--check` the decoder's result is
discarded by the code, and by the model. `restored` is a history variable.
Accumulated times are left out.

**`StripSpec`** is what a column promises, without windows, threads, queues or
buffers: each row block is rasterised once, then encoded `repeat` times, then
decoded `repeat` times; the byte counts are those of the blocks; the verdict
only turns bad, at a verified decode pass over a block with pixels.
`StripPipeline` implements it under the refinement mapping at its end, where the
progress of a row follows from the control state of the main thread: a phase
counts when it is joined.

**`BatchRun`** is `rle4k_cmd_run` from the collection of files to the exit code:
`CollectFiles`, `OpenFile`, `RunColumn` or `ColumnAborts` per column,
`NextFormat`, `CloseFile`, `WriteCsv`, `Finish`. A column is one step that yields
what `StripSpec` promises. `bad` is a history variable. The file names,
throughputs and progress output are left out.

**`Settings`** is how the numbers come about: `LoadConfig`, `ParseArgument`
(one option per step), `ReadEnv`, `Clamp`, `AutoWidth`, `Layout`, and the record
`Parameters`. Division by zero, which the builds trap, is the state `crashed`.
`Absent` is what the parser assigns to a key the file does not hold.

**`BufferManager`** is `alloc`, `free`, `clear`, `initialize` and the end of a
thread. Operations on the caller's own caches are one action (no other thread
can see them); the load, the compare-exchange and the request to the system are
separate actions, so that raises interleave. The client frees what it holds, once,
on any thread. `initialize` and `clear` need that no worker exists, as the comment
in `clear()` and the call sites have it. `want` is the request and `allocSize` the
`alloc_size` that goes to the system; `asked`, in `mem`, is a history variable: the
request the client holds a buffer for. Atomic loads return the latest value.
The program itself calls only `initialize` and `clear`; `alloc` and `free` are
called by the unit tests.

**`EncoderSpec`** is what a call of `process_pack` promises: it returns its own
block in the format `redcli.json` names, or throws the code of its cause, with
no target, retry or work memory. Calls of several threads overlap freely.

**`FormatEncoder`** implements it. `Register` and `SelectFormat` are the factory
(`register_processor`, `get_encoder` of the format `map_format_id` gives);
`ProcessPack`, `Validate` and `FinishPack` are `process_pack`; between them lie
the `internal_pack` of each class: `PackRle4k` with the doubled target of its
second and last try, `PackBounded` for gzip, zstd and Brotli with their level
limits, `PackSnappy`, and for LZO the two steps `LzoBegin` and `LzoEnd`, because
what it keeps in its work memory must still be there when it reads it back.
`CodecFails` is any error a codec reports for reasons of its own. How long a
block becomes in each format is a field of the block. `CodecError` computes the
codes as the source does, `EncoderSpec` lists them. The refinement mapping is the
identity on the abstract variables (`job`, `busy`, `answer`, `asked`).

**`ConfigScan`** is `load_config`: for every key, in the order of the code, the
first occurrence of the quoted key anywhere in the text, the next `:` or `[`, and
what stands behind it. A text is a sequence of the tokens the searches stop at. A
document is what an author means, and `Text` renders it, comments included;
`Plain` says which documents can be trusted to this scanner: every key once and
with a value of its type, no key quoted in a comment or as a value, no comment
between `:` and value, no number or `]` in a comment inside a list, and no negative
format id (`json_get_int_array` passes over a sign).
**`CommandLine`** adds `main`'s choice of a command and the option loop of
`rle4k_cmd_run`, one word per step; `Role` says which words stand as values. A text
is split at its commas into parts, each a number with whatever follows it,
letters, or nothing. That is what `std::stoi` and `std::stod` see (`Readable`,
`Value`): they read the number a value begins with and drop the rest, so `5x` is 5
and `--repeat 0,4` is 0, and throw when there is no number or when it lies
outside `CInt` or `CDouble` (`std::out_of_range`); `--formats` reads every part in
this way and passes over empty ones. What the numbers do to the run is in
`Settings`, the module for precedence and arithmetic, as this one is for the words.
`IntMax` and `DoubleMax` are constants of the module; TLC gets small ones (5000 and
100000), because its own integers have 32 bits and one more than `INT_MAX` must
be a number. What `atoi` makes of a number in `redcli.json` that no `int` holds is
undefined, and left out (`DocumentsAssumption`).

**`ConfigFile`** has the commands as processes on one file system, with a user
who saves and removes files. `Start`, `InitCheck`, `Resolve` (one directory per
step), `Create`, `Write`, `WriteFails`, `Written`, `OpenEditor`, `CloseEditor`
and `Load` follow the code; `Crash` kills a command between any two of them. A
file is a sequence of pieces, a piece that has not reached the disk is a hole.
`Where` says which directory each search name leads to. `creator` and `quiet` are
history variables: who made a file, and which commands have been alone with the
files since they started. So is `appeared`: the directories that got a file after a
command last looked there, kept by `Look` and `Appear`.

## 3. What is checked

| Run | Shows | Bounds |
|---|---|---|
| `queue` | `RowIssuedOnce`, `JoinedMeansAllDone`, `OvershootBounded`; `QueueInv`, the inductive invariant of the proofs; `PhaseTerminates` | pools up to 4, windows up to 5 rows, phase after phase |
| `strip` | `SlotsHoldWindowRows`, `DropLosesNothing`, `VerdictIsRoundTrip`, `ReportedTotals`, `ColumnEnds`; `StripInv`, the inductive invariant of the proofs; `ImplementsStripSpec` | 2 threads, windows of 1 to 3 rows, columns of 0 to 3 rows, 1 or 2 passes, all phase switches, every content of every block |
| `batch` | `RecordsTellTheirFile`, `OneSourceSize`, `EveryGoodFileReported`, `ExitCodeTellsLoading`, `CsvAgreesWithConsole`; `BatchEnds` | all lists of up to 3 files of 6 sorts, 2 format lists, all switches |
| `encoder` | `EncoderInv`, the inductive invariant of the proofs; `ImplementsEncoder`, the refinement of `EncoderSpec`; `CallsEnd` | 2 workers, 3 calls, 6 formats, 5 blocks, a level below and one above the limits |
| `config` | `RunUsesStrongestSource`, `BuiltinIsDefault`, `OnlyBadValuesCrash` | the built-in document, every document of up to 3 of 7 members and of 2 members with a comment in any of 4 places; every command line of up to 3 of 11 words after `run` (`5x`, `0,4`, `4,,x` and a number too large among them), on a document and on none; every command by itself |
| `config_file` | `DamageIsConfined`, `FoundIsKept`, `CommandsAgreeOnFile` | 2 commands of any kind, a user who acts once, files of 2 pieces, a build tree in which two search names are one directory |
| `settings` | `ParametersFitPipeline`, `StrongestSourceWins`, `AutoWidthFits`, `GridCoversImage` | 5 configuration files or none, command lines of up to 2 of 10 options, 3 values of the environment variable, 5 images |
| `buffers` | `OneOwner`, `NothingLeaks`, `LargeEnough`, `RaiseTookEffect`, `NeverLowered` | main thread and 2 workers, 2 buffers, 2 sizes, caches of 2 and 1, `uint32_t` of 4096 values |

`queue`, `batch` and `buffers` also check their module's type invariant; the
types of the others are parts of the invariants `StripInv` and `EncoderInv` or,
like those of `Settings` and `ConfigFile`, proved.

*Why the bounds are enough.* In the queue, threads are alike and rows differ
only by order; pools of 4 on windows of 1 to 5 rows contain a window smaller
than, equal to and larger than the pool, workers that get no row and workers
that get several. The proofs remove the bound. In the pipeline, the column of 3
rows in windows of 2 has a full and a partial window and reuses a slot; two
passes are the least that can differ; two threads contend for a row. The batch
lists hold every sequence of three file states, so that each kind of file comes
before and after each other kind; two columns and two formats are the least that
can be mixed up; the default list of all six formats is left to the proofs. Two threads racing a third value cover the compare-exchange
loop, whose failed attempts only see a larger value. Two cached buffers of
different sizes are the least stack whose top is too small and whose bottom
fits; two normal buffers fill their cache but do not overflow it, three would be
needed, while the big cache (1) overflows. `kMaxNormal` and `kMaxBig` are 4 and
2 in the code: the bound on the stack is one test in both. The numbers in
`Settings` are those of the program, with images that fill their grid exactly,
miss it by one, and are empty.

Two calls of an encoder at the same time and a third after one of them are the
least with which an answer or a work memory could go to the wrong caller; the
sizes of the five blocks lie on both sides of the first and of the second
target. Two commands are the least that can race for a file; a third could only
repeat what one of them does, and the proofs remove the bound. Keys of a document
are independent but for their order and for what a search runs across, and three
members have a key before, between and behind the others.

*Fairness.* `PhaseTerminates` and `ColumnEnds` assume weak fairness of the
main thread and of each worker: the operating system runs every thread that can
run, and codecs and rasteriser return. Nothing is assumed of the order of
threads. `CallsEnd` assumes that a thread inside `process_pack` goes on, which is
the same assumption. `BatchEnds` assumes that the single-threaded program goes
on. Of the buffer manager, the settings, the command line and the life of
`redcli.json` only safety is stated: the user and the editor may take for ever.

The modules with final states stutter there explicitly (`Ended`, `AllPacked`,
`AllOver`, `Chosen`); deadlock is checked in every run.

### Runs that find the code and its documentation apart

| Run | Documentation | Code |
|---|---|---|
| `strip_brotli` | `docs/redcli.help.md:109`: with `check_enabled = 1` the FNV is recomputed after decode and compared | Brotli blocks are neither decoded nor compared (`main.cpp:377`, `442`), and the column is OK |
| `settings_missing` | `docs/redcli.help.md:97, 163, 172, 209`: defaults of keys | a key left out of an existing `redcli.json` becomes 0 (`rle4k_config.h:142-177`); for `block_line` and `align_mode` that is a division by zero later |
| `config_comments` | `docs/redcli.help.md:66` and `rle4k_config.h:212`: `//` comments are allowed, the parser accepts them | keys are searched in comments too (`rle4k_config.h:119`), and a comment between `:` and value hides the value, because `skip_comment` stops at the end of the line (`rle4k_config.h:95, 124`) |
| `config_race` | `docs/redcli.help.md:38`: `init` never overwrites | it looks (`main.cpp:463`) and then opens with truncation (`rle4k_config.h:313`); a file that appears in between is lost |

`config_race` shows what `FoundIsKept`, which the run `config_file` checks and
`FoundFilesAreKept` proves, leaves open: a file that was there at the look is not
opened for writing, so what can be lost is a file that appeared after it, or one that
another opens while the command is still writing.

### Seen, and not stated as properties

* `rle4k_block_pipeline.h:5-10` describes workers that rasterise, encode and decode a
  block back to back before they pop the next; each phase is a loop of its own over
  the window (`main.cpp:697-734`), which is what `StripPipeline` models.
* Without `--check` the console report has no CHK cell (`main.cpp:181`), where
  `docs/redcli.help.md:351` has `OK`/`FAIL`/`SKIP`; only the CSV file says `SKIP`.
* With `--check --no-decode` nothing is verified and the report says OK
  (`main.cpp:769`).
* In folder mode a directory that does not exist throws out of `main`
  (`main.cpp:570`; the input `nofolder` of `BatchRun`); a failed CSV write leaves the
  exit code 0 (`main.cpp:835`); a batch of files without layers only ends with
  exit code 1 although none failed.
* A string value that is the name of a key and stands before that key is taken
  for it (`rle4k_config.h:102`). `Plain` excludes it, as it does the comments of
  `config_comments`.
* `--repeat 0,4` runs with `repeat` 0 and `--repeat 5x` with 5, without a word; a value
  that is no number, or too large a one, ends the process with an uncaught
  exception (`main.cpp:502-529`).
* After a crash in mid-write a second `init` says that the file exists, and `run`
  reads the part with the missing keys as 0.
* `run [config.json]` in the usage text (`main.cpp:80`) has no counterpart in the
  option loop; `--force` sets a variable nothing reads; nor does anything read
  `output_path`.
* Error codes of zstd are negated wrongly: -8000 + 64 lies in the range of
  gzip's codes. `compression_ratio` of a block that grew converts a negative
  number to `uint16_t`; nothing reads it.

## 4. What is proved

**The queue.** `RowBlockQueueProofs` proves of `RowBlockQueue`, for every `MaxThreads` and
`MaxRows` in `Nat \ {0}` (the only assumptions), that `Spec` implies always
`TypeOK`, `RowIssuedOnce`, `JoinedMeansAllDone` and `OvershootBounded`.

`RowIssuedOnce` is not inductive as it stands: that a pop returns a row nobody
holds follows only if all held rows are below the counter, and that the join
completes the window only if a worker leaves its loop no earlier than all rows
are issued. `QueueInv` adds that: `CounterInv` (held and finished rows are below
`next_`, a worker that left saw it at or past `total_`, every row below it is held or
finished) and `LoopsInv` (how far the main thread's two loops have come says
which threads exist and which are joined). `QueueInv` implies
`JoinedMeansAllDone` because in state `joined` every worker has exited, and there
is at least one. `OvershootBounded` follows from `OvershootInv`: the counter passes
the end once per worker that has left its loop.

**The pipeline.** `StripPipelineProofs` proves of `StripPipeline`, for every set
`Options` of option records that fit the queue (`OptionsAssumption`,
`OptionsFit`: windows and thread requests within the constants, which is what
`Settings!ParametersFitPipeline` checks of the code), and for every image and
every behaviour of the decoders, that `StripSafety` implies always
`SlotsHoldWindowRows`, `DropLosesNothing`, `VerdictIsRoundTrip` and
`ReportedTotals`, and that it implements `StripSpec` (`StripImplementsSpec`).

The invariant is `StripInv`, checked by the run `strip` too. It has the queue's
`QueueInv` as its first part: each scheduling step of the pipeline is a step of
`RowBlockQueue`, so the queue's lemmas are cited and not proved again. `PhaseInv`
says where the main thread can be, `SlotsInv` what every slot holds, by phase and
by whether its row is finished. `VerdictInv` is the argument about the verdict:
while `all_ok` is good, every block has been restored in as many passes as
were judged of it, and in the pass under way exactly where the slot's flag and
buffer say so; once it is bad, some block is a pass short, and stays so because
a pass adds at most one. The step that matters is `DecodeJoinedHolds`, where a
finished window (`JoinedMeansAllDone`) turns the slots' verdicts into the pass's.

`BytesInv` (theorem `BytesAreCounted`) follows the byte sums: at every moment of a
window they are those of the rows that are done, once per pass under way. A sum
over a set of rows is `SumFunction` of the community modules, whose laws (a row
more, two disjoint sets) are lemmas here. `TotalsAreReported` is its last state.
The refinement has one step per action. The steps of workers and the spawning of
threads stutter, because the mapping counts a phase when it is joined;
`RasterJoined`, `EncodeJoined` and `DecodeJoined` are steps of `StripSpec` for all rows
of the window at once. Where nothing is verified the mapped verdict must not
change, which needs `OkInv`: such a pass is never bad (`UnverifiedPassesAreGood`).

**The encoders.** `FormatEncoderProofs` proves of `FormatEncoder`, for every set of
threads, blocks and levels and every number of calls, `EncoderInv` and the
refinement `EncoderSafety => Spec`. The assumptions are
those of `EncoderSpec` on the blocks: LZO and Snappy, which are not told the
capacity of the target, never need more than it (their documented worst case is
what the target is made for). `EncoderInv` is inductive: `RegistryInv` makes the
encoder of the run the one `redcli.json` means; `CallInv` ties the capacity of a
target to the number of tries and, for LZO, the work memory of a thread to its
own job. The refinement has one step per action: those between `Validate` and
the end of a call stutter, and an answer is justified by `CallInv`.

**The life of `redcli.json`.** `ConfigFileProofs` proves `DamageIsConfined`,
`FoundIsKept` and `CommandsAgreeOnFile` for any number of commands, any layout
of directories (`Where`), with and without `KnowsExeDir`. The invariant
`FileInv` adds to `DamageIsConfined` where a command can be (`CommandInv`), that what
it has written is there unless somebody else replaced the file (`ContentInv`), and
what a command that nobody has disturbed may rely on (`SeenInv`): the directories
it has passed hold no file, the one it is about to create is not there, the one
it works on is the first a search meets. `FoundIsKept` does not depend on being
undisturbed and needs an invariant of its own, `LooksInv`: a file in a directory that
a search has passed, or that `init` found empty, is one that appeared since.

**The settings.** `SettingsProofs` proves `ParametersFitPipeline`,
`StrongestSourceWins`, `AutoWidthFits` and `GridCoversImage` for all files, command
lines, environments and images within `SettingsAssumption` and
`GeometryAssumption` (no size in a file or on a command line is negative). The
arithmetic is in three lemmas about rounding up by division. The invariant
`SettingsInv` follows the stages: what has been parsed decides by its last
occurrence, the clamps hold from where they are applied, and the divisors are
not negative.

**The buffer manager.** `BufferManagerProofs` proves all properties of the run
`buffers` for any number of threads, buffers and sizes, any caps and any width of
`uint32_t`. `OneOwner` is not inductive. `BufferInv` says instead that equal entries
of stacks are the same entry (`OnePlace`), that an entry is of its stack's kind and not
with the client (`StacksInv`), that the client's buffers are allocated and hold
their request (`HeldInv`), and that what is allocated is somewhere (`NoLeakInv`). `CallInv`
follows a thread through `alloc`: the exchange is tried only with a value above
`cur`, so that a success raises the preferred size, and a thread that goes on to
the system has seen the preferred size at its `alloc_size` or above. It also says that
`alloc_size` is not below the request, however small the preferred size was that
`ChooseSize` read: that is what `LargeEnough` rests on for a fresh buffer, and
the wrap-around of `get_memory_buffer_size` cannot break it. That no thread but
the main one exists when it lowers the size is the client's part
(`MainAlone`), as the comment in `clear()` has it.

**The batch.** `BatchRunProofs` proves `OneSourceSize`, `EveryGoodFileReported`,
`ExitCodeTellsLoading`, `CsvAgreesWithConsole`, `RecordsTellTheirFile` and the types,
for every list of files and formats (`BatchAssumption`). `BatchInv` holds for
`OneSourceSize` a sequence of partial sums of the columns of the current file, which
the first format extends column by column and the others walk along; for
`RecordsTellTheirFile` these are the values of the recursive function `SumsUpTo`, and
a record, once closed, keeps the last of them. For the report it says that the
records are those of the good files before the current one, in order, and that a
verdict in `bad` is never of a file still to come.

**The command line and the scanner.** `CommandLineProofs` proves
`RunUsesStrongestSource`, `OnlyBadValuesCrash` and `BuiltinIsDefault` for every set of
situations, that is for every list of words, every document and with or without
one (`SituationsAssumption` gives only their types; `LimitsAssumption` that the limits
of `int` and `double` are natural numbers). `CommandInv` is inductive:
`WordInv` says that the word the loop looks at is never the value of an option and
that no help request has been passed over (`RolesAlternate`: which words are values
depends on the words before them only); `LoadInv` that the keys still to be read
are different ones, and that nothing else is read before them; `FieldInv` that every
field has its value from the last place passed that sets it, else from
`redcli.json` if that key has been read, else the default. A key that `redcli.json`
does not hold does not keep its default: it gets the fallback the parser names
for it (`Unsaid`), 0 for most (`settings_missing` is the run about that). At the end all places have
been passed, and what is left to show is a theorem about the scanner alone:

`PlainIsRead`: of a plain document `load_config` reads for every key what its author
means, in whatever order the members stand and whatever their comments say. The
text grows member by member (`KeyFoundGrows`): all along it, a quoted key stands
where a member has it and nowhere else, and its colon and value follow. So the
search for the key meets its own member, the search for `:` or `[` the next token
but one, and a list is the digit runs up to the first `]`, comments left out
(`ListIsRead`). The built-in document is shown to be plain and to mean the defaults
member by member, which gives `BuiltinIsDefault`.

*Recursion.* The provers have no induction rule that can be used here. Where one is meant,
the proofs take a least counterexample: `NatLessThanWellFounded` and `WFMin` of the
library give every set of numbers that is not empty a least element
(`LeastNumber`), and every family of finite sets a smallest one. That a recursive function has the values its definition says is
itself a lemma (`RecursionExists`, `RecursionSteps`), used for the roles of the words,
`Only`, `FlattenSeq` and the sums.

**Only model-checked.** Liveness (`PhaseTerminates`, `ColumnEnds`, `CallsEnd`,
`BatchEnds`), and the runs that expect a violation. Every invariant, action property and
refinement of the passing runs is a theorem.

## 5. What is not modelled

* The codecs, the rasteriser and the DIF loader are binary libraries; the models
  give them every outcome their callers tell apart.
* In `StripPipeline` `process_pack` is one step (a block or an exception), which is
  what `EncoderSpec` allows; the pipeline is not composed with `FormatEncoder`.
* Command lines in `Settings` hold well-formed integers (`CommandLine` has the words
  that `std::stoi` throws on or reads in part), and geometry is not negative.
* Numbers on a command line written with an exponent, in hexadecimal, with a leading
  point or as `inf` and `nan` (`std::stod` reads them), and the rounding of `std::stod`.
* A `redcli.json` that ends right behind a `:`, white space within lines, numbers
  with more than three decimals, and what `atoi` makes of digits behind other
  characters.
* What the LZO library makes of levels from 10 to 999 cannot be told from the
  sources: the code passes them on.
* `is_format_supported` and `get_supported_formats` of the factory: nobody calls them.
* A run whose settings crash on a division by zero is a behaviour of `Settings`
  only; `BatchRun` starts after it.
* A thread constructor or an allocation in a phase that throws.
* Timers and throughput, banner and usage: no control flow depends on them.
* Build and CI.
* `publish-deps.ps1` and `publish-release.ps1` prepare dependencies and archives and
  are no part of the running program.

## 6. What could follow

1. `StripPipeline` composed with `FormatEncoder`, where a worker's encode step is a
   call in several steps. The refinement says that nothing else can come of it than
   what the pipeline assumes.
