# Nameless Center: a TLA+ verification project

Nameless Center is the update application of an Android ROM. It asks a server for
new builds, downloads them, checks and installs them; a small native library
applies binary deltas with xdelta3, which is part of the repository, and a server
script produces them. This directory holds TLA+ models of the application's own
logic and of the native code, the TLC configurations that check them on small
instances, and TLAPS proofs for every instance.

## 1. Inventory

Paths are relative to `src/app/src/main/java/org/namelessrom/center/` (`J`),
`src/app/src/main/jni/` (`N`) or `src/server/`.

| Component | Code | State | Operations | Talks to |
|---|---|---|---|---|
| Download service | J `services/DownloadService`, `DownloadRunnable` | static list of runnables, work queue, thread pool, registration flag; per runnable thread, future, percentage | start and stop commands, startup, tearDown, cancelDownload, run, enqueueDownload, onProgress, refresh | pool threads, Ion's network thread, main looper, Otto bus, notifications, database |
| ROM update screen | J `fragments/updates/RomUpdateFragment`, `cards/RomUpdateCard` | bus registration, cards, `mDownloading`, changelog flags | onStart/onStop, refresh, events, buttons, install task | both services, bus |
| Preferences, database | J `database/*`, `utils/PreferenceHelper` | static handler and connection, SQLite file | getInstance, getDatabase, tearDown, read, insertOrUpdate, upgrade, downgrade | called from main and pool threads |
| Update check | J `services/UpdateCheckService`, `receivers/UpdateCheckReceiver`, `utils/Helper`, `fragments/preferences/RomUpdatePreferenceFragment` | interval, boot flag, last check, alarm, `mAction`, requests in flight | broadcasts, schedule, onStartCommand, callback, interval change | alarm manager, server, bus, DashClock, notification |
| Installation | J `utils/UpdateHelper`, `MD5`, `FileUtils`, `items/UpdateInfo` | update files, recovery scripts | digest check, script writing, reboot, delete | recovery |
| DashClock extension | J `services/dashclock/*`, `receivers/DashclockUpdateReceiver` | last list | data update | broadcast of a check |
| Application shell | J `AppInstance`, `MainActivity`, `SettingsActivity`, `fragments/HomeFragment` | menus, navigation | - | starts checks, tears the database down |
| dedelta | N `delta.c`, `delta_run.c`, `delta_jni.c` | three files, two buffers, an xdelta3 stream | apply a delta | xdelta3's decoder |
| zipadjust | N `zipadjust.c`, `zipadjust_run.c` | two files, the directory | rewrite a zip in a form of its own | zlib |
| xdelta3, library | N `xdelta3-3.0.7/xdelta3.c`, `xdelta3-decode.h`, `xdelta3-hash.h` | a stream: state, window, sections, instruction buffer, checksum tables, source | `xd3_encode_input`, `xd3_decode_input`, `xd3_getblk`, `xd3_close_stream` | returns to its caller for input, output and source blocks |
| xdelta3, program | N `xdelta3-main.h`, `xdelta3-blkcache.h` | files, window buffer, block cache | `main_input`, `main_set_source`, `main_getblk_func` | library, files, pipes |
| Delta server | `opendelta.sh`, `MinSignAPK.java` | files | build, sign and publish deltas | zipadjust, xdelta3 |
| Libraries | `com/larvalabs/svgandroid`, `com/special/ResideMenu` | - | - | - |

What is hard in this code:

* *Threads.* Work list and queue are static and unsynchronized; `cancelDownload`
  walks them on the main thread while pool threads take, start and end tasks.
* *Messages.* Bus events, service commands, `startup`, `tearDown` and Ion's
  completions all go through the main looper, posted by three kinds of threads.
* *Lifetimes.* Fragment, service objects and process come and go while static
  fields, alarms and the database file stay; events posted to a stopped fragment
  are lost.
* *A closed database.* Broadcasts and the activity close the database other
  threads are using.
* *Numbers.* Frequencies are ints in seconds, some of them negative codes, and
  multiplied by 1000. Sizes and offsets come from a delta or an archive; results of
  system calls become unsigned numbers.
* *Coroutines.* Encoder and decoder return to their caller in the middle of a window
  and go on later, with references into the caller's buffers and state that was
  computed before the return.
* *Caches.* The block cache evicts, skips and refuses while the library still reads
  from the block it was given before.
* *Failures.* Any read, write or seek may fail or come short.

What makes each component correct:

* Download service: a running download can be found and cancelled; bus
  registration is balanced; every accepted download ends; 101 means done.
* Update screen: cards show what happens; progress views go away.
* Database: the two static fields agree; one row per name; reads return what is
  stored; opening leaves a complete schema.
* Update check: the alarm follows the preference; a check is recorded; what is
  offered is new.
* dedelta: what it writes is the target as far as it goes, success means all of it.
* Decoder: what it writes stays in its buffers as long as sizes do not wrap around a
  `usize_t`, sections stay intact. Encoder: every window decodes
  to its input, no input is lost, the search makes progress.
* Block cache: the library reads the file's blocks. Program: success means that all
  of the output is in the file.
* zipadjust: a reader finds the same entries in the output, and adjusting twice is
  adjusting once.

The hazards, each at its line, and the properties aimed at them are in
`PROJECT.json` under `hazards`.

## 2. Plan

| Order | Modules | What |
|---|---|---|
| 1 | `Download`, `DownloadProofs`, `MCDownload` | service, pool, looper, network and fragment in one state machine |
| 2 | `DatabaseHandler`, `DatabaseProofs`, `MCDatabaseHandler` | preferences under threads |
| 3 | `UpdateCheck`, `UpdateCheckProofs`, `CommonLemmas`, `MCUpdateCheck` | checks, alarm, service records |
| 4 | `Vcdiff` | the format, shared by encoder and decoder |
| 5 | `DeltaDecoder`, `Dedelta`, `DeltaApply`, `DedeltaProofs`, `WindowProofs`, `MCDedelta` | the decoder, its caller `dedelta`, and the promise both keep |
| 6 | `DeltaEncoder`, `EncodeFile`, `MCEncodeFile` | the encoder and its callers |
| 7 | `SourceBlocks`, `SourceFile`, `SourceBlocksProofs`, `MCSourceBlocks` | the block cache and the file it stands for |
| 8 | `XdeltaMain`, `XdeltaMainProofs`, `MCXdeltaMain` | the program's main loop, which keeps the promise of `DeltaApply` too |
| 9 | `ZipAdjust`, `MCZipAdjust` | the archive's new form |

All of it is done. What could follow: theorems about `ZipAdjust` and `EncodeFile` (both
need their recursive operators written as functions first); the merge command of xdelta3;
the install task.

How the modules compose: `DeltaDecoder` EXTENDS `Vcdiff` and `Dedelta` EXTENDS
`DeltaDecoder`, adding the caller; `EncodeFile` does the same with `DeltaEncoder`.
`MCDedelta` makes its deltas with the encoder's operators of `Vcdiff`.
`XdeltaMain` sees of the library only the codes it returns, `SourceBlocks` only
the blocks it asks for. `Download` takes the preferences that `enqueueDownload` reads
as any values: `DatabaseHandler` shows why that is necessary.

| Abstract specification | Implemented by | As property |
|---|---|---|
| `DeltaApply`: the output grows by whole windows in order; success means all of them; a failure leaves at most a piece of the next | `Dedelta` with `DeltaDecoder` | `AppliesDelta` |
| `DeltaApply` | `XdeltaMain` | `GrowsByWindows`, also proved |
| `SourceFile`: an answered request shows the file's block, a refused one the block that was there before | `SourceBlocks` | `ServesFile`, also proved |

## 3. `Download`

One state machine of four kinds of actors.

* **Main thread.** `handler` is the FIFO of the main looper; `Dispatch(what)` takes
  its head. Each handler is one action: `OnStartCommand`, `OnStopCommand`,
  `StartupService`, `StartupRunnable`, `TearDownService`, `DispatchProgress`,
  `DispatchError`, `DispatchRefresh`, `DispatchDummy`, `DispatchComplete`.
  `cancelDownload` reads state that other threads change, so it is one step per
  access (`BeginCancel`, `CancelToArray`, `CancelRunnable`, `EndCancelRunnables`,
  `CancelQueued`, `EndCancel`), with its locals in `main`; an uncaught exception
  leaves `main.at` in `Crashes`.
* **Pool threads.** `Take`, `BeginRun`, `EnqueueDownload`, `PostStart`, `FinishRun`
  are the steps of `run()`. `Execute` and `Take` are ThreadPoolExecutor with equal
  core and maximum size, `Settle` is Ion's future (external).
* **Network thread.** `OnProgress`, `TransferEnds`.
* **Environment.** `Start`, `ClickCancel`, `FragmentStart`, `FragmentStop`,
  `ServiceDestroyed` (the system stops the service), `ProcessDeath`;
  `DeliverCommand` is the activity manager.

| Variable | Code |
|---|---|
| `mRunnables`, `isRegistered`, `mWorkQueue`, `mThreadPool` | the static fields of DownloadService |
| `producer`, `run[r].bus` | registration with Otto |
| `run[r]` | fields of a DownloadRunnable: `mThread`, `fileResponseFuture`, `oldPercentage`; `pc` is where it is in its life |
| `downloading` | `mDownloading` of the card adapter |
| `used` | how often each environment action has happened; `Max` bounds it |

Left out: notifications, dialogs and logging; the content of a transfer. When the
process dies, commands already handed to the looper are taken as lost and those the
activity manager still holds as delivered to the next process.

### Runs

| Run | Checks | Instance | States |
|---|---|---|---|
| `download_events` | `TypeOK`, `NoOrphanTransfer`, `StartupFirst`, `TearDownOnce` | 1 id, 1 thread, percentages -99 and 101, one of each environment action | 1.24 M |
| `download_live` | `ProducerMatchesFlag`, `EveryDownloadEnds` | 1 id, 1 thread, 2 starts, 1 destroy | 211 k |

Two downloads on one thread are the least with which one is queued while the
other runs and a thread is reused; one cancel or destroy is enough because the proofs
below cover every number of each. The liveness run has no cancel: each cancel
multiplies the state space and adds only another way for a future to settle.
`CHECK_DEADLOCK FALSE`: an app that nobody uses, or that has crashed, may stop.

Fairness (`FairSpec`): weak fairness of the looper, of `cancelDownload` once begun,
of the activity manager, of each pool thread and of the end of each transfer, which
Ion's socket timeouts guarantee. The user and the system owe nothing.

The model reaches things a reader should know of and no property forbids:

* after one `tearDown` the static pool stays shut down and rejects every later
  download of the process, which is told "please try again";
* a download that warns about a metered network is torn down by the warning and again
  by 101, and Otto throws on the main thread;
* so is one whose progress is 101: `onProgress` does not clamp its percentage, which
  passes 100 when more bytes arrive than were announced, and 101 is the value that stands
  for the end. These two are the exceptions of `TearDownOnce` (`premature`);
* a fragment that was stopped when 101 was dispatched shows the download as running;
* cancelling a finished but still listed download interrupts the thread, which may
  run another one;
* the indexed loop of `cancelDownload` skips the runnable behind each one it removes;
* a pool thread that `shutdownNow` interrupts posts 101 while its transfer goes on.

### Proofs (`DownloadProofs`)

For every set of ids, threads and percentages and every `Max`, from
`IdsAssumption`, `ThreadsAssumption`, `PercentagesAssumption` and `MaxAssumption`:

* `TypeCorrect`: `Spec => []TypeOK`;
* `InvCorrect`: `Spec => []Inv`;
* `TransfersListed`: `Spec => []NoOrphanTransfer`;
* `StartupComesFirst`: `Spec => []StartupFirst`;
* `TornDownOnce`: `Spec => []TearDownOnce`;
* `RegistrationConsistent`: `Spec => []ProducerMatchesFlag`.

None of the four properties is inductive. `Inv` adds

* `QueueInv`: the work queue holds the queued runnables, each once. Without it a
  `Take` could restart a runnable that is finished;
* `FutureInv`: no future before `enqueueDownload`, so a runnable that `cancelDownload`
  removes from the list has one and settles it;
* `ListInv`: a runnable that exists and is not settled is listed, which gives
  `NoOrphanTransfer`;
* `BusInv`: for each runnable, `Good` relates queue, bus and `pc`: an unregistered
  one has its startup queued ahead of everything that tears it down, and one that
  neither warned nor posted a progress of 101 is torn down at most once, only after its
  run is finished.

`PercentagesAssumption` allows every integer but -1, which is the value of
`oldPercentage` before the first: (int) (downloaded * 100.0 / total + 0.5) is not
negative for a known total and 0, -99, -199 and so on for the unknown one, -1.

The proof that a step preserves a part has one step per action; lemmas about queues
(`QueueConcat`, `QueueTail`) and record updates (`BecomesFacts`, `UpdateType`)
carry the rest.

## 4. `DatabaseHandler`

`sDatabaseHandler` and `sDb` are the static fields, `open` the connections that are
not closed, `version`, `tables` and `rows` the file. `GetInstance`, `GetDatabase`
and `TearDown` are synchronized methods and atomic. A read or write is a `call`
that goes through `Entry` (getInstance), `Check` (the null test), `Load` (the field
is read again) and `Exec` (SQLite executes), once per statement; reads of `sDb`
happen outside the lock, and what a racing read may return is what another order
of these steps gives. `UpdateTable.insertOrUpdate` (`CheckUpdate`, `LoadUpdate`)
holds the lock of its own class and asks `getDatabase` each time. Opening a file
runs `OnCreate`, `OnUpgrade` or `WipeDb` on its tables; a failed statement undoes
the opening and throws (`OpenThrows`).

The main thread reads and writes preferences and tears down, pool threads read
preferences and store updates: the callers that exist. `seen` and `torn` are
history of a call.

`database_threads` (2 pool threads, 1 preference, 1 update, 3 calls, 1 tearDown, 1
death, file versions 0 to 3; 521 k states) checks

* `HandleConsistent`: handler and connection are both set or both null, and nothing
  else is open;
* `OneRowPerName`: delete and insert of one name never interleave;
* `ReadsAreCurrent`: a read returns a value the row had during it, or null when
  overtaken by tearDown;
* `CrashOnlyByTearDown`: null and closed connections are met by overtaken pool
  threads only; the main thread fails on a file of a newer version only, whose
  downgrade is an exception of the property and not a fault it would find;
* `SchemaComplete`: statements meet both tables. A downgrade throws and is rolled back,
  so it never gets to a statement.

Three calls are a writer, a reader and another writer; more only repeat their pairs.
`database_forbidden` shows the price: with a prohibition stored, a read overtaken
by tearDown returns permission (`ForbiddenIsRefused`).

### Proofs (`DatabaseProofs`)

All six properties of `database_threads` are theorems for every set of pool threads,
preferences, updates and file versions and every `Max`, from the assumptions of
the module (`NamesAssumption` says that preferences and updates are different
rows). `HandleConsistent` is inductive with the types of its variables; the others
are not, and the inductive invariant `Inv` adds

* `FileInv`: the tables are those of the file's version, and a file with a
  connection has the current version. `OpenedComplete` computes what opening does
  to each version;
* `LockInv`: one thread at a time is between the statements of
  `UpdateTable.insertOrUpdate`; `NamesAssumption` and `Shape` do the rest for
  `OneRowPerName`, because only the main thread writes preferences;
* `ThreadInv`, for each thread: `Shape` (which statements its method has left),
  `Linked` (past the null test the version is current and, unless tearDown came,
  `sDb` is still the connection that was tested or loaded; the main thread is never
  overtaken, since it is the one that tears down) and `Noted` (the present value of
  its row is in `seen`, and a writer between delete and insert has left no row).

`ThreadInv` takes the state as parameters, so that one lemma (`Steady`) shows that
what a thread knows survives the steps of the others, and `CallStep` reduces a step
without a statement to the call of the thread that takes it.

## 5. `UpdateCheck`

All code runs on the main thread; what interleaves are broadcasts, alarms, clicks,
commands in the looper and answers of the server. `record` is the activity
manager's service record: `StartService` reuses it or makes a new one, `PostBus`
ends with `stopSelf`, which stops the record of its own service object only.
`mAction[i]` is the field of the object of record i, which every command overwrites
and every callback of that object reads. Answers to a service that is gone may be
dropped by Ion or delivered. `Millis` is the 32-bit product with 1000. Time is
abstracted: an armed alarm may go off at any moment, and the time stored as last
check is not kept. `ACTION_CANCEL_CHECK` is never sent. An update of an answer has
a timestamp, possibly unparsable, and two flags, because the file name the parsed
object looks for and the one the app uses differ when the server's name has .zip.

| Run | Checks | Instance | States |
|---|---|---|---|
| `check_alarm` | `TypeOK`, `AlarmAsStored`, `OfferIsNew` | all 8 intervals, 2 preference changes, 1 boot, 1 broadcast, 1 alarm, 1 app start, 1 death; answers of up to 2 updates, new or undated | 269 k |
| `check_live` | `RefreshAnswered` | 2 refreshes, 2 starts of the screen, 1 alarm, 1 broadcast, 1 preference change, 1 death | 730 k |

`AlarmAsStored` says that an armed alarm always has the interval stored now. It also
shows two oddities of the code: the monthly interval overflows to a negative one
and so does not repeat, and choosing manual checks on the preference screen arms an
alarm with interval -1000, which goes off once.

Two updates are enough for an old one to stand before a new one; two refreshes and
an alarm for three requests of two service records; with two starts the screen can be
stopped while a check is in flight and started again. Fairness: the looper runs and
every request is answered or fails. `RefreshAnswered` says that the view of a started
screen goes away as long as a check service runs. Its exception is real: an answer
posted while the screen is stopped is lost, the service that posted it has stopped, and
nothing answers the screen that starts again until the next refresh. The model also reaches a
check whose answer is not recorded, because a refresh has overwritten `mAction` while
the request was under way.

### Proofs (`UpdateCheckProofs`, `CommonLemmas`)

For every list of intervals that satisfies `FrequenciesAssumption` (none but the monthly
one is longer than two weeks, as in Constants), all dates, answers of any length and
every `MaxEvents`:

* `AlarmFollowsPreference`: `Spec => []AlarmAsStored`. It is inductive with the type of
  `freq`; `MillisPositive` is the arithmetic of the conversion;
* `CheckTypeCorrect`: `Spec => []TypeOK`. `TypeOK` alone is not inductive, because a
  command in the looper says to which record it goes and an answer to which request.
  `TypeInv` adds `BoundInv` (a record was begun by something that `used` counts, so there
  are never more than `Records` has) and `QueueInv` (messages name what exists);
* `OfferedIsNew`: `Spec => []OfferIsNew`. The callback counts the new updates but offers
  the first of the list, which may be an old one that is downloaded. With one new update
  the first is either that one or has a file and is not offered.

`Pending`, the commands that survive the process, is a recursive function over the
queue. What it returns for every queue is proved by induction: the induction rule of the
library takes an operator, which the provers cannot instantiate, so `CommonLemmas` derives
forms about sets (`Least`, `Inductive`) and about functions defined by recursion
(`RecursionExists`, `RecursionType`) from the well-foundedness of the order on numbers.

## 6. `Vcdiff`, `DeltaDecoder`, `Dedelta`

`Vcdiff` holds the definitions encoder and decoder share: variable-length integers
with their overflow tests, the code table (built from its description, as
`xd3_build_code_table` does, and rebuilt from a table string), the address cache with
its near and same modes, the choice of single and double opcodes, window headers and
Adler-32. The base of the integers (128), the widths of `usize_t` and `xoff_t` and the
page of the same cache (256) are constants, so that an instance of a few bytes meets
their boundaries.

`DeltaDecoder` is `xd3_decode_input`: one action per case of its switch
(`DecVcHead` to `DecFinish`) and per instruction half of the emit loop
(`EmitRun`, `EmitAdd`, `EmitCopyTarget`, `EmitCopySource`). `stream` is the decoder's
part of `xd3_stream`, `source` the `xd3_source`, `ibuf` the caller's chunk and `at`
how much of it is consumed. A section that a chunk holds completely is a position in
`ibuf`, not a copy, as in the code.

Sums of sizes wrap around `Word` wherever the code adds `usize_t`s: in the bounds of an
instruction (`InBounds`), in the length of the delta encoding (`EncLen`), in what the
sections need (`Needed`, `More`) and in the rounding of a buffer's size (`RoundBlksize`).
A delta can use that: an instruction of one byte followed by one of 2^32 - 1 passes the
check, and the second writes past the window's buffer. The model does not say what lies
beyond a buffer: where the code reads or writes there, `ret` becomes `"undefined"` and
nothing follows. Windows with VCD_TARGET swap the decoder's buffers (`Swapped`), and
what is freed when a window needs more room is `dec_buffer`, whichever is in use
(`NewBuffer`): the buffers have addresses, a freed one may be given out again, and a write
through `next_out` to one that was freed is `"undefined"` as well (`Live`).

`Dedelta` is the caller, `dedelta()`: `Open`, `NoMemory`, `SetSource`, `ReadDelta`,
`OnInput`, `OnOutput`, `OnGetsrcblk`, `OnWindow`, `OnError`, `Close`. `fout` is the
output file. The fields of `xd3_source` that `dedelta` does not set start as what the
stack held: 0, 1 or the largest number. After an error the function returns at once and
leaves what is written; only a file that cannot be opened has the output removed. The
constant `Inputs` holds the files it may be called on, with what the windows stand for,
and `Chunks` the values of `CHUNK`; `Spec` is in the module, so that what is proved holds
for any of them.

| Run | Checks | Instance | States |
|---|---|---|---|
| `dedelta` | `WindowFits`, `SectionsIntact`, `OutputIsTarget`, `AppliesDelta`, `Returns` | see below; one fault | 47 k |
| `dedelta_truncated` | violates `SuccessIsComplete` | the same | |

The inputs are two deltas with three windows between them and every prefix of them, a third with one
byte changed, a source that is too short, odd headers (a code table, a secondary
compressor, unknown bits, a copy from the target file, also in a window that is refused),
sizes of instructions and lengths of sections whose sum wraps around to none, few and
many bytes (`WrappingSizes`, `WrappingLengths`), and windows of adds with and without
VCD_TARGET, which swap and free buffers (`TargetWindows`), in chunks of 4 bytes, where
every field and section is cut, and of 64, where several windows arrive at once. A
`usize_t` has 10 bits, so that these cases are short. The
windows have adds, runs, copies over a block's edge, copies that overlap themselves,
double opcodes, a copy of all the source, with and without a checksum. A changed byte
in a window without a checksum may give other output; the damaged deltas therefore
have checksums in all windows.

* `WindowFits`: what is written and what the parsed instructions have still to write
  add up to the position that is checked against the window's end, which the buffer
  reaches. The code leaves its buffers in three cases only, which the property names:
  lengths of sections that wrap around when they are added or rounded up (`LengthsWrap`),
  sizes of instructions that do (`InstructionsWrap`), and a window after VCD_TARGET has
  swapped the buffers (`~OwnsBuffer`). The run reaches all three; in any other delta an
  access outside a buffer would violate it.
* `SectionsIntact`: until a window is done its sections are the bytes the delta has
  there, although the decoder returns for source blocks in between. Lengths that wrap
  around never get so far: each section is taken in full, and a delta below 4 GiB
  (`InputsAssumption`) does not hold that much.
* `OutputIsTarget`: what is written is a prefix of the target, whatever fails.
* `AppliesDelta`: refinement of `DeltaApply`.
* `Returns`: the function returns, with three exceptions that the model shows: an access
  outside a buffer (`"undefined"`), a
  `max_winsize` above half its range makes `xd3_xoff_roundup` loop for ever
  (`"rounding"`), and a failing read of the delta is taken for a chunk of 2^32 - 1 bytes
  (`"overrun"`; what follows is undefined and not modelled).

`dedelta_truncated` is the finding: `dedelta` calls `xd3_close_stream`, whose purpose
is to notice a decoder that is not at a window boundary, ignores the answer and
returns success for a delta that ends within its header or within a window. `DeltaApply` says what can be relied on all the same: success on a
delta that is as the encoder made it means every window.

Fairness: weak fairness of `Next`, one thread that runs. `CHECK_DEADLOCK FALSE`:
the function ends.

### Proofs (`DedeltaProofs`, `WindowProofs`, `CommonLemmas`)

For all files of bytes, whether or not they are deltas, a delta being shorter than 4 GiB
(`InputsAssumption`: its length is below `Word`), every positive chunk size that fits in a
`usize_t` together with the largest window (`ChunksAssumption`: 256 KiB and 16 MiB in the
code), any number of faults, all widths of integers
(`BaseAssumption`, `WordAssumption`, `DecoderAssumption`), every page of the same cache
(`PageAssumption`) and whatever strings of bytes code tables decode to
(`TablesAssumption`):

* `SectionsCorrect`: `Spec => []SectionsIntact`;
* `DedeltaCorrect`: `Spec => [](DedeltaInv \/ Astray)`, the inductive invariant it follows
  from;
* `WindowsFit`: `Spec => []WindowFits`;
* `WindowCorrect`: `Spec => [](WindowInv \/ Astray)`, the inductive invariant it follows
  from.

All of this is arithmetic modulo `Word`; nothing says that a sum does not wrap around.
`Astray` is the state of a decoder whose section lengths wrap: it is reading the sections,
and the delta is too short for it to finish them (`Counted`: what was taken never exceeds
what the delta holds). It stays there until the delta ends, an answer is an error, or the
code leaves a buffer. Within `WindowInv` it is the sizes of the instructions that may wrap (`Accounted`).
`Charged` closes the argument: `ret` becomes `"undefined"` only in
a state where `LengthsWrap`, `InstructionsWrap` or `~OwnsBuffer` holds (`HeaderDefined`,
`SectionUndefined`, `EmitUndefined`), and stays so.

`SectionsIntact` speaks of a window that is being emitted. How its sections came to be
what they are takes the decoder back through as many chunks as they were cut into:

* `GatherInv`: while the sections are read, what has been gathered of the three is the
  part of the delta before the decoder's position, `winbytes` long;
* `SectionInv`: only the section whose turn it is has a part, which was copied; one
  that is complete was copied as a whole or lies in the chunk before `at`, and if it lies
  there the rest of the window is in the chunk as well (`More <= AvailIn`);
* `FileInv`: the chunk is what the delta holds before the descriptor's position;
* `InputInv`: when the function asks for the next chunk this one is used up and no
  section lies in it. Without it a read of the delta would replace the bytes of a section;
* `HeaderInv`: the magic, the code table, the application header and the checksum never
  hold more than was announced, so that how much a state still asks for is a number, and
  they are empty when their turn comes;
* `StreamTypes`.

Every state that reads the header moves the position by what it takes and leaves the
sections alone (`HeaderMoves`); every state that reads a section is `SectionStep`, with the
cases of `xd3_decode_section` as lemmas of their own (`SectionReads`, `NextPiece`,
`MoreGathered`, `NextGathered`); an instruction moves only the cursors of the sections
(`EmitMoves`, `Kept`); the end of a window clears them (`WindowOverStep`, `EmitEndStep`).
That an integer never takes more bytes than there are is `DecodeIntegerType`, by induction
over the bytes with the lemma `RecursionType`.

`WindowFits` is proved on top of `DedeltaInv`, in `WindowProofs`. The emit loop does not
look at the buffer: it relies on what was checked when an instruction was parsed, and the
parser on the code table and the caches. `WindowInv` says what each relies on:

* `Equipped`: once the header is read every opcode of the code table has sizes that are
  numbers and modes below `2 + s_near + s_same`, whether the table is the built-in one
  (`DefaultTable`, by the lengths of the parts it is built of) or the delta's own
  (`OtherTable`, from `TableStringValid`), and the address cache has the sizes that were
  announced. So an address is a number (`AddressAnswer`);
* `Planned`: from `DEC_CPYOFF` to the first instruction `position` is the start of the
  target in the window, and from `DEC_DELIND` on `maxpos` is its end;
* `OutputInv`: between windows nothing is pending and nothing written but not taken;
  while a window is emitted `Accounted` holds: the target's length is within the buffer in
  use, and, unless their sum wraps around (`Sum`), what is written and what the two halves
  have still to write end at `position`, and
  `CopyThere`: a half that copies begins in the copy window and ends there, or begins
  where something is written by its turn. The second half may begin in what the first
  writes, which is why both are in one formula;
* `SpareInv`: a section that is copied has room for all of it, unless its length wraps
  around when it is rounded up; a window without a buffer has no space;
* `ReturnInv`, `SourceInv` and `FilesInv`: in which states the function gives output, and
  that a block read from the source, in part or not at all, leaves a buffer of its size;
* `Valued`: the numbers are numbers and the output is made of them.

There is a lemma per case of the decoder's switch, per kind of half and per step of the
caller (`DecTabDatFits`, `EmitCopySourceFits`, `OnGetsrcblkFits`), joined in `DecodeFits`
and `NextFits`. Two parts carry the argument: `ParseHalfFits`, that a half the parser
accepts is within the window and its copy within what is there, and `WriteKeeps` with
`CopyFits`, that a piece written is taken off what the half has left. A copy that begins in
one source block and goes on in the next is written in pieces; `Left` is what such a piece
leaves of a half: the rest begins where the piece ends.

TLC has checked `DedeltaInv \/ Astray` and `WindowInv \/ Astray` on the states of the run
`dedelta`.

## 7. `DeltaEncoder`, `EncodeFile`

`DeltaEncoder` is `xd3_encode_input`. `EncInit`, `EncInput`, `EncSearch`, `EncInstr`,
`EncFlush`, `EncPostout`, `EncPostwin` are its states; the search is one action per
step of `xd3_string_match_default` and of the functions it calls: `TryRun`,
`TryLarge`, `TrySmall`, `UpdateOne`, `ExtendBackward`, `ExtendForward`,
`MovePoint`, `InsertBlock`. `loop` holds the locals of a call, which are lost when it
returns for a source block; `stream.used` is the instruction buffer, which `GetSlot`,
`Erase`, `Resolve` and `FlushInstructions` change. Hash tables are as in the code, with
16-bit halves of the large checksum made `HalfBits` bits, so that collisions happen. One
soft configuration stands for those of `xdelta3-cfgs.h`, with its numbers made small.

`EncodeFile` is a caller: `xd3_process_memory`, or one that reads input in pieces. It
answers requests for blocks; with a callback (`config.getblk` blocks kept) it may
refuse one that is too far back.

`encoder` (99 k states) checks, on 36 short inputs and 32 long ones made of pieces of a
source of 28 bytes, runs and repetitions, and on 8 that match to the end of a source of
24 bytes, whose last block is full so that its length shows in an empty block only, with windows of 12, 13, 16 and 64 bytes, 4
instruction slots growing or not, a source of known and unknown length, callbacks
that keep 1 or 2 blocks or none, and no source at all:

* `RoundTrip`: a window's sections, interpreted by RFC 3284 (`Interpret`, a reference
  decoder of a page), give its input and are used up by it;
* `BufferSound`: every instruction in the buffer produces the bytes at its position,
  none covers another, and there is always a slot;
* `LoopStateFresh`: rolling checksums and run length are what a computation at the
  input position gives (checks of a debug build);
* `SourceKnown`: what the encoder learned of the source's length is true, and its index
  points to positions of that checksum;
* `InputInOrder`: what it was given is what it encoded and still holds, in order;
* `Finishes`: every encoding comes to its end with success.

Four slots are the least with which the buffer is flushed early and the source window
is guessed while later copies come; blocks of 8 bytes with matches of 5 make scans
cross an edge both ways. Fairness: the caller's thread runs.

An observation without a property: `xd3_close_stream` accepts an encoder that still
holds buffered input, so a caller that never sets `XD3_FLUSH` loses the end of its
input; `main_input` always sets it.

## 8. `SourceBlocks`

`xdelta3-blkcache.h`: `main_set_source` (`OpenSource`, `SetSource`), `main_getblk_func`
(`LookupHit`, `LookupMiss`, `LookupRefused`, `Relookup`, `Read`),
`main_read_seek_source` (`Seek`, `SeekFails`, `Skip`, `SkipDone`). `blkno`, `size` and
`lru_list` are the slots, `mem` the one buffer they share, in which a byte is
represented by its offset in the file. `Request` and `Reuse` are the library: the encoder
reads on, to the empty block behind a file of full ones, and goes back; the decoder asks
for any block, also beyond the end (`Wanted`).

`source_blocks` (3 slots of 2 bytes, files of 0 to 8 bytes; 463 k states) checks
`CacheSound`, `CurrentIntact`, `WindowKept`, `Answered` and the refinement `ServesFile`
of `SourceFile`, on regular files, pipes, files whose seek fails, and no file. Eight
bytes are more than the buffer and give every remainder of a block; three slots are
the least with which the slot of a second lookup may be neither the first victim nor
the last block. Fairness: `main_getblk_func` runs to its end.

An observation: a miss that has to seek empties two slots, since the second lookup
takes another victim, so the cache is one block smaller than its size.

### Proofs (`SourceBlocksProofs`)

For every number and size of slots and every length of the file, from `SizesAssumption`:

* `BlocksTypeCorrect`: `Spec => []TypeOK`;
* `InvCorrect`: `Spec => []Inv`;
* `CacheIsSound`: `Spec => []CacheSound`;
* `CurrentIsIntact`: `Spec => []CurrentIntact`;
* `CacheServesFile`: `Spec => ServesFile`, the refinement;
* `ScanCorrect` and `WindowIsKept`: `Spec => []ScanInv` and `Spec => []WindowKept`.

`CacheSound` is not inductive. `Inv` adds `ShapeInv` (slots and block size make up the
buffer), `ListInv` (the list names slots in use), `PlaceInv` (FIFO keeps a block in the
slot of its residue, without which a block could be held twice), `AlignInv` (the file is
read in whole blocks, so the division in the skip loop is exact), `CurrentInv` (the
current block is intact until a step after which the request can no longer be refused)
and `PhaseInv` (what each phase relies on: at `read`, the slot found is the only one that
may hold the wanted block). `NextBlock`, `EarlierBlock` and `SlotsApart` are the
arithmetic of products that SMT does not find alone; `Filling`, `Evicting` and `Reading`
say what a read does to every other slot.

`WindowKept` needs more of the history than `Inv` has, namely that FIFO has read the file
without a gap. `ScanInv` is inductive relative to `Inv`: `FifoInv` (who uses FIFO),
`FrontierInv` (the encoder never asks for a block beyond the first it has not had) and
`WindowInv` (for some number of blocks read, the slots hold the last ones, but for the
slot given up for the block wanted, which comes later). `Answered` is liveness and stays
with TLC.

## 9. `XdeltaMain`

`main_input` for encode and decode: `ReadSome` and `Feed` gather a window, `Process` is
a call of the library, `OnInput`, `OnHeader`, `OnWindow`, `OpenOutput`, `RefuseOutput`,
`WriteSome` and `Consume` are the codes it returns, `Done` and `Cleanup` the end, `Fault`
any failure. Reads and writes take any part of what is asked. The library is reduced to
the codes and to which cells it takes.

`xdelta_main` (95 k states) checks `SuccessIsComplete`, `Exits` and the refinement
`GrowsByWindows` on inputs of 0 to 7 cells with windows of 2 and 3 and on every prefix
of a delta of three windows, with all options that matter: short of, equal to and longer
than a window, and its multiples. Fairness: the program runs, and an interrupted read
or write gets on in the end.

Between the test that the output does not exist and its opening another program may
create it; this race is not modelled.

### Proofs (`XdeltaMainProofs`)

For every input, every set of jobs and names, every smallest window and every length of a
delta's windows above 1, from `WindowAssumption` and `JobsAssumption` (the types of a
job's fields):

* `MainCorrect`: `Spec => []MainInv`, the inductive invariant;
* `SuccessCorrect`: `Spec => []SuccessIsComplete`;
* `WindowsGrow`: `Spec => GrowsByWindows`, the refinement of `DeltaApply`.

That success means all of the output says nothing of how far the program is before it
succeeds. `MainInv` does: `BufferInv` (the buffer holds the piece of the input before
`nread`, and is short at the end of the input only), `EncoderInv` and `DecoderInv` (for
each phase of the library and each code it may have returned, how many windows it has
taken and how much of the next), `OutputInv` (what is written is the windows applied and
the piece of the next one that `nwrite` tells) and `ExitInv` (an exit without a failure
has come to the last window). That the encoder takes as many pieces as the length divided
by the window gives, rounded up and one at least, and the decoder as many windows as the
delta holds, is arithmetic of products and quotients (`Multiple`, `Quotient`, `PieceThere`,
`PieceLast`, `DecodedLast`). `FlattenSeq` of the promise is a recursive definition, which
`Concatenation` and `FlattenNext` replace by what it does when one sequence is added, with
the lemmas of `CommonLemmas`. TLC has checked `MainInv` on the states of the run.

## 10. `ZipAdjust`

`zipadjust()`: `Scan` looks for the footer from the end, `ReadDirectory` takes the
directory, `TakeEntry` rewrites both headers of an entry, `Copy` and `Inflate` move its
data chunk by chunk, `Finish` writes directory and footer. A header is one cell of the
file and so is a unit of a name, an extra field or data; deflate is a function between
cells that makes small data larger and large data smaller. The local header that is
written is the one that was read, with its own length of the name (`LocalOf`), which an
entry may have other than the central header's (`lname`).

A failing file operation is one of three things. `FileFails` ends the call with 0. A read
of `xfilecopy` that fails is not noticed, because its -1 is a `size_t`: the write of as
many bytes fails too, with the -1 that was asked for, and the loop goes on
(`CopyReadFails`). Nor is a read of `xdecompress` noticed: the -1 becomes the largest
`avail_in`, and `inflate` goes through what the buffer held before and beyond it, to find
an error, the end of some stream, or no end at all (`InflateReadFails`, `stale`,
`"crashed"`). A call may then succeed with anything in the place of the entry.

`zipadjust` (190 k states) checks, on every entry alone, some in pairs, and archives with
comments that hold a footer's signature, with one failing operation: `OutputReadable` (no
gaps, both headers agree), `EntriesKept` (a reader finds the same names and contents),
`FixedPoint` (an archive in this form is copied as it is) and `Adjusts` (the call returns,
and succeeds on a good archive unless a file operation fails). A reader (`Headers`,
`DataOf`) is the reference. Fairness: the call runs.

The properties have exceptions, all of them in the code: after a failed read of
`xdecompress` (`stale`) nothing is said of an output that was reported as good; an entry
whose two headers give names of different lengths (`SameNames`) comes out with its name
read from the wrong place; and the place of an entry's data is computed with the extra
length of the central directory, so archives whose local extra field has another length
come out with other bytes (`SameExtra`, in `EntriesKept`). `FixedPoint` concerns none of
them: its archives have nothing to inflate and no extra fields. Names of 1024 bytes and
more, which overflow the buffer `filename`, are outside the model.

Oddities the model shows: `flags & !8` clears all flags, not the one for data
descriptors; a signature at the very end of a comment, or one that points beyond the
file, ends the search with failure; an archive without entries is refused; a failure
leaves the output as far as it is written.

## 11. What is only model-checked, and what is not modelled

Liveness (`EveryDownloadEnds`, `RefreshAnswered`, `Returns`, `Finishes`, `Answered`,
`Exits`, `Adjusts`) is outside what TLAPS proves here. Of the safety properties those of
`EncodeFile` and `ZipAdjust` are checked with TLC only, on the instances above: both
modules use RECURSIVE operators and `DeltaEncoder` also Bitwise, with which the provers
cannot work. Of `Dedelta`, `SectionsIntact` and `WindowFits` are proved.
`OutputIsTarget` and `AppliesDelta` are not: they depend on what a whole window decodes
to and on checksums that notice a damaged byte, which is true of the instances and not in
general.

Not modelled: notifications, dialogs and animations (display only); URLs and JSON
(data); the installation of an update and the server script (sequential file and shell
operations whose effect lies outside the programs); the changelog, the cards' tasks and
DashClock (display); of xdelta3 the secondary compressors, which this build leaves out,
the merge, recode and print commands, external compression and option parsing, which the
application does not use; svg-android and ResideMenu (user interface libraries).

## 12. Running

    tlc -config MCDownloadEvents.cfg MCDownload
    tlc -config MCDedelta.cfg MCDedelta
    tlapm DownloadProofs.tla
    tlapm DatabaseProofs.tla
    tlapm UpdateCheckProofs.tla
    tlapm SourceBlocksProofs.tla
    tlapm XdeltaMainProofs.tla
    tlapm DedeltaProofs.tla
    tlapm WindowProofs.tla
    tlapm CommonLemmas.tla

A definition preceded by a comment that begins with "Mutant" is a plausible bug of
the definition after it; `PROJECT.json` names the property it must break.
