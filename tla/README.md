# Formal models of pakon-mac

pakon-mac drives the Pakon F-series film scanners over USB and turns their raw
data into pictures.  Everything with state or concurrency is in the C library
`src/core`; its command line tools add a Ctrl-C watcher and a few loops of their own.
This directory has TLA+ models of its control logic, the TLC configurations that
check them on small instances, and proofs that TLAPS checks for all values of the
constants.

Contents: [the system](#1-the-system) - [the modules](#2-the-modules) -
[the runs](#3-the-runs) - [findings](#4-findings) - [the proofs](#5-the-proofs) -
[abstractions](#6-abstractions) - [not modelled](#7-not-modelled) - [plan](#8-plan).

## 1. The system

Paths are relative to `core/src` unless they begin with `include/` or `cli/`.

```
 CLI (hw2e, pakon, hw1) -> session/session.c -> scan.c, cal.c -> boards/*.c -> link/link.c -> link/guard.c -> transport/usb.c
      Ctrl-C watcher            |      |          |                                              ^     |
                                |      idle.c (thread)   stream/stream.c (2 threads) - read -----|     record.c / replay.c
                                |                          |                               device/fwload.c
                          session.active            ring.c -> raw file; line callback -> scan.c / calib/capture.c
                                                          |
                     stream/sidecar.c  <- scan.c          v
                              \--------> roll/roll.c -> decode/lores.c, framing/frame.c
 calib/store.c, device/eeprom_store.c, vendor/vendor.c: directories of files shared by processes
```

| Part | State it keeps | Operations | Hard behaviour | Modelled in |
|---|---|---|---|---|
| Guarded transport, `link/guard.c` | load window (phase, shadow of RAM, addresses written and read back), personality selection | every control transfer, load begin and end, reopen | a failed transfer may have taken effect; the running stage-1 scribbles in RAM; a reopen reaches another device | `Guard` |
| Firmware loader, `device/fwload.c` | where the load is, the read-back's verdict | write, read back, hold, release, reopen | any step may fail; its books and the guard's must agree | `FwLoad` |
| Packet link, `link/link.c` | mutex, `need_drain`, leave deadline, wedged flag | exchange, retry, drain, ping, leave mode | lost, late, malformed replies; no sequence numbers; two threads | `Link` |
| USB transport, `transport/usb.c` | handle, bus, a carry of read bytes | open, reopen, bulk transfers | partial transfers; a stale handle; several scanners | `Usb` |
| Boards, `boards/host.c`, `light.c`, `ccd_cfg.c` | shadows of registers | configure, update, acquire, lamp on, off | a sequence of writes that fails half way | `Boards` |
| Event readers, `boards/host.c`, `dx.c`, `film.c`, `lamp.c`, `session/idle.c` | pending interrupt flags, cached sensors, the remove-film hold | poll, film sense, lamp state, release | two consumers of one-shot flags | `Sense` |
| Film drive, `boards/film.c`, `motor.c` | `film_moving`, `film_stop_req` | move, stop | a stop from another thread, before, in and after the move | `Drive` |
| Session, `session/session.c`, `idle.c` | state, claims, run and idle threads, callback, cancel, marker file | open, start, wait, cancel, close, controls, eject, calibrate | all threads interleave; the process dies; the cable is pulled | `Session` |
| Scan, `session/scan.c` | strips, film detector, sidecar | arm, detect, flush, finish | the detector runs on the stream's thread; a crash at any step | `Scan` |
| Configuration, `session/config.c` | none | validate, budget, to and from the sidecar | boundary values that multiply | `Config` |
| Scan stream, `stream/stream.c`, `ring.c` | ring, line grid, line tap, counters, raw file | start, re-arm, poll, stop | chunks at any byte, overflow, failed writes | `Ring`, `LineSync`, `Stream` |
| Sidecar, `stream/sidecar.c` | entries, a cached tree | set, strips, write, read | a stale cache; nesting limits that add up | `Sidecar` |
| Calibration, `calib/measure.c`, `capture.c`, `policy.c`, `session/cal.c` | settings searched and sent, line sums, times, lineage | search, capture, record | searches that re-seed each other; lines of an old setting; failures between records | `LightSearch`, `Capture`, `CalRun` |
| Calibration store, `calib/store.c`, EEPROM images, `device/eeprom_store.c` | entries, append-only logs | install, select, resolve, put | power loss within an install, torn lines | `AppendLog`, `CalStore`, `EepromStore` |
| EEPROM read, `calib/eeprom.c`, `cli/hw1.c` | the unit's log | read, identify, save, adopt | a chip that may be read once, two programs | `ChipRead` |
| PSI import, `calib/psi_import.c` | parser slots | lines, finish, store | values of other keys, failures half way | `PsiImport` |
| Vendor files, `vendor/vendor.c`, `util/fsutil.c` | a directory of verified files | import, add, open | two importers, crashes, power losses | `VendorStore` |
| Traces, `transport/record.c`, `replay.c` | a log, a failure latch | record, load, replay | two recording threads, torn files | `Trace` |
| DX reader, `boards/dx.c` | line counter, votes, frame table | packets, end of strip | wraps, misread words, table repair | `Dx`, `DxTable` |
| Roll, `roll/roll.c`, `decode/lores.c` | decoded strips, running sums | open, decode, frames | strips asked for in any order, failures, retries | `Roll` |
| Frame detector, `framing/frame.c` | none | two passes | boundary cases | `Frame` |
| CLI, `cli/hw2e.c`, `pakon.c`, `hw1.c` | the signal's flag, the watcher | Ctrl-C in a run or a film move, EEPROM read | a signal between two statements | `Watch`, `Drive`, `ChipRead` |
| Discovery, colour, ICE, utilities | none that a call leaves | tables, arithmetic, parsing | - | [not modelled](#7-not-modelled) |

How the parts interact.  All commands go through the link's mutex; the link, the
loader and the stream share the guarded transport.  The session's worker and the
controlling thread never use the boards together: `hw_busy` is the claim, and
`idle_active` makes a claim wait for the idle thread's poll.  The stream calls
back into the scan on its reader thread.  The marker file `session.active`, the sidecar, the
stores and the EEPROM log are what outlives a process.

`PROJECT.json` lists the hazards of this code line by line, each with the
properties that would catch it.

## 2. The modules

Names of the source are kept where TLA+ allows it.  A module's variables are fields of the
named structs plus what stands for the world (device, files, another thread); variables
marked *history* only serve properties.  Each action is one critical section, transfer
or file operation: what another thread or a crash can come between.

### The device
- **Guard** has the fields of the load window (`phase`, `held`, `s1`, `fw`, `sh`, `a3_conf`,
  `rb_ext`, `rb_int`), the selection `a4`, and the device: `mem`, `cpu`, `sel`, `attached`.
  `GuardStep` offers an arbitrary caller every control transfer in any order.  A
  transfer succeeds, fails after taking effect or fails without; a failed write may have
  stored some of its bytes.  `DeviceStep` is what the 8051, the cable and the power do.
- **FwLoad** EXTENDS Guard: one label of `pc` per stage of `load_in_window`, one transfer
  per step, each *through* the guard's action, with a disjunct (`Refused`) for the case
  that the guard does not admit it.
- **Usb**: partial bulk transfers, the stream read with bytes beside a timeout, and the
  reopen that looks for the identity it wants until `wait_ms` is over.
- **Link**: `holder` has the mutex, `step` is where its exchange is (drain, out, in, ping).  A
  packet is its type and board, all that `pkl_check_response` compares.  `owed` are replies yet to be
  sent, `ep81` those that wait.  `PROMPT` is the assumption "a reply that is not there when a
  drain reads empty never comes".
- **Boards**: a call is a plan of register writes (`op.plan`), sent one by one; `known` and `shadow` are the
  shadows, `dev` the registers.  A write is done, lost (done and reported failed) or failed.
- **Sense**: `raised` and `record` are the board's one-shot flags, `irq_pending`, `dx_nibble`, `dx_rec_seq` what
  either reader has kept; the session's hold waits for a record newer than itself.
- **Drive**: a mover in `run()`, and five callers that stop it: `pakon`'s moves, `hw1`'s
  motor and DX tests, a session's move and the track test.

### The session
- **Session**: threads `c` (controlling), `w` (worker), `i` (idle); `Cancel` and `FilmStop` are open to
  any thread.  Program counters stand between two lock sections or transfers.  `motor` and `lamp` say
  who started them last.  `Crash` is enabled in every state; `Unplug`, `Wedge`, `Replug`,
  `PowerCycle` are the world's.
- **Watch**: the commands of `hw2e` with their watcher thread, the signal's flag and the
  session's cancel flag, which each start of a run clears.
- **Scan**: the worker's strip loop, the detector that the stream's reader thread feeds, the
  re-arms, the sidecar in memory and on disk, the raw file's end, cancel and crash.
- **Config**: validation, film length limit and strip budget of the F-135 Plus at every length, and the way
  through the sidecar.
- **Sidecar**: the document with its cached tree; a JSON value is its type and its nesting.
- **Ring, LineSync, Stream**: `LineSync` is the line grid: a chunk of any length arrives, and
  `sync_chunk`, `tap_lines` and `restart_search` go over it piece by piece; re-arms come between any
  two chunks.  A byte is its place in the stream, its datum whether bit 0 of its word is set.
  `Stream` EXTENDS `Ring` and `LineSync` and adds the threads, their failures, the raw file and the
  start and stop protocol.  It implements `LineSync` (`GridIsLineSync`, by INSTANCE with the
  reader's program counter mapped), so the grid's properties hold of the stream too.

### Calibration
- **LightSearch**: dark level, currents, duties, AFE gains as small steps; `set` is what the code
  holds, `dev` what the boards were sent, and a reading depends on `dev`.
- **Capture**: lines in the scanner, in the chunk in flight and in the segment; a line is the
  number of the setting it was exposed under.
- **CalRun**: when a calibration is due, what kind it is, and the times and lineage it records.

### Files
- **AppendLog**: a log whose last line may be torn, and how the next append mends it.  **CalStore** and
  **EepromStore** EXTEND it.  A file is `seen` by processes or `hard` (survives a power loss).  A synced line is no more
  lasting than its log's own name: `named` and `rooted` (`enames` in the EEPROM store) say which names
  a directory sync has made sure, and a power loss may take a log, or a unit's directory, whole whose name is not
  among them.  `InstallSyncs` is the calibration store's sync of the directories above the EEPROM store's.
- **ChipRead**: two programs and the session's identity check before one chip per scanner.
- **PsiImport**: the lines of a registry export into slots, entries and the store.
- **VendorStore**: importers as processes over temporary files, renames and a directory.
- **Trace**: two recording threads, the latch, the file's loss of its end, the replay.  Stream reads that time out
  (`Idles`) leave no event; the replay times out behind its last one (`IdlesAgain`).

### From strips to frames
- **Dx** compares the parser's lines, votes and frame entries with the film's true ones; **DxTable**
  repairs a table that was read with errors and compares it with the film.
- **Frame**: from runs of bright rows to rectangles.
- **Roll**: a mean stands as the lines that went into it since the kernel was initialised, so
  "decoded as in one pass" is an equality of sequences.

### Proof modules
`FwLoadProofs` (`Guard`, `FwLoad`), `SessionProofs`, `HardwareProofs` (`Link`, `Usb`, `Boards`, `Trace`),
`LineSyncProofs` (`LineSync`), `StreamProofs` (`Ring`, `Stream`, `Dx`), `StoreProofs` (`AppendLog`, `CalStore`,
`EepromStore`, `Roll`), `CalibrationProofs` (`LightSearch`, `Capture`, `CalRun`, `VendorStore`, `ChipRead`, `PsiImport`)
and `ScanProofs` (`Scan`, `Config`, `Sidecar`, `Frame`)
EXTEND the modules they are about.  [Section 5](#5-the-proofs) has their theorems.

### MC modules
`MCDevice`, `MCSession`, `MCHardware`, `MCFilm`, `MCFiles`, `MCStrips`, `MCStores` and
`MCCalibration` each give several modules their small instances.  Parts that share no
variable run under a `which` chosen at the start: the behaviours are the union of
theirs, not their product.  Where parts do interact, one module has both: `FwLoad` and `Guard`,
`Stream` with `Ring` and `LineSync`, `Scan` with its detector, sidecar and stream
errors, `Watch` with the session's calls, the stores with their log.

## 3. The runs

A property that is a conjunction is one question; its parts are named definitions beside it.

| Run | Property | Says |
|---|---|---|
| `device` | `IndInv` | what the guard believes of RAM, 8051 and selection is true; the invariant the proofs use |
| | `OnlyVettedCode` | the 8051 never runs RAM that is not the pinned stage-1 or the whole firmware |
| | `LoaderSafe` (`LoaderTypeOK NeverRefused MismatchStaysHeld`) | the guard never refuses the loader; a mismatch leaves the 8051 held |
| | `OkMeansLoaded` | success means that the firmware runs |
| `session` | `BoardsHaveOneOwner` | a run, a control and a poll never use the boards together |
| | `RunIsMarked` | a motor a run started, and in an open session a lamp it lit, is marked on disk at every point of death; in between a lamp may burn unmarked that an open's `safe_stop` did not put out |
| | `IdleIsStopped` | IDLE means that motor and lamp were stopped |
| | `BooksAreTrue` (`TypeOK SkippedStopsAreTrue HoldIsLit`) | a skipped stop was confirmed, a hold is lit |
| | `FaultedUntilClosed` | nothing brings a faulted session back to IDLE |
| | `WaitsEnd` (`CancelEndsRun ClaimIsGranted CloseReturns`) | no caller waits for ever |
| | `FileIsOfTheBytes` (`StreamTypeOK FileIsPrefix OkMeansWhole`) | the raw file is a prefix of what was sent, PK_OK means all of it |
| | `GridIsLineSync` | the threaded stream implements `LineSync` |
| | `StopReturns` | a stop and a failed start return |
| `hardware` | `ExchangesAreSound` (`LinkTypeOK AnswerIsOwn WriteSentOnce LeaveIsBounded Aligned`) | with prompt-or-never replies each answer is its own request's; writes go out once; leaves are bounded |
| | `ExchangeEnds` | whoever has the link gives it up |
| | `TransfersAreWhole` (`NothingDropped WholeWrite ReopenWaits`) | no byte lost or doubled by partial transfers; a reopen does not give up early |
| | `BoardsAreAsTold` (`ShadowsAreTrue OkMeansSet LampEndsDark`) | shadows are true after any failure; PK_OK means the setting is there; a lamp-off ends dark |
| | `NewsIsTaken` (`HoldEndsOnNews HoldEnds LampIsSeen RecordsAreRead`) | one-shot events reach the session whichever thread took them |
| | `InterruptIsHeard` (`InterruptedCallEnds WatchTypeOK WatcherHasSession ExitTellsTheRuns`) | Ctrl-C ends a run in every order; the watcher never uses a freed session; the exit code is true |
| `film` | `SidecarIsTrue` (`StripsOfTheirSegments CompleteIsAll`) | each strip's record is of its own lines; "complete" is said only of a roll that is |
| | `FinishedIsKept` | a finished strip is on disk before the next and stays |
| | `ScanEnds` | cancel, error, strip end and deadline are noticed without a further line |
| | `BudgetIsSound` (`StripsHoldTheirFrames RecordedIsAccepted`) | strips hold their frames for every length 24..6400; a recorded configuration is accepted again |
| | `SidecarIsRead` (`SidecarTypeOK WrittenIsRead DomIsCurrent`) | what the setters accept reads back the same |
| | `DriveEnds` (`CtrlCEnds StoppedAtExit OkMeansStopped`) | Ctrl-C ends a film move in every order, with the motor stopped |
| `files` | `LinesAreOfTheBytes` (`LineTypeOK EveryByteIsCounted LinesAreWhole SyncIsOfTheBytes SegmentStartIsItsFirstLine`) | the grid is a function of bytes and re-arms, not of chunking |
| | `ReplayIsFaithful` (`ReplayIsTheRecording AcceptedIsPrefix`) | a replay answers what happened, stream timeouts excepted (it gives one only behind the last recorded read); a trace that loads has no hole |
| | `ImportsAreSound` (`StoreIsWhole OkMeansOpens NeverTorn ImportHeals`) | a vendor store is whole or absent; PK_OK opens; a later import heals |
| | `PsiIsFaithful` (`ValuesAreOfTheirKey AllOrNothing StoredOnce`) | values are of their key; an invalid export stores nothing; a retry adds nothing twice |
| | `ImagesAreSafe` (`ReadOnce OwnImage SavedIsNotForeign`) | a chip is read once; the adopted image is the attached scanner's |
| `strips` | `ParserIsTrue` (`LinesAreTrue EntriesArePairs VoteIsCount`) | lines across counter wraps, pairs and votes |
| | `TableIsTheFilms` (`CodesAreTheFilms EntriesAreSpaced RangeIsUndone`) | the repaired table has the film's codes |
| | `FramesAreSound` (`FramesCanBeRead StripHasFrame GoodRunsAreFrames`) | every rectangle can be read out; good runs are frames |
| | `DecodeIsSound` (`DecodeIsOnePass FramesAreOfPassOne CropsFit`) | any order of calls and failures gives the result of one pass |
| `stores` | `EntriesAreWhole` | no half entry under a final name; none lost that was reported |
| | `SelectionIsSound` (`SelectionIsAsked ResolveIsSound`) | torn lines never change a selection, and a power loss only by taking a `selection.log` whose name was never synced; what is resolved is allowed and first |
| | `CurrentIsFirst` | the first image stays current, until a power loss takes a log whose name was never synced |
| `calibration` | `LightIsSound` (`SettingsFit TablesAreOfTheLight BoundsSuffice`) | searches stay within the boards' limits and their rounds; tables are of the stored light |
| | `CaptureIsOfTheSetting` (`SumsAreOfTheSetting SegmentIsComing`) | no line of an old setting is summed, and the lines come |
| | `RecordsAreTrue` (`TimesAreStored LineageIsFull FullWhenLate`) | times and lineage are those of stored records |
| `scan_raw` | `FailedWriteIsTold` - violated | see the findings |
| `session_eject` | `StoppedEjectStaysStopped` - violated | |
| `link_late` | `AnswerIsOwn` - violated, with `PROMPT = FALSE` | |
| `stream_stray` | `EveryByteIsCounted` - violated, with `EMPTY_READS = TRUE` | |

### Bounds, and why they are enough
- `device`: five bytes of RAM with one address of each kind the guard tells apart (below
  `A3_MIN_EXCL` even and odd, internal above it, external), two byte values, transfers
  of up to two bytes.  The guard decides by address class; a second byte of a class adds
  no comparison.  The proofs remove the bounds.
- `session`: one session at a time, no counters: no bound cuts it.  The stream: a ring of 3 bytes,
  chunks of 2, 5 bytes: it wraps and overflows; its grid is at its smallest, as `files` covers it.
- `hardware`: the code's own `RETRIES`, `DRAIN_MAX` and lamp attempts; two threads, requests of each
  reply type; three bases and two lamp settings that differ in every register; two scanners; two
  runs, two failures and three film moves, so that a failure falls before, in and after a run.
- `film`: two strips of three lines, five lines: a strip that ends by its budget, one by its end, lines
  in between.  The configuration is checked at *every* length.  `FAULTS = 3` covers a
  start, a stop and a cleanup stop that fail in one behaviour.
- `files`: lines of 4 bytes, a window of 2 words, 12 bytes in chunks of 0 to 5, two re-arms: each odd
  and even border and chunks of more than a line; two calls per recording thread; two
  importers and two mishaps (a mishap, and one in the healing); five lines of an export; four
  commands, reads or changes of scanner.
- `strips`: a counter modulo 8 that wraps in ten lines; the frame table with the code's 100
  entries cut to 20; the detector at the real pitch and size of 35 mm, with runs on both sides of each
  of its limits; rolls of three strips with every end case.
- `stores`: three calibrations, of which one is imported and one foreign, three calls of two processes
  and a power loss; three images, three puts and two power losses.
- `calibration`: lights from none to saturated in coarse steps; a device that holds 2 lines, chunks of 3; two
  configurations, two records, three hours.  `CURRENT_STEPS_MAX` is the greatest limit, as the code's 64 is above its
  24; `OUTER_MAX = 18` is the least that `LightAssumption` allows for the instance's limits and gains (the code's 256
  stands against 217 raises at the most).

`CHECK_DEADLOCK FALSE` stands where a behaviour ends: a returned scan or command, an input that is used up, a bound
that is reached.  In `device` and `session` deadlock is checked.

### Fairness
Only what the code's own scheduling gives; a transfer, a poll and a join have timeouts and threads are
runnable.  Nothing is assumed of users, film, clocks or warm-up.

- `Session`: the worker's steps (but not the waits inside warm-up and scan), the idle thread's poll end
  and exits, the controlling thread's waits.  A cancel alone must end a run.
- `Link`: the exchange in progress.  `Stream`: reader, writer and the joining thread.
- `Sense`: the session's polling thread, the other reader, and that a warmed-up run goes on.
- `Watch`: the command's thread, its watcher, and that a run looks at its cancel flag.
- `Scan`: the worker.  `Drive`: the caller and the mover, but not the move's own 300 s limit.

## 4. Findings

Violated runs, with the line that says otherwise in `PROJECT.json`:

- `scan_raw`: after a sync loss in the trailing lines a failed write of the raw file is not told.  `set_fatal`
  keeps the first error, and the scan's end ignores a sync loss after the last strip; the run ends
  with PK_OK, a complete sidecar and a short file.
- `session_eject`: a film stop acknowledged in the 300 ms before the eject's push does not prevent it.
- `link_late`: a reply later than the drain's one empty read answers the next request of its board.
- `stream_stray`: an empty read between two re-arms at an odd byte count counts the stray byte twice.

Statements of the source that the models also refute; they are definitions of their modules, commented there,
and not part of a run.  Naming one as the only INVARIANT (or PROPERTY) of the
configuration in the last column shows the behaviour.

| Statement | What the code does | Configuration |
|---|---|---|
| `FwLoad!FailureLeavesUnloaded` | a final release that is reported failed may have started the firmware | `MCDevice` |
| `Session!EndEventReachesItsRun` | the boards are free before the end event is sent | `MCSessionEject` |
| `Session!LampIsMarked` | the next open removes a dead process's marker on the motor's stop alone, also over a lamp it did not put out (`session.c:190`) | `MCSessionEject` |
| `Session!OpenStopsLeftovers` | a manual film move writes no marker | `MCSessionEject` |
| `Sense!CacheIsCurrent` | a failed read leaves the cached sensors old | `MCHardware` |
| `Boards!NextUpdateIsWhole` | flag 0x89 has no mark for "unknown" outside a session | `MCHardware` |
| `Usb!OldBusFirst` | a failed attempt moves the preferred bus | `MCHardware` |
| `Trace!IdleWhereItWas` | stream timeouts are no events: a replay gives them only behind its last read | `MCFiles` |
| `CalStore!SelectionOutlivesLoss` (a PROPERTY) | select never syncs the directory it makes `selection.log` in (`store.c:598`) | `MCStores` |
| `EepromStore!FirstOutlivesLoss` (a PROPERTY) | a put syncs the directory before it makes `eeprom.log` in it (`eeprom_store.c:142-153`) | `MCStores` |
| `Drive!StopEndsTheMove` | a stop before `film_moving` is forgotten | `MCFilm` |
| `PsiImport!OneKeyPerEntry` | one key in two hives gives one entry of both | `MCFiles`, `HIVES = {1, 2}` |
| `ChipRead!ReadOnce` | two programs at once both read the chip | `MCFiles`, `TOGETHER = TRUE` |
| `LightSearch!InsufficientIsMeasured` | the verdict can name a setting that was never sent | `MCCalibration` |

## 5. The proofs

The theorems hold for every value of the constants that satisfies the ASSUMEs named below, each
stated in the module that declares the constants and evaluated by TLC for its instance.  Every proof has the shape
`Init => IInv`, one lemma per action for `IInv /\ [Next]_vars => IInv'`, `IInv => Inv`.

### FwLoadProofs
Of `Guard`, from `GuardAssumption` (the memory map's order; images are bytes at addresses):
- `Invariance`: `Spec => []IndInv`.  `OnlyVettedCode` is not inductive: that the 8051
  may be released on the firmware follows only from what the read-back sets mean.
  `IndInv` says it: `WindowShape` (each phase goes with what the guard has forgotten on
  entering it), `LoadedCpu` (until the final release the stage-1 or nothing runs),
  `ShadowIsTrue` (a byte the shadow knows is the byte in RAM) and `ReadBackIsTrue` (a byte
  confirmed by read-back is still in RAM, but for internal RAM read while the stage-1, which
  scribbles there, runs).
- `TypeCorrect`, `OnlyVettedCodeRuns`, `A3IsConfined`, `HeldBeliefIsTrue`,
  `SelectionBeliefIsTrue`: the conjuncts, for any images, address space and byte set.

Of `FwLoad`, further from `LoaderAssumption` and `ParserAssumption`: what the HEX and stage-1 parsers give (each record inside
its image, the records together all of it, none longer than a load record):
- `LoaderUsesGuard`: `FwSpec => Spec`.  Every step of the loader is a step of the guard
  under its arbitrary caller; so the guard's theorems hold of a load: `LoadRunsOnlyVettedCode`.
- `LoadKeepsBooks`: `BooksInv` beside `IndInv`.  That the guard admits the final release depends on books that four
  loops have filled: `Where` (each label goes with a phase), `Decided` (a status is decided once), `Stage1Books`,
  `HighBooks` and `LowBooks` (the records behind the loop index are in the shadow, written or confirmed).
- `LoaderIsSafe`, `OkLoadsRun`: what follows for `LoaderSafe` and `OkMeansLoaded`.

### SessionProofs
No assumption: the session has no constants.
- `SessionInvariance`: `SessionInv` is the properties with `Places` (the threads' places), `Owners` (`hw_busy` is a
  claim or a worker, never both), `Says` (the state shown at each place), `Marked` (the marker is
  on disk before anything can start), `Stops` (what the worker's books call stopped stands still) and `Holds`.  None
  of the properties is inductive alone: who may start a motor next depends on every thread's place.  `Marked` has a
  lamp's marker missing only with `left_lit`, which holds from the open that removed it to the one that gets it dark.
- `BoardsAreOwned`, `RunsAreMarked`, `IdleMeansStopped`, `SessionBooksAreTrue`; `FaultStays` for the action property.

### HardwareProofs
- `TransfersStayWhole`, from `UsbAssumption`: what a write or a read has moved is the first bytes in order, and
  a reopen that goes on has time left.
- `BoardsStayAsTold`, from `BoardsAssumption`: `BoardsInv` describes a call that is half sent.  `CallIs` and `WhoCalls`: what its plan
  still has to write is what differs; `Coherent`: within a session a trusted shadow is the register; `Darkens`: a
  lamp-off has the reload of its FIFO before it or is dark.
- `CallsAreSound`, from `LinkAssumption`: types, `Once` (a write is sent once) and `Bound` (a leave's
  exchanges), whatever the scanner does.  `ExchangesSound` adds PROMPT as its hypothesis, without which `AnswerIsOwn` is false
  (the run `link_late`): `WireInv` counts the replies that may still come (two at the most, none between calls
  of a link that needs no drain).
- `ReplayStaysFaithful`, from no assumption: `TraceFile` says of each line, by its rank among its thread's lines (`Rank`),
  that it is that thread's call of this rank, that the loader would take it and that its bytes in `stream.bin` are its own;
  each rank has its line, so that no induction over the file is needed.  `TraceReplay`: the cursors stand where the
  answers given end.  Timeouts of the stream are outside the trace: what is proved of them is that a replay gives
  none before its stream events are at an end.

### LineSyncProofs
From `LineAssumption` (a line is an even number of bytes, the window is not empty).
- `LineInvariance`: `LineInv` speaks of the midst of a chunk, where the properties are silent: the bytes looked at
  end at the piece that `sync_chunk` has before it.  `TapInv`: the tap lies a whole number of lines behind the
  origin, and what waits in `pend` are the bytes from there to the piece.  `SearchInv`: the words still to skip and to
  look at end where the window does.  `MarksInv`: every line start looked at is in a line, cut off, dropped or waiting.
  `LinesInv`, `StartsInv`, `LostInv`: what is said of lines, segment starts and a lost sync, up to the piece.
  `CountInv`: lines and lead counted so far are all bytes before the present grid or search.
- The proof is arithmetic: each place is a multiple of `LB` and a rest (`DivIs`, `Apart`), and the search's
  cardinalities of words are half the distance of two places (`WordsCount`).
- `GridIsOfTheBytes`: all of `LinesAreOfTheBytes` but the count of bytes, for all constants.  `LinesAreOfTheStream`:
  `LinesAreOfTheBytes`, with `~EMPTY_READS` as its hypothesis: a read that brings nothing lets two re-arms in a row count
  the rest of an odd byte's word twice (the run `stream_stray`).

### StreamProofs
From `RingAssumption` and `LineAssumption`.
- `StreamInvariance`, `FileIsSound`: `Flow` says that file, writer's chunk and ring hold the bytes one behind the
  other; `Counts`, `Told` and `Stages` say when the ring may have dropped one, and that it is then told.
- `RearmsAreTaken`, `GridIsRefined`: the threaded stream implements `LineSync`.  `RearmInv` is what the mapping
  needs: a re-arm waits at most once for the reader, and the reader that takes one has no error behind it and
  (without `EMPTY_READS`) a byte behind the last re-arm.
- `StreamLinesAreOfTheBytes`: so what `LineSyncProofs` shows of the grid holds of the threaded stream.

Of `Dx`, from `DxAssumption` and `FilmAssumption`.  The second is about the film, not the code: between two packets pass
fewer lines than the counter has, but for `BACK` (at 16 bits and 10000, 55535 lines), and no record is as old as the
counter's whole range.  The code relies on it: a packet's counter alone tells no more than one rollover.
- `DxInvariance`, `ParserStaysTrue`: `ParserIsTrue` of any number of packets and records, any number of vote slots and
  table entries.  `Knows` says what the hole knows of the records dispatched so far: `EdgeWaits` and `CodeWaits` that a
  pending edge or code is the newest mark and not yet in the table, `TableHolds` that every entry is a pair with nothing
  between, `VotesHold` that each slot counts its code's words since the first.  A packet is a recursive function of its
  records (`DispatchedAll`); `AllKnown` takes the least record at which the hole would not know them.
- The lines rest on `RoundIs` (from one line to a later one less than a range away, the quotient rises by at most one),
  and `LineIs` compares the record's 16 bits, completed, with its line.

### StoreProofs
From `CalStoreAssumption` (finitely many calibrations, no two of one place in the order) and `EepromAssumption`.
- Lemmas about `AppendLog`: what a power loss leaves of a log, and what mending a torn line brings into force.
- `EntriesStayWhole`: a half-written directory is complete *and synced* before its rename (`Whole`).
- `SelectionSound`: `Asked` speaks of every reading a power loss may leave (`Readings`), not just of today's, and
  `LogsAreTrue` of the lines about to be written as well.  A selection survives a power loss only if `selection.log`'s
  name does; if not, every scope reads "auto", which is then one more value that may be read back (`MayBeLeft`).
- `EepromInvariance`, `FirstStaysCurrent` (with `~DirSyncFails`: `CurrentIsFirst` also says that the image's file is
  there, which needs the directory's fsync), and `ToldStays`, which needs no such hypothesis.  The image reported
  current is anchored in a durable line that no later line contradicts.  Both are about the time until a power loss
  takes the log whole (`told` is empty then): the code's one directory sync comes before the log is made, so
  after the first put the log's name is not sure.

Of `Roll`, from `RollAssumption` (the frame is at least two rows high, three or four planes, the sidecar's numbers
are natural):
- `DecodeStaysSound`: `DecodeIsSound` of rolls of any number and length of strips.  Feeding a strip is a recursive
  function of the line; `FedTo` is its value in closed form.  That the function comes to it is shown by the least line
  where it does not (`AlikeTo`), which needs no induction theorem with an operator parameter.  What the single pass
  leaves in the sums (`Left`) has no closed form; that such a function exists is `FollowsOn`.  `RollInv` then says
  that the decoded strips are a beginning of the roll, so that the sums a decode starts from are those of the single pass.

### CalibrationProofs
Of `LightSearch`, `Capture` and `CalRun`:
- `SumsTheSetting`, from `CaptureAssumption` (the lines skipped cover the device's buffer): `LinesInv` says
  how many lines of the old setting may still come.
- `RecordsStayTrue`, from `CalAssumption`: a record that waits to be stored is sound before it is, and `Fresh`
  says why a scan may be reached: a fresh full search is stored, or is being made for it.
- `LightStaysSound`, from `LightAssumption` and `JobAssumption`.  The loop that raises currents and gains ends by itself because
  each raise takes one from a finite number (`AllLeft`); `Ending` says that the raises made and those left
  never exceed `Most`, which the limits put below `OUTER_MAX` (in the code 217 below 256).

Of what a calibration needs to have been copied first:
- `ImportsStaySound`, from `VendorAssumption`: `Knows` says what an importer knows of the store where it stands,
  `IsAlone` what it may rely on as long as nobody else runs, and `NoStoreNoFiles` that a file is there only of a store.
- `OwnImagesAdopted`, from `ChipAssumption`, by `OwnCurrent` (until a user stores one under a foreign key, each scanner's saved image is its own), and
  `ImagesStaySafe`, which adds `ReadOnce` when the command and the application do not run at the same time
  (`~TOGETHER`): the reader's check and its full read are two steps, and two programs do read a chip twice
  (`ChipRead!ReadOnce` in section 4).  `ReadsFirst` says that whoever
  is let read without having asked for it found no log, so that nothing is stored.
- `ImportsAreFaithful`, from `PsiAssumption`: `Parsed` says that the slots are what the text read so far says (of each
  key the last value of each name under it, `SaysIn`); `LastWord` and `OwnersStay` say what one more line
  changes of that.  `Staged` says that every entry made, waiting or stored is built from the slots alone and that a
  refused text has stored nothing.

### ScanProofs
Of `Scan`, from `ScanAssumption` (readings within the sums' range):
- `ScanInvariance`: `SegInv` (the stream is at most one re-arm behind the worker), `DetInv` (the detector is what
  its segment's lines make it: `SeenIn`), `WorkInv` (strips recorded at each place), `StripInv`
  (memory and disk agree on the finished strips), `EndInv` ("complete" comes last).
- `SidecarStaysTrue`, `FinishedStripsStay`: what follows for `SidecarIsTrue` and `FinishedIsKept`.

Of `Config` and `Sidecar`:
- `BudgetsAreSound`, from `ConfigAssumption`: `ConfigInv`: the verdict is that of what was asked for, and only what was
  accepted is recorded.  The lemma `ThroughFile` says what the way through the file, of this version or an older one,
  keeps of it (`Survives`).  The rest is the arithmetic of lines and steps.
- `SidecarsAreRead`, from `SidecarAssumption`: `SideInv`: memory holds a sidecar that the setters can make (`SideOk`:
  keys differ, and a value parsed alone first nests no deeper than it may), the file is such a sidecar's text, and a
  cached tree is that of memory as it is.

Of `Frame`, from `FrameAssumption` and `GeometryAssumption`.  The second is what `pitch_window` and the three ratios give
(a frame's pitch is 200 to 801 rows, its size nine tenths of that or more, and at least 12 rows less), and that the runs lie in the
rows that all planes have.
- `FramesStaySound`: `FramesAreSound` of strips of any length with any number of runs.  `FrameInv` adds only that the blind
  pass runs when no run is a frame's; the rest is about `Detected`, pass by pass.  `Sits`: a frame begins in its slot, ends
  before the strip does and is four fifths of a frame wide at least, so that its rectangle can be read (`RectReads`).
  `NiceIs`: each run of a frame's length has its frame, for no later run comes into its slot (`Before`).  `Keeps`: the
  later passes leave these alone, because what `between` adds lies slots away from both of its neighbours
  (`MissingAreWithin`), and the walks to the ends only see slots beyond (`Up`, `Down`).  Each loop is a recursive
  function of its turns; `LoopIs` says what they are and `UpTo` takes what holds of each turn to all of them.

### Only model-checked
- Liveness: `WaitsEnd`, `StopReturns`, `ExchangeEnds`, `NewsIsTaken`, `InterruptIsHeard`, `ScanEnds`, `DriveEnds`
  (ENABLED and fairness are outside the prover's reach; the conjuncts of these that are safety go with them).
- `TableIsTheFilms`: `DxTable` has RECURSIVE operators.
- `ImagesAreSafe` with both programs at once: it is false (`ReadOnce`); without `ReadOnce` it is proved.

## 6. Abstractions

- **Guard, FwLoad**: packets on EP 0x01 and `pkl_check_packet` are left out (a filter without state).  A HEX
  file is its image and the shapes of its records; that the parser yields such shapes
  (`LoaderAssumption`, `ParserAssumption`) is assumed.
- **Usb**: a short control transfer, listing and the serial number are left out.
- **Link**: payloads, addresses inside a board and checksums are left out; a malformed reply is one flag.
- **Boards, Sense, Drive**: temperatures, guides and rollers are left out (nothing reaches the latter two).  The
  forced pass, the lamp monitor's 0x83 path, timeouts and the F-235 lamp are not in `Sense`.
- **Session**: what happens inside a scan or calibration is one wait; film-LED phases 1 and 2 count as dark;
  `pks_sync_end`'s STOPPING state is folded into its step.  A motor or lamp whose cable is
  pulled is "cut": the code treats an absent scanner as stopped, and so does `RunIsMarked`.  A lamp that an
  open's `safe_stop` did not put out stays a run's until it is dark; `RunIsMarked` excepts it by `left_lit`.  When a
  worker cannot be spawned the rollback removes the marker, also one an earlier track test left; `RunIsMarked`
  is stated of runs and calibrations and does not see it.
- **Watch**: a Ctrl-C that the film-removed wait uses up leaves exit code 0; a watcher that cannot be
  started (`hw2e.c:67`) leaves a run without Ctrl-C, which `InterruptedCallEnds` excepts by name.
- **Scan**: a line is its green mean and its segment; a step's board traffic works or fails; progress,
  warnings and the roll-mode guide rule are left out.
- **Config**: the F-135 Plus's geometry; fields with one range test each, a manual product and the pin are left out.
- **Sidecar**: integers of 19 and more characters, foreign or malformed files and a changed format version are left out.
- **Stream**: the raw file is what `fwrite` was given, not what is on the disk after a power loss.
  `EMPTY_READS = FALSE` leaves out reads that return PK_OK without a byte; what they change is `stream_stray`.
- **LightSearch**: one dark level, duties and currents in steps; the window's stored gains and offsets, replaced before
  the first frame, are not kept; C9's low light and `derive.c`'s tables are left out.
  **CalRun**: record blobs are left out.
- **CalStore, EepromStore**: one process at a time appends to a log (`store.c` takes no lock; two appends at once are not
  explored); the store's root and its `units/` directory are taken as lasting, though nothing syncs the root; the
  sync after a new `unit.json` (`store.c:441`) is left out, so that a power loss may take more here than from the code;
  "already there" counts as success for a store's own installs only; export and pack are left out.
- **VendorStore**: hashes are a flag; path and link checks and the lores weights' import are left out.
- **PsiImport**: UTF-16, hex continuations and the DPI bases' separate keys are left out; `MAX_VALS` keeps
  the code's silent drop of further values.
- **ChipRead**: a wrong-unit chip and copies that name different units are left out.
- **Trace**: timeouts of the stream are counted once for each place between two other reads; real-time delays,
  `meta.json`, the guard's wrapping on replay and payload hashes are left out.
- **Dx, DxTable**: 35 mm, dual edge, no cartridge: APS types 1, 2 and 8, the fat-bit list, film-begin
  arithmetic (`FILM` is a constant), speed analysis and the packet log are left out.
- **Frame**: the threshold and its histogram stand as any set of runs; the aggressive flag and APS are left out.
- **Roll**: thumbnails and manual framing's editing are left out.

## 7. Not modelled

- Device discovery and models: static tables and one listing call, no state.
- Colour pipeline, line-decode arithmetic: floating point and 16-bit arithmetic that must
  equal Kodak's output bit for bit; a model would restate the formulas.
- Digital ICE: generated code that is not published; the public build refuses.
- Utilities: parsers and encoders; of `json.c` the nesting limit is in `Sidecar`.
- The remaining commands of the CLI: they print what one call returned.

## 8. Plan

Proofs, in this order:

1. The safety conjuncts of the `Watch`, `Drive` and `Sense` properties (`ExitTellsTheRuns`, `StoppedAtExit`, `OkMeansStopped`, `HoldEndsOnNews`).
2. `TableIsTheFilms`, in the way of `FramesStaySound`, once the RECURSIVE operators of `DxTable` are recursive functions.
