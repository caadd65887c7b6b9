# Verification of ddMySqlBinLogCapture

`ddMySqlBinLogCapture` is a change-data-capture program: it dumps the binary
logs of a MySQL/MariaDB server as text, appends that text to a capture file and
remembers in a small `.XAI` file where to resume. This directory holds TLA+
modules of the program, the TLC configurations that check them on small
instances and proofs, checked by TLAPS, of the most important properties for
every instance.

In this text CAP is `src/ddMySqlBinLogCapture/ddMySqlBinLogCapture.cpp` and DLL
is `src/ddMySqlBinLogCapture/ddMariadb-Binlog-Lib/patched-mySqlBinlog-10_3_23/ddmysqlbinlog.cc`.

## Inventory

One Windows process, three threads, no lock between them.

| Component | State it keeps | Operations | What makes it correct |
|---|---|---|---|
| Thread M, `ReadJournal` (CAP 2346-2829) | list of binlogs, `g_stBinLogSeq` (next resume position), `fError` | load the list, search the resume binlog, start the dumps, wait for B, copy the sequence after a timeout, exit tests | a pass starts where everything before is captured; errors and stop messages end it |
| Dump library, `StartReadBinLog` (DLL) | `start_position`, `old_off`, connection | connect, request a dump, print each event's tag and then its text, print START/END | every event of a binlog from the start position on is printed, in order |
| Stdout redirection (`StdOutRedirect.h`) | a 32 KB pipe | blocking write and read | FIFO, bounded |
| Thread B, `listenBinLogThread` (CAP 1599-2203) | `g_stBinLogSeqInProgess`, `szBinLogName`, `bStartOfStmt`, `bDataColumnInProgress`, line buffer | append a line, flush, follow the tags, save the sequence | the saved position runs ahead of the capture by no more than the text that follows the tag it was saved on, and lies between transactions |
| `.XAI` file (CAP 1466-1512, 3163-3225) | one `BinLogSequence` | read at start, overwrite, create, display | moves backwards only after a timeout; past the capture by one event's text at most |
| Capture files (CAP 2848-3131) | numbered files with SOF and EOF marks | open at start, change when too large | the files chain without a gap and read as one |
| Line buffer of thread B (CAP 1673-1737, 2089-2156) | buffer, three pointers, kept and saved line | read, scan, move, store a part, ignore | each line is written once and seen from its start |
| Thread T, `ListenPipeThread` (CAP 1053-1181), and the client (CAP 795-854) | named pipe, `g_fExitApp` | receive a stop message | a stop message ends the process |
| main, `StartThread`, `StopThread`, `Cleanup` | handles, buffers | start, stop | a process that ends by itself loses nothing but a text that is due |
| Trace log (`MyLogFile.h`) | file, mutex, archives | write, rotate, close | safe for threads |
| Settings, registry, server access, timing | - | sequential, at start or for statistics | - |

M and B interact through the pipe, through the auto-reset event
`g_hEventEndOfBinlog`, and through plain shared variables: B reads
`g_StBinLogInfoFirst/Last`, M reads and writes B's `g_stBinLogSeqInProgess`,
both write `g_stBinLogSeq`. What is hard: M stops waiting after five seconds,
or after 100 ms when B has seen an END tag, and the two threads are then out of
step; the two files are flushed at different times and the process may be
killed between them; a position behind an event is saved on the event's tag,
before its text is written; one of several dumps may fail; a stop may arrive at
any point. `PROJECT.json` lists these hazards, each at its line.

## Modules

| Module | Content |
|---|---|
| `CaptureService` | abstract: what the capture promises (at least once, in order, no gap but of one event each time it is cut off) |
| `BinlogCapture` | the pipeline: server, M with the dump library, pipe, B, T, process life; implements `CaptureService` |
| `BinlogCaptureInv` | the inductive invariants of the pipeline and the conditions under which they hold |
| `MCBinlogCapture` | the event groups of the TLC instances |
| `BinlogCaptureProofs` | proofs of `TypeOK`, of the hand-shake of the passes, `PassDrained` |
| `BinlogCaptureNoLoss` | proofs of `CaptureInv`, `NoLoss`, `NoLossOnExit`, `ResumeCaptured`, `NoGapInFile` |
| `BinlogCaptureService` | proofs of `ServiceInv` and of the refinement `ImplementsService` |
| `BinlogCaptureResume` | proofs that tags are true, of `BoundaryInv` and `ResumeAtTransaction` |
| `BinlogCaptureTimely` | proofs of `PositionInv`, `CompleteInv`, `XaiMonotonic`, `NoDuplicates` |
| `CaptureFile` | abstract: one endless file of lines with a stable part |
| `CaptureJournal` | the chain of capture files; implements `CaptureFile` |
| `CaptureJournalProofs` | proofs of `JournalInv`, its parts, `FileSizes`, and of the refinement `ImplementsFile` |
| `LineBuffer`, `MCLineBuffer` | thread B's buffer: bytes to lines, and its inductive invariant |
| `LineBufferProofs` | proofs of `LineInv`, `BufferTypeOK`, `RoomToRead`, `SavedFits`, `Faithful`, `EachLineSeen`, `StartReloaded` |
| `StopChannel`, `MCStopChannel` | client, named pipe, T, main's start and end, trace log |
| `StopChannelProofs` | proofs of `StopInv`, `CleanupAfterB`, `DeafOnlyAtStart` |

The pieces meet at three places. `BinlogCapture` keeps its capture as an endless
sequence with a flushed part, which is what `CaptureJournal` shows the chain of
files to be. It takes thread B's lines as given, which is what `LineBuffer` shows
for the lines that fit. And it takes a received stop message as one step and the
end of the process as another, which `StopChannel` takes apart; there, in turn,
`ReadJournal` is one step.

### State and actions of BinlogCapture

A binlog is a sequence of event kinds and an event's byte offset is its ordinal,
so `BIN_LOG_HEADER_SIZE` (4 bytes in the code) is position 1 and the end of
event `i` is `i + 1`. A position is a file and an offset; the third field of
`BinLogSequence`, `ulIndex`, is 0 in every value the program stores.

Every event is dumped as two lines. `MDumpEvent` prints its tag, as
`process_event` does with an `fprintf` (DLL 1190, 1605-1612, 1688, 1699);
`MDumpText` prints its text, which `ev->print` has collected in the event's
output buffer and `process_event` writes at its end (DLL 1722-1750). The text
may have any number of lines, the later lines of a statement that is part of the
QUERY tag among them: one line of the model, `TEXT`, or `ROW` for the `### ...`
lines of a rows event, stands for all of them and is read when the last of them
is. An event is in the capture, `cap`, when its text is. For a rows event
nothing is saved between tag and text. For QUERY and XID thread B saves the
position behind the event on the tag (CAP 1946-1951, 1969-1972), so the saved
position is ahead of the capture until the next line is written: `Due` is that
event. A process that ends there, killed or stopped (B looks at the exit flag
after each chunk it has read, CAP 2158), leaves the text out for good; the
history variable `cut` collects these events, one at most for each end of a
process, and only those before the saved position that were never captured.
The properties about loss allow exactly `Due` and `cut`; `v_text` shows that
without them they are false.

Several rows
events of one statement are printed by the library with the last of them and are
one event, with their table maps. The library is started without a database
filter, so every event is printed. Variables bear the names of the code
(`g_stBinLogSeqInProgess` is spelt as in the source). `cap` is the sequence of
captured events, `flushed` how many have left the stdio buffer; `base`, `boot`
and `cut` are history variables.

- Server (external): `Commit` appends a whole group, `Rotate`, `Purge`.
- M: `MLoadBinLog` and its failures, `MLoadMasterStatus`, `MPrintFirst`,
  `MSetName`/`MSetPos` (two stores), `MPrintStart`, `MConnect`, `MDumpFails`,
  `MDumpEvent`/`MDumpText`, `MDumpEof`, `MPrintEnd`, `MPrintLast`,
  `MWaitSignalled`, `MWaitTimeout`, `MCopyName`/`MCopyPos` (the memcpy after a
  timeout), `MCheck`, `MCheckAlive`, `MSeesExit`.
- B: `BWriteLine` for every line, then `BEndOfRow` when a row's columns have
  ended, then the action of the tag, or `BText` for a text; name and position
  are stored in two steps (`BTransactionTag` or `BStartBinlog`, then
  `BStorePosition`), the save is a third.
- T and process: `TStop`, `ProcessExit` (main returns, or M finds B dead and
  calls `exit(0)`), `BWriteFails` (`exit(0)` when the capture file cannot be
  written), `Kill`, `ProcessStart`.

`Faults` says what an instance is exposed to. Without `"torn"` the two-step
accesses of M and B to the shared sequences exclude each other: the code has no
such lock, and `v_torn` shows what happens without one after a timeout; every
other result about timeouts assumes it. Without timeouts the hand-shake of the
passes replaces the lock: `capture_timely` runs with `"torn"`, and the theorems
assume its absence only when `MaxTimeouts` is not 0. A process is stopped with
both its threads at once.

### CaptureJournal

The journal is one sequence of entries (SOF, EOF, a line, a part of a line), each
with the file it is in, because every write appends and only one file is open.
`onDisk` entries have left the stdio buffer; `exist` are the files of the
directory; `handed` counts the lines, so that a line's number is its place in the
stream. `OpenCapture` is eight steps with a failing variant for each call that
can fail: it records the failure in `fReturn` and goes on, exactly as the code
does. `Start` is the call from main, `ChangeJournal` the one from thread B, which
skips the list because the file is open. A kill keeps a prefix of what is in the
buffer, which may end in the middle of a line. `g_ulCaptureMax` is computed
modulo `Word` (2^32). The size of an entry is 1; the size of the last file, which
`OpenCapture` reads and overwrites before anything looks at it, is left out. A
line has one part at most: the code may store several before the end of the line
(CAP 2111-2132) and tests the size only there, so the part stands for all of
them.

### LineBuffer

The buffer is an array of `MaxBufferLine` bytes and one for the last terminator;
pointers are offsets. A byte is its number in the text the library prints, and
the text is a sequence of lines with a kind and the number of their new-line, so
that nothing is lost by leaving the characters out: `strncmp` against a tag finds
the kind of the line that begins with that byte, or no tag when none does. The
characters of a line beyond its first one are not looked at, so a tag that is cut
off in what is kept of a column is not in the model (see `Roomy`). `strcpy`
leaves what lies behind the terminator as it was. `ScanLine` is the body of the
loop for one new-line, `GoOnReading`, `MoveLine`, `StorePart` and `IgnoreData`
are the four ends of a chunk. The texts are the shapes the library prints: groups
of `### SET`/`### WHERE` lines with their columns, and other lines. An over-long
other line never follows a column directly: the library prints a short line
there, and the code would take it for a LOB.

### StopChannel

The named pipe has the states in which the calls differ (`none`, `listening`,
`connected`, `closed` by the client, `disconnected`); a closed pipe still holds
its message, but `ConnectNamedPipe` fails on it with `ERROR_NO_DATA`. T, B and
main run `MyLogFile::Write`, whose test of the handle, lock and write are separate
steps. Main: `StartThread`, `CreatePipe`, `CreateThreadPipe`, `OpenDb`,
`ReadJournal` (one step, when the flag is up, by an error, or through the
`exit(0)` when B is gone), `StopRedirection`, `SetEventB`, `WaitForB` or its
timeout, `Cleanup`, `LogWriteM`, `LogClose` (two steps: the file, the handle),
`ProcessExit`, with the failures of each.

## Runs

All runs have `CHECK_DEADLOCK FALSE`: the process really may stop for good, and
the server is bounded.

| Run | Instance | Shows |
|---|---|---|
| `capture_timely` | 2 files of 5 events, pipe 3, kill, torn accesses, one restart, no timeout | `TypeOK`, `NoLoss`, `NoDuplicates`, `PassDrained`, `XaiMonotonic`, and the invariants `HandshakeInv`, `PositionInv`, `CompleteInv`, `BoundaryInv` |
| `capture_late` | 2 files of 3 events, pipe 4, one timeout, kill, restart, failed and cut lists | `NoLoss`, `ResumeAtTransaction`, `ResumeCaptured`, `ImplementsService`, and the invariant `CaptureInv` |
| `capture_live` | 2 files of 2 events, pipe 3, one timeout, a full disk, no flush per line, fair | `CatchUp`, `XaiCatchUp`, `StopEndsOrBlocks`, `NoLossOnExit` |
| `capture_faulty` | 2 files of 3 events with rows of both kinds of table, pipe 3, one timeout, failed dumps, purges, a full disk, kill, restart | `NoGapInFile`, and the invariant `ServiceInv` |
| `journal` | 4 files, 4 lines, 3 processes, failing opens and writes, kills, both flush settings | `JournalTypeOK`, `ReadInOrder`, `MarksFrame`, `PredecessorEnded`, `FileSizes`, `ImplementsFile`, and the invariant `JournalInv` |
| `line_buffer` | buffer 7, reads of 1 or 2 bytes, every row text of 4 lines: columns of 2, 5 and 11 bytes, other lines of 1 to 12 | `BufferTypeOK`, `RoomToRead`, `SavedFits`, `Faithful`, `EachLineSeen`, and the invariant `LineInv` |
| `stop_channel` | a stop client and one with an unknown message, all faults, fair | `StopTypeOK`, `CleanupAfterB`, `DeafOnlyAtStart`, `StopHeard`, `StopMeansEnd`, `ClientAnswered`, and the invariant `StopInv` |
| `v_torn` | one timeout, torn accesses | `ResumeCaptured` is violated |
| `v_query` | a savepoint inside a row transaction | `ResumeAtTransaction` is violated |
| `v_stop` | pipe 4, fair | `StopEnds` is violated |
| `v_lob` | buffer 7, a column of 14 bytes | `StartReloaded` is violated |
| `v_text` | one file, no fault but a stop | `TextWritten` is violated |

Bounds. Two files are needed for the first/not-first distinction of the START
tag and for the list; three events hold one row transaction, five a row
transaction and a statement, so that a save happens behind a transaction and
then inside the next; two events, a statement, are enough for liveness, where
only the number of files and passes matters. With a `PipeSize` of 3 M blocks in
the middle of everything, between a tag and its text too; 4 holds a pass over an
empty binlog, so that M can be a whole pass ahead of B. One timeout is enough to
put the threads out of step, and they stay so. `MaxCaptured` bounds the passes
that capture the same events again after a timeout: no new pass starts once the
capture is that long (20 is never reached in the runs without timeouts and in
`capture_live`; the late and the faulty run stop at 4 and 3, after one
re-capture of a transaction). One restart reaches every state a restart can
start from, because a process inherits only the two files; it also lets an event
that was cut off lie behind events a later process captures. The largest runs
are `capture_faulty` with 3.1 and `capture_timely` with 1.7 million distinct
states; none takes more than two minutes with two workers.

`journal`: three processes give a restart after a restart, so that a start can
find a file left by a start that failed; the limit of 2 entries is exceeded by
the SOF mark and two lines, so that four lines need a change; `Word` 16 is above
every size (a setting that overflows breaks `FileSizes`). `line_buffer`: 7 and 2
leave three positions for `MoveLine`; 5 bytes is the shortest first part of a
column, 11 the longest column that needs no third part however it is cut
(`ColumnsFit`), and the 14 of `v_lob` may need one. `stop_channel`: with one client of each kind
every state of the pipe is met by both; a second stop client made the run longer
than five minutes and found nothing in the part explored.

What the timely and the late run show together: `NoDuplicates`, `PassDrained`
and `XaiMonotonic` depend on B answering within M's wait. After one timeout the
late event ends the next wait at once, passes overlap and events are captured
again, and the `.XAI` file may step back; `NoLoss` and `ResumeCaptured` survive.
The capture is therefore at-least-once but for the events cut off, and
`ImplementsService` says so as a refinement: with `published` the events since
the base, `captured` those in the capture and `confirmed` those before the saved
position, every step of the pipeline is a step of `CaptureService`. An event is
captured only when all events before it are captured or were cut off; what is
confirmed is captured, was cut off, or is the one event that comes next; and
when the process ends, what is confirmed and not captured is cut off. `captured`
leaves out events from before the base: after a timeout, the START tag of an
overlapped pass may set the sequence to the start of a binlog (CAP 1996), also
of the one in whose middle the capture was started, and M then dumps events the
service never promised.

`NoLoss` needs `g_lFlush`: with its default, 0, the `.XAI` file is flushed at
every save and the capture file is not, so a kill loses what the stdio buffer
holds. `NoLossOnExit` is what remains then: whenever the process ends by itself
the C runtime writes the buffer.

A stop message need not end the process (`v_stop`): thread B leaves when it sees
the flag, and M waits for room in a full pipe for ever. `StopEndsOrBlocks` says
that this is the only way a stop can fail.

### Fairness

`FairSpec` assumes weak fairness of M's steps, of B's steps and of the end of
main: the operating system schedules both threads, and a thread that may go on
does. A blocked pipe write is a disabled step. Nothing is assumed of the server,
of faults or of T. In the fair runs a timeout may happen but need not.

`StopChannel` assumes weak fairness of each thread and of each client that has
started, and strong fairness of taking the log's mutex, which Windows hands to
waiters in order. `ReadJournal` ending by an error and dying clients are not part
of it: `StopHeard` does not rest on an error. The two-second waits of the client
and of main are steps that may be taken at any time, so they do end.

### Findings

`PROJECT.json` gives them with their lines: the unprotected copy after a timeout
(`v_torn`), the position a QUERY stores (`v_query`), the stop message that blocks
M for ever because the library's exit flag is never set (`v_stop`), the
beginning of a long column that each of its parts overwrites, so that the column
is not recognised when its end arrives (`v_lob`), and the position that is saved
on the tag of an event whose text is written later, so that an end between the
two loses the text (`v_text`).

Four more observations come from writing the model. A line that fills the buffer
and is no column is dropped (CAP 2135, `IgnoreData`) where a comment announces an
error (CAP 2107); `Faithful` leaves such lines out. A pass goes on with the next
binlog after a failed dump, so that the resume position leaves the failed one
behind (CAP 2648; `NoGapInFile` is what remains). A failed list ends the process
although a comment says that nothing is done (CAP 2598). And a client that writes
and closes before T's first `ConnectNamedPipe` was told that its message was
sent, while T ends: `DeafOnlyAtStart` shows that this is the only such case apart
from a T that could not be created.

## Proofs

Everything below is for arbitrary groups, numbers of files, events, restarts,
timeouts, clients and pipe sizes. Each module with a constant has one assumption
about its type (`ConstantsAssumption`, `JournalAssumption`, `StopAssumption`,
`BufferAssumption`); what a theorem needs beyond it is a hypothesis of the
theorem:

- `Orderly`: no torn accesses, unless M never gives up waiting, and a flush per
  line (`g_lFlush`) when processes may be killed. The code guarantees neither:
  `v_torn` shows what the first one excludes, the default of `g_lFlush` breaks
  the second.
- `Readable`: no failed dumps and no purged binlogs. `Benign` is both.
- `GroupsDelimited`, `GroupsClosed`: about what the server logs. A transaction
  opens with BEGIN and only its last event is a QUERY or XID (a savepoint breaks
  this, see `v_query`); it ends with one of them. `MCBinlogCapture` asserts both
  of the groups of its instances.
- `MaxTimeouts = 0`: thread B answers within M's wait. The invariants do not
  need it: they speak of the time before the first timeout.
- `Fits`: the size limit of capture files fits an unsigned long.
- `Roomy`: the buffer is at least two reads long, less one byte (`Fill >= 1`).
  Reads are 2 KB, so a BufferLine setting from 4 KB on satisfies it; the default
  is 33. `Fill` is the length of the shortest first part of a column, which in
  the code must hold the 7 characters of the tag; with 4 KB it has only 2, with
  5 KB 1026.
- `Regular`, about the text, which never changes: `Rows` says which lines follow
  which in what the library prints, `ColumnsFit` that no column is so long that
  it may need a third part. `v_lob` shows what the latter excludes.

Timeouts, cut or failed lists, failed dumps, purges, stops, kills, restarts and a
full disk are allowed wherever a hypothesis does not exclude them.

| Theorem | Under | States |
|---|---|---|
| `TypeCorrect` | - | `TypeOK` |
| `PassesMeet`, `PassesDrained` | -; `MaxTimeouts = 0` | `HandshakeInv`; `PassDrained` |
| `CaptureCovered`, `NoGapInSavedFile` | `Orderly` | `CaptureInv`, `NoGapInFile` |
| `NothingLost`, `NothingLostOnExit`, `ResumesBehindCapture` | `Benign` | `NoLoss`, `NoLossOnExit`, `ResumeCaptured` |
| `CapturedInBinlogOrder` | `Orderly` | `ServiceInv` |
| `ServiceImplemented` | `Benign` | the pipeline implements `CaptureService` |
| `TagsTrue` | - | `LinesTrue` |
| `PositionsAtBoundaries`, `ResumesAtTransaction` | `Orderly`, `GroupsDelimited` | `BoundaryInv`, `ResumeAtTransaction` |
| `PositionsInOrder`, `SavedNeverBack` | `Orderly`; and `MaxTimeouts = 0` | `PositionInv`; `XaiMonotonic` |
| `PassesComplete`, `NeverTwice` | `Orderly`, `GroupsClosed`; and `MaxTimeouts = 0` | `CompleteInv`; `NoDuplicates` |
| `JournalInOrder` and four more | - | `JournalInv`, `JournalTypeOK`, `ReadInOrder`, `MarksFrame`, `PredecessorEnded` |
| `JournalImplementsFile` | - | the capture files implement `CaptureFile` |
| `SizesBounded` | `Fits` | `FileSizes` |
| `LineBufferInvariant` | `Roomy`, `Regular` | `LineInv` |
| `BufferTypeCorrect`, `ReadsFit`, `SavedLineFits` | `Roomy`, `Regular` | `BufferTypeOK`, `RoomToRead`, `SavedFits` |
| `LinesFaithful`, `EveryLineSeen`, `LobReloaded` | `Roomy`, `Regular` | `Faithful`, `EachLineSeen`, `StartReloaded` |
| `StopInvHolds` and three more | - | `StopInv`, `StopTypeOK`, `CleanupAfterB`, `DeafOnlyAtStart` |

### The arguments

*No loss* (`CaptureInv`). `NoLoss` speaks of the saved position only and is not
inductive: that position comes from B's sequence, which comes from a line, which
M printed from its offset, which came from the resume position. `CaptureInv`
says that each of them is covered. A position is covered by a set when all
events before it, from the base on, are in the set - all of its own file when
dumps may fail, since a pass then goes on with the next file. The set is what is
accounted for (`Accounted`): captured, cut off, or due. The saved and the shared
sequences are covered by it (`SeqCovered`), each line by it and the lines ahead
in the pipe (`LinesCovered`, `LineCovered`), M's offset by it and the whole pipe
(`PassCovered`). When B reads a line, the event that was due must be captured by
that very line; so the invariant also says that the text follows its tag, in
the pipe or as what M prints next, and follows no other line (`TextFollows`).
When a process ends, an event that was due moves to `cut` if its position was
saved; if not, the next process dumps it again. Coverage is monotonic in both arguments,
commits add events only behind every position in use, and the FIFO order of the
pipe turns "ahead in the pipe" into "accounted for" by the time B works on a
line. No clause mentions whether M and B are in the same pass, which is why
timeouts do no harm. The two-step stores need `Exclusion`; a store under way is
described by the name already written.

*The hand-shake* (`HandshakeInv`). Until M gives up for the first time, a pass
opens only when B has consumed the LAST tag of the one before and the pipe is
empty, and the event is up only while M waits and after B has seen that tag. The
exit flag ends the obligation, because a stop raises the event too. From it
follows `TakeTurns`: M's stores into the sequences come before the first line
with a position reaches B, M's reads after the last, so that the missing lock is
not missed. This is why `Orderly` allows torn accesses when there are no
timeouts.

*The service* (`ServiceInv`). An event that is captured or was cut off has
everything between the base and itself captured or cut off too, and the base is
set before anything is captured and once: `xai` names a file from then on. For that, the sequence in progress must
be unset until the first pass stores it, and until then only FIRST lines exist.
The refinement then is one lemma for each of the five visible steps: the
server publishes, a text is captured, a position is saved, the first base is
set, the process ends.

*Transactions* (`BoundaryInv`). Every tag is the tag of the event at its
position (`LinesTrue`), binlogs are made of whole transactions, and what B
stores for such a tag is a boundary: the start of BEGIN, the end of a QUERY or
XID, the start of a file.

*Order* (`PositionInv`). Before the first timeout lines travel in the order of
their events and all of them are behind the position in the `.XAI` file, behind
B's sequence and ahead of M's offset. The saved position is compared with what
may be saved next: B's sequence, the line in hand, the start of the pass.

*No event twice* (`CompleteInv`). The events a process appends ascend, and the
texts and tags in the pipe or still to be dumped are behind them
(`TextsInBinlogOrder`, `CapturedAscending`). Within a pass this is the
order above. Between two passes it needs that the next one starts behind
everything appended, and that is so only because a transaction that a pass opens
also ends in it: the start of BEGIN is stored first, and would otherwise be where
the next pass begins. So the invariant follows the end of an open transaction:
its tag is in the pipe or in B's hand, or M is in the middle of the group, which
is complete in the binlog. Once B has stored the position behind that tag, the
sequence stays there until the text is written (`TagStored`), so that the text
is behind nothing the next pass starts from. A failed dump breaks that, but sets `fError`, and the
process does not start another pass.

*Capture files* (`JournalInv`). By program counter of `OpenCapture`: which files
exist, which is open, that the newest has its SOF mark and no EOF mark while
lines go to it, and that as long as `fReturn` holds the predecessor is ended and
that mark is on disk once it was closed. A restart keeps a prefix of the entries,
and the marks of what is lost are written again. `SizesBounded` adds that
`g_ulCaptureSize` is the size of the newest file (`SizeKnown`).

*Line buffer* (`LineInv`). `Faithful` speaks of the moment before a read only,
and the buffer holds bytes of earlier chunks behind the end of the last one. The
invariant names that end, `e`, and says that from the start of the line in
progress up to `e` the buffer holds the last bytes that were read (`ChunkAt`),
that this line is the one behind those looked at and has no new-line among the
bytes already scanned (`LineAt`), and that what comes before it is in the capture
file (`WrittenAt`). A LOB line is the special case: its beginning is in
`g_pszLine`, complete because there was only one part before (`LobAt`), and the
rest starts at the front of the buffer. Each end of a chunk and each new-line
names its own new `e`; after a LOB line that is the length of what was saved. The
numbers of the bytes make all this arithmetic, so that no induction over the text
is needed. That a second part is never stored is where `ColumnsFit` is used: the
first part is at least `Fill` bytes long.

*Stop channel* (`StopInv`). While a client writes, the pipe is connected and its
own; T comes back to `ConnectNamedPipe` only after it has disconnected, so that
`ERROR_NO_DATA` can only be met by the first client; and main knows that B has
ended when it cleans up after a clean stop.

TLC checks the invariants of the pipeline in `capture_timely` (the timely ones
and `BoundaryInv`), `capture_late` (`CaptureInv`) and `capture_faulty`
(`ServiceInv`), the other three in `journal`, `line_buffer` and `stop_channel`.

### Model-checked only

- The liveness properties `CatchUp`, `XaiCatchUp`, `StopEndsOrBlocks`, `StopHeard`,
  `StopMeansEnd`, `ClientAnswered`: liveness under fairness is out of the
  prover's reach. Every safety property of the passing runs is proved.

## Not modelled

- Vendored code: MariaDB 10.3.23, the connector, SQLite and its wrapper are
  nearly all of the repository (1.29 million lines, of which the program's own
  are about 9000). They are third-party code, and what the program needs of them
  is an input of the models, so the share of the repository the models cover
  stays below one percent.
- The decoding of events into text (DLL, `print_row_event` and below): an event
  is its tag and one line for all of its text. An error while an event is
  decoded, between its tag and its text, is left out.
- Settings, registry, repository access, statistics, timing, the display
  commands; the archive rotation of the trace log, which this program never
  calls.
- A failing `fflush`, whose result the code ignores, and byte widths of
  positions.
- The terminator of a read that fills the buffer exactly lies one byte behind it
  (`StdOutRedirect.h` 77), that of a part that does lies one byte behind
  `g_pszLine` (CAP 2130); the model gives both that byte.
- A buffer below two reads, and the registry setting that would make it so.
- A `.XAI` file created with a position that is no event boundary.
- Thread T still running while main closes the trace log and returns: the states
  are in `StopChannel`, no property excludes them.

## Plan

1. `BinlogCapture`, `CaptureJournal`, `LineBuffer`, `StopChannel` and the
   abstract `CaptureService` and `CaptureFile`: done.
2. Every safety property and both refinements of `BinlogCapture`,
   `CaptureJournal`, `LineBuffer` and `StopChannel` proved: done.
3. What remains of order after a timeout: a bound on how far the `.XAI` file may
   step back.
4. Columns longer than `ColumnsFit` allows: which of the bytes read behind such a
   column are left out of the capture file.
