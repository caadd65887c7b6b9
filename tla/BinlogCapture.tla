--------------------------- MODULE BinlogCapture ---------------------------
(***************************************************************************)
(* The capture pipeline of ddMySqlBinLogCapture.                            *)
(*                                                                         *)
(* Thread M (ReadJournal and, in the binlog library, StartReadBinLog)      *)
(* lists the server's binary logs, dumps them as text lines to stdout and  *)
(* waits for the lines to be consumed.  Stdout is redirected to a bounded  *)
(* pipe.  Thread B (listenBinLogThread) reads the pipe, appends every line *)
(* to the capture file and follows the transaction tags to maintain the    *)
(* resume position: g_stBinLogSeqInProgess in memory, the .XAI file on     *)
(* disk.  Thread T (ListenPipeThread) raises the exit flag.  The process   *)
(* may be killed at any time; a new one resumes from the .XAI file.        *)
(*                                                                         *)
(* A binlog file is a sequence of event kinds; the byte offset of an event *)
(* is its ordinal in the file, so BIN_LOG_HEADER_SIZE is position 1 and    *)
(* the end position of event i is i + 1.  File 0 is the empty name.        *)
(*                                                                         *)
(* Every event is dumped as two lines, its tag and, in a write of its own, *)
(* its text; an event is captured once its text is.  Thread B saves the    *)
(* position behind a transaction on the tag of its last event, so what a   *)
(* process that ends just then leaves unwritten is recorded in cut.        *)
(***************************************************************************)
EXTENDS Integers, Sequences

CONSTANTS
  Groups,        (* event groups the server may commit: sequences of Kinds *)
  MaxFiles,      (* bound on the number of binlog files                    *)
  MaxEvents,     (* bound on the number of events of one file              *)
  PipeSize,      (* lines the stdout pipe holds                            *)
  FlushEachLine, (* g_lFlush # 0: fflush after every captured line         *)
  Faults,        (* the faults this instance is exposed to                 *)
  MaxTimeouts,   (* how often M may give up waiting for B                  *)
  MaxCaptured,   (* no new pass once so many events are in the capture     *)
  MaxStarts      (* how often the process may be started again             *)

(* The events process_event prints a tag for: GTID, the rows events of one *)
(* statement (printed together, with the last of them), QUERY and XID.     *)
Kinds == {"begin", "rows", "query", "xid"}

(***************************************************************************)
(* "dump": reading a binlog from the server fails.  "list": SHOW MASTER    *)
(* LOGS or STATUS fails, or its list is cut short.  "purge": the server    *)
(* deletes old binlogs.  "slow": B needs more than five seconds.  "torn":  *)
(* M and B access the shared sequences at the same time.  "kill": the      *)
(* process dies without running exit handlers.  "disk": the capture file   *)
(* cannot be written.                                                      *)
(***************************************************************************)
AllFaults == {"dump", "list", "purge", "slow", "torn", "kill", "disk"}

ASSUME ConstantsAssumption ==
  /\ Groups \subseteq Seq(Kinds)
  /\ MaxFiles \in Nat \ {0}
  /\ MaxEvents \in Nat
  /\ PipeSize \in Nat \ {0}
  /\ FlushEachLine \in BOOLEAN
  /\ Faults \subseteq AllFaults
  /\ MaxTimeouts \in Nat
  /\ MaxCaptured \in Nat
  /\ MaxStarts \in Nat

VARIABLES
  (* the server *)
  binlog,        (* sequence of files, each a sequence of event kinds      *)
  purged,        (* files 1..purged are deleted                            *)
  (* thread M *)
  mpc,           (* where ReadJournal stands; "off": no process            *)
  nList,         (* g_iNbBinLog: the last file of the loaded list          *)
  mFile, mIdx,   (* the file being dumped and old_off, the next event      *)
  fError,
  timeouts, starts,
  (* stdout, redirected *)
  pipe,
  (* thread B *)
  bpc,           (* where listenBinLogThread stands in the current line    *)
  bLine,         (* the current line                                       *)
  szBinLogName, bStartOfStmt, bDataColumnInProgress,
  (* shared by the threads *)
  g_stBinLogSeq, g_stBinLogSeqInProgess,
  g_StBinLogInfoFirst, g_StBinLogInfoLast,
  g_fEndBinlog, g_hEventEndOfBinlog, g_fExitApp,
  (* on disk *)
  xai,           (* the .XAI file                                          *)
  cap,           (* events in the capture file, stdio buffer included      *)
  flushed,       (* how many of them have left the stdio buffer            *)
  (* history *)
  boot,          (* Len(cap) when the running process started              *)
  base,          (* the position the capture was first started from        *)
  cut            (* events saved on their tag by a process that ended      *)
                 (* before it had written their text                       *)

serverVars == <<binlog, purged>>
passVars == <<nList, mFile, mIdx, fError, timeouts>>
mVars == <<mpc, passVars>>
bVars == <<bpc, bLine, szBinLogName, bStartOfStmt, bDataColumnInProgress>>
seqVars == <<g_stBinLogSeq, g_stBinLogSeqInProgess>>
infoVars == <<g_StBinLogInfoFirst, g_StBinLogInfoLast>>
flagVars == <<g_fEndBinlog, g_hEventEndOfBinlog, g_fExitApp>>
capVars == <<cap, flushed>>
histVars == <<boot, base, starts, cut>>
vars == <<serverVars, mVars, pipe, bVars, seqVars, infoVars, flagVars, xai,
          capVars, histVars>>

-----------------------------------------------------------------------------
(* Positions, events and lines *)

(* BinLogSequence; ulIndex is 0 in every value the program stores.         *)
Position == [name : Nat, pos : Nat]
NoPosition == [name |-> 0, pos |-> 0]
At(f, p) == [name |-> f, pos |-> p]

Events == {e \in (1..Len(binlog)) \X (1..MaxEvents) :
             e[2] <= Len(binlog[e[1]])}

(* Event e lies before position p.                                         *)
Before(e, p) == e[1] < p.name \/ (e[1] = p.name /\ e[2] < p.pos)

(* The events a capture resumed at p takes for granted: those from the     *)
(* base on that lie before p.                                              *)
Upto(p) == {e \in Events : Before(e, p) /\ ~Before(e, base)}

Captured == {cap[n] : n \in 1..Len(cap)}

MarkerKinds == {"FIRST", "START", "END", "LAST"}
EventTags == {"BEGIN", "STMT", "QUERY", "COMMIT"}
(* What an event prints behind its tag line, the rest of a statement of    *)
(* several lines included.  One line stands for all of them, read when the *)
(* last of them is; ROW is the text of a rows event, with the ### lines of *)
(* its columns.                                                            *)
CarrierKinds == {"TEXT", "ROW"}
EventKinds == EventTags \cup CarrierKinds
LineKinds == MarkerKinds \cup EventKinds

(* A line names its file and event; of a tag B only reads the positions i  *)
(* and i + 1, of a text, END and LAST nothing: file and event are there    *)
(* for the history.                                                        *)
Line == [k : LineKinds, f : Nat, i : Nat]
NoLine == [k |-> "LAST", f |-> 0, i |-> 0]
Marker(k, f) == [k |-> k, f |-> f, i |-> 0]
EventLine(k, f, i) == [k |-> k, f |-> f, i |-> i]

(* The tag line process_event prints for an event, and its text.           *)
TagOf(kind) == CASE kind = "begin" -> "BEGIN"
                 [] kind = "rows"  -> "STMT"
                 [] kind = "query" -> "QUERY"
                 [] kind = "xid"   -> "COMMIT"
TextOf(kind) == IF kind = "rows" THEN "ROW" ELSE "TEXT"

(* Thread B has read the tag on which it saves the position behind the     *)
(* event, and not yet the next line: the text is due.                      *)
SavedOnTag == {"QUERY", "COMMIT"}
Due == IF bLine.k \in SavedOnTag THEN {<<bLine.f, bLine.i>>} ELSE {}
(* The process ends: a text that is due is cut off when its position is    *)
(* saved and no earlier process has captured it.                           *)
CutOff == cut' = cut \cup ((Due \cap Upto(xai)) \ Captured)

Running == mpc # "off"
PipeRoom == Len(pipe) < PipeSize
(* Mutant: a write that does not wait for room.                            *)
PrintLineUnbounded(l) == pipe' = Append(pipe, l)
PrintLine(l) == PipeRoom /\ pipe' = Append(pipe, l)

(* Mutant: the first event of a binlog is skipped.                         *)
HeaderSizePlusOne == 2
BIN_LOG_HEADER_SIZE == 1

(* An event created with CreateEvent is reset by the wait it ends.         *)
(* Mutant: a manual-reset event.                                           *)
ManualReset(signalled) == signalled
AutoReset(signalled) == FALSE

(* M and B are both inside an access to the shared sequences only when the *)
(* instance is exposed to torn accesses.                                   *)
BMayAccess == "torn" \in Faults \/ mpc \notin {"setpos", "copypos"}
MMayAccess == "torn" \in Faults \/ bpc \notin {"pos", "seqpos"}

-----------------------------------------------------------------------------
(* The server *)

(* A commit appends a whole group to the active binlog.                    *)
Commit(g) ==
  LET n == Len(binlog) IN
  /\ Len(binlog[n]) + Len(g) <= MaxEvents
  /\ binlog' = [binlog EXCEPT ![n] = @ \o g]
  /\ UNCHANGED <<purged, mVars, pipe, bVars, seqVars, infoVars, flagVars,
                 xai, capVars, histVars>>

Rotate ==
  /\ Len(binlog) < MaxFiles
  /\ binlog' = Append(binlog, <<>>)
  /\ UNCHANGED <<purged, mVars, pipe, bVars, seqVars, infoVars, flagVars,
                 xai, capVars, histVars>>

Purge ==
  /\ "purge" \in Faults
  /\ purged + 1 < Len(binlog)
  /\ purged' = purged + 1
  /\ UNCHANGED <<binlog, mVars, pipe, bVars, seqVars, infoVars, flagVars,
                 xai, capVars, histVars>>

-----------------------------------------------------------------------------
(* Thread M: one pass of ReadJournal *)

MGoto(l) == mpc' = l

(* LoadBinLog succeeds with the files up to n.  SHOW MASTER LOGS lists the *)
(* files not purged; a failed fetch in mid-list is taken as its end.       *)
MLoadBinLog(n) ==
  LET found == purged < g_stBinLogSeq.name /\ g_stBinLogSeq.name <= n IN
  /\ mpc = "loop"
  /\ ~g_fExitApp
  /\ MMayAccess
  /\ Len(cap) <= MaxCaptured
  /\ n = Len(binlog) \/ "list" \in Faults
  /\ g_fEndBinlog' = FALSE
  /\ fError' = (g_stBinLogSeq.name # 0 /\ ~found)
  /\ IF found
     THEN /\ nList' = n
          /\ mFile' = g_stBinLogSeq.name
          /\ mIdx' = g_stBinLogSeq.pos
          /\ g_StBinLogInfoFirst' = g_stBinLogSeq.name
          /\ g_StBinLogInfoLast' = 0
          /\ MGoto("first")
     ELSE /\ MGoto(IF g_stBinLogSeq.name = 0 THEN "status" ELSE "check")
          /\ UNCHANGED <<nList, mFile, mIdx, infoVars>>
  /\ UNCHANGED <<serverVars, timeouts, pipe, bVars, seqVars,
                 g_hEventEndOfBinlog, g_fExitApp, xai, capVars, histVars>>

MLoadBinLogFails ==
  /\ mpc = "loop"
  /\ ~g_fExitApp
  /\ "list" \in Faults
  /\ fError' = TRUE
  /\ MGoto("check")
  /\ UNCHANGED <<serverVars, nList, mFile, mIdx, timeouts, pipe, bVars,
                 seqVars, infoVars, flagVars, xai, capVars, histVars>>

(* LoadMasterStatus: nothing was captured yet, start at the server's end.  *)
MLoadMasterStatus ==
  LET end == At(Len(binlog), Len(binlog[Len(binlog)]) + 1) IN
  /\ mpc = "status"
  /\ MMayAccess
  /\ g_stBinLogSeq' = end
  /\ xai' = end
  /\ base' = end
  /\ MGoto("check")
  /\ UNCHANGED <<serverVars, passVars, pipe,
                 bVars, g_stBinLogSeqInProgess, infoVars, flagVars, capVars,
                 boot, starts, cut>>

MLoadMasterStatusFails ==
  /\ mpc = "status"
  /\ "list" \in Faults
  /\ MGoto("check")
  /\ UNCHANGED <<serverVars, passVars, pipe,
                 bVars, seqVars, infoVars, flagVars, xai, capVars, histVars>>

MPrintFirst ==
  /\ mpc = "first"
  /\ PrintLine(Marker("FIRST", mFile))
  /\ MGoto("setname")
  /\ UNCHANGED <<serverVars, passVars, bVars,
                 seqVars, infoVars, flagVars, xai, capVars, histVars>>

(* M stores the position of the first binlog in the sequence B works on,   *)
(* name first.                                                             *)
MSetName ==
  /\ mpc = "setname"
  /\ MMayAccess
  /\ g_stBinLogSeqInProgess' = [g_stBinLogSeqInProgess EXCEPT !.name = mFile]
  /\ MGoto("setpos")
  /\ UNCHANGED <<serverVars, passVars, pipe,
                 bVars, g_stBinLogSeq, infoVars, flagVars, xai, capVars,
                 histVars>>

MSetPos ==
  /\ mpc = "setpos"
  /\ g_stBinLogSeqInProgess' = [g_stBinLogSeqInProgess EXCEPT !.pos = mIdx]
  /\ MGoto("start")
  /\ UNCHANGED <<serverVars, passVars, pipe,
                 bVars, g_stBinLogSeq, infoVars, flagVars, xai, capVars,
                 histVars>>

(* StartReadBinLog: the START tag, then dump_remote_log_entries.           *)
MPrintStart ==
  /\ mpc = "start"
  /\ PrintLine(Marker("START", mFile))
  /\ MGoto("connect")
  /\ UNCHANGED <<serverVars, passVars, bVars,
                 seqVars, infoVars, flagVars, xai, capVars, histVars>>

(* The server serves a dump: the file exists and the position lies in it.  *)
CanDump ==
  /\ purged < mFile
  /\ BIN_LOG_HEADER_SIZE <= mIdx
  /\ mIdx <= Len(binlog[mFile]) + 1

(* safe_connect, check_master_version and COM_BINLOG_DUMP succeed.         *)
MConnect ==
  /\ mpc = "connect"
  /\ CanDump
  /\ MGoto("dump")
  /\ UNCHANGED <<serverVars, passVars, pipe,
                 bVars, seqVars, infoVars, flagVars, xai, capVars, histVars>>

(* The server refuses the request, or reading a packet fails: ERROR_STOP.  *)
MDumpFails ==
  /\ \/ mpc = "connect" /\ ~CanDump
     \/ mpc \in {"connect", "dump"} /\ "dump" \in Faults
  /\ fError' = TRUE
  /\ MGoto("end")
  /\ UNCHANGED <<serverVars, nList, mFile, mIdx, timeouts, pipe, bVars,
                 seqVars, infoVars, flagVars, xai, capVars, histVars>>

(* One event is read and its tag printed.                                  *)
MDumpEvent ==
  /\ mpc = "dump"
  /\ mIdx <= Len(binlog[mFile])
  /\ PrintLine(EventLine(TagOf(binlog[mFile][mIdx]), mFile, mIdx))
  /\ MGoto("text")
  /\ UNCHANGED <<serverVars, passVars, bVars,
                 seqVars, infoVars, flagVars, xai, capVars, histVars>>

(* At the end of process_event the text the event has put in its output    *)
(* buffer is printed; old_off moves past the event.                        *)
MDumpText ==
  /\ mpc = "text"
  /\ PrintLine(EventLine(TextOf(binlog[mFile][mIdx]), mFile, mIdx))
  /\ mIdx' = mIdx + 1
  /\ MGoto("dump")
  /\ UNCHANGED <<serverVars, nList, mFile, fError, timeouts, bVars,
                 seqVars, infoVars, flagVars, xai, capVars, histVars>>

(* The server has nothing more: end of data, or the fake Rotate event of   *)
(* the next binlog.                                                        *)
MDumpEof ==
  /\ mpc = "dump"
  /\ mIdx > Len(binlog[mFile])
  /\ MGoto("end")
  /\ UNCHANGED <<serverVars, passVars, pipe,
                 bVars, seqVars, infoVars, flagVars, xai, capVars, histVars>>

(* Mutant: the last binlog of the list is left out.                        *)
LastButOneOfList == mFile >= nList - 1
LastOfList == mFile = nList

(* The END tag is printed whatever dump_log_entries returned; ReadJournal  *)
(* then goes on with the next binlog of the list unless the exit flag is   *)
(* up.  The pointer it steps back to find the last binlog has not been     *)
(* moved on when the exit flag ended the loop: the pass then names the     *)
(* binlog before, or, before the first one, bytes that name no file.       *)
MPrintEnd ==
  /\ mpc = "end"
  /\ PrintLine(Marker("END", mFile))
  /\ IF g_fExitApp \/ LastOfList
     THEN /\ g_StBinLogInfoLast' = IF g_fExitApp THEN mFile - 1 ELSE mFile
          /\ MGoto("last")
          /\ UNCHANGED <<mFile, mIdx>>
     ELSE /\ mFile' = mFile + 1
          /\ mIdx' = BIN_LOG_HEADER_SIZE
          /\ MGoto("start")
          /\ UNCHANGED g_StBinLogInfoLast
  /\ UNCHANGED <<serverVars, nList, fError, timeouts, bVars, seqVars,
                 g_StBinLogInfoFirst, flagVars, xai, capVars, histVars>>

MPrintLast ==
  /\ mpc = "last"
  /\ PrintLine(Marker("LAST", mFile))
  /\ MGoto("wait")
  /\ UNCHANGED <<serverVars, passVars, bVars,
                 seqVars, infoVars, flagVars, xai, capVars, histVars>>

(* The auto-reset event was set by B, or by T on exit.                     *)
MWaitSignalled ==
  /\ mpc = "wait"
  /\ g_hEventEndOfBinlog
  /\ g_hEventEndOfBinlog' = AutoReset(g_hEventEndOfBinlog)
  /\ MGoto("check")
  /\ UNCHANGED <<serverVars, passVars, pipe,
                 bVars, seqVars, infoVars, g_fEndBinlog, g_fExitApp, xai,
                 capVars, histVars>>

(* M gives up waiting: a slice of 100 ms ends after B saw an END tag, or   *)
(* the five seconds are over.                                              *)
MWaitTimeout ==
  /\ mpc = "wait"
  /\ ~g_hEventEndOfBinlog
  /\ g_fEndBinlog \/ "slow" \in Faults
  /\ timeouts < MaxTimeouts
  /\ timeouts' = timeouts + 1
  /\ MGoto("copyname")
  /\ UNCHANGED <<serverVars, nList, mFile, mIdx, fError, pipe, bVars,
                 seqVars, infoVars, flagVars, xai, capVars, histVars>>

(* After a timeout M copies B's sequence itself.                           *)
(* Mutant: M takes the position it has dumped up to.                       *)
DumpedPos == mIdx
CopiedPos == g_stBinLogSeqInProgess.pos

MCopyName ==
  /\ mpc = "copyname"
  /\ MMayAccess
  /\ g_stBinLogSeq' = [g_stBinLogSeq EXCEPT !.name = g_stBinLogSeqInProgess.name]
  /\ MGoto("copypos")
  /\ UNCHANGED <<serverVars, passVars, pipe,
                 bVars, g_stBinLogSeqInProgess, infoVars, flagVars, xai,
                 capVars, histVars>>

MCopyPos ==
  /\ mpc = "copypos"
  /\ g_stBinLogSeq' = [g_stBinLogSeq EXCEPT !.pos = CopiedPos]
  /\ MGoto("check")
  /\ UNCHANGED <<serverVars, passVars, pipe,
                 bVars, g_stBinLogSeqInProgess, infoVars, flagVars, xai,
                 capVars, histVars>>

(* The end of a pass: leave the loop on an error or on exit.               *)
MCheck ==
  /\ mpc = "check"
  /\ MGoto(IF fError \/ g_fExitApp THEN "done" ELSE "alive")
  /\ UNCHANGED <<serverVars, passVars, pipe, bVars, seqVars, infoVars,
                 flagVars, xai, capVars, histVars>>

(* IsAliveThread: go round as long as thread B runs.                       *)
MCheckAlive ==
  /\ mpc = "alive"
  /\ bpc # "dead"
  /\ MGoto("loop")
  /\ UNCHANGED <<serverVars, passVars, pipe, bVars, seqVars, infoVars,
                 flagVars, xai, capVars, histVars>>

MSeesExit ==
  /\ mpc = "loop"
  /\ g_fExitApp
  /\ MGoto("done")
  /\ UNCHANGED <<serverVars, passVars, pipe, bVars, seqVars, infoVars,
                 flagVars, xai, capVars, histVars>>

-----------------------------------------------------------------------------
(* Thread B: listenBinLogThread, one line *)

BGoto(l) == bpc' = l

(* How much of n captured events is out of the stdio buffer: all of it     *)
(* with g_lFlush; otherwise any part, as the buffer is written out every   *)
(* ten seconds, when the capture file is changed and when it is full.      *)
(* Mutant: no fflush.                                                      *)
FlushForgotten(n) == {flushed}
FlushTo(n) == IF FlushEachLine THEN {n} ELSE flushed..n

(* The next line is appended to the capture file.                          *)
BWriteLine ==
  LET l == Head(pipe) IN
  /\ bpc = "read"
  /\ pipe # <<>>
  /\ pipe' = Tail(pipe)
  /\ bLine' = l
  /\ cap' = IF l.k \in CarrierKinds THEN Append(cap, <<l.f, l.i>>) ELSE cap
  /\ flushed' \in FlushTo(Len(cap'))
  /\ BGoto(IF bDataColumnInProgress /\ l.k # "ROW" THEN "rowend" ELSE "tag")
  /\ UNCHANGED <<serverVars, mVars, szBinLogName, bStartOfStmt,
                 bDataColumnInProgress, seqVars, infoVars, flagVars, xai,
                 histVars>>

(* The first line after a row's columns: the row is complete and the       *)
(* sequence in progress is saved.                                          *)
BEndOfRow ==
  /\ bpc = "rowend"
  /\ BMayAccess
  /\ bDataColumnInProgress' = FALSE
  /\ xai' = g_stBinLogSeqInProgess
  /\ BGoto("tag")
  /\ UNCHANGED <<serverVars, mVars, pipe, bLine, szBinLogName, bStartOfStmt,
                 seqVars, infoVars, flagVars, capVars, histVars>>

(* No tag: the first ### line after a STMT tag opens a row's columns.      *)
BText ==
  /\ bpc = "tag"
  /\ bLine.k \in CarrierKinds
  /\ bDataColumnInProgress' =
       (bDataColumnInProgress \/ (bLine.k = "ROW" /\ bStartOfStmt))
  /\ BGoto("read")
  /\ UNCHANGED <<serverVars, mVars, pipe, bLine, szBinLogName, bStartOfStmt,
                 seqVars, infoVars, flagVars, xai, capVars, histVars>>

BStmt ==
  /\ bpc = "tag"
  /\ bLine.k = "STMT"
  /\ bStartOfStmt' = TRUE
  /\ BGoto("read")
  /\ UNCHANGED <<serverVars, mVars, pipe, bLine, szBinLogName,
                 bDataColumnInProgress, seqVars, infoVars, flagVars, xai,
                 capVars, histVars>>

(* BEGIN, QUERY and COMMIT store szBinLogName, then a position.            *)
BTransactionTag ==
  /\ bpc = "tag"
  /\ bLine.k \in {"BEGIN", "QUERY", "COMMIT"}
  /\ BMayAccess
  /\ bStartOfStmt' = (bStartOfStmt /\ bLine.k # "COMMIT")
  /\ bDataColumnInProgress' = (bDataColumnInProgress /\ bLine.k # "COMMIT")
  /\ g_stBinLogSeqInProgess' =
       [g_stBinLogSeqInProgess EXCEPT !.name = szBinLogName]
  /\ BGoto("pos")
  /\ UNCHANGED <<serverVars, mVars, pipe, bLine, szBinLogName, g_stBinLogSeq,
                 infoVars, flagVars, xai, capVars, histVars>>

BStartBinlog ==
  /\ bpc = "tag"
  /\ bLine.k = "START"
  /\ BMayAccess
  /\ g_fEndBinlog' = FALSE
  /\ szBinLogName' = bLine.f
  /\ IF bLine.f # g_StBinLogInfoFirst
     THEN /\ g_stBinLogSeqInProgess' =
               [g_stBinLogSeqInProgess EXCEPT !.name = bLine.f]
          /\ BGoto("pos")
     ELSE BGoto("read") /\ UNCHANGED g_stBinLogSeqInProgess
  /\ UNCHANGED <<serverVars, mVars, pipe, bLine, bStartOfStmt,
                 bDataColumnInProgress, g_stBinLogSeq, infoVars,
                 g_hEventEndOfBinlog, g_fExitApp, xai, capVars, histVars>>

(* The position a tag stores: the start of BEGIN, the end of QUERY and     *)
(* COMMIT, the header size for a binlog that is not the first.             *)
(* Mutants: the start of every event, the end of every event, the start of *)
(* the binlog instead of the start of the transaction.                     *)
StoredPosStart(l) == IF l.k = "START" THEN BIN_LOG_HEADER_SIZE ELSE l.i
StoredPosEnd(l) == IF l.k = "START" THEN BIN_LOG_HEADER_SIZE ELSE l.i + 1
StoredPosHeader(l) == IF l.k \in {"QUERY", "COMMIT"} THEN l.i + 1
                      ELSE BIN_LOG_HEADER_SIZE
StoredPos(l) == CASE l.k = "BEGIN" -> l.i
                  [] l.k \in {"QUERY", "COMMIT"} -> l.i + 1
                  [] OTHER -> BIN_LOG_HEADER_SIZE

(* The tags that call SaveInDisk.  Mutant: not on QUERY.                   *)
SavingTagsNoQuery == {"COMMIT"}
SavingTags == {"QUERY", "COMMIT"}

BStorePosition ==
  /\ bpc = "pos"
  /\ g_stBinLogSeqInProgess' =
       [g_stBinLogSeqInProgess EXCEPT !.pos = StoredPos(bLine)]
  /\ BGoto(IF bLine.k \in SavingTags THEN "save" ELSE "read")
  /\ UNCHANGED <<serverVars, mVars, pipe, bLine, szBinLogName, bStartOfStmt,
                 bDataColumnInProgress, g_stBinLogSeq, infoVars, flagVars,
                 xai, capVars, histVars>>

(* SaveInDisk after QUERY and COMMIT.                                      *)
BSaveInDisk ==
  /\ bpc = "save"
  /\ BMayAccess
  /\ xai' = g_stBinLogSeqInProgess
  /\ BGoto("read")
  /\ UNCHANGED <<serverVars, mVars, pipe, bLine, szBinLogName, bStartOfStmt,
                 bDataColumnInProgress, seqVars, infoVars, flagVars,
                 capVars, histVars>>

BEndBinlog ==
  /\ bpc = "tag"
  /\ bLine.k = "END"
  /\ g_fEndBinlog' = TRUE
  /\ BGoto("read")
  /\ UNCHANGED <<serverVars, mVars, pipe, bLine, szBinLogName, bStartOfStmt,
                 bDataColumnInProgress, seqVars, infoVars,
                 g_hEventEndOfBinlog, g_fExitApp, xai, capVars, histVars>>

BFirstBinlog ==
  /\ bpc = "tag"
  /\ bLine.k = "FIRST"
  /\ szBinLogName' = bLine.f
  /\ BGoto("read")
  /\ UNCHANGED <<serverVars, mVars, pipe, bLine, bStartOfStmt,
                 bDataColumnInProgress, seqVars, infoVars, flagVars, xai,
                 capVars, histVars>>

(* LAST: when the file B is in is the last of M's pass, B copies its       *)
(* sequence for M, name first, and wakes it.                               *)
BLastBinlog ==
  /\ bpc = "tag"
  /\ bLine.k = "LAST"
  /\ BMayAccess
  /\ IF szBinLogName = g_StBinLogInfoLast
     THEN /\ g_stBinLogSeq' =
               [g_stBinLogSeq EXCEPT !.name = g_stBinLogSeqInProgess.name]
          /\ BGoto("seqpos")
     ELSE BGoto("read") /\ UNCHANGED g_stBinLogSeq
  /\ UNCHANGED <<serverVars, mVars, pipe, bLine, szBinLogName, bStartOfStmt,
                 bDataColumnInProgress, g_stBinLogSeqInProgess, infoVars,
                 flagVars, xai, capVars, histVars>>

BSignalEnd ==
  /\ bpc = "seqpos"
  /\ g_stBinLogSeq' = [g_stBinLogSeq EXCEPT !.pos = g_stBinLogSeqInProgess.pos]
  /\ g_hEventEndOfBinlog' = TRUE
  /\ BGoto("read")
  /\ UNCHANGED <<serverVars, mVars, pipe, bLine, szBinLogName, bStartOfStmt,
                 bDataColumnInProgress, g_stBinLogSeqInProgess, infoVars,
                 g_fEndBinlog, g_fExitApp, xai, capVars, histVars>>

(* B looks at the exit flag after each chunk it has read.                  *)
BExit ==
  /\ bpc = "read"
  /\ g_fExitApp
  /\ BGoto("dead")
  /\ UNCHANGED <<serverVars, mVars, pipe, bLine, szBinLogName, bStartOfStmt,
                 bDataColumnInProgress, seqVars, infoVars, flagVars, xai,
                 capVars, histVars>>

-----------------------------------------------------------------------------
(* Thread T and the life of the process *)

(* A stop message arrives: the flag first, then the events.                *)
TStop ==
  /\ Running
  /\ ~g_fExitApp
  /\ g_fExitApp' = TRUE
  /\ g_hEventEndOfBinlog' = TRUE
  /\ UNCHANGED <<serverVars, mVars, pipe, bVars, seqVars, infoVars,
                 g_fEndBinlog, xai, capVars, histVars>>

(* The memory of a process that has just started (pc = "loop") or is gone. *)
FreshProcess(pc, resume) ==
  /\ mpc' = pc
  /\ nList' = 0 /\ mFile' = 0 /\ mIdx' = 0 /\ fError' = FALSE
  /\ pipe' = <<>>
  /\ bpc' = IF pc = "off" THEN "dead" ELSE "read"
  /\ bLine' = NoLine
  /\ szBinLogName' = 0
  /\ bStartOfStmt' = FALSE /\ bDataColumnInProgress' = FALSE
  /\ g_stBinLogSeq' = resume
  /\ g_stBinLogSeqInProgess' = NoPosition
  /\ g_StBinLogInfoFirst' = 0 /\ g_StBinLogInfoLast' = 0
  /\ g_fEndBinlog' = FALSE /\ g_hEventEndOfBinlog' = FALSE
  /\ g_fExitApp' = FALSE

(* The C runtime flushes the capture file on exit.  Mutant: it does not.   *)
ExitUnflushed(n) == flushed
ExitFlushed(n) == n

(* Mutant: ReadJournal does not look whether thread B is alive.            *)
LeavesMain == mpc = "done"
Leaves == mpc = "done" \/ (mpc = "alive" /\ bpc = "dead")

(* main leaves ReadJournal, stops the redirection and thread B and returns,*)
(* or ReadJournal finds thread B dead and calls exit(0): the C runtime     *)
(* flushes the capture file.                                               *)
ProcessExit ==
  /\ Leaves
  /\ FreshProcess("off", NoPosition)
  /\ flushed' = ExitFlushed(Len(cap))
  /\ CutOff
  /\ UNCHANGED <<serverVars, timeouts, starts, xai, cap, boot, base>>

(* B cannot write a line to the capture file: it logs the error and calls  *)
(* exit(0).                                                                *)
BWriteFails ==
  /\ bpc = "read"
  /\ pipe # <<>>
  /\ "disk" \in Faults
  /\ FreshProcess("off", NoPosition)
  /\ flushed' = ExitFlushed(Len(cap))
  /\ CutOff
  /\ UNCHANGED <<serverVars, timeouts, starts, xai, cap, boot, base>>

(* The process is killed: what its stdio buffer holds is lost.             *)
Kill ==
  /\ Running
  /\ "kill" \in Faults
  /\ FreshProcess("off", NoPosition)
  /\ cap' = SubSeq(cap, 1, flushed)
  /\ CutOff
  /\ UNCHANGED <<serverVars, timeouts, starts, xai, flushed, boot, base>>

(* InitParam reads the .XAI file; the threads start.                       *)
ProcessStart ==
  /\ ~Running
  /\ starts < MaxStarts
  /\ starts' = starts + 1
  /\ FreshProcess("loop", xai)
  /\ boot' = Len(cap)
  /\ UNCHANGED <<serverVars, timeouts, xai, capVars, base, cut>>

-----------------------------------------------------------------------------
(* The specification *)

(* The .XAI file does not exist, or CRTXAI created it at the first binlog. *)
Init ==
  /\ binlog = <<<<>>>>
  /\ purged = 0
  /\ mpc = "loop"
  /\ nList = 0 /\ mFile = 0 /\ mIdx = 0 /\ fError = FALSE
  /\ timeouts = 0 /\ starts = 0
  /\ pipe = <<>>
  /\ bpc = "read" /\ bLine = NoLine /\ szBinLogName = 0
  /\ bStartOfStmt = FALSE /\ bDataColumnInProgress = FALSE
  /\ xai \in {NoPosition, At(1, 1)}
  /\ base = xai
  /\ g_stBinLogSeq = xai
  /\ g_stBinLogSeqInProgess = NoPosition
  /\ g_StBinLogInfoFirst = 0 /\ g_StBinLogInfoLast = 0
  /\ g_fEndBinlog = FALSE /\ g_hEventEndOfBinlog = FALSE
  /\ g_fExitApp = FALSE
  /\ cap = <<>> /\ flushed = 0 /\ boot = 0 /\ cut = {}

ServerNext == (\E g \in Groups : Commit(g)) \/ Rotate \/ Purge

MNext ==
  \/ \E n \in 0..Len(binlog) : MLoadBinLog(n)
  \/ MLoadBinLogFails \/ MLoadMasterStatus \/ MLoadMasterStatusFails
  \/ MPrintFirst \/ MSetName \/ MSetPos
  \/ MPrintStart \/ MConnect \/ MDumpFails
  \/ MDumpEvent \/ MDumpText \/ MDumpEof
  \/ MPrintEnd \/ MPrintLast
  \/ MWaitSignalled \/ MWaitTimeout \/ MCopyName \/ MCopyPos
  \/ MCheck \/ MCheckAlive \/ MSeesExit

BNext ==
  \/ BWriteLine \/ BEndOfRow \/ BText \/ BStmt
  \/ BTransactionTag \/ BStartBinlog \/ BStorePosition \/ BSaveInDisk
  \/ BEndBinlog \/ BFirstBinlog \/ BLastBinlog \/ BSignalEnd \/ BExit

ProcessNext == TStop \/ ProcessExit \/ BWriteFails \/ Kill \/ ProcessStart

Next == ServerNext \/ MNext \/ BNext \/ ProcessNext

Spec == Init /\ [][Next]_vars

(* The operating system schedules both threads, and main returns once      *)
(* ReadJournal has.                                                        *)
Fairness == WF_vars(MNext) /\ WF_vars(BNext) /\ WF_vars(ProcessExit)
FairSpec == Spec /\ Fairness

-----------------------------------------------------------------------------
(* Properties *)

MPcs == {"off", "loop", "status", "first", "setname", "setpos", "start",
         "connect", "dump", "text", "end", "last", "wait", "copyname",
         "copypos", "check", "alive", "done"}
BPcs == {"read", "rowend", "tag", "pos", "save", "seqpos", "dead"}

ServerOK ==
  /\ binlog \in Seq(Seq(Kinds)) /\ Len(binlog) > 0
  /\ \A f \in 1..Len(binlog) : Len(binlog[f]) <= MaxEvents
  /\ purged \in Nat /\ purged < Len(binlog)

ThreadsOK ==
  /\ mpc \in MPcs /\ bpc \in BPcs
  /\ nList \in 0..Len(binlog) /\ mFile \in 0..Len(binlog) /\ mIdx \in Nat
  /\ timeouts \in 0..MaxTimeouts /\ starts \in 0..MaxStarts

LinesOK ==
  /\ pipe \in Seq(Line) /\ Len(pipe) <= PipeSize
  /\ bLine \in Line
  /\ szBinLogName \in Nat

PositionsOK ==
  /\ g_stBinLogSeq \in Position /\ g_stBinLogSeqInProgess \in Position
  /\ g_StBinLogInfoFirst \in Nat /\ g_StBinLogInfoLast \in Nat
  /\ xai \in Position /\ base \in Position

CaptureOK ==
  /\ cap \in Seq(Nat \X Nat)
  /\ flushed \in 0..Len(cap) /\ boot \in Nat
  /\ cut \subseteq Nat \X Nat

FlagsOK ==
  /\ fError \in BOOLEAN
  /\ bStartOfStmt \in BOOLEAN /\ bDataColumnInProgress \in BOOLEAN
  /\ g_fEndBinlog \in BOOLEAN /\ g_hEventEndOfBinlog \in BOOLEAN
  /\ g_fExitApp \in BOOLEAN

(* Type invariant of the state of the three threads, the pipe, the .XAI    *)
(* file and the capture file: M never leaves the loaded list, no more than *)
(* PipeSize lines are in the pipe, the stdio buffer is part of the capture.*)
TypeOK ==
  ServerOK /\ ThreadsOK /\ LinesOK /\ PositionsOK /\ CaptureOK /\ FlagsOK

(* Whatever the process does and whenever it is killed, a process resumed  *)
(* from the .XAI file misses nothing: every event from the base up to the  *)
(* saved position is in the capture file (SaveInDisk against the order of  *)
(* fwrite/fflush in listenBinLogThread).  Not so the text of the event on  *)
(* whose tag the position was saved: it is the next line B is to write,    *)
(* and lost if the process ends before; at most one for each end.          *)
NoLoss == Upto(xai) \subseteq Captured \cup cut \cup Due

(* When the process ends by itself - stopped, on an error of ReadJournal,  *)
(* or through one of the exit(0) calls of thread B and ReadJournal -       *)
(* everything up to the saved position has reached the disk, although the  *)
(* .XAI file is flushed on every save and the capture file is not; but for *)
(* the text that was due when a process ended.                             *)
OnDisk == {cap[n] : n \in 1..flushed}
NoLossOnExit == ~Running => Upto(xai) \subseteq OnDisk \cup cut

(* The COMMIT branch of listenBinLogThread says "transaction terminated"   *)
(* and saves the position behind it: then all of the transaction is in the *)
(* capture when the process has ended.                                     *)
TextWritten == ~Running => Upto(xai) \subseteq Captured

(* A pass of ReadJournal resumes at a position B has reached: nothing      *)
(* before it is left to capture but the text B is to write next.  Thread B *)
(* copies its own sequence when it reaches the LAST tag; after a timeout M *)
(* makes the copy.                                                         *)
ResumeCaptured ==
  mpc = "first" => Upto(At(mFile, mIdx)) \subseteq Captured \cup cut \cup Due

(* What remains of NoLoss when reading binlogs fails: within the file the  *)
(* .XAI file names, nothing before the saved position is missing, but for  *)
(* a text that was cut off or is due.                                      *)
NoGapInFile ==
  \A e \in Upto(xai) : e[1] = xai.name => e \in Captured \cup cut \cup Due

(* One process never captures an event twice: each pass of ReadJournal     *)
(* starts where thread B stopped in the previous one.                      *)
NoDuplicates ==
  \A m, n \in (boot + 1)..Len(cap) : m # n => cap[m] # cap[n]

(* The saved position lies between two transactions: the next event of its *)
(* file, if there is one, opens a group (BEGIN tag of listenBinLogThread). *)
ResumeAtTransaction ==
  xai.name \in 1..Len(binlog) =>
    \/ xai.pos > Len(binlog[xai.name])
    \/ binlog[xai.name][xai.pos] = "begin"

(* The hand-shake of EndOfBinlog: as long as M never gave up waiting, a    *)
(* new pass of ReadJournal starts only when B has consumed every line of   *)
(* the previous one.                                                       *)
PassDrained ==
  mpc = "loop" /\ ~g_fExitApp => pipe = <<>> /\ bpc = "read"

(* SaveInDisk never moves the .XAI file backwards.                         *)
XaiMonotonic ==
  [][Before(<<xai.name, xai.pos>>, xai') \/ xai' = xai]_xai

(* The pipeline implements the capture service: through dump, pipe, thread *)
(* B, both copies of the sequence, SaveInDisk, kills and restarts, events  *)
(* enter the capture in binlog order, the .XAI file confirms only what is  *)
(* captured and at most one event more, and no gap is left but of events   *)
(* confirmed and not captured when a process ended.  Events from before    *)
(* the base, which a late START tag can make M dump, are outside the       *)
(* promise.                                                                *)
Service ==
  INSTANCE CaptureService WITH
    published <- IF base.name = 0 THEN {} ELSE {e \in Events : ~Before(e, base)},
    captured <- {e \in Captured : ~Before(e, base)},
    confirmed <- Upto(xai),
    cut <- cut
ImplementsService == Service!Spec

(* Every event the server commits after the base is captured, unless the   *)
(* process is stopped or killed first.                                     *)
Pending(e) == base.name # 0 /\ e \in Events /\ ~Before(e, base)
Stopped == ~Running \/ g_fExitApp
CatchUp ==
  \A e \in (1..MaxFiles) \X (1..MaxEvents) :
    Pending(e) ~> (e \in Captured \/ Stopped)

(* ... and the .XAI file then gets past it.                                *)
XaiCatchUp ==
  \A e \in (1..MaxFiles) \X (1..MaxEvents) :
    Pending(e) ~> (Before(e, xai) \/ Stopped)

(* A stop message ends the process (ListenPipeThread, main after           *)
(* ReadJournal; STOP is to "Stop the specified logreader").                *)
StopEnds == g_fExitApp ~> ~Running

(* ... unless it finds M in a dump that the pipe has no room for: thread B *)
(* leaves as soon as it sees the flag, and M waits for room for ever.      *)
Blocked == bpc = "dead" /\ ~PipeRoom
StopEndsOrBlocks == g_fExitApp ~> (~Running \/ Blocked)

=============================================================================
