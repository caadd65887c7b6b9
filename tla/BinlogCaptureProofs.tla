------------------------ MODULE BinlogCaptureProofs ------------------------
(***************************************************************************)
(* Proofs about the capture pipeline, for every value of the constants:    *)
(* type correctness, and the hand-shake of ReadJournal and thread B.       *)
(***************************************************************************)
EXTENDS BinlogCaptureInv, TLAPS

-----------------------------------------------------------------------------
(* Type correctness *)

(* A file of the server's binlogs is a sequence of event kinds.            *)
LEMMA FileType ==
  ASSUME NEW S, NEW bl \in Seq(Seq(S)), NEW f \in 1..Len(bl)
  PROVE  bl[f] \in Seq(S) /\ Len(bl[f]) \in Nat
  OBVIOUS

(* What thread M never touches: the server, B's own state, the capture     *)
(* file (StartReadBinLog only prints, ReadJournal only reads the list).    *)
LEMMA MFrame ==
  MNext => UNCHANGED <<binlog, purged, bpc, bLine, szBinLogName, starts,
                       cap, flushed, boot, cut>>
  BY DEF MNext, MLoadBinLog, MLoadBinLogFails, MLoadMasterStatus,
         MLoadMasterStatusFails, MPrintFirst, MSetName, MSetPos, MPrintStart,
         MConnect, MDumpFails, MDumpEvent, MDumpText, MDumpEof, MPrintEnd,
         MPrintLast, MWaitSignalled, MWaitTimeout, MCopyName, MCopyPos,
         MCheck, MCheckAlive, MSeesExit, serverVars, bVars, capVars, histVars

(* A successful LoadBinLog starts a pass at g_stBinLogSeq, inside the list,*)
(* or no pass at all.                                                      *)
LEMMA LoadEffect ==
  ASSUME NEW n, MLoadBinLog(n)
  PROVE  /\ MMayAccess
         /\ UNCHANGED <<timeouts, pipe, g_stBinLogSeq, g_stBinLogSeqInProgess,
                        xai, base>>
         /\ \/ /\ mpc' = "first"
               /\ purged < g_stBinLogSeq.name /\ g_stBinLogSeq.name <= n
               /\ nList' = n
               /\ mFile' = g_stBinLogSeq.name
               /\ mIdx' = g_stBinLogSeq.pos
               /\ g_StBinLogInfoFirst' = g_stBinLogSeq.name
               /\ g_StBinLogInfoLast' = 0
            \/ /\ mpc' \in {"status", "check"}
               /\ UNCHANGED <<nList, mFile, mIdx, g_StBinLogInfoFirst,
                              g_StBinLogInfoLast>>
<1> DEFINE found == purged < g_stBinLogSeq.name /\ g_stBinLogSeq.name <= n
<1> USE DEF seqVars, infoVars, histVars, MGoto
<1>1. CASE found
  BY Zenon, <1>1 DEF MLoadBinLog
<1>2. CASE ~found
  BY Zenon, <1>2 DEF MLoadBinLog
<1> QED
  BY <1>1, <1>2

(* What thread B never touches: the server and the state of M.             *)
LEMMA BFrame ==
  BNext => UNCHANGED <<binlog, purged, mpc, nList, mFile, mIdx, timeouts,
                       starts, g_StBinLogInfoFirst, g_StBinLogInfoLast, boot,
                       base, cut>>
  BY DEF BNext, BWriteLine, BEndOfRow, BText, BStmt, BTransactionTag,
         BStartBinlog, BStorePosition, BSaveInDisk, BEndBinlog, BFirstBinlog,
         BLastBinlog, BSignalEnd, BExit, serverVars, mVars, passVars,
         infoVars, histVars

(* The process starts with a well-typed state (Init: main before           *)
(* ReadJournal).                                                           *)
LEMMA InitTypeInv == Init => TypeInv
<1> SUFFICES ASSUME Init PROVE TypeInv
  OBVIOUS
<1> USE ConstantsAssumption DEF Init
<1>1. ServerOK
  BY DEF ServerOK
<1>2. ThreadsOK /\ PassOK
  BY DEF ThreadsOK, PassOK, PassPcs, MPcs, BPcs
<1>3. LinesOK
  BY DEF LinesOK, NoLine, Line, LineKinds, MarkerKinds
<1>4. PositionsOK
  BY DEF PositionsOK, Position, NoPosition, At
<1>5. CaptureOK
  BY DEF CaptureOK
<1>6. FlagsOK
  BY DEF FlagsOK
<1> QED
  BY <1>1, <1>2, <1>3, <1>4, <1>5, <1>6 DEF TypeInv, TypeOK

(* Whatever the server does to its binlogs, the state stays well typed.    *)
LEMMA ServerTypeInv == TypeInv /\ ServerNext => TypeInv'
<1> SUFFICES ASSUME TypeInv, ServerNext PROVE TypeInv'
  OBVIOUS
<1> USE DEF TypeInv, TypeOK
<1>1. UNCHANGED <<mVars, pipe, bVars, seqVars, infoVars, flagVars, xai,
                  capVars, histVars>>
  BY DEF ServerNext, Commit, Rotate, Purge
<1>2. LinesOK' /\ PositionsOK' /\ CaptureOK'
  BY <1>1 DEF LinesOK, PositionsOK, CaptureOK, bVars, seqVars, infoVars,
              capVars, histVars
<1>3. FlagsOK'
  BY <1>1 DEF FlagsOK, mVars, passVars, bVars, flagVars
<1>4. ASSUME NEW g \in Groups, Commit(g)
      PROVE  /\ ServerOK'
             /\ Len(binlog') = Len(binlog)
             /\ \A f \in 1..Len(binlog) : Len(binlog[f]) <= Len(binlog'[f])
  <2>1. g \in Seq(Kinds)
    BY ConstantsAssumption
  <2>2. binlog[Len(binlog)] \in Seq(Kinds)
    BY FileType DEF ServerOK
  <2>3. /\ binlog[Len(binlog)] \o g \in Seq(Kinds)
        /\ Len(binlog[Len(binlog)] \o g) = Len(binlog[Len(binlog)]) + Len(g)
        /\ Len(g) >= 0
    BY <2>1, <2>2
  <2> QED
    BY <1>4, <2>2, <2>3 DEF Commit, ServerOK
<1>5. ASSUME Rotate
      PROVE  /\ ServerOK'
             /\ Len(binlog') = Len(binlog) + 1
             /\ \A f \in 1..Len(binlog) : binlog'[f] = binlog[f]
  BY <1>5, ConstantsAssumption DEF Rotate, ServerOK
<1>6. ASSUME Purge PROVE ServerOK' /\ binlog' = binlog
  BY <1>6 DEF Purge, ServerOK
<1>7. /\ ServerOK'
      /\ Len(binlog') >= Len(binlog)
      /\ \A f \in 1..Len(binlog) : Len(binlog'[f]) >= Len(binlog[f])
  <2>1. \A f \in 1..Len(binlog) : Len(binlog[f]) \in Nat
    BY FileType DEF ServerOK
  <2>2. Len(binlog) \in Nat
    BY DEF ServerOK
  <2>3. CASE \E g \in Groups : Commit(g)
    BY <1>4, <2>1, <2>2, <2>3
  <2>4. CASE Rotate
    BY <1>5, <2>1, <2>2, <2>4
  <2>5. CASE Purge
    BY <1>6, <2>1, <2>2, <2>5
  <2> QED
    BY <2>3, <2>4, <2>5 DEF ServerNext
<1>8. ThreadsOK' /\ PassOK'
  <2>1. UNCHANGED <<mpc, bpc, nList, mFile, mIdx, timeouts, starts>>
    BY <1>1 DEF mVars, passVars, bVars, histVars
  <2>2. \A f \in 1..Len(binlog) : Len(binlog[f]) \in Nat
    BY FileType DEF ServerOK
  <2>3. ThreadsOK'
    BY SMTT(30), <1>7, <2>1 DEF ThreadsOK, ServerOK
  <2>4. mpc \in PassPcs => mFile \in 1..Len(binlog)
    BY DEF PassOK, ThreadsOK, ServerOK
  <2>5. mpc = "text" => mIdx <= Len(binlog'[mFile])
    <3> SUFFICES ASSUME mpc = "text" PROVE mIdx <= Len(binlog'[mFile])
      OBVIOUS
    <3>1. mFile \in 1..Len(binlog) /\ mIdx <= Len(binlog[mFile]) /\ mIdx \in Nat
      BY <2>4 DEF PassOK, PassPcs, ThreadsOK
    <3>2. Len(binlog'[mFile]) >= Len(binlog[mFile]) /\ Len(binlog[mFile]) \in Nat
      BY <1>7, <2>2, <3>1
    <3>3. Len(binlog'[mFile]) \in Nat
      <4>1. binlog' \in Seq(Seq(Kinds)) /\ mFile \in 1..Len(binlog')
        BY <1>7, <3>1 DEF ServerOK
      <4> QED
        BY <4>1, FileType
    <3> QED
      BY <3>1, <3>2, <3>3
  <2>6. PassOK'
    BY <2>1, <2>5 DEF PassOK
  <2> QED
    BY <2>3, <2>6
<1> QED
  BY <1>2, <1>3, <1>7, <1>8

(* A printed line leaves the pipe well typed and within its size.          *)
LEMMA PrintType ==
  ASSUME LinesOK, UNCHANGED <<bLine, szBinLogName>>, NEW l \in Line, PrintLine(l)
  PROVE  LinesOK'
  BY ConstantsAssumption DEF LinesOK, PrintLine, PipeRoom

(* The tags of markers, and the tags and texts of events, are lines.       *)
LEMMA LineType ==
  /\ \A k \in MarkerKinds, f \in Nat : Marker(k, f) \in Line
  /\ \A k \in EventKinds, f, i \in Nat : EventLine(k, f, i) \in Line
  /\ \A kind \in Kinds : TagOf(kind) \in EventTags
  /\ \A kind : TextOf(kind) \in CarrierKinds
<1>1. \A k \in MarkerKinds, f \in Nat : Marker(k, f) \in Line
  BY DEF Marker, Line, LineKinds
<1>2. \A k \in EventKinds, f, i \in Nat : EventLine(k, f, i) \in Line
  BY DEF EventLine, Line, LineKinds
<1>3. \A kind \in Kinds : TagOf(kind) \in EventTags
  BY DEF TagOf, Kinds, EventTags
<1>4. \A kind : TextOf(kind) \in CarrierKinds
  BY DEF TextOf, CarrierKinds
<1> QED
  BY <1>1, <1>2, <1>3, <1>4

(* Thread M stays well typed: ReadJournal and StartReadBinLog.             *)
LEMMA MTypeInv == TypeInv /\ MNext => TypeInv'
<1> SUFFICES ASSUME TypeInv, MNext PROVE TypeInv'
  OBVIOUS
<1> USE DEF TypeInv, TypeOK
<1>1. UNCHANGED <<binlog, purged, bpc, bLine, szBinLogName, starts, cap,
                  flushed, boot, cut>>
  BY MFrame
<1>2. ServerOK' /\ CaptureOK'
  BY <1>1 DEF ServerOK, CaptureOK
<1>3. FlagsOK'
  <2> USE DEF FlagsOK, passVars, bVars, flagVars
  <2>1. ASSUME NEW n \in 0..Len(binlog), MLoadBinLog(n) PROVE FlagsOK'
    BY <2>1 DEF MLoadBinLog
  <2>2. CASE MLoadBinLogFails \/ MLoadMasterStatus \/ MLoadMasterStatusFails
    BY <2>2 DEF MLoadBinLogFails, MLoadMasterStatus, MLoadMasterStatusFails
  <2>3. CASE MPrintFirst \/ MSetName \/ MSetPos \/ MPrintStart \/ MConnect
    BY <2>3 DEF MPrintFirst, MSetName, MSetPos, MPrintStart, MConnect
  <2>4. CASE MDumpFails \/ MDumpEvent \/ MDumpText \/ MDumpEof
    BY <2>4 DEF MDumpFails, MDumpEvent, MDumpText, MDumpEof
  <2>5. CASE MPrintEnd \/ MPrintLast \/ MWaitSignalled \/ MWaitTimeout
    BY <2>5 DEF MPrintEnd, MPrintLast, MWaitSignalled, MWaitTimeout, AutoReset
  <2>6. CASE MCopyName \/ MCopyPos \/ MCheck \/ MCheckAlive \/ MSeesExit
    BY <2>6 DEF MCopyName, MCopyPos, MCheck, MCheckAlive, MSeesExit
  <2> QED
    BY <2>1, <2>2, <2>3, <2>4, <2>5, <2>6 DEF MNext
<1>4. LinesOK'
  <2>1. CASE UNCHANGED pipe
    BY <1>1, <2>1 DEF LinesOK
  <2>2. CASE MPrintFirst \/ MPrintStart \/ MPrintLast \/ MPrintEnd
    BY <1>1, <2>2, PrintType, LineType
       DEF MPrintFirst, MPrintStart, MPrintLast, MPrintEnd, MarkerKinds,
           ThreadsOK
  <2>3. CASE MDumpEvent
    <3>1. mFile \in 1..Len(binlog) /\ mIdx \in 1..Len(binlog[mFile])
      BY <2>3 DEF MDumpEvent, PassOK, PassPcs, ThreadsOK, ServerOK
    <3>2. binlog[mFile][mIdx] \in Kinds
      <4>1. binlog[mFile] \in Seq(Kinds)
        BY <3>1, FileType DEF ServerOK
      <4> QED
        BY <3>1, <4>1
    <3>3. EventLine(TagOf(binlog[mFile][mIdx]), mFile, mIdx) \in Line
      BY <3>2, LineType DEF ThreadsOK, EventKinds
    <3> QED
      BY <1>1, <2>3, <3>3, PrintType DEF MDumpEvent
  <2>4. CASE MDumpText
    BY <1>1, <2>4, PrintType, LineType DEF MDumpText, EventKinds, ThreadsOK
  <2> QED
    BY <2>1, <2>2, <2>3, <2>4
       DEF MNext, MLoadBinLog, MLoadBinLogFails, MLoadMasterStatus,
           MLoadMasterStatusFails, MSetName, MSetPos, MConnect, MDumpFails,
           MDumpEof, MWaitSignalled, MWaitTimeout, MCopyName, MCopyPos,
           MCheck, MCheckAlive, MSeesExit
<1>5. PositionsOK'
  <2> USE DEF PositionsOK, Position, seqVars, infoVars, histVars, ThreadsOK
  <2>1. ASSUME NEW n \in 0..Len(binlog), MLoadBinLog(n) PROVE PositionsOK'
    <3>1. UNCHANGED <<g_stBinLogSeq, g_stBinLogSeqInProgess, xai, base>>
      BY Zenon, <2>1, LoadEffect
    <3>2. /\ g_StBinLogInfoFirst' \in {g_stBinLogSeq.name, g_StBinLogInfoFirst}
          /\ g_StBinLogInfoLast' \in {0, g_StBinLogInfoLast}
      BY Zenon, <2>1, LoadEffect
    <3>3. g_stBinLogSeq.name \in Nat
      OBVIOUS
    <3> QED
      BY SMTT(30), <3>1, <3>2, <3>3
  <2>2. CASE MLoadMasterStatus
    <3>1. Len(binlog) \in Nat /\ Len(binlog[Len(binlog)]) \in Nat
      BY SMTT(30), FileType DEF ServerOK
    <3> QED
      BY SMTT(30), <2>2, <3>1 DEF MLoadMasterStatus, At
  <2>3. CASE MSetName \/ MSetPos \/ MCopyName \/ MCopyPos
    BY SMTT(30), <2>3 DEF MSetName, MSetPos, MCopyName, MCopyPos, CopiedPos
  <2>4. CASE MPrintEnd
    <3>1. mFile \in Nat /\ mFile - 1 \in Nat
      BY <2>4, <1>1 DEF MPrintEnd, PassOK, PassPcs
    <3>2. g_StBinLogInfoLast' \in {mFile, mFile - 1, g_StBinLogInfoLast}
      BY <2>4 DEF MPrintEnd
    <3> QED
      BY <2>4, <3>1, <3>2 DEF MPrintEnd
  <2>5. CASE MPrintFirst \/ MPrintStart \/ MPrintLast \/ MDumpEvent \/ MDumpText
    BY <2>5 DEF MPrintFirst, MPrintStart, MPrintLast, MDumpEvent, MDumpText
  <2>6. CASE MConnect \/ MDumpFails \/ MDumpEof \/ MWaitSignalled \/ MWaitTimeout
    BY <2>6 DEF MConnect, MDumpFails, MDumpEof, MWaitSignalled, MWaitTimeout
  <2>7. CASE \/ MLoadBinLogFails \/ MLoadMasterStatusFails
             \/ MCheck \/ MCheckAlive \/ MSeesExit
    BY <2>7 DEF MLoadBinLogFails, MLoadMasterStatusFails, MCheck, MCheckAlive,
                MSeesExit
  <2> QED
    BY <2>1, <2>2, <2>3, <2>4, <2>5, <2>6, <2>7 DEF MNext
<1>6. ThreadsOK' /\ PassOK'
  <2>1. Len(binlog) \in Nat
    BY DEF ServerOK
  <2> USE <1>1, <2>1 DEF ThreadsOK, PassOK, PassPcs, MPcs, passVars, MGoto
  <2>2. ASSUME NEW n \in 0..Len(binlog), MLoadBinLog(n)
        PROVE  ThreadsOK' /\ PassOK'
    <3>1. g_stBinLogSeq.name \in Nat /\ g_stBinLogSeq.pos \in Nat /\ purged \in Nat
      BY DEF PositionsOK, Position, ServerOK
    <3>2. timeouts' = timeouts
      BY <2>2, LoadEffect
    <3>3. CASE mpc' = "first"
      <4>1. /\ purged < g_stBinLogSeq.name /\ g_stBinLogSeq.name <= n
            /\ nList' = n /\ mFile' = g_stBinLogSeq.name
            /\ mIdx' = g_stBinLogSeq.pos
        BY <2>2, <3>3, LoadEffect
      <4> QED
        BY <3>1, <3>2, <3>3, <4>1
    <3>4. CASE mpc' \in {"status", "check"}
      <4>1. UNCHANGED <<nList, mFile, mIdx>>
        BY <2>2, <3>4, LoadEffect
      <4> QED
        BY <3>2, <3>4, <4>1
    <3> QED
      BY <2>2, <3>3, <3>4, LoadEffect
  <2>3. CASE MLoadBinLogFails \/ MLoadMasterStatus \/ MLoadMasterStatusFails
    BY <2>3 DEF MLoadBinLogFails, MLoadMasterStatus, MLoadMasterStatusFails
  <2>4. CASE MPrintFirst \/ MSetName \/ MSetPos \/ MPrintStart
    BY <2>4 DEF MPrintFirst, MSetName, MSetPos, MPrintStart
  <2>5. CASE MConnect \/ MDumpFails \/ MDumpEof
    BY <2>5 DEF MConnect, MDumpFails, MDumpEof, CanDump, BIN_LOG_HEADER_SIZE
  <2>6. CASE MDumpEvent \/ MDumpText
    BY <2>6 DEF MDumpEvent, MDumpText
  <2>7. CASE MPrintEnd \/ MPrintLast
    BY <2>7 DEF MPrintEnd, MPrintLast, LastOfList, BIN_LOG_HEADER_SIZE
  <2>8. CASE MWaitSignalled \/ MWaitTimeout
    BY <2>8, ConstantsAssumption DEF MWaitSignalled, MWaitTimeout
  <2>9. CASE MCopyName \/ MCopyPos \/ MCheck \/ MCheckAlive \/ MSeesExit
    BY <2>9 DEF MCopyName, MCopyPos, MCheck, MCheckAlive, MSeesExit
  <2> QED
    BY <2>2, <2>3, <2>4, <2>5, <2>6, <2>7, <2>8, <2>9 DEF MNext
<1> QED
  BY <1>2, <1>3, <1>4, <1>5, <1>6

(* Thread B stays well typed: listenBinLogThread.                          *)
LEMMA BTypeInv == TypeInv /\ BNext => TypeInv'
<1> SUFFICES ASSUME TypeInv, BNext PROVE TypeInv'
  OBVIOUS
<1> USE DEF TypeInv, TypeOK
<1>1. UNCHANGED <<binlog, purged, mpc, nList, mFile, mIdx, timeouts, starts,
                  g_StBinLogInfoFirst, g_StBinLogInfoLast, boot, base, cut>>
  BY BFrame
<1>2. ServerOK' /\ PassOK'
  BY <1>1 DEF ServerOK, PassOK
<1>3. FlagsOK'
  <2> USE DEF FlagsOK, mVars, passVars, flagVars
  <2>1. CASE BWriteLine \/ BEndOfRow \/ BText \/ BStmt
    BY <2>1 DEF BWriteLine, BEndOfRow, BText, BStmt
  <2>2. CASE BTransactionTag \/ BStartBinlog \/ BStorePosition \/ BSaveInDisk
    BY <2>2 DEF BTransactionTag, BStartBinlog, BStorePosition, BSaveInDisk
  <2>3. CASE \/ BEndBinlog \/ BFirstBinlog \/ BLastBinlog \/ BSignalEnd
             \/ BExit
    BY <2>3 DEF BEndBinlog, BFirstBinlog, BLastBinlog, BSignalEnd, BExit
  <2> QED
    BY <2>1, <2>2, <2>3 DEF BNext
<1>4. ThreadsOK'
  BY <1>1 DEF ThreadsOK, BPcs, BGoto, BNext, BWriteLine, BEndOfRow, BText,
              BStmt, BTransactionTag, BStartBinlog, BStorePosition,
              BSaveInDisk, BEndBinlog, BFirstBinlog, BLastBinlog, BSignalEnd,
              BExit
<1>5. CASE BWriteLine
  <2>1. /\ LinesOK' /\ bLine' = Head(pipe) /\ bLine' \in Line
    <3>1. /\ pipe # <<>> /\ pipe' = Tail(pipe) /\ bLine' = Head(pipe)
          /\ szBinLogName' = szBinLogName
      BY <1>5 DEF BWriteLine
    <3>2. /\ Head(pipe) \in Line /\ Tail(pipe) \in Seq(Line)
          /\ Len(Tail(pipe)) <= Len(pipe)
      BY <3>1 DEF LinesOK
    <3>3. Len(Tail(pipe)) <= PipeSize
      BY <3>2, ConstantsAssumption DEF LinesOK
    <3> QED
      BY <3>1, <3>2, <3>3 DEF LinesOK
  <2>2. PositionsOK'
    BY <1>1, <1>5 DEF BWriteLine, PositionsOK, seqVars, infoVars
  <2>3. CaptureOK'
    <3>1. <<bLine'.f, bLine'.i>> \in Nat \X Nat
      BY <2>1 DEF Line
    <3>2. CASE cap' = cap
      BY <1>1, <1>5, <3>2 DEF BWriteLine, FlushTo, CaptureOK
    <3>3. CASE cap' = Append(cap, <<bLine'.f, bLine'.i>>)
      <4>1. cap' \in Seq(Nat \X Nat) /\ Len(cap') = Len(cap) + 1
        BY <3>1, <3>3 DEF CaptureOK
      <4>2. flushed' \in {Len(cap')} \cup flushed..Len(cap')
        BY <1>5 DEF BWriteLine, FlushTo
      <4>3. Len(cap) \in Nat /\ flushed \in 0..Len(cap)
        BY DEF CaptureOK
      <4>4. flushed' \in 0..Len(cap')
        BY <4>1, <4>2, <4>3
      <4>5. boot' \in Nat /\ cut' \subseteq Nat \X Nat
        BY <1>1 DEF CaptureOK
      <4> QED
        BY <4>1, <4>4, <4>5 DEF CaptureOK
    <3> QED
      BY <1>5, <2>1, <3>2, <3>3 DEF BWriteLine
  <2> QED
    BY <1>2, <1>3, <1>4, <2>1, <2>2, <2>3
<1>6. CASE ~BWriteLine
  <2>1. UNCHANGED <<pipe, bLine, capVars>>
    BY <1>6 DEF BNext, BEndOfRow, BText, BStmt, BTransactionTag, BStartBinlog,
                BStorePosition, BSaveInDisk, BEndBinlog, BFirstBinlog,
                BLastBinlog, BSignalEnd, BExit
  <2>2. CaptureOK'
    BY <1>1, <2>1 DEF CaptureOK, capVars
  <2>3. szBinLogName' \in {szBinLogName, bLine.f}
    BY <1>6 DEF BNext, BEndOfRow, BText, BStmt, BTransactionTag, BStartBinlog,
                BStorePosition, BSaveInDisk, BEndBinlog, BFirstBinlog,
                BLastBinlog, BSignalEnd, BExit, bVars
  <2>4. LinesOK'
    BY <2>1, <2>3 DEF LinesOK, Line
  <2>5. PositionsOK'
    <3>1. StoredPos(bLine) \in Nat /\ bLine.f \in Nat /\ szBinLogName \in Nat
      BY DEF StoredPos, LinesOK, Line, BIN_LOG_HEADER_SIZE
    <3> USE <1>1 DEF PositionsOK, Position, seqVars, infoVars
    <3>2. CASE BTransactionTag \/ BStartBinlog \/ BStorePosition
      BY <3>1, <3>2 DEF BTransactionTag, BStartBinlog, BStorePosition
    <3>3. CASE BLastBinlog \/ BSignalEnd
      BY <3>3 DEF BLastBinlog, BSignalEnd
    <3>4. CASE BEndOfRow \/ BSaveInDisk
      BY <3>4 DEF BEndOfRow, BSaveInDisk
    <3>5. CASE BText \/ BStmt \/ BEndBinlog \/ BFirstBinlog \/ BExit
      BY <3>5 DEF BText, BStmt, BEndBinlog, BFirstBinlog, BExit
    <3> QED
      BY <1>6, <3>2, <3>3, <3>4, <3>5 DEF BNext
  <2> QED
    BY <1>2, <1>3, <1>4, <2>2, <2>4, <2>5
<1> QED
  BY <1>5, <1>6

(* What a process that ends leaves unwritten are events.                   *)
LEMMA CutType ==
  ASSUME TypeInv, CutOff
  PROVE  cut' \subseteq Nat \X Nat
<1>1. Len(binlog) \in Nat
  BY DEF TypeInv, TypeOK, ServerOK
<1>2. Events \subseteq Nat \X Nat
  BY <1>1, ConstantsAssumption DEF Events
<1> QED
  BY <1>2 DEF CutOff, Upto, TypeInv, TypeOK, CaptureOK

(* Stopping, killing and starting the process keep the state well typed.   *)
LEMMA ProcessTypeInv == TypeInv /\ ProcessNext => TypeInv'
<1> SUFFICES ASSUME TypeInv, ProcessNext PROVE TypeInv'
  OBVIOUS
<1> USE DEF TypeInv, TypeOK
<1>1. CASE TStop
  <2>1. FlagsOK'
    BY <1>1 DEF TStop, FlagsOK, mVars, passVars, bVars
  <2> QED
    BY <1>1, <2>1 DEF TStop, ServerOK, ThreadsOK, PassOK, LinesOK, PositionsOK,
          CaptureOK, serverVars, mVars, passVars, bVars, seqVars, infoVars,
          capVars, histVars
<1>2. ASSUME NEW pc \in {"off", "loop"}, NEW resume \in Position,
             FreshProcess(pc, resume), UNCHANGED <<serverVars, timeouts, xai, base>>,
             starts' \in 0..MaxStarts, CaptureOK'
      PROVE  TypeInv'
  <2> USE <1>2 DEF FreshProcess
  <2>1. FlagsOK'
    BY DEF FlagsOK
  <2>2. ServerOK'
    BY DEF ServerOK, serverVars
  <2>3. ThreadsOK' /\ PassOK'
    BY DEF ThreadsOK, PassOK, PassPcs, MPcs, BPcs, ServerOK, serverVars
  <2>4. LinesOK'
    BY ConstantsAssumption
       DEF LinesOK, NoLine, Line, LineKinds, MarkerKinds
  <2>5. PositionsOK'
    BY DEF PositionsOK, NoPosition, Position
  <2> QED
    BY <2>1, <2>2, <2>3, <2>4, <2>5
<1>3. NoPosition \in Position
  BY DEF NoPosition, Position
<1>4. CASE ProcessExit \/ BWriteFails
  <2>1. CaptureOK'
    <3>1. cut' \subseteq Nat \X Nat
      BY <1>4, CutType DEF ProcessExit, BWriteFails
    <3> QED
      BY <1>4, <3>1 DEF ProcessExit, BWriteFails, CaptureOK, ExitFlushed
  <2> QED
    BY <1>2, <1>3, <1>4, <2>1
       DEF ProcessExit, BWriteFails, histVars, ThreadsOK
<1>5. CASE Kill
  <2>1. CaptureOK'
    <3>1. cut' \subseteq Nat \X Nat
      BY <1>5, CutType DEF Kill
    <3> QED
      BY <1>5, <3>1 DEF Kill, CaptureOK
  <2> QED
    BY <1>2, <1>3, <1>5, <2>1 DEF Kill, histVars, ThreadsOK
<1>6. CASE ProcessStart
  <2>1. CaptureOK'
    BY <1>6 DEF ProcessStart, CaptureOK, capVars
  <2>2. starts' \in 0..MaxStarts
    BY <1>6, ConstantsAssumption DEF ProcessStart, ThreadsOK
  <2>3. xai \in Position
    BY DEF PositionsOK
  <2> QED
    BY <1>2, <1>6, <2>1, <2>2, <2>3 DEF ProcessStart
<1> QED
  BY <1>1, <1>4, <1>5, <1>6 DEF ProcessNext

(* The type invariant, with the bounds of a pass, is inductive.            *)
LEMMA NextTypeInv == TypeInv /\ [Next]_vars => TypeInv'
<1> SUFFICES ASSUME TypeInv, [Next]_vars PROVE TypeInv'
  OBVIOUS
<1>1. CASE Next
  BY <1>1, ServerTypeInv, MTypeInv, BTypeInv, ProcessTypeInv DEF Next
<1>2. CASE UNCHANGED vars
  <2> USE <1>2 DEF vars, serverVars, mVars, passVars, bVars, seqVars, infoVars,
                   flagVars, capVars, histVars
  <2>1. FlagsOK'
    BY DEF TypeInv, TypeOK, FlagsOK
  <2> QED
    BY <2>1 DEF TypeInv, TypeOK, ServerOK, ThreadsOK, PassOK, LinesOK,
                PositionsOK, CaptureOK
<1> QED
  BY <1>1, <1>2

(* The state of the threads, the pipe and the files is always well typed:  *)
(* M never reads outside the list or a binlog, the pipe is never           *)
(* overfilled, and the flushed part of the capture is part of it.          *)
THEOREM TypeCorrect == Spec => []TypeOK
<1>1. TypeInv => TypeOK
  BY DEF TypeInv
<1> QED
  BY <1>1, InitTypeInv, NextTypeInv, PTL DEF Spec

-----------------------------------------------------------------------------
(* The hand-shake of the passes *)

(* Once M has given up waiting, it has.                                    *)
LEMMA TimeoutsKept ==
  ASSUME TypeInv, [Next]_vars, timeouts' = 0
  PROVE  timeouts = 0 /\ ~MWaitTimeout
<1>1. timeouts \in Nat
  BY ConstantsAssumption DEF TypeInv, TypeOK, ThreadsOK
<1>2. CASE MWaitTimeout
  BY <1>1, <1>2 DEF MWaitTimeout
<1>3. CASE ~MWaitTimeout
  <2>1. CASE MNext
    BY <1>3, <2>1
       DEF MNext, MLoadBinLog, MLoadBinLogFails, MLoadMasterStatus,
           MLoadMasterStatusFails, MPrintFirst, MSetName, MSetPos,
           MPrintStart, MConnect, MDumpFails, MDumpEvent, MDumpText,
           MDumpEof, MPrintEnd, MPrintLast, MWaitSignalled, MCopyName,
           MCopyPos, MCheck, MCheckAlive, MSeesExit, passVars
  <2>2. CASE BNext
    BY <1>3, <2>2, BFrame
  <2>3. CASE ServerNext \/ ProcessNext \/ UNCHANGED vars
    BY <1>3, <2>3
       DEF ServerNext, Commit, Rotate, Purge, ProcessNext, TStop, ProcessExit,
           BWriteFails, Kill, ProcessStart, mVars, passVars, vars
  <2> QED
    BY <1>3, <2>1, <2>2, <2>3 DEF Next
<1> QED
  BY <1>2, <1>3

(* M prints FIRST when it opens a pass, LAST when it closes it, and other  *)
(* lines in between.                                                       *)
LEMMA MHandshake ==
  ASSUME TypeInv, timeouts = 0, HandshakeInv, MNext, ~MWaitTimeout
  PROVE  HandshakeInv'
<1>1. pipe \in Seq(Line) /\ Len(pipe) \in Nat
  BY DEF TypeInv, TypeOK, LinesOK
<1>2. UNCHANGED <<bpc, bLine, bDataColumnInProgress, g_fExitApp>>
  BY DEF MNext, MLoadBinLog, MLoadBinLogFails, MLoadMasterStatus,
         MLoadMasterStatusFails, MPrintFirst, MSetName, MSetPos, MPrintStart,
         MConnect, MDumpFails, MDumpEvent, MDumpText, MDumpEof, MPrintEnd,
         MPrintLast, MWaitSignalled, MCopyName, MCopyPos, MCheck,
         MCheckAlive, MSeesExit, bVars, flagVars
<1>3. RowClosed'
  BY <1>2 DEF HandshakeInv, RowClosed
<1>4. ASSUME NEW l \in Line, pipe' = Append(pipe, l)
      PROVE  /\ Len(pipe') = Len(pipe) + 1
             /\ \A j \in 1..Len(pipe) : pipe'[j] = pipe[j]
             /\ pipe'[Len(pipe) + 1] = l
  BY <1>1, <1>4
<1>5. mFile \in Nat /\ mIdx \in Nat
  BY DEF TypeInv, TypeOK, ThreadsOK
<1>6. ASSUME NEW k \in MarkerKinds PROVE Marker(k, mFile) \in Line
  BY <1>5, <1>6 DEF Marker, Line, LineKinds
<1>7. CASE MPrintFirst
  <2> DEFINE l == Marker("FIRST", mFile)
  <2>1. /\ mpc = "first" /\ mpc' = "setname" /\ pipe' = Append(pipe, l)
        /\ UNCHANGED g_hEventEndOfBinlog
    BY <1>7 DEF MPrintFirst, PrintLine, MGoto, flagVars
  <2>2. l \in Line /\ l.k = "FIRST"
    BY <1>6 DEF MarkerKinds, Marker
  <2>3. /\ pipe = <<>> /\ bLine.k = "LAST" /\ bpc \in {"read", "dead"}
    BY <2>1 DEF HandshakeInv, PassOpens, Consumed
  <2>4. Len(pipe') = 1 /\ pipe'[1] = l
    BY <1>4, <2>1, <2>2, <2>3
  <2> HIDE DEF l
  <2>5. PassOpens'
    BY <1>2, <2>1, <2>2, <2>3, <2>4 DEF PassOpens
  <2>6. PassCloses'
    BY <1>2, <2>1, <2>2, <2>3, <2>4 DEF HandshakeInv, PassCloses, Running
  <2> QED
    BY <1>3, <2>1, <2>5, <2>6 DEF HandshakeInv
<1>8. CASE MPrintStart \/ MDumpEvent \/ MDumpText \/ MPrintEnd
  <2>1. PICK l \in Line : l.k # "LAST" /\ pipe' = Append(pipe, l)
    <3>1. CASE MPrintStart
      BY <1>6, <3>1 DEF MPrintStart, PrintLine, Marker, MarkerKinds
    <3>2. CASE MPrintEnd
      BY <1>6, <3>2 DEF MPrintEnd, PrintLine, Marker, MarkerKinds
    <3>3. CASE MDumpText
      BY <1>5, <3>3
         DEF MDumpText, PrintLine, EventLine, TextOf, Line, LineKinds,
             EventKinds, CarrierKinds
    <3>4. CASE MDumpEvent
      <4> DEFINE kind == binlog[mFile][mIdx]
      <4>1. mFile \in 1..Len(binlog) /\ mIdx \in 1..Len(binlog[mFile])
        BY <1>5, <3>4, FileType
           DEF MDumpEvent, TypeInv, TypeOK, ThreadsOK, ServerOK, PassOK, PassPcs
      <4>2. kind \in Kinds
        BY <4>1 DEF TypeInv, TypeOK, ServerOK
      <4>3. pipe' = Append(pipe, EventLine(TagOf(kind), mFile, mIdx))
        BY <3>4 DEF MDumpEvent, PrintLine
      <4> HIDE DEF kind
      <4> QED
        BY <1>5, <4>2, <4>3
           DEF TagOf, Kinds, EventLine, Line, LineKinds, EventKinds, EventTags
    <3> QED
      BY <1>8, <3>1, <3>2, <3>3, <3>4
  <2>2. /\ mpc \in {"start", "dump", "text", "end"}
        /\ mpc' \in {"connect", "text", "dump", "last", "start"}
        /\ UNCHANGED g_hEventEndOfBinlog
    <3> USE DEF MGoto, flagVars
    <3>1. CASE MPrintStart \/ MDumpText
      BY <3>1 DEF MPrintStart, MDumpText
    <3>2. CASE MDumpEvent
      BY <3>2 DEF MDumpEvent
    <3>3. CASE MPrintEnd
      BY <3>3 DEF MPrintEnd
    <3> QED
      BY <1>8, <3>1, <3>2, <3>3
  <2>3. PassOpens'
    BY <2>2 DEF PassOpens
  <2>4. PassCloses'
    BY <1>1, <1>2, <1>4, <2>1, <2>2 DEF HandshakeInv, PassCloses, Running
  <2> QED
    BY <1>3, <2>2, <2>3, <2>4 DEF HandshakeInv
<1>9. CASE MPrintLast
  <2> DEFINE l == Marker("LAST", mFile)
  <2>1. /\ mpc = "last" /\ mpc' = "wait" /\ pipe' = Append(pipe, l)
        /\ UNCHANGED g_hEventEndOfBinlog
    BY <1>9 DEF MPrintLast, PrintLine, MGoto, flagVars
  <2>2. l \in Line
    BY <1>6 DEF MarkerKinds
  <2> HIDE DEF l
  <2>3. PassOpens'
    BY <2>1 DEF PassOpens
  <2>4. PassCloses'
    BY <1>1, <1>2, <1>4, <2>1, <2>2 DEF HandshakeInv, PassCloses, Running
  <2> QED
    BY <1>3, <2>1, <2>3, <2>4 DEF HandshakeInv
<1>10. CASE \E n \in 0..Len(binlog) : MLoadBinLog(n)
  <2>1. /\ mpc = "loop" /\ ~g_fExitApp /\ mpc' \in {"first", "status", "check"}
        /\ UNCHANGED <<pipe, g_hEventEndOfBinlog>>
    <3> SUFFICES ASSUME NEW n \in 0..Len(binlog), MLoadBinLog(n)
                 PROVE  /\ mpc = "loop" /\ ~g_fExitApp
                        /\ mpc' \in {"first", "status", "check"}
                        /\ UNCHANGED <<pipe, g_hEventEndOfBinlog>>
      BY <1>10
    <3>1. mpc' \in {"first", "status", "check"} /\ UNCHANGED pipe
      BY LoadEffect
    <3> QED
      BY <3>1 DEF MLoadBinLog
  <2>2. Consumed /\ bpc = "read"
    BY <2>1 DEF HandshakeInv, PassCloses, Running
  <2> QED
    BY <1>2, <1>3, <2>1, <2>2
       DEF HandshakeInv, PassOpens, PassCloses, Consumed, Running
<1>11. CASE MLoadBinLogFails \/ MLoadMasterStatus \/ MLoadMasterStatusFails
            \/ MCheck \/ MCheckAlive \/ MSeesExit
  <2>1. /\ mpc \in {"loop", "status", "check", "alive"}
        /\ mpc' \in {"check", "done", "alive", "loop"}
        /\ UNCHANGED <<pipe, g_hEventEndOfBinlog>>
    BY <1>11 DEF MLoadBinLogFails, MLoadMasterStatus, MLoadMasterStatusFails,
       MCheck, MCheckAlive, MSeesExit, MGoto, flagVars
  <2> QED
    BY <1>2, <1>3, <2>1
       DEF HandshakeInv, PassOpens, PassCloses, Consumed, Running
<1>12. CASE MSetName \/ MSetPos \/ MConnect \/ MDumpFails \/ MDumpEof
  <2>1. /\ \/ mpc = "setname" /\ mpc' = "setpos"
           \/ /\ mpc \in {"setpos", "connect", "dump"}
              /\ mpc' \in {"start", "dump", "end"}
        /\ UNCHANGED <<pipe, g_hEventEndOfBinlog>>
    BY <1>12 DEF MSetName, MSetPos, MConnect, MDumpFails, MDumpEof, MGoto,
       flagVars
  <2> QED
    BY <1>2, <1>3, <2>1
       DEF HandshakeInv, PassOpens, PassCloses, Consumed, Running
<1>13. CASE MWaitSignalled
  <2>1. /\ mpc = "wait" /\ mpc' = "check" /\ g_hEventEndOfBinlog
        /\ ~g_hEventEndOfBinlog' /\ UNCHANGED pipe
    BY <1>13 DEF MWaitSignalled, MGoto, AutoReset
  <2> QED
    BY <1>2, <1>3, <2>1
       DEF HandshakeInv, PassOpens, PassCloses, Consumed, Running
<1>14. CASE MCopyName \/ MCopyPos
  BY <1>14 DEF MCopyName, MCopyPos, HandshakeInv
<1> QED
  BY <1>7, <1>8, <1>9, <1>10, <1>11, <1>12, <1>13, <1>14 DEF MNext

(* B takes the lines of a pass one by one and raises the event behind the  *)
(* last of them.                                                           *)
LEMMA BHandshake ==
  ASSUME TypeInv, timeouts = 0, HandshakeInv, BNext
  PROVE  HandshakeInv'
<1>1. pipe \in Seq(Line) /\ Len(pipe) \in Nat
  BY DEF TypeInv, TypeOK, LinesOK
<1>2. UNCHANGED <<mpc, timeouts, g_fExitApp>>
  <2>1. UNCHANGED <<mpc, timeouts>>
    BY BFrame
  <2>2. UNCHANGED g_fExitApp
    BY DEF BNext, BWriteLine, BEndOfRow, BText, BStmt, BTransactionTag,
         BStartBinlog, BStorePosition, BSaveInDisk, BEndBinlog, BFirstBinlog,
         BLastBinlog, BSignalEnd, BExit, flagVars
  <2> QED
    BY <2>1, <2>2
<1>3. CASE BWriteLine
  <2>1. /\ bpc = "read" /\ pipe # <<>> /\ pipe' = Tail(pipe)
        /\ bLine' = Head(pipe)
        /\ bpc' = IF bDataColumnInProgress /\ bLine'.k # "ROW" THEN "rowend" ELSE "tag"
        /\ UNCHANGED <<bDataColumnInProgress, g_hEventEndOfBinlog>>
    BY <1>3 DEF BWriteLine, BGoto, flagVars
  <2>2. /\ Len(pipe) \in Nat \ {0} /\ Len(pipe') = Len(pipe) - 1
        /\ Head(pipe) = pipe[1]
        /\ \A j \in 1..Len(pipe') : pipe'[j] = pipe[j + 1]
    BY <1>1, <2>1
  <2>3. RowClosed'
    BY <2>1 DEF RowClosed
  <2>4. PassOpens'
    <3>1. mpc \notin {"status", "first"}
      BY <2>1 DEF HandshakeInv, PassOpens, Consumed
    <3>2. ASSUME mpc \in {"setname", "setpos"}
          PROVE  /\ \A j \in 1..Len(pipe') : pipe'[j].k = "FIRST"
                 /\ bLine'.k = "FIRST"
                 /\ ~bDataColumnInProgress
      BY <2>1, <2>2, <3>2 DEF HandshakeInv, PassOpens, RowClosed
    <3> QED
      BY <1>2, <2>1, <3>1, <3>2 DEF PassOpens
  <2>5. PassCloses'
    <3> SUFFICES ASSUME Running, ~g_fExitApp
                 PROVE  PassCloses'
      BY <1>2 DEF PassCloses, Running
    <3>1. ~g_hEventEndOfBinlog
          /\ mpc \notin {"loop", "status", "check", "alive", "done"}
      BY <2>1 DEF HandshakeInv, PassCloses, Consumed
    <3>2. \A j \in 1..Len(pipe') :
            pipe'[j].k = "LAST" => j = Len(pipe') /\ mpc = "wait"
      BY <2>2 DEF HandshakeInv, PassCloses
    <3>3. bLine'.k = "LAST" => pipe' = <<>> /\ mpc = "wait"
      <4> SUFFICES ASSUME bLine'.k = "LAST" PROVE pipe' = <<>> /\ mpc = "wait"
        OBVIOUS
      <4>1. 1 \in 1..Len(pipe) /\ pipe[1].k = "LAST"
        BY <2>1, <2>2
      <4>2. 1 = Len(pipe) /\ mpc = "wait"
        BY <4>1 DEF HandshakeInv, PassCloses
      <4>3. pipe' = <<>>
        BY <1>1, <2>1, <4>2
      <4> QED
        BY <4>2, <4>3
    <3> QED
      BY <1>2, <2>1, <3>1, <3>2, <3>3 DEF PassCloses, Consumed, Running
  <2> QED
    BY <1>2, <2>3, <2>4, <2>5 DEF HandshakeInv
<1>4. CASE BEndOfRow \/ BText \/ BStmt \/ BTransactionTag \/ BStartBinlog
           \/ BStorePosition \/ BSaveInDisk \/ BEndBinlog \/ BFirstBinlog
  <2>1. /\ UNCHANGED <<pipe, bLine, g_hEventEndOfBinlog>>
        /\ \/ bpc = "rowend" /\ bpc' = "tag" /\ ~bDataColumnInProgress'
           \/ /\ bpc = "tag" /\ bpc' = "read" /\ bLine.k \in CarrierKinds
              /\ bLine.k # "ROW" => bDataColumnInProgress' = bDataColumnInProgress
           \/ /\ bpc \in {"tag", "pos", "save"}
              /\ bpc' \in {"read", "pos", "save"}
              /\ bpc' \in {"pos", "save"} => bLine.k \notin {"FIRST", "LAST"} \/ bpc = "pos"
              /\ bpc = "tag" => bLine.k # "LAST"
              /\ bDataColumnInProgress' => bDataColumnInProgress
    <3>1. CASE BEndOfRow \/ BText
      BY <3>1 DEF BEndOfRow, BText, BGoto, CarrierKinds, flagVars
    <3>2. CASE BStmt \/ BSaveInDisk \/ BEndBinlog \/ BFirstBinlog
      BY <3>2 DEF BStmt, BSaveInDisk, BEndBinlog, BFirstBinlog, BGoto, flagVars
    <3>3. CASE BTransactionTag
      <4>1. bDataColumnInProgress' => bDataColumnInProgress
        BY Zenon, <3>3 DEF BTransactionTag
      <4> QED
        BY <3>3, <4>1 DEF BTransactionTag, BGoto, flagVars
    <3>4. CASE BStartBinlog
      BY <3>4 DEF BStartBinlog, BGoto, flagVars
    <3>5. CASE BStorePosition
      BY <3>5 DEF BStorePosition, BGoto, flagVars
    <3> QED
      BY <1>4, <3>1, <3>2, <3>3, <3>4, <3>5
  <2>2. RowClosed'
    BY <2>1 DEF HandshakeInv, RowClosed
  <2>3. PassOpens'
    BY <1>2, <2>1 DEF HandshakeInv, PassOpens, CarrierKinds
  <2>4. PassCloses'
    BY <1>2, <2>1 DEF HandshakeInv, PassCloses, Consumed, Running, CarrierKinds
  <2> QED
    BY <1>2, <2>2, <2>3, <2>4 DEF HandshakeInv
<1>5. CASE BLastBinlog
  <2>1. /\ bpc = "tag" /\ bLine.k = "LAST" /\ bpc' \in {"seqpos", "read"}
        /\ UNCHANGED <<pipe, bLine, bDataColumnInProgress, g_hEventEndOfBinlog>>
    BY <1>5 DEF BLastBinlog, BGoto, flagVars
  <2> QED
    BY <1>2, <2>1
       DEF HandshakeInv, RowClosed, PassOpens, PassCloses, Consumed, Running
<1>6. CASE BSignalEnd
  <2>1. /\ bpc = "seqpos" /\ bpc' = "read" /\ g_hEventEndOfBinlog'
        /\ UNCHANGED <<pipe, bLine, bDataColumnInProgress>>
    BY <1>6 DEF BSignalEnd, BGoto
  <2> QED
    BY <1>2, <2>1
       DEF HandshakeInv, RowClosed, PassOpens, PassCloses, Consumed, Running
<1>7. CASE BExit
  <2>1. /\ bpc = "read" /\ bpc' = "dead" /\ g_fExitApp
        /\ UNCHANGED <<pipe, bLine, bDataColumnInProgress, g_hEventEndOfBinlog>>
    BY <1>7 DEF BExit, BGoto, flagVars
  <2> QED
    BY <1>2, <2>1
       DEF HandshakeInv, RowClosed, PassOpens, PassCloses, Consumed, Running
<1> QED
  BY <1>3, <1>4, <1>5, <1>6, <1>7 DEF BNext

(* The hand-shake is kept by every step: B is awake when the process       *)
(* starts, and the exit flag ends the obligation.                          *)
LEMMA NextHandshake ==
  ASSUME TypeInv, HandshakeInv, [Next]_vars
  PROVE  HandshakeInv'
<1> SUFFICES ASSUME timeouts' = 0 PROVE HandshakeInv'
  BY DEF HandshakeInv
<1>1. timeouts = 0 /\ ~MWaitTimeout
  BY TimeoutsKept
<1>2. CASE ServerNext \/ UNCHANGED vars
  BY <1>2 DEF ServerNext, Commit, Rotate, Purge, vars, mVars, passVars, bVars,
     flagVars, HandshakeInv, RowClosed, PassOpens, PassCloses, Consumed, Running
<1>3. CASE TStop
  BY <1>3 DEF TStop, mVars, passVars, bVars,
     HandshakeInv, RowClosed, PassOpens, PassCloses, Consumed
<1>4. CASE ProcessExit \/ BWriteFails \/ Kill \/ ProcessStart
  <2>1. /\ pipe' = <<>> /\ bLine'.k = "LAST" /\ ~g_hEventEndOfBinlog'
        /\ ~bDataColumnInProgress'
        /\ \/ mpc' = "off" /\ bpc' = "dead"
           \/ mpc' = "loop" /\ bpc' = "read"
    BY <1>4 DEF ProcessExit, BWriteFails, Kill, ProcessStart, FreshProcess,
       NoLine
  <2> QED
    BY <2>1 DEF HandshakeInv, RowClosed, PassOpens, PassCloses, Consumed, Running
<1> QED
  BY <1>1, <1>2, <1>3, <1>4, MHandshake, BHandshake DEF Next, ProcessNext

LEMMA InitHandshake == Init => HandshakeInv
  BY DEF Init, HandshakeInv, RowClosed, PassOpens, PassCloses, Consumed, NoLine

(* M and B meet once per pass as long as M never gave up waiting.          *)
THEOREM PassesMeet == Spec => []HandshakeInv
<1>1. TypeInv /\ HandshakeInv /\ [Next]_vars => HandshakeInv'
  BY NextHandshake
<1>2. Spec => []TypeInv
  BY InitTypeInv, NextTypeInv, PTL DEF Spec
<1> QED
  BY <1>1, <1>2, InitHandshake, PTL DEF Spec

(* When M never gives up waiting, a new pass starts only when B has        *)
(* consumed every line of the previous one (EndOfBinlog in ReadJournal and *)
(* in the LAST tag of listenBinLogThread).                                 *)
THEOREM PassesDrained == MaxTimeouts = 0 => (Spec => []PassDrained)
<1> SUFFICES ASSUME MaxTimeouts = 0 PROVE Spec => []PassDrained
  OBVIOUS
<1>1. TypeInv /\ HandshakeInv => PassDrained
  BY DEF TypeInv, TypeOK, ThreadsOK, HandshakeInv, PassCloses, Consumed,
     PassDrained, Running
<1>2. Spec => []TypeInv
  BY InitTypeInv, NextTypeInv, PTL DEF Spec
<1> QED
  BY <1>1, <1>2, PassesMeet, PTL

(* While every wait of M is ended by B, the hand-shake keeps M and B from   *)
(* accessing the shared sequences at the same time; no lock is needed.     *)
LEMMA TurnsTaken ==
  ASSUME Orderly, TypeInv, HandshakeInv
  PROVE  TakeTurns
<1>1. CASE "torn" \notin Faults
  BY <1>1 DEF TakeTurns, MMayAccess, BMayAccess
<1>2. CASE "torn" \in Faults
  <2>1. timeouts = 0
    BY <1>2 DEF Orderly, TypeInv, TypeOK, ThreadsOK
  <2> QED
    BY <2>1 DEF TakeTurns, HandshakeInv, PassOpens, PassCloses, Running
<1> QED
  BY <1>1, <1>2

=============================================================================
