----------------------- MODULE BinlogCaptureService -----------------------
(***************************************************************************)
(* The capture pipeline implements the capture service, for every number   *)
(* of binlogs, events, timeouts, kills and restarts: step by step, a       *)
(* commit publishes, thread B captures, a save of the sequence confirms,   *)
(* the end of a process may cut off, and everything else is invisible.     *)
(***************************************************************************)
EXTENDS BinlogCaptureNoLoss

-----------------------------------------------------------------------------
(* The first pass and the base *)

(* The server changes nothing these invariants speak of but the binlogs.   *)
LEMMA ServerUnset ==
  ASSUME InProgessUnset, BaseSet, ServerNext
  PROVE  InProgessUnset' /\ BaseSet'
<1>1. UNCHANGED <<mpc, bpc, bLine, bDataColumnInProgress, pipe, g_stBinLogSeq,
                  g_stBinLogSeqInProgess, xai, cap, cut, base>>
  BY DEF ServerNext, Commit, Rotate, Purge, mVars, bVars, seqVars, capVars,
         histVars
<1> QED
  BY <1>1 DEF InProgessUnset, BaseSet, Running

(* Thread M sets the base when nothing is recorded, and starts its first   *)
(* pass with a FIRST tag, then the sequence in progress.                   *)
LEMMA MUnset ==
  ASSUME CaptureInv, InProgessUnset, BaseSet, MNext
  PROVE  InProgessUnset' /\ BaseSet'
<1> USE DEF InProgessUnset, BaseSet, Running, MGoto
<1>1. UNCHANGED <<bpc, bLine, bDataColumnInProgress, cap, cut>>
  BY DEF MNext, MLoadBinLog, MLoadBinLogFails, MLoadMasterStatus,
         MLoadMasterStatusFails, MPrintFirst, MSetName, MSetPos, MPrintStart,
         MConnect, MDumpFails, MDumpEvent, MDumpText, MDumpEof, MPrintEnd,
         MPrintLast, MWaitSignalled, MWaitTimeout, MCopyName, MCopyPos,
         MCheck, MCheckAlive, MSeesExit, bVars, capVars, histVars
<1>2. /\ Len(binlog) \in Nat \ {0} /\ pipe \in Seq(Line) /\ purged \in Nat
      /\ (mpc = "setname" => mFile \in 1..nList)
  BY DEF CaptureInv, TypeInv, TypeOK, ServerOK, LinesOK, PassOK, PassPcs
<1>3. ASSUME NEW n \in 0..Len(binlog), MLoadBinLog(n)
      PROVE  InProgessUnset' /\ BaseSet'
  <2>1. /\ mpc = "loop"
        /\ UNCHANGED <<pipe, g_stBinLogSeq, g_stBinLogSeqInProgess, xai, base>>
        /\ \/ mpc' = "first" /\ g_stBinLogSeq.name # 0
           \/ mpc' = "status" /\ g_stBinLogSeq.name = 0
           \/ mpc' = "check"
    BY <1>2, <1>3 DEF MLoadBinLog, seqVars, histVars
  <2> QED
    BY <1>1, <2>1
<1>4. CASE MLoadMasterStatus
  BY <1>1, <1>2, <1>4 DEF MLoadMasterStatus, At
<1>5. CASE MPrintFirst
  <2>1. /\ mpc = "first" /\ mpc' = "setname"
        /\ pipe' = Append(pipe, Marker("FIRST", mFile))
        /\ UNCHANGED <<g_stBinLogSeq, g_stBinLogSeqInProgess, xai, base>>
    BY <1>5 DEF MPrintFirst, PrintLine, seqVars, histVars
  <2>2. /\ Len(pipe') = Len(pipe) + 1
        /\ \A j \in 1..Len(pipe) : pipe'[j] = pipe[j]
        /\ pipe'[Len(pipe) + 1].k = "FIRST"
    BY <1>2, <2>1 DEF Marker
  <2> QED
    BY <1>1, <1>2, <2>1, <2>2
<1>6. CASE MSetName
  <2>1. /\ mpc = "setname" /\ mpc' = "setpos"
        /\ g_stBinLogSeqInProgess' = [g_stBinLogSeqInProgess EXCEPT !.name = mFile]
        /\ UNCHANGED <<pipe, g_stBinLogSeq, xai, base>>
    BY <1>6 DEF MSetName, histVars
  <2>2. g_stBinLogSeqInProgess \in Position /\ mFile \in Nat \ {0}
    BY <1>2, <2>1 DEF CaptureInv, TypeInv, TypeOK, PositionsOK, ThreadsOK
  <2>3. g_stBinLogSeqInProgess'.name # 0
    BY <2>1, <2>2 DEF Position
  <2> QED
    BY <1>1, <2>1, <2>3
<1>7. CASE MCopyName \/ MCopyPos \/ MSetPos
  <2>1. /\ mpc \in {"copyname", "copypos", "setpos"}
        /\ mpc' \in {"copypos", "check", "start"}
        /\ UNCHANGED <<pipe, xai, base>>
        /\ g_stBinLogSeqInProgess \in Position /\ g_stBinLogSeq \in Position
    BY <1>7 DEF MCopyName, MCopyPos, MSetPos, histVars, CaptureInv, TypeInv,
                TypeOK, PositionsOK
  <2>2. g_stBinLogSeqInProgess.name # 0 /\ base.name # 0 /\ g_stBinLogSeq.name # 0
    BY <2>1
  <2>3. g_stBinLogSeqInProgess'.name # 0 /\ g_stBinLogSeq'.name # 0
    BY <1>7, <2>1, <2>2 DEF MCopyName, MCopyPos, MSetPos, Position
  <2> QED
    BY <1>1, <2>1, <2>2, <2>3
<1>8. CASE \/ MPrintStart \/ MDumpEvent \/ MDumpText \/ MPrintEnd \/ MPrintLast
           \/ MConnect \/ MDumpFails \/ MDumpEof
           \/ MWaitSignalled \/ MWaitTimeout
  <2>1. /\ mpc \notin {"off", "loop", "status", "check", "alive", "done",
                       "first", "setname"}
        /\ mpc' \notin {"off", "status"}
        /\ UNCHANGED <<g_stBinLogSeq, g_stBinLogSeqInProgess, xai, base>>
    BY <1>8 DEF MPrintStart, MDumpEvent, MDumpText, MPrintEnd, MPrintLast,
       MConnect, MDumpFails, MDumpEof, MWaitSignalled, MWaitTimeout, seqVars,
       histVars
  <2> QED
    BY <1>1, <2>1
<1>9. CASE \/ MLoadBinLogFails \/ MLoadMasterStatusFails
           \/ MCheck \/ MCheckAlive \/ MSeesExit
  <2>1. /\ mpc \in {"loop", "status", "check", "alive"}
        /\ mpc' \in {"check", "done", "alive", "loop"}
        /\ UNCHANGED <<pipe, g_stBinLogSeq, g_stBinLogSeqInProgess, xai, base>>
    BY <1>9 DEF MLoadBinLogFails, MLoadMasterStatusFails, MCheck, MCheckAlive,
       MSeesExit, seqVars, histVars
  <2> QED
    BY <1>1, <2>1
<1> QED
  BY <1>3, <1>4, <1>5, <1>6, <1>7, <1>8, <1>9 DEF MNext

(* Thread B works on no line but FIRST while its sequence is unset, and    *)
(* copies and saves it only when it is set.                                *)
LEMMA BUnset ==
  ASSUME CaptureInv, InProgessUnset, BaseSet, BNext
  PROVE  InProgessUnset' /\ BaseSet'
<1> USE DEF InProgessUnset, BaseSet, Running, BGoto
<1>1. UNCHANGED <<mpc, base, cut>>
  BY BFrame
<1>2. pipe \in Seq(Line) /\ bLine \in Line
      /\ g_stBinLogSeqInProgess \in Position /\ g_stBinLogSeq \in Position
  BY DEF CaptureInv, TypeInv, TypeOK, LinesOK, PositionsOK
<1>3. bpc # "dead" => mpc # "off"
  BY DEF CaptureInv, CaptureFlushed
<1>4. CASE BWriteLine
  <2>1. /\ bpc = "read" /\ pipe # <<>> /\ pipe' = Tail(pipe) /\ bLine' = Head(pipe)
        /\ bpc' = IF bDataColumnInProgress /\ bLine'.k # "ROW" THEN "rowend" ELSE "tag"
        /\ UNCHANGED <<bDataColumnInProgress, g_stBinLogSeq,
                       g_stBinLogSeqInProgess, xai>>
    BY <1>4 DEF BWriteLine, seqVars
  <2>2. /\ Len(pipe) \in Nat \ {0} /\ Len(pipe') = Len(pipe) - 1
        /\ Head(pipe) = pipe[1]
        /\ \A j \in 1..Len(pipe') : pipe'[j] = pipe[j + 1]
    BY <1>2, <2>1
  <2>3. base.name # 0
    BY <2>1
  <2> QED
    BY <1>1, <2>1, <2>2, <2>3
<1>5. CASE BEndOfRow \/ BSaveInDisk
  <2>1. /\ bpc \in {"rowend", "save"} /\ mpc # "off"
        /\ xai' = g_stBinLogSeqInProgess
        /\ UNCHANGED <<pipe, g_stBinLogSeq, g_stBinLogSeqInProgess, cap>>
    BY <1>3, <1>5 DEF BEndOfRow, BSaveInDisk, seqVars, capVars
  <2>2. g_stBinLogSeqInProgess.name # 0 /\ base.name # 0
    BY <2>1
  <2> QED
    BY <1>1, <2>1, <2>2
<1>6. CASE BTransactionTag \/ BStartBinlog \/ BStorePosition
  <2>1. /\ bpc \in {"tag", "pos"} /\ mpc # "off"
        /\ bLine.k # "FIRST"
        /\ UNCHANGED <<pipe, g_stBinLogSeq, xai, cap>>
    BY <1>3, <1>6 DEF BTransactionTag, BStartBinlog, BStorePosition, capVars,
       CaptureInv, LineCovered
  <2>2. g_stBinLogSeqInProgess.name # 0 /\ base.name # 0
    BY <2>1
  <2>3. bLine.f # 0 /\ (BTransactionTag => szBinLogName = bLine.f)
    BY <1>2, <2>1, NeedType
       DEF CaptureInv, LineCovered, Cov, Within, BTransactionTag
  <2>4. g_stBinLogSeqInProgess'.name # 0
    BY <1>2, <1>6, <2>2, <2>3
       DEF BTransactionTag, BStartBinlog, BStorePosition, Position
  <2> QED
    BY <1>1, <2>1, <2>2, <2>4
<1>7. CASE BLastBinlog \/ BSignalEnd
  <2>1. /\ bpc \in {"tag", "seqpos"} /\ mpc # "off"
        /\ bpc = "tag" => bLine.k = "LAST"
        /\ UNCHANGED <<pipe, g_stBinLogSeqInProgess, xai, cap>>
    BY <1>3, <1>7 DEF BLastBinlog, BSignalEnd, capVars
  <2>2. /\ g_stBinLogSeqInProgess.name # 0 /\ base.name # 0
        /\ g_stBinLogSeq.name # 0
    BY <2>1
  <2>3. g_stBinLogSeq'.name # 0
    BY <1>2, <1>7, <2>2 DEF BLastBinlog, BSignalEnd, Position
  <2> QED
    BY <1>1, <2>1, <2>2, <2>3
<1>8. CASE BText
  <2>1. /\ UNCHANGED <<pipe, g_stBinLogSeq, g_stBinLogSeqInProgess, xai, cap>>
        /\ bpc' = "read" /\ bpc = "tag" /\ bLine.k # "FIRST"
    BY <1>8 DEF BText, CarrierKinds, seqVars, capVars
  <2>2. mpc # "off" => g_stBinLogSeqInProgess.name # 0
    BY <2>1
  <2> QED
    BY <1>1, <2>1, <2>2
<1>9. CASE BStmt \/ BEndBinlog \/ BFirstBinlog \/ BExit
  <2>1. /\ UNCHANGED <<pipe, g_stBinLogSeq, g_stBinLogSeqInProgess, xai, cap>>
        /\ bpc' \in {"read", "dead"}
        /\ UNCHANGED bDataColumnInProgress
    BY <1>9 DEF BStmt, BEndBinlog, BFirstBinlog, BExit, seqVars, capVars
  <2> QED
    BY <1>1, <2>1
<1> QED
  BY <1>4, <1>5, <1>6, <1>7, <1>8, <1>9 DEF BNext

(* A process starts from the .XAI file and ends with nothing in memory.    *)
LEMMA ProcessUnset ==
  ASSUME Orderly, CaptureInv, InProgessUnset, BaseSet, ProcessNext
  PROVE  (InProgessUnset /\ BaseSet)' /\ UNCHANGED <<cap, xai, base, binlog>>
<1> USE DEF InProgessUnset, BaseSet, Running
<1>1. UNCHANGED <<cap, xai, base, binlog>>
  <2>1. CASE Kill
    <3>1. cap \in Seq(Nat \X Nat)
      BY DEF CaptureInv, TypeInv, TypeOK, CaptureOK
    <3>2. cap' = SubSeq(cap, 1, Len(cap))
      BY <2>1 DEF Kill, Orderly, CaptureInv, CaptureFlushed
    <3>3. cap' = cap
      BY <3>1, <3>2
    <3> QED
      BY <2>1, <3>3 DEF Kill, histVars, serverVars
  <2>2. CASE TStop \/ ProcessExit \/ BWriteFails \/ ProcessStart
    BY <2>2 DEF TStop, ProcessExit, BWriteFails, ProcessStart, capVars,
       histVars, serverVars
  <2> QED
    BY <2>1, <2>2 DEF ProcessNext
<1>5. base.name = 0 => cut' = {}
  <2>1. base.name = 0 => Upto(xai) = {}
    BY UptoNone DEF CaptureInv
  <2> QED
    BY <2>1 DEF ProcessNext, TStop, ProcessExit, BWriteFails, Kill,
       ProcessStart, CutOff, histVars
<1>2. CASE TStop
  BY <1>1, <1>2, <1>5 DEF TStop, mVars, bVars, seqVars
<1>3. CASE ProcessExit \/ BWriteFails \/ Kill
  <2>1. FreshProcess("off", NoPosition)
    BY <1>3 DEF ProcessExit, BWriteFails, Kill
  <2>2. /\ mpc' = "off" /\ pipe' = <<>>
        /\ g_stBinLogSeq'.name = 0 /\ g_stBinLogSeqInProgess'.name = 0
    BY <2>1 DEF FreshProcess, NoPosition
  <2> QED
    BY <1>1, <1>5, <2>2
<1>4. CASE ProcessStart
  <2>1. FreshProcess("loop", xai)
    BY <1>4 DEF ProcessStart
  <2>2. /\ mpc' = "loop" /\ pipe' = <<>> /\ bpc' = "read"
        /\ g_stBinLogSeq' = xai /\ g_stBinLogSeqInProgess'.name = 0
    BY <2>1 DEF FreshProcess, NoPosition
  <2>3. bDataColumnInProgress' = FALSE
    BY Zenon, <2>1 DEF FreshProcess
  <2> QED
    BY <1>1, <1>5, <2>2, <2>3
<1> QED
  BY <1>1, <1>2, <1>3, <1>4 DEF ProcessNext

-----------------------------------------------------------------------------
(* The order of the capture *)

(* An event that is captured or cut off is a pair of numbers.              *)
LEMMA EventType ==
  ASSUME TypeInv, NEW e \in InCapture(cap) \cup cut
  PROVE  e = <<e[1], e[2]>> /\ At(e[1], e[2]) \in Position
<1>1. cap \in Seq(Nat \X Nat) /\ cut \subseteq Nat \X Nat
  BY DEF TypeInv, TypeOK, CaptureOK
<1>2. e \in Nat \X Nat
  BY <1>1 DEF InCapture
<1> QED
  BY <1>2 DEF At, Position

(* What the server appends comes behind the last event, in the last file.  *)
LEMMA ServerEffect ==
  ASSUME TypeInv, ServerNext
  PROVE  /\ Len(binlog) \in Nat \ {0} /\ Len(binlog') \in Nat
         /\ Len(binlog') >= Len(binlog)
         /\ \A f \in 1..Len(binlog) :
              /\ Len(binlog[f]) \in Nat /\ Len(binlog'[f]) \in Nat
              /\ Len(binlog'[f]) >= Len(binlog[f])
              /\ \A i \in 1..Len(binlog[f]) : binlog'[f][i] = binlog[f][i]
              /\ f < Len(binlog) => binlog'[f] = binlog[f]
<1>1. binlog \in Seq(Seq(Kinds)) /\ Len(binlog) \in Nat \ {0}
  BY DEF TypeInv, TypeOK, ServerOK
<1>2. ASSUME NEW f \in 1..Len(binlog)
      PROVE  binlog[f] \in Seq(Kinds) /\ Len(binlog[f]) \in Nat
  BY <1>1, FileType
<1>3. ASSUME NEW g \in Groups, Commit(g)
      PROVE  /\ Len(binlog') = Len(binlog)
             /\ \A f \in 1..Len(binlog) :
                  /\ Len(binlog'[f]) \in Nat
                  /\ Len(binlog'[f]) >= Len(binlog[f])
                  /\ \A i \in 1..Len(binlog[f]) : binlog'[f][i] = binlog[f][i]
                  /\ f < Len(binlog) => binlog'[f] = binlog[f]
  <2>1. binlog' = [binlog EXCEPT ![Len(binlog)] = @ \o g] /\ g \in Seq(Kinds)
    BY <1>3, ConstantsAssumption DEF Commit
  <2>2. Len(binlog') = Len(binlog)
    BY <1>1, <2>1
  <2>3. ASSUME NEW f \in 1..Len(binlog), f < Len(binlog)
        PROVE  binlog'[f] = binlog[f]
    BY <1>1, <2>1, <2>3
  <2>4. binlog'[Len(binlog)] = binlog[Len(binlog)] \o g
    BY <1>1, <2>1
  <2>5. /\ Len(binlog'[Len(binlog)]) = Len(binlog[Len(binlog)]) + Len(g)
        /\ Len(g) \in Nat /\ Len(binlog[Len(binlog)]) \in Nat
        /\ \A i \in 1..Len(binlog[Len(binlog)]) :
             binlog'[Len(binlog)][i] = binlog[Len(binlog)][i]
    BY <1>1, <1>2, <2>1, <2>4
  <2> QED
    BY <1>1, <1>2, <2>2, <2>3, <2>5
<1>4. CASE Rotate
  <2>1. binlog' = Append(binlog, <<>>)
    BY <1>4 DEF Rotate
  <2>2. /\ Len(binlog') = Len(binlog) + 1
        /\ \A f \in 1..Len(binlog) : binlog'[f] = binlog[f]
    BY <1>1, <2>1
  <2> QED
    BY <1>1, <1>2, <2>2
<1>5. CASE Purge
  BY <1>1, <1>2, <1>5 DEF Purge
<1> QED
  BY <1>1, <1>2, <1>3, <1>4, <1>5 DEF ServerNext

(* What is committed and rotated comes behind every captured event.        *)
LEMMA ServerOrder ==
  ASSUME CaptureInv, CapturedInOrder, ServerNext
  PROVE  CapturedInOrder'
<1> DEFINE S == InCapture(cap) \cup cut
<1>1. UNCHANGED <<cap, cut, base>>
  BY DEF ServerNext, Commit, Rotate, Purge, capVars, histVars
<1>2. binlog \in Seq(Seq(Kinds)) /\ Len(binlog) > 0 /\ TypeInv
  BY DEF CaptureInv, TypeInv, TypeOK, ServerOK
<1> SUFFICES ASSUME NEW e \in S
             PROVE  /\ Cov(binlog', base, At(e[1], e[2]), S)
                    /\ e[2] <= Len(binlog'[e[1]])
  BY <1>1 DEF CapturedInOrder, Before
<1>3. /\ Cov(binlog, base, At(e[1], e[2]), S)
      /\ e[2] <= Len(binlog[e[1]])
  BY DEF CapturedInOrder
<1>4. At(e[1], e[2]) \in Position /\ e[2] \in Nat
  BY <1>2, EventType DEF At, Position
<1> HIDE DEF S
<1>5. e[1] \in 1..Len(binlog)
  BY <1>3 DEF Cov, Within, At
<1>6. e[2] <= Len(binlog'[e[1]])
  BY <1>2, <1>3, <1>4, <1>5, ServerEffect
<1>7. CASE \E g \in Groups : Commit(g)
  <2>1. PICK g \in Groups : Commit(g)
    BY <1>7
  <2>2. binlog' = [binlog EXCEPT ![Len(binlog)] = @ \o g] /\ g \in Seq(Kinds)
    BY <2>1, ConstantsAssumption DEF Commit
  <2>3. Cov([binlog EXCEPT ![Len(binlog)] = @ \o g], base, At(e[1], e[2]),
            S)
    BY <1>2, <1>3, <1>4, <2>2, CovCommit
  <2> QED
    BY <1>6, <2>2, <2>3
<1>8. CASE Rotate
  BY <1>2, <1>3, <1>4, <1>6, <1>8, CovRotate DEF Rotate
<1>9. CASE Purge
  BY <1>3, <1>6, <1>9 DEF Purge
<1> QED
  BY <1>7, <1>8, <1>9 DEF ServerNext

(* The base is set before anything is captured.                            *)
LEMMA MOrder ==
  ASSUME CaptureInv, BaseSet, CapturedInOrder, MNext
  PROVE  CapturedInOrder'
<1>1. UNCHANGED <<binlog, cap, cut>>
  BY MFrame
<1>2. CASE MLoadMasterStatus
  <2>1. base.name = 0
    BY <1>2 DEF MLoadMasterStatus, BaseSet
  <2>2. cap = <<>> /\ cut = {}
    BY <2>1 DEF BaseSet
  <2> QED
    BY <1>1, <2>2 DEF CapturedInOrder, InCapture
<1>3. CASE ~MLoadMasterStatus
  <2>1. base' = base
    BY <1>3 DEF MNext, MLoadBinLog, MLoadBinLogFails,
         MLoadMasterStatusFails, MPrintFirst, MSetName, MSetPos, MPrintStart,
         MConnect, MDumpFails, MDumpEvent, MDumpText, MDumpEof, MPrintEnd,
         MPrintLast, MWaitSignalled, MWaitTimeout, MCopyName, MCopyPos,
         MCheck, MCheckAlive, MSeesExit, histVars
  <2> QED
    BY <1>1, <2>1 DEF CapturedInOrder, Before
<1> QED
  BY <1>2, <1>3

(* What thread B adds to the capture.  When the event was due, it is the   *)
(* one that is captured, and does not lie before itself.                   *)
LEMMA WriteEffect ==
  ASSUME CaptureInv, BWriteLine
  PROVE  /\ UNCHANGED <<binlog, base, xai, cut>>
         /\ Head(pipe) \in Line
         /\ Head(pipe).k \in CarrierKinds =>
              /\ Cov(binlog, base, At(Head(pipe).f, Head(pipe).i),
                     InCapture(cap) \cup cut)
              /\ Head(pipe).i <= Len(binlog[Head(pipe).f])
              /\ InCapture(cap') =
                   InCapture(cap) \cup {<<Head(pipe).f, Head(pipe).i>>}
         /\ Head(pipe).k \notin CarrierKinds => cap' = cap
<1> DEFINE l == Head(pipe)
<1>1. pipe \in Seq(Line) /\ pipe # <<>> /\ cap \in Seq(Nat \X Nat)
  BY DEF CaptureInv, TypeInv, TypeOK, LinesOK, CaptureOK, BWriteLine
<1>2. 1 \in 1..Len(pipe) /\ l = pipe[1] /\ l \in Line
  BY <1>1
<1>3. cap' = IF l.k \in CarrierKinds THEN Append(cap, <<l.f, l.i>>) ELSE cap
  BY DEF BWriteLine
<1>4. Reach(Accounted, pipe, 1 - 1) = Accounted
  BY DEF Reach, InPipe
<1>5. ASSUME l.k \in CarrierKinds
      PROVE  /\ Cov(binlog, base, At(l.f, l.i), InCapture(cap) \cup cut)
             /\ l.i <= Len(binlog[l.f])
  <2>1. Need(l) = At(l.f, l.i) /\ l.k \in EventKinds
    BY <1>5 DEF Need, MarkerKinds, EventKinds, CarrierKinds
  <2>2. Cov(binlog, base, At(l.f, l.i), Accounted) /\ l.i <= Len(binlog[l.f])
    BY <1>2, <1>4, <2>1 DEF CaptureInv, LinesCovered
  <2>3. Due \subseteq {<<l.f, l.i>>}
    <3>1. LineBefore(bLine, pipe, 1) = bLine
      BY DEF LineBefore
    <3> QED
      BY <1>2, <3>1
         DEF CaptureInv, TextFollows, IsTextOf, Due, SavedOnTag, EventTags
  <2>4. ~Before(<<l.f, l.i>>, At(l.f, l.i))
    BY <1>2 DEF Before, At, Line
  <2> QED
    BY <2>2, <2>3, <2>4 DEF Cov, Accounted
<1>6. ASSUME l.k \in CarrierKinds
      PROVE  InCapture(cap') = InCapture(cap) \cup {<<l.f, l.i>>}
  <2>1. cap' = Append(cap, <<l.f, l.i>>) /\ <<l.f, l.i>> \in Nat \X Nat
    BY <1>2, <1>3, <1>6 DEF Line
  <2>2. /\ Len(cap') = Len(cap) + 1 /\ Len(cap) \in Nat
        /\ cap'[Len(cap) + 1] = <<l.f, l.i>>
        /\ \A n \in 1..Len(cap) : cap'[n] = cap[n]
    BY <1>1, <2>1
  <2>3. 1..Len(cap') = 1..Len(cap) \cup {Len(cap) + 1}
    BY <2>2
  <2> QED
    BY <2>2, <2>3 DEF InCapture
<1>7. UNCHANGED <<binlog, base, xai, cut>>
  BY DEF BWriteLine, serverVars, histVars
<1> QED
  BY <1>2, <1>3, <1>5, <1>6, <1>7

(* Texts arrive in binlog order.                                           *)
LEMMA BOrder ==
  ASSUME CaptureInv, CapturedInOrder, BNext
  PROVE  CapturedInOrder'
<1>1. CASE BWriteLine /\ Head(pipe).k \in CarrierKinds
  <2> DEFINE f == Head(pipe).f
             i == Head(pipe).i
             S == InCapture(cap) \cup cut
  <2>1. /\ UNCHANGED <<binlog, base, cut>>
        /\ Cov(binlog, base, At(f, i), S) /\ i <= Len(binlog[f])
        /\ InCapture(cap') \cup cut = S \cup {<<f, i>>}
    BY <1>1, WriteEffect
  <2>2. ASSUME NEW e \in S \cup {<<f, i>>}
        PROVE  /\ Cov(binlog, base, At(e[1], e[2]), S)
               /\ e[2] <= Len(binlog[e[1]])
    <3>1. CASE e \in S
      BY <3>1 DEF CapturedInOrder
    <3>2. CASE e = <<f, i>>
      <4>1. e[1] = f /\ e[2] = i
        BY <3>2
      <4> QED
        BY <2>1, <4>1
    <3> QED
      BY <3>1, <3>2
  <2>3. S \subseteq S \cup {<<f, i>>}
    OBVIOUS
  <2>4. (\A e \in cut : ~Before(e, base))'
    BY <2>1 DEF CapturedInOrder, Before
  <2> HIDE DEF S
  <2> QED
    BY <2>1, <2>2, <2>3, <2>4, CovMono DEF CapturedInOrder
<1>2. CASE ~(BWriteLine /\ Head(pipe).k \in CarrierKinds)
  <2>1. UNCHANGED <<binlog, base, cap, cut>>
    BY <1>2, WriteEffect DEF BNext, BEndOfRow, BText, BStmt, BTransactionTag,
       BStartBinlog, BStorePosition, BSaveInDisk, BEndBinlog, BFirstBinlog,
       BLastBinlog, BSignalEnd, BExit, capVars, serverVars, histVars
  <2> QED
    BY <2>1 DEF CapturedInOrder, Before
<1> QED
  BY <1>1, <1>2

(* The event that is cut off when a process ends comes behind events that  *)
(* are captured or were cut off before.                                    *)
LEMMA CutOffOrder ==
  ASSUME CaptureInv, CapturedInOrder, CutOff, UNCHANGED <<binlog, base, cap>>
  PROVE  CapturedInOrder'
<1> DEFINE S == InCapture(cap) \cup cut
           T == InCapture(cap) \cup cut'
<1>1. S \subseteq T
  BY DEF CutOff
<1> SUFFICES ASSUME NEW e \in T
             PROVE  /\ Cov(binlog, base, At(e[1], e[2]), T)
                    /\ e[2] <= Len(binlog[e[1]])
                    /\ e \in cut' => ~Before(e, base)
  BY DEF CapturedInOrder, Before
<1>2. CASE e \in S
  <2>1. /\ Cov(binlog, base, At(e[1], e[2]), S)
        /\ e[2] <= Len(binlog[e[1]])
    BY <1>2 DEF CapturedInOrder
  <2>2. e \in cut' => ~Before(e, base)
    BY UptoEvent DEF CutOff, CapturedInOrder
  <2> HIDE DEF S, T
  <2> QED
    BY <1>1, <2>1, <2>2, CovMono
<1>3. CASE e \notin S
  <2>1. e \in Due /\ e \in Upto(xai)
    BY <1>3 DEF CutOff
  <2>2. bLine.k \in SavedOnTag /\ e = <<bLine.f, bLine.i>> /\ Due = {e}
    BY <2>1 DEF Due
  <2>3. bLine.f \in Nat /\ bLine.i \in Nat
    BY DEF CaptureInv, TypeInv, TypeOK, LinesOK, Line
  <2>4. e[1] = bLine.f /\ e[2] = bLine.i
    BY <2>2
  <2>5. Cov(binlog, base, At(e[1], e[2]), Accounted)
    <3>1. Need(bLine) = At(bLine.f, bLine.i)
      BY <2>2 DEF Need, SavedOnTag, MarkerKinds
    <3> QED
      BY <2>2, <2>4, <3>1 DEF CaptureInv, LineCovered
  <2>6. ~Before(e, At(e[1], e[2]))
    BY <2>3, <2>4 DEF Before, At
  <2>7. Cov(binlog, base, At(e[1], e[2]), S)
    BY <2>2, <2>5, <2>6 DEF Cov, Accounted
  <2>8. e[2] <= Len(binlog[e[1]]) /\ ~Before(e, base)
    <3>1. e[2] \in 1..Len(binlog[e[1]]) /\ e[1] \in 1..Len(binlog)
      BY <2>1, UptoEvent
    <3>2. Len(binlog[e[1]]) \in Nat
      BY <3>1, FileType DEF CaptureInv, TypeInv, TypeOK, ServerOK
    <3> QED
      BY <2>1, <3>1, <3>2, UptoEvent
  <2> HIDE DEF S, T
  <2> QED
    BY <1>1, <2>7, <2>8, CovMono
<1> QED
  BY <1>2, <1>3

(* The life of the process keeps the order.                                *)
LEMMA ProcessOrder ==
  ASSUME Orderly, CaptureInv, ServiceInv, ProcessNext
  PROVE  CapturedInOrder'
<1>1. UNCHANGED <<binlog, base, cap>>
  BY ProcessUnset DEF ServiceInv
<1>2. CASE TStop \/ ProcessStart
  <2>1. cut' = cut
    BY <1>2 DEF TStop, ProcessStart, histVars
  <2> QED
    BY <1>1, <2>1 DEF ServiceInv, CapturedInOrder, Before
<1>3. CASE ProcessExit \/ BWriteFails \/ Kill
  <2>1. CutOff
    BY <1>3 DEF ProcessExit, BWriteFails, Kill
  <2> QED
    BY <1>1, <2>1, CutOffOrder DEF ServiceInv
<1> QED
  BY <1>2, <1>3 DEF ProcessNext

(* Before anything happens.                                                *)
LEMMA InitService == Init => ServiceInv
  BY DEF Init, ServiceInv, InProgessUnset, BaseSet, CapturedInOrder,
     InCapture, NoPosition, At, Running

(* ServiceInv is inductive.                                                *)
LEMMA NextService ==
  Orderly /\ CaptureInv /\ ServiceInv /\ [Next]_vars => ServiceInv'
<1> SUFFICES ASSUME Orderly, CaptureInv, ServiceInv, [Next]_vars
             PROVE  ServiceInv'
  OBVIOUS
<1> USE DEF ServiceInv
<1>1. CASE ServerNext
  BY <1>1, ServerUnset, ServerOrder
<1>2. CASE MNext
  BY <1>2, MUnset, MOrder
<1>3. CASE BNext
  BY <1>3, BUnset, BOrder
<1>4. CASE ProcessNext
  BY <1>4, ProcessUnset, ProcessOrder
<1>5. CASE UNCHANGED vars
  BY <1>5 DEF vars, serverVars, mVars, bVars, seqVars, capVars, histVars,
     InProgessUnset, BaseSet, CapturedInOrder, Before, Running
<1> QED
  BY <1>1, <1>2, <1>3, <1>4, <1>5 DEF Next

(* The process starts from the server's end at most once, and the capture  *)
(* has no gap before any event in it but of events whose text was cut off  *)
(* when a process ended: within the event's own file when dumps may fail.  *)
THEOREM CapturedInBinlogOrder == Orderly => (Spec => []ServiceInv)
<1> SUFFICES ASSUME Orderly PROVE Spec => []ServiceInv
  OBVIOUS
<1>1. Init => ServiceInv
  BY InitService
<1>2. CaptureInv /\ ServiceInv /\ [Next]_vars => ServiceInv'
  BY NextService
<1> QED
  BY <1>1, <1>2, CaptureCovered, PTL DEF Spec

-----------------------------------------------------------------------------
(* Every step is a step of the service, or none *)

(* The service's variables, as the pipeline determines them.               *)
Published == IF base.name = 0 THEN {} ELSE {e \in Events : ~Before(e, base)}
CapturedSince == {e \in Captured : ~Before(e, base)}

(* The events of the binlogs, one by one.                                  *)
LEMMA EventsOf ==
  ASSUME TypeInv
  PROVE  /\ \A e \in Events : /\ e = <<e[1], e[2]>>
                              /\ e[1] \in 1..Len(binlog)
                              /\ e[2] \in 1..Len(binlog[e[1]])
         /\ \A f \in 1..Len(binlog) : \A i \in 1..Len(binlog[f]) :
              <<f, i>> \in Events
<1>1. MaxEvents \in Nat /\ binlog \in Seq(Seq(Kinds))
      /\ \A f \in 1..Len(binlog) : Len(binlog[f]) <= MaxEvents
  BY ConstantsAssumption DEF TypeInv, TypeOK, ServerOK
<1>2. \A f \in 1..Len(binlog) : Len(binlog[f]) \in Nat
  BY <1>1, FileType
<1> QED
  BY <1>1, <1>2 DEF Events

(* A step that leaves binlogs, capture, base and .XAI file alone and cuts  *)
(* nothing off.                                                            *)
LEMMA StutterStep ==
  ASSUME UNCHANGED <<binlog, cap, base, xai, cut>>
  PROVE  UNCHANGED Service!vars
  BY DEF Service!vars, Events, Captured, Upto

(* A commit publishes its group: behind all events, and behind the saved   *)
(* position, which confirms no more than before.                           *)
LEMMA PublishStep ==
  ASSUME CaptureInv, TypeInv', ServerNext
  PROVE  Service!Publish
<1>1. UNCHANGED <<cap, base, xai, cut>> /\ TypeInv
  BY DEF ServerNext, Commit, Rotate, Purge, capVars, histVars, CaptureInv
<1>2. Events \subseteq Events'
  <2> SUFFICES ASSUME NEW e \in Events PROVE e \in Events'
    OBVIOUS
  <2>1. /\ e = <<e[1], e[2]>> /\ e[1] \in 1..Len(binlog)
        /\ e[2] \in 1..Len(binlog[e[1]])
    BY <1>1, EventsOf
  <2>2. e[1] \in 1..Len(binlog') /\ e[2] \in 1..Len(binlog'[e[1]])
    BY <1>1, <2>1, ServerEffect
  <2>3. e[2] <= MaxEvents
    <3>1. Len(binlog[e[1]]) <= MaxEvents /\ Len(binlog[e[1]]) \in Nat
      BY <1>1, <2>1, FileType, ConstantsAssumption DEF TypeInv, TypeOK, ServerOK
    <3> QED
      BY <2>1, <3>1, ConstantsAssumption
  <2> QED
    BY <2>1, <2>2, <2>3, <1>1, ConstantsAssumption DEF Events
<1>3. ASSUME NEW e \in Events' \ Events
      PROVE  /\ e = <<e[1], e[2]>> /\ e[1] \in Nat /\ e[2] \in Nat
             /\ \/ e[1] > Len(binlog)
                \/ e[1] = Len(binlog) /\ e[2] > Len(binlog[e[1]])
  <2>1. /\ e = <<e[1], e[2]>> /\ e[1] \in 1..Len(binlog')
        /\ e[2] \in 1..MaxEvents /\ e[2] <= Len(binlog'[e[1]])
    BY DEF Events
  <2>2. MaxEvents \in Nat
    BY ConstantsAssumption
  <2>3. e[1] \in 1..Len(binlog) => e[2] > Len(binlog[e[1]])
    BY <1>1, <2>1, <2>2, ServerEffect DEF Events
  <2> QED
    BY <1>1, <2>1, <2>2, <2>3, ServerEffect
<1>4. ASSUME NEW d \in Events, NEW e \in Events' \ Events
      PROVE  Service!Earlier(d, e)
  <2>1. d[1] \in 1..Len(binlog) /\ d[2] \in 1..Len(binlog[d[1]])
    BY <1>1, EventsOf
  <2> QED
    BY <1>1, <1>3, <2>1, ServerEffect DEF Service!Earlier
<1>5. ASSUME NEW e \in Events' \ Events, xai.name # 0
      PROVE  ~Before(e, xai)
  <2>1. xai.name \in 1..Len(binlog)
        /\ xai.pos \in 1..(Len(binlog[xai.name]) + 1)
    BY <1>5 DEF CaptureInv, SeqCovered, Good, Cov, Within
  <2> QED
    BY <1>1, <1>3, <2>1, ServerEffect DEF Before
<1>6. ASSUME NEW e \in Events', xai.name = 0
      PROVE  ~Before(e, xai)
  BY <1>6, ConstantsAssumption DEF Events, Before
<1>7. Upto(xai)' = Upto(xai)
  BY <1>1, <1>2, <1>5, <1>6 DEF Upto, Before
<1>8. CapturedSince' = CapturedSince
  BY <1>1 DEF CapturedSince, Captured, Before
<1>9. /\ Published \subseteq Published'
      /\ \A d \in Published, e \in Published' \ Published :
           Service!Earlier(d, e)
  BY <1>1, <1>2, <1>4 DEF Published, Before
<1> QED
  BY <1>1, <1>7, <1>8, <1>9 DEF Service!Publish, Published, CapturedSince

(* Thread B writes the text of an event from the base on: it is captured,  *)
(* and no event is missing behind it but those cut off.                    *)
LEMMA CaptureStep ==
  ASSUME Readable, CaptureInv, BaseSet, CapturedInOrder', BWriteLine
  PROVE  Service!Capture \/ UNCHANGED Service!vars
<1> DEFINE e == <<Head(pipe).f, Head(pipe).i>>
<1>1. UNCHANGED <<binlog, base, xai, cut>> /\ TypeInv /\ base.name # 0
  BY WriteEffect DEF CaptureInv, BaseSet, BWriteLine
<1>2. CASE Head(pipe).k \notin CarrierKinds
  BY <1>1, <1>2, WriteEffect, StutterStep
<1>3. CASE Head(pipe).k \in CarrierKinds
  <2>1. Captured = InCapture(cap) /\ Captured' = InCapture(cap')
    BY DEF Captured, InCapture
  <2>2. Captured' = Captured \cup {e}
    BY <1>3, <2>1, WriteEffect
  <2>3. Published' = Published /\ Upto(xai)' = Upto(xai)
    BY <1>1 DEF Published, Upto, Events, Before
  <2>4. CapturedSince' = {x \in Captured' : ~Before(x, base)}
    BY <1>1 DEF CapturedSince, Before
  <2>5. CASE Before(e, base)
    <3>1. CapturedSince' = CapturedSince
      BY <2>2, <2>4, <2>5 DEF CapturedSince
    <3> QED
      BY <1>1, <2>3, <3>1 DEF Service!vars, Published, CapturedSince
  <2>6. CASE ~Before(e, base)
    <3>1. CapturedSince' = CapturedSince \cup {e}
      BY <2>2, <2>4, <2>6 DEF CapturedSince
    <3>2. ASSUME NEW x \in CapturedSince' \cup cut
          PROVE  /\ x \in Published
                 /\ \A d \in Published :
                      Service!Earlier(d, x) => d \in CapturedSince' \cup cut
      <4>1. /\ x \in InCapture(cap') \cup cut /\ ~Before(x, base)
            /\ Cov(binlog, base, At(x[1], x[2]), InCapture(cap') \cup cut)
            /\ x[2] <= Len(binlog[x[1]])
        BY <1>1, <2>1, <2>4 DEF CapturedInOrder, Before
      <4>2. x = <<x[1], x[2]>> /\ x[1] \in Nat /\ x[2] \in Nat
        <5>1. CASE x = e
          BY <5>1, WriteEffect DEF Line
        <5>2. CASE x # e
          BY <1>1, <2>1, <2>2, <4>1, <5>2, EventType DEF At, Position
        <5> QED
          BY <5>1, <5>2
      <4>3. x[1] \in 1..Len(binlog) /\ x[2] \in 1..Len(binlog[x[1]])
        BY <4>1, <4>2 DEF Cov, Within, At
      <4>4. x \in Published
        BY <1>1, <4>1, <4>2, <4>3, EventsOf DEF Published
      <4>5. ASSUME NEW d \in Published, Service!Earlier(d, x)
            PROVE  d \in CapturedSince' \cup cut
        <5>1. /\ d = <<d[1], d[2]>> /\ d[1] \in 1..Len(binlog)
              /\ d[2] \in 1..Len(binlog[d[1]]) /\ ~Before(d, base)
          BY <1>1, EventsOf DEF Published
        <5>2. Before(<<d[1], d[2]>>, At(x[1], x[2]))
          BY <4>5, <5>1 DEF Service!Earlier, Before, At
        <5> QED
          BY <1>3, <2>1, <2>4, <4>1, <5>1, <5>2 DEF Cov
      <4> QED
        BY <4>4, <4>5
    <3>3. e \in Published
      BY <3>1, <3>2
    <3> QED
      BY <1>1, <2>3, <3>1, <3>2, <3>3
         DEF Service!Capture, Service!Gapless, Published, CapturedSince
  <2> QED
    BY <2>5, <2>6
<1> QED
  BY <1>2, <1>3

(* SaveInDisk confirms what lies before the position it saves: captured,   *)
(* cut off, or due.                                                        *)
LEMMA ConfirmStep ==
  ASSUME Benign, CaptureInv, TakeTurns, BaseSet, BEndOfRow \/ BSaveInDisk
  PROVE  Service!Confirm
<1> DEFINE p == g_stBinLogSeqInProgess
<1>1. /\ UNCHANGED <<binlog, cap, base, cut>> /\ xai' = p /\ TypeInv
      /\ bpc # "pos" /\ mpc # "setpos"
  BY DEF BEndOfRow, BSaveInDisk, TakeTurns, serverVars, capVars, histVars,
     CaptureInv
<1>2. /\ Published' = Published /\ CapturedSince' = CapturedSince
      /\ Upto(xai)' = Upto(p)
  BY <1>1 DEF Published, CapturedSince, Captured, Upto, Events, Before
<1>3. Good(p)
  BY <1>1 DEF CaptureInv, SeqCovered
<1>4. CASE p.name = 0
  <2>1. Upto(p) = {}
    BY <1>1, <1>4, UptoNone
  <2> QED
    BY <1>1, <1>2, <2>1 DEF Service!Confirm, Service!Gapless, Published, CapturedSince
<1>5. CASE p.name # 0
  <2>1. base.name # 0 /\ p \in Position
    BY <1>1, <1>5 DEF BaseSet, TypeInv, TypeOK, PositionsOK
  <2>2. \A d, e \in Upto(p) \ (CapturedSince \cup cut) : d = e
    <3>1. Upto(p) \subseteq Captured \cup cut \cup Due
      BY <1>3, <1>5, CovUpto DEF Good, Benign
    <3>2. \A e \in Upto(p) : ~Before(e, base)
      BY DEF Upto
    <3> QED
      BY <3>1, <3>2 DEF CapturedSince, Due
  <2>3. Upto(p) \subseteq Published
    BY <2>1 DEF Upto, Published
  <2>4. ASSUME NEW x \in Upto(p), NEW d \in Published, Service!Earlier(d, x)
        PROVE  d \in Upto(p)
    <3>1. x \in Events /\ d \in Events /\ Before(x, p) /\ ~Before(d, base)
      BY <2>1 DEF Upto, Published
    <3>2. x[1] \in Nat /\ x[2] \in Nat /\ d[1] \in Nat /\ d[2] \in Nat
      BY <3>1, ConstantsAssumption DEF Events
    <3>3. Before(d, p)
      BY <2>1, <2>4, <3>1, <3>2 DEF Service!Earlier, Before, Position
    <3> QED
      BY <3>1, <3>3 DEF Upto
  <2> QED
    BY <1>1, <1>2, <2>2, <2>3, <2>4
       DEF Service!Confirm, Service!Gapless, Published, CapturedSince
<1> QED
  BY <1>4, <1>5

(* A process ends: what is confirmed and not captured is cut off.          *)
LEMMA CutOffStep ==
  ASSUME Orderly, CaptureInv, ServiceInv, NoLoss,
         ProcessExit \/ BWriteFails \/ Kill
  PROVE  Service!CutOff
<1>1. UNCHANGED <<binlog, base, cap, xai>> /\ CutOff
  BY ProcessUnset
     DEF ServiceInv, ProcessNext, ProcessExit, BWriteFails, Kill
<1>2. UNCHANGED <<Published, CapturedSince, Upto(xai)>>
  BY <1>1 DEF Published, CapturedSince, Captured, Upto, Events, Before
<1>3. cut' = cut \cup (Upto(xai) \ CapturedSince)
  <2>1. cut' = cut \cup ((Due \cap Upto(xai)) \ Captured)
    BY <1>1 DEF CutOff
  <2>2. Upto(xai) \subseteq Captured \cup cut \cup Due
    BY DEF NoLoss
  <2>3. \A e \in Upto(xai) : ~Before(e, base)
    BY DEF Upto
  <2>4. Upto(xai) \ CapturedSince = Upto(xai) \ Captured
    BY <2>3 DEF CapturedSince
  <2> QED
    BY <2>1, <2>2, <2>4
<1> QED
  BY <1>2, <1>3 DEF Service!CutOff, Published, CapturedSince

(* Setting the base publishes, captures and confirms nothing.              *)
LEMMA StatusStep ==
  ASSUME TypeInv, BaseSet, MLoadMasterStatus
  PROVE  UNCHANGED Service!vars
<1> DEFINE end == At(Len(binlog), Len(binlog[Len(binlog)]) + 1)
<1>1. /\ UNCHANGED <<binlog, cap, cut>> /\ xai' = end /\ base' = end
      /\ base.name = 0 /\ xai.name = 0 /\ cap = <<>>
  BY DEF MLoadMasterStatus, serverVars, capVars, BaseSet
<1>2. \A e \in Events : Before(e, end)
  <2>1. Len(binlog) \in Nat
        /\ \A f \in 1..Len(binlog) : Len(binlog[f]) \in Nat
    BY FileType DEF TypeInv, TypeOK, ServerOK
  <2> QED
    BY <2>1, EventsOf DEF Before, At
<1>3. Published = {} /\ Published' = {}
  BY <1>1, <1>2 DEF Published, Events, Before
<1>4. CapturedSince = {} /\ CapturedSince' = {}
  BY <1>1 DEF CapturedSince, Captured
<1>5. Upto(xai) = {} /\ Upto(xai)' = {}
  BY <1>1, UptoNone DEF Upto, Before
<1> QED
  BY <1>1, <1>3, <1>4, <1>5 DEF Service!vars, Published, CapturedSince

(* The pipeline implements the capture service: events enter the capture   *)
(* in binlog order and from the base on without a gap but of events cut    *)
(* off, and what a restart will not read again is captured, was cut off,   *)
(* or is the one event whose text comes next; confirmation may fall back.  *)
THEOREM ServiceImplemented == Benign => (Spec => ImplementsService)
<1> SUFFICES ASSUME Benign PROVE Spec => ImplementsService
  OBVIOUS
<1>1. Init => Service!Init
  <2> SUFFICES ASSUME Init PROVE Service!Init
    OBVIOUS
  <2>1. Events = {} /\ Captured = {} /\ cut = {}
    BY ConstantsAssumption DEF Init, Events, Captured
  <2> QED
    BY <2>1 DEF Service!Init, Upto
<1>2. CaptureInv /\ HandshakeInv /\ ServiceInv /\ NoLoss /\ CaptureInv' /\ ServiceInv'
        /\ [Next]_vars
        => [Service!Next]_(Service!vars)
  <2> SUFFICES ASSUME CaptureInv, HandshakeInv, ServiceInv, NoLoss,
                      CaptureInv', ServiceInv', [Next]_vars
               PROVE  Service!Next \/ UNCHANGED Service!vars
    OBVIOUS
  <2> USE DEF ServiceInv
  <2>1. TypeInv /\ TypeInv' /\ TakeTurns
    BY TurnsTaken DEF CaptureInv, Benign
  <2>2. CASE ServerNext
    BY <2>1, <2>2, PublishStep DEF Service!Next
  <2>3. CASE MNext
    <3>1. CASE MLoadMasterStatus
      BY <2>1, <3>1, StatusStep
    <3>2. CASE ~MLoadMasterStatus
      <4>1. UNCHANGED <<base, xai>>
        BY <2>3, <3>2 DEF MNext, MLoadBinLog, MLoadBinLogFails,
           MLoadMasterStatusFails, MPrintFirst, MSetName, MSetPos,
           MPrintStart, MConnect, MDumpFails, MDumpEvent, MDumpText, MDumpEof,
           MPrintEnd, MPrintLast, MWaitSignalled, MWaitTimeout, MCopyName,
           MCopyPos, MCheck, MCheckAlive, MSeesExit, histVars
      <4>2. UNCHANGED <<binlog, cap, cut>>
        BY <2>3, MFrame
      <4> QED
        BY <4>1, <4>2, StutterStep
    <3> QED
      BY <3>1, <3>2
  <2>4. CASE BNext
    <3>1. CASE BWriteLine
      BY <3>1, CaptureStep DEF Service!Next, Benign
    <3>2. CASE BEndOfRow \/ BSaveInDisk
      BY <2>1, <3>2, ConfirmStep DEF Service!Next
    <3>3. CASE ~(BWriteLine \/ BEndOfRow \/ BSaveInDisk)
      <4>1. UNCHANGED <<binlog, cap, base, xai, cut>>
        BY <2>4, <3>3, BFrame DEF BNext, BText, BStmt, BTransactionTag,
           BStartBinlog, BStorePosition, BEndBinlog, BFirstBinlog,
           BLastBinlog, BSignalEnd, BExit, capVars
      <4> QED
        BY <4>1, StutterStep
    <3> QED
      BY <3>1, <3>2, <3>3
  <2>5. CASE ProcessNext
    <3>1. CASE ProcessExit \/ BWriteFails \/ Kill
      BY <3>1, CutOffStep DEF Service!Next, Benign
    <3>2. CASE TStop \/ ProcessStart
      <4>1. UNCHANGED <<binlog, cap, base, xai>>
        BY <2>5, ProcessUnset DEF Benign
      <4>2. cut' = cut
        BY <3>2 DEF TStop, ProcessStart, histVars
      <4> QED
        BY <4>1, <4>2, StutterStep
    <3> QED
      BY <2>5, <3>1, <3>2 DEF ProcessNext
  <2>6. CASE UNCHANGED vars
    BY <2>6, StutterStep DEF vars, serverVars, capVars, histVars
  <2> QED
    BY <2>2, <2>3, <2>4, <2>5, <2>6 DEF Next
<1> QED
  BY <1>1, <1>2, CaptureCovered, PassesMeet, CapturedInBinlogOrder, NothingLost, PTL
     DEF Spec, ImplementsService, Service!Spec, Benign

=============================================================================
