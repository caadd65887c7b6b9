------------------------ MODULE BinlogCaptureNoLoss ------------------------
(***************************************************************************)
(* The capture pipeline loses nothing: CaptureInv is inductive when the    *)
(* instance is Orderly, and it implies NoLoss, NoLossOnExit and            *)
(* ResumeCaptured when the binlogs are also Readable, NoGapInFile when not.*)
(***************************************************************************)
EXTENDS BinlogCaptureProofs

-----------------------------------------------------------------------------
(* Coverage *)

(* More captured events cover at least as much.                            *)
LEMMA CovMono ==
  ASSUME NEW bl, NEW b, NEW p, NEW S, NEW T, S \subseteq T, Cov(bl, b, p, S)
  PROVE  Cov(bl, b, p, T)
  BY DEF Cov

(* A commit appends behind every position: coverage is kept.               *)
LEMMA CovCommit ==
  ASSUME NEW bl \in Seq(Seq(Kinds)), NEW b, NEW p \in Position, NEW S,
         NEW g \in Seq(Kinds), Cov(bl, b, p, S), Len(bl) > 0
  PROVE  Cov([bl EXCEPT ![Len(bl)] = @ \o g], b, p, S)
<1> DEFINE bl2 == [bl EXCEPT ![Len(bl)] = @ \o g]
<1>1. Len(bl2) = Len(bl) /\ Len(bl) \in Nat
  OBVIOUS
<1>2. ASSUME NEW f \in 1..Len(bl), f # Len(bl) PROVE bl2[f] = bl[f]
  BY <1>2
<1>3. /\ Len(bl2[Len(bl)]) = Len(bl[Len(bl)]) + Len(g)
      /\ Len(g) \in Nat
  BY FileType
<1>4. \A f \in 1..Len(bl) : Len(bl[f]) \in Nat
  BY FileType
<1>5. \A f \in 1..Len(bl) : Len(bl2[f]) \in Nat /\ Len(bl2[f]) >= Len(bl[f])
  BY <1>2, <1>3, <1>4
<1> HIDE DEF bl2
<1>6. Within(bl2, p)
  BY <1>1, <1>4, <1>5 DEF Within, Cov, Position
<1>7. ASSUME NEW f \in 1..Len(bl2), NEW i \in 1..Len(bl2[f]),
             Before(<<f, i>>, p), ~Before(<<f, i>>, b),
             f = p.name \/ Readable
      PROVE  <<f, i>> \in S
  <2>1. i \in 1..Len(bl[f])
    <3>1. CASE f = Len(bl)
      BY <1>1, <1>4, <1>7, <3>1 DEF Cov, Within, Before, Position
    <3>2. CASE f # Len(bl)
      BY <1>1, <1>2, <3>2
    <3> QED
      BY <3>1, <3>2
  <2> QED
    BY <1>1, <1>7, <2>1 DEF Cov
<1> QED
  BY <1>6, <1>7 DEF Cov, bl2

(* A rotation adds an empty file: coverage is kept.                        *)
LEMMA CovRotate ==
  ASSUME NEW bl \in Seq(Seq(Kinds)), NEW b, NEW p \in Position, NEW S,
         Cov(bl, b, p, S)
  PROVE  Cov(Append(bl, <<>>), b, p, S)
<1> DEFINE bl2 == Append(bl, <<>>)
<1>1. /\ Len(bl2) = Len(bl) + 1 /\ Len(bl) \in Nat
      /\ \A f \in 1..Len(bl) : bl2[f] = bl[f]
      /\ bl2[Len(bl) + 1] = <<>>
  OBVIOUS
<1> HIDE DEF bl2
<1>2. Within(bl2, p)
  BY <1>1 DEF Within, Cov, Position
<1>3. ASSUME NEW f \in 1..Len(bl2), NEW i \in 1..Len(bl2[f]),
             Before(<<f, i>>, p), ~Before(<<f, i>>, b),
             f = p.name \/ Readable
      PROVE  <<f, i>> \in S
  <2>1. CASE f = Len(bl) + 1
    BY <1>1, <2>1
  <2>2. CASE f \in 1..Len(bl)
    BY <1>1, <1>3, <2>2 DEF Cov
  <2> QED
    BY <1>1, <2>1, <2>2
<1> QED
  BY <1>2, <1>3 DEF Cov, bl2

(* One more event.                                                         *)
LEMMA CovStep ==
  ASSUME NEW bl \in Seq(Seq(Kinds)), NEW b, NEW f \in Nat, NEW i \in Nat,
         NEW S, Cov(bl, b, At(f, i), S), i <= Len(bl[f])
  PROVE  Cov(bl, b, At(f, i + 1), S \cup {<<f, i>>})
<1>1. f \in 1..Len(bl) /\ i \in 1..Len(bl[f]) /\ Len(bl[f]) \in Nat
  BY FileType DEF Cov, Within, At
<1>2. Within(bl, At(f, i + 1))
  BY <1>1 DEF Within, At
<1>3. ASSUME NEW g \in 1..Len(bl), NEW j \in 1..Len(bl[g]),
             Before(<<g, j>>, At(f, i + 1)), ~Before(<<g, j>>, b),
             g = At(f, i + 1).name \/ Readable
      PROVE  <<g, j>> \in S \cup {<<f, i>>}
  <2>1. CASE g = f /\ j = i
    BY <2>1
  <2>2. CASE ~(g = f /\ j = i)
    <3>1. Len(bl[g]) \in Nat
      BY FileType
    <3>2. Before(<<g, j>>, At(f, i)) /\ (g = At(f, i).name \/ Readable)
      BY <1>3, <2>2, <3>1 DEF Before, At
    <3> QED
      BY <1>3, <3>2 DEF Cov
  <2> QED
    BY <2>1, <2>2
<1> QED
  BY <1>2, <1>3 DEF Cov

(* The start of the file.                                                  *)
LEMMA CovFirst ==
  ASSUME NEW bl \in Seq(Seq(Kinds)), NEW b, NEW f \in Nat, NEW i \in Nat,
         NEW S, Cov(bl, b, At(f, i), S)
  PROVE  Cov(bl, b, At(f, 1), S)
<1>1. f \in 1..Len(bl) /\ i \in 1..(Len(bl[f]) + 1) /\ Len(bl[f]) \in Nat
  BY FileType DEF Cov, Within, At
<1>2. Within(bl, At(f, 1))
  BY <1>1 DEF Within, At
<1>3. ASSUME NEW g \in 1..Len(bl), NEW j \in 1..Len(bl[g]),
             Before(<<g, j>>, At(f, 1)), ~Before(<<g, j>>, b),
             g = At(f, 1).name \/ Readable
      PROVE  <<g, j>> \in S
  <2>1. Len(bl[g]) \in Nat
    BY FileType
  <2>2. Before(<<g, j>>, At(f, i)) /\ (g = At(f, i).name \/ Readable)
    BY <1>1, <1>3, <2>1 DEF Before, At
  <2> QED
    BY <1>3, <2>2 DEF Cov
<1> QED
  BY <1>2, <1>3 DEF Cov

(* From the end of a file to the start of the next one.                    *)
LEMMA CovNextFile ==
  ASSUME NEW bl \in Seq(Seq(Kinds)), NEW b, NEW f \in Nat, NEW i \in Nat,
         NEW S, Cov(bl, b, At(f, i), S), Readable => i > Len(bl[f]),
         f + 1 <= Len(bl)
  PROVE  Cov(bl, b, At(f + 1, 1), S)
<1>1. /\ f \in 1..Len(bl) /\ f + 1 \in 1..Len(bl)
      /\ Len(bl[f]) \in Nat /\ Len(bl[f + 1]) \in Nat
  BY FileType DEF Cov, Within, At
<1>2. Within(bl, At(f + 1, 1))
  BY <1>1 DEF Within, At
<1>3. ASSUME NEW g \in 1..Len(bl), NEW j \in 1..Len(bl[g]),
             Before(<<g, j>>, At(f + 1, 1)), ~Before(<<g, j>>, b),
             g = At(f + 1, 1).name \/ Readable
      PROVE  <<g, j>> \in S
  <2>1. Len(bl[g]) \in Nat
    BY FileType
  <2>2. g # f + 1
    BY <1>3, <2>1 DEF Before, At
  <2>3. Readable /\ Before(<<g, j>>, At(f, i))
    BY <1>1, <1>3, <2>1, <2>2 DEF Before, At
  <2> QED
    BY <1>3, <2>3 DEF Cov
<1> QED
  BY <1>2, <1>3 DEF Cov

(* When the base is the end of the binlogs, every position is covered.     *)
LEMMA CovEnd ==
  ASSUME NEW bl \in Seq(Seq(Kinds)), NEW p \in Position, NEW S,
         Len(bl) > 0, Within(bl, p)
  PROVE  Cov(bl, At(Len(bl), Len(bl[Len(bl)]) + 1), p, S)
<1>1. ASSUME NEW g \in 1..Len(bl), NEW j \in 1..Len(bl[g])
      PROVE  Before(<<g, j>>, At(Len(bl), Len(bl[Len(bl)]) + 1))
  <2>1. Len(bl[g]) \in Nat /\ Len(bl) \in Nat
    BY FileType
  <2> QED
    BY <2>1 DEF Before, At
<1> QED
  BY <1>1 DEF Cov

-----------------------------------------------------------------------------
(* What has left M *)

(* A printed line changes nothing for the lines ahead of it.               *)
LEMMA ReachPrint ==
  ASSUME NEW c, NEW q \in Seq(Line), NEW l \in Line, NEW j \in 0..Len(q)
  PROVE  Reach(c, Append(q, l), j) = Reach(c, q, j)
<1>1. \A m \in 1..j : Append(q, l)[m] = q[m]
  OBVIOUS
<1> QED
  BY <1>1 DEF Reach, InPipe

(* A printed event joins what has left M.                                  *)
LEMMA ReachPrinted ==
  ASSUME NEW c, NEW q \in Seq(Line), NEW l \in Line
  PROVE  /\ Reach(c, q, Len(q)) \subseteq Reach(c, Append(q, l), Len(q) + 1)
         /\ l.k \in AccountedKinds =>
              <<l.f, l.i>> \in Reach(c, Append(q, l), Len(q) + 1)
<1>1. /\ \A m \in 1..Len(q) : Append(q, l)[m] = q[m]
      /\ Append(q, l)[Len(q) + 1] = l
      /\ Len(q) \in Nat
  OBVIOUS
<1>2. 1..Len(q) \subseteq 1..(Len(q) + 1) /\ Len(q) + 1 \in 1..(Len(q) + 1)
  BY <1>1
<1>3. InPipe(q, Len(q)) \subseteq InPipe(Append(q, l), Len(q) + 1)
  BY <1>1, <1>2 DEF InPipe
<1>4. l.k \in AccountedKinds =>
        <<l.f, l.i>> \in InPipe(Append(q, l), Len(q) + 1)
  BY <1>1, <1>2 DEF InPipe
<1> QED
  BY <1>3, <1>4 DEF Reach

(* When B takes the first line of the pipe nothing is lost on the way.     *)
LEMMA ReachRead ==
  ASSUME NEW S, NEW S2, S \subseteq S2,
         NEW q \in Seq(Line), q # <<>>, NEW j \in 0..(Len(q) - 1),
         Head(q).k \in AccountedKinds => <<Head(q).f, Head(q).i>> \in S2
  PROVE  Reach(S, q, j + 1) \subseteq Reach(S2, Tail(q), j)
<1>1. /\ Len(q) \in Nat /\ Len(q) > 0 /\ Head(q) = q[1]
      /\ \A m \in 1..j : Tail(q)[m] = q[m + 1]
  OBVIOUS
<1>2. ASSUME NEW m \in 1..(j + 1), q[m].k \in AccountedKinds
      PROVE  <<q[m].f, q[m].i>> \in Reach(S2, Tail(q), j)
  <2>1. CASE m = 1
    BY <1>1, <1>2, <2>1 DEF Reach
  <2>2. CASE m # 1
    <3>1. m - 1 \in 1..j /\ Tail(q)[m - 1] = q[m]
      BY <1>1, <2>2
    <3> QED
      BY <1>2, <3>1 DEF Reach, InPipe
  <2> QED
    BY <2>1, <2>2
<1> QED
  BY <1>2 DEF Reach, InPipe

-----------------------------------------------------------------------------
(* What is accounted for *)

(* Only thread B and the end of a process change what is accounted for.    *)
LEMMA AccountedKept ==
  ASSUME UNCHANGED <<cap, cut, bLine>>
  PROVE  Accounted' = Accounted
  BY DEF Accounted, InCapture, Due

(* The text of a tag that is due is the next line, and B captures its      *)
(* event with it; a tag that saves makes its own event due.                *)
LEMMA AccountedWrites ==
  ASSUME TypeInv, TextFollows, BWriteLine
  PROVE  /\ Accounted \subseteq Accounted'
         /\ bLine'.k \in AccountedKinds => <<bLine'.f, bLine'.i>> \in Accounted'
<1>1. /\ pipe \in Seq(Line) /\ cap \in Seq(Nat \X Nat) /\ pipe # <<>>
      /\ bLine' = Head(pipe) /\ cut' = cut
      /\ cap' = IF Head(pipe).k \in CarrierKinds
                THEN Append(cap, <<Head(pipe).f, Head(pipe).i>>) ELSE cap
  BY DEF BWriteLine, TypeInv, TypeOK, LinesOK, CaptureOK, histVars
<1>2. 1 \in 1..Len(pipe) /\ Head(pipe) = pipe[1] /\ pipe[1] \in Line
  BY <1>1
<1>3. <<pipe[1].f, pipe[1].i>> \in Nat \X Nat
  BY <1>2 DEF Line
<1>4. /\ InCapture(cap) \subseteq InCapture(cap')
      /\ pipe[1].k \in CarrierKinds => <<pipe[1].f, pipe[1].i>> \in InCapture(cap')
  <2>1. CASE pipe[1].k \in CarrierKinds
    <3>1. cap' = Append(cap, <<pipe[1].f, pipe[1].i>>)
      BY <1>1, <1>2, <2>1
    <3>2. /\ Len(cap') = Len(cap) + 1 /\ Len(cap) \in Nat
          /\ cap'[Len(cap) + 1] = <<pipe[1].f, pipe[1].i>>
          /\ \A n \in 1..Len(cap) : cap'[n] = cap[n]
      BY <1>1, <1>3, <3>1
    <3>3. 1..Len(cap) \subseteq 1..Len(cap') /\ Len(cap) + 1 \in 1..Len(cap')
      BY <3>2
    <3> QED
      BY <3>2, <3>3 DEF InCapture
  <2>2. CASE pipe[1].k \notin CarrierKinds
    BY <1>1, <1>2, <2>2
  <2> QED
    BY <2>1, <2>2
<1>5. Due \subseteq InCapture(cap')
  <2> SUFFICES ASSUME bLine.k \in SavedOnTag
               PROVE  <<bLine.f, bLine.i>> \in InCapture(cap')
    BY DEF Due
  <2>1. LineBefore(bLine, pipe, 1) = bLine
    BY DEF LineBefore
  <2>2. bLine.k \in EventTags
    BY DEF SavedOnTag, EventTags
  <2>3. pipe[1].k \in CarrierKinds /\ pipe[1].f = bLine.f /\ pipe[1].i = bLine.i
    BY <1>2, <2>1, <2>2 DEF TextFollows, IsTextOf
  <2> QED
    BY <1>4, <2>3
<1>6. bLine'.k \in SavedOnTag => <<bLine'.f, bLine'.i>> \in Due'
  BY DEF Due
<1> QED
  BY <1>1, <1>2, <1>4, <1>5, <1>6 DEF Accounted, AccountedKinds

(* The text still follows its tag when M neither prints nor moves on from  *)
(* the tag it has printed.                                                 *)
LEMMA TextKept ==
  ASSUME TextFollows, UNCHANGED <<pipe, bLine>>,
         mpc = "text" => UNCHANGED <<mpc, mFile, mIdx>>,
         mpc' = "text" => mpc = "text"
  PROVE  TextFollows'
  BY DEF TextFollows, IsTextOf, LineBefore

-----------------------------------------------------------------------------
(* What has left the stdio buffer *)

(* Thread B flushes each line it writes, and whatever ends the process     *)
(* leaves the capture as it is on disk.                                    *)
LEMMA NextFlushed ==
  ASSUME TypeInv, CaptureFlushed, Next
  PROVE  CaptureFlushed'
<1> USE DEF CaptureFlushed, Running
<1>1. CASE ServerNext
  BY <1>1 DEF ServerNext, Commit, Rotate, Purge, mVars, bVars, capVars
<1>2. CASE MNext
  <2>1. UNCHANGED <<cap, flushed, bpc>>
    BY <1>2, MFrame
  <2>2. mpc' # "off"
    BY <1>2 DEF MNext, MLoadBinLog, MLoadBinLogFails, MLoadMasterStatus,
         MLoadMasterStatusFails, MPrintFirst, MSetName, MSetPos, MPrintStart,
         MConnect, MDumpFails, MDumpEvent, MDumpText, MDumpEof, MPrintEnd,
         MPrintLast, MWaitSignalled, MWaitTimeout, MCopyName, MCopyPos,
         MCheck, MCheckAlive, MSeesExit, MGoto
  <2> QED
    BY <2>1, <2>2
<1>3. CASE BNext
  <2>1. mpc' = mpc /\ mpc # "off"
    <3>1. bpc # "dead"
      BY <1>3
         DEF BNext, BWriteLine, BEndOfRow, BText, BStmt, BTransactionTag,
             BStartBinlog, BStorePosition, BSaveInDisk, BEndBinlog,
             BFirstBinlog, BLastBinlog, BSignalEnd, BExit
    <3> QED
      BY <1>3, <3>1, BFrame
  <2>2. CASE BWriteLine
    <3>1. flushed' \in FlushTo(Len(cap'))
      BY <2>2 DEF BWriteLine
    <3> QED
      BY <2>1, <3>1 DEF FlushTo
  <2>3. CASE ~BWriteLine
    <3>1. UNCHANGED <<cap, flushed>>
      BY <1>3, <2>3
         DEF BNext, BEndOfRow, BText, BStmt, BTransactionTag, BStartBinlog,
             BStorePosition, BSaveInDisk, BEndBinlog, BFirstBinlog,
             BLastBinlog, BSignalEnd, BExit, capVars
    <3> QED
      BY <2>1, <3>1
  <2> QED
    BY <2>2, <2>3
<1>4. CASE TStop
  BY <1>4 DEF TStop, mVars, bVars, capVars
<1>5. CASE ProcessExit \/ BWriteFails
  BY <1>5 DEF ProcessExit, BWriteFails, ExitFlushed, FreshProcess
<1>6. CASE Kill
  BY <1>6 DEF Kill, FreshProcess, TypeInv, TypeOK, CaptureOK
<1>7. CASE ProcessStart
  BY <1>7 DEF ProcessStart, FreshProcess, capVars
<1> QED
  BY <1>1, <1>2, <1>3, <1>4, <1>5, <1>6, <1>7 DEF Next, ProcessNext

-----------------------------------------------------------------------------
(* CaptureInv is inductive *)

(* A new process: nothing is captured and nothing is taken for granted.    *)
LEMMA InitCapture == Init => CaptureInv
<1> SUFFICES ASSUME Init PROVE CaptureInv
  OBVIOUS
<1>1. TypeInv
  BY InitTypeInv
<1>2. \A S : Cov(binlog, At(1, 1), At(1, 1), S)
  <2>1. Len(binlog) = 1 /\ Len(binlog[1]) = 0
    BY DEF Init
  <2> QED
    BY <2>1 DEF Cov, Within, At
<1>3. SeqCovered
  BY <1>2 DEF Init, SeqCovered, Good, NoPosition
<1>4. LinesCovered /\ TextFollows
  BY DEF Init, LinesCovered, TextFollows, IsTextOf, LineBefore, NoLine,
            EventTags
<1>5. LineCovered /\ PassCovered /\ Exclusion
  BY DEF Init, LineCovered, PassCovered, PassPcs, Exclusion, NoLine,
            EventKinds, EventTags, CarrierKinds, SavedOnTag
<1>6. purged = 0 /\ CaptureFlushed
  BY DEF Init, CaptureFlushed, Running
<1> QED
  BY <1>1, <1>3, <1>4, <1>5, <1>6 DEF CaptureInv

(* What a line needs is a position.                                        *)
LEMMA NeedType ==
  ASSUME NEW l \in Line
  PROVE  Need(l) \in Position /\ Need(l).name = l.f
  BY DEF Need, At, Position, Line

(* Purging deletes no event that is captured.                              *)
LEMMA PurgeCapture ==
  ASSUME Orderly, CaptureInv, Purge
  PROVE  CaptureInv'
<1> USE DEF CaptureInv
<1>1. TypeInv' /\ CaptureFlushed'
  BY ServerTypeInv, NextFlushed DEF Next, ServerNext
<1>2. ~Readable
  BY DEF Readable, Purge
<1>3. UNCHANGED <<binlog, mVars, pipe, bVars, seqVars, xai, capVars, histVars>>
  BY DEF Purge
<1>4. UNCHANGED <<binlog, mpc, nList, mFile, mIdx, pipe, bpc, bLine,
                  szBinLogName, g_stBinLogSeq, g_stBinLogSeqInProgess, xai,
                  cap, cut, base>>
  BY <1>3 DEF mVars, passVars, bVars, seqVars, capVars, histVars
<1>5. Accounted' = Accounted
  BY <1>4, AccountedKept
<1> QED
  BY <1>1, <1>2, <1>4, <1>5
     DEF Exclusion, SeqCovered, Good, TextFollows, IsTextOf, LinesCovered,
         LineCovered, PassCovered

(* Commits and rotations append behind every position.                     *)
LEMMA ServerCapture ==
  ASSUME Orderly, CaptureInv, ServerNext, ~Purge
  PROVE  CaptureInv'
<1> USE DEF CaptureInv
<1>1. TypeInv' /\ CaptureFlushed'
  BY ServerTypeInv, NextFlushed DEF Next
<1>2. ~Purge
  OBVIOUS
<1>3. UNCHANGED <<purged, mVars, pipe, bVars, seqVars, infoVars, flagVars,
                  xai, capVars, histVars>>
  BY <1>2 DEF ServerNext, Commit, Rotate
<1>4. UNCHANGED <<purged, mpc, nList, mFile, mIdx, pipe, bpc, bLine,
                  szBinLogName, g_stBinLogSeq, g_stBinLogSeqInProgess, xai,
                  cap, flushed, base, cut>>
  BY <1>3 DEF mVars, passVars, bVars, seqVars, capVars, histVars
<1>5. binlog \in Seq(Seq(Kinds)) /\ Len(binlog) > 0 /\ Len(binlog) \in Nat
  BY DEF TypeInv, TypeOK, ServerOK
<1>6. ASSUME NEW p \in Position, NEW S, Cov(binlog, base, p, S)
      PROVE  Cov(binlog', base, p, S)
  <2>1. ASSUME NEW g \in Groups, Commit(g) PROVE Cov(binlog', base, p, S)
    <3>1. g \in Seq(Kinds)
      BY ConstantsAssumption
    <3>2. binlog' = [binlog EXCEPT ![Len(binlog)] = @ \o g]
      BY <2>1 DEF Commit
    <3> QED
      BY <1>5, <1>6, <3>1, <3>2, CovCommit
  <2>2. CASE Rotate
    BY <1>5, <1>6, <2>2, CovRotate DEF Rotate
  <2> QED
    BY <1>2, <2>1, <2>2 DEF ServerNext
<1>7. /\ \A f \in 1..Len(binlog) : f < Len(binlog) => binlog'[f] = binlog[f]
      /\ \A f \in 1..Len(binlog) : /\ Len(binlog[f]) \in Nat
                                   /\ Len(binlog'[f]) \in Nat
                                   /\ Len(binlog[f]) <= Len(binlog'[f])
  <2>1. \A f \in 1..Len(binlog) : Len(binlog[f]) \in Nat
    BY <1>5, FileType
  <2>2. ASSUME NEW g \in Groups, Commit(g)
        PROVE  /\ \A f \in 1..Len(binlog) : f < Len(binlog) => binlog'[f] = binlog[f]
               /\ \A f \in 1..Len(binlog) : /\ Len(binlog'[f]) \in Nat
                                            /\ Len(binlog[f]) <= Len(binlog'[f])
    <3>1. g \in Seq(Kinds) /\ binlog[Len(binlog)] \in Seq(Kinds)
      BY <1>5, ConstantsAssumption, FileType
    <3>2. /\ Len(binlog[Len(binlog)] \o g) = Len(binlog[Len(binlog)]) + Len(g)
          /\ Len(g) \in Nat
      BY <3>1
    <3> QED
      BY <1>5, <2>1, <2>2, <3>2 DEF Commit
  <2>3. CASE Rotate
    BY <1>5, <2>1, <2>3 DEF Rotate
  <2> QED
    BY <1>2, <2>1, <2>2, <2>3 DEF ServerNext
<1>8. /\ Exclusion' /\ (Readable => purged' = 0) /\ TextFollows'
      /\ Accounted' = Accounted
  BY <1>4, AccountedKept DEF Exclusion, TextFollows, IsTextOf
<1>9. SeqCovered'
  <2>1. /\ xai \in Position /\ g_stBinLogSeq \in Position
        /\ g_stBinLogSeqInProgess \in Position
    BY DEF TypeInv, TypeOK, PositionsOK
  <2> QED
    BY <1>4, <1>6, <1>8, <2>1 DEF SeqCovered, Good
<1>10. LinesCovered'
  <2>1. ASSUME NEW j \in 1..Len(pipe)
        PROVE  /\ Need(pipe[j]) \in Position /\ Need(pipe[j]).name = pipe[j].f
               /\ pipe[j].i \in Nat
    <3>1. pipe[j] \in Line
      BY DEF TypeInv, TypeOK, LinesOK
    <3> QED
      BY <3>1, NeedType DEF Line
  <2>2. ASSUME NEW j \in 1..Len(pipe), pipe[j].k \in EventKinds
        PROVE  pipe[j].i <= Len(binlog'[pipe[j].f])
    <3>1. pipe[j].f \in 1..Len(binlog) /\ pipe[j].i <= Len(binlog[pipe[j].f])
      BY <2>1, <2>2 DEF LinesCovered, Cov, Within
    <3> QED
      BY <1>7, <2>1, <3>1
  <2>3. ASSUME NEW j \in 1..Len(pipe)
        PROVE  Cov(binlog', base, Need(pipe[j]), Reach(Accounted, pipe, j - 1))
    BY <1>6, <2>1 DEF LinesCovered
  <2> QED
    BY <1>4, <1>8, <2>2, <2>3 DEF LinesCovered
<1>11. LineCovered'
  <2>1. Need(bLine) \in Position /\ Need(bLine).name = bLine.f
    BY NeedType DEF TypeInv, TypeOK, LinesOK
  <2>2. bLine.k \in EventKinds => /\ bLine.f \in 1..Len(binlog')
                                  /\ bLine.i \in 1..Len(binlog'[bLine.f])
    <3>1. Len(binlog) <= Len(binlog') /\ Len(binlog') \in Nat
      BY <1>5 DEF ServerNext, Commit, Rotate
    <3> QED
      BY <1>7, <3>1 DEF LineCovered
  <2> QED
    BY <1>4, <1>6, <1>8, <2>1, <2>2 DEF LineCovered
<1>12. PassCovered'
  <2>1. At(mFile, mIdx) \in Position
    BY DEF TypeInv, TypeOK, ThreadsOK, At, Position
  <2>2. Readable /\ mpc = "end" /\ mFile < nList => mIdx > Len(binlog'[mFile])
    <3> SUFFICES ASSUME Readable, mpc = "end", mFile < nList
                 PROVE  mIdx > Len(binlog'[mFile])
      OBVIOUS
    <3>1. mFile \in 1..Len(binlog) /\ mFile < Len(binlog)
      BY <1>5 DEF TypeInv, TypeOK, ThreadsOK, PassOK, PassPcs
    <3> QED
      BY <1>7, <3>1 DEF PassCovered
  <2> QED
    BY <1>4, <1>6, <1>8, <2>1, <2>2 DEF PassCovered
<1> QED
  BY <1>1, <1>8, <1>9, <1>10, <1>11, <1>12

(* A covered line keeps the lines covered when M prints it.                *)
LEMMA PrintCovered ==
  ASSUME LinesOK, LinesCovered, NEW l \in Line, pipe' = Append(pipe, l),
         UNCHANGED <<binlog, base, cap, cut, bLine>>,
         Cov(binlog, base, Need(l), Reach(Accounted, pipe, Len(pipe))),
         l.k \notin {"FIRST", "START"} =>
           LineBefore(bLine, pipe, Len(pipe) + 1).f = l.f,
         l.k \in EventKinds => l.i <= Len(binlog[l.f])
  PROVE  /\ LinesCovered'
         /\ LineBefore(bLine', pipe', Len(pipe') + 1) = l
         /\ Reach(Accounted, pipe, Len(pipe)) \subseteq Reach(Accounted', pipe', Len(pipe'))
         /\ l.k \in AccountedKinds =>
              <<l.f, l.i>> \in Reach(Accounted', pipe', Len(pipe'))
<1>1. /\ pipe \in Seq(Line) /\ Len(pipe) \in Nat
      /\ Len(pipe') = Len(pipe) + 1
      /\ \A j \in 1..Len(pipe) : pipe'[j] = pipe[j]
      /\ pipe'[Len(pipe) + 1] = l
  BY DEF LinesOK
<1>2. /\ \A j \in 0..Len(pipe) : Reach(Accounted, pipe', j) = Reach(Accounted, pipe, j)
      /\ Accounted' = Accounted
  BY <1>1, ReachPrint, AccountedKept
<1>3. ASSUME NEW j \in 1..Len(pipe')
      PROVE  /\ pipe'[j].k \notin {"FIRST", "START"} =>
                  LineBefore(bLine', pipe', j).f = pipe'[j].f
             /\ pipe'[j].k \in EventKinds =>
                  pipe'[j].i <= Len(binlog'[pipe'[j].f])
             /\ Cov(binlog', base', Need(pipe'[j]), Reach(Accounted', pipe', j - 1))
  <2>1. CASE j = Len(pipe) + 1
    <3>1. LineBefore(bLine', pipe', j) = LineBefore(bLine, pipe, j)
      BY <1>1, <2>1 DEF LineBefore
    <3>2. Reach(Accounted', pipe', j - 1) = Reach(Accounted, pipe, Len(pipe))
      BY <1>1, <1>2, <2>1
    <3> QED
      BY <1>1, <2>1, <3>1, <3>2
  <2>2. CASE j \in 1..Len(pipe)
    <3>1. LineBefore(bLine', pipe', j) = LineBefore(bLine, pipe, j)
      BY <1>1, <2>2 DEF LineBefore
    <3>2. Reach(Accounted', pipe', j - 1) = Reach(Accounted, pipe, j - 1)
      BY <1>1, <1>2, <2>2
    <3>3. pipe'[j] = pipe[j]
      BY <1>1, <2>2
    <3> QED
      BY <2>2, <3>1, <3>2, <3>3 DEF LinesCovered
  <2> QED
    BY <1>1, <2>1, <2>2
<1>4. LinesCovered'
  BY <1>3 DEF LinesCovered
<1>5. LineBefore(bLine', pipe', Len(pipe') + 1) = l
  BY <1>1 DEF LineBefore
<1> QED
  BY <1>1, <1>2, <1>4, <1>5, ReachPrinted

(* A printed line is the text of the tag before it, or there is no such    *)
(* tag; when it is a tag, M prints its text next.                          *)
LEMMA PrintFollows ==
  ASSUME LinesOK, TextFollows, NEW l \in Line, pipe' = Append(pipe, l),
         UNCHANGED bLine,
         mpc = "text" => l.k \in CarrierKinds /\ l.f = mFile /\ l.i = mIdx,
         l.k \in CarrierKinds => mpc = "text",
         l.k \in EventTags => mpc' = "text" /\ l.f = mFile' /\ l.i = mIdx',
         mpc' = "text" => l.k \in EventTags
  PROVE  TextFollows'
<1>1. /\ pipe \in Seq(Line) /\ Len(pipe) \in Nat
      /\ Len(pipe') = Len(pipe) + 1
      /\ \A j \in 1..Len(pipe) : pipe'[j] = pipe[j]
      /\ pipe'[Len(pipe) + 1] = l
  BY DEF LinesOK
<1>2. \A j \in 1..(Len(pipe) + 1) : LineBefore(bLine', pipe', j) = LineBefore(bLine, pipe, j)
  BY <1>1 DEF LineBefore
<1>3. LineBefore(bLine', pipe', Len(pipe') + 1) = l
  BY <1>1 DEF LineBefore
<1>4. ASSUME NEW j \in 1..Len(pipe'),
             LineBefore(bLine', pipe', j).k \in EventTags
               \/ pipe'[j].k \in CarrierKinds
      PROVE  IsTextOf(pipe'[j], LineBefore(bLine', pipe', j))
  <2>1. CASE j = Len(pipe) + 1
    BY <1>1, <1>2, <1>4, <2>1 DEF TextFollows, IsTextOf
  <2>2. CASE j \in 1..Len(pipe)
    BY <1>1, <1>2, <1>4, <2>2 DEF TextFollows, IsTextOf
  <2> QED
    BY <1>1, <2>1, <2>2
<1> QED
  BY <1>3, <1>4 DEF TextFollows

(* The steps of M that only move on: the sequences, the pipe and the place *)
(* of the pass stay as they are.                                           *)
LEMMA MQuietCapture ==
  ASSUME Orderly, CaptureInv,
         \/ MLoadBinLogFails \/ MLoadMasterStatusFails \/ MConnect
         \/ MDumpFails \/ MDumpEof \/ MWaitSignalled \/ MWaitTimeout
         \/ MCheck \/ MCheckAlive \/ MSeesExit
  PROVE  CaptureInv'
<1> USE DEF CaptureInv
<1>1. MNext
  BY DEF MNext
<1>2. TypeInv' /\ CaptureFlushed'
  BY <1>1, MTypeInv, NextFlushed DEF Next
<1>3. /\ UNCHANGED <<binlog, purged, bpc, bLine, szBinLogName, cap, flushed>>
      /\ Accounted' = Accounted
  BY <1>1, MFrame, AccountedKept
<1>4. UNCHANGED <<nList, mFile, mIdx, pipe, g_stBinLogSeq,
                  g_stBinLogSeqInProgess, xai, base>>
  BY DEF MLoadBinLogFails, MLoadMasterStatusFails, MConnect, MDumpFails,
         MDumpEof, MWaitSignalled, MWaitTimeout, MCheck, MCheckAlive,
         MSeesExit, passVars, seqVars, histVars
<1>5. Readable => ~MDumpFails
  <2>1. Readable /\ mpc \in {"connect", "dump"} => CanDump
    BY DEF PassCovered, PassPcs, Cov, Within, At, CanDump,
           BIN_LOG_HEADER_SIZE, TypeInv, TypeOK, ThreadsOK
  <2> QED
    BY <2>1 DEF MDumpFails, Readable
<1>6. /\ mpc \notin {"setpos", "copypos"} /\ mpc # "text" /\ mpc' # "text"
      /\ mpc' \notin {"setpos", "copypos", "first", "setname"}
      /\ mpc' \in PassPcs => /\ mpc \in PassPcs
                             /\ mpc \in {"connect", "dump", "text", "end", "last"}
      /\ Readable /\ mpc' = "end" => mIdx > Len(binlog[mFile])
  BY <1>5 DEF MLoadBinLogFails, MLoadMasterStatusFails, MConnect, MDumpFails,
         MDumpEof, MWaitSignalled, MWaitTimeout, MCheck, MCheckAlive,
         MSeesExit, MGoto, PassPcs
<1>7. Exclusion' /\ SeqCovered'
  BY <1>3, <1>4, <1>6 DEF Exclusion, SeqCovered, Good
<1>8. LinesCovered' /\ LineCovered' /\ TextFollows'
  BY <1>3, <1>4, <1>6, TextKept DEF LinesCovered, LineCovered
<1>9. PassCovered'
  BY <1>3, <1>4, <1>6 DEF PassCovered, PassPcs
<1> QED
  BY <1>2, <1>3, <1>7, <1>8, <1>9

(* M starts a pass at the sequence in which the last one ended.            *)
LEMMA MLoadCapture ==
  ASSUME Orderly, CaptureInv, TakeTurns, NEW n \in 0..Len(binlog),
         MLoadBinLog(n)
  PROVE  CaptureInv'
<1> USE DEF CaptureInv
<1>1. MNext
  BY DEF MNext
<1>2. TypeInv' /\ CaptureFlushed'
  BY <1>1, MTypeInv, NextFlushed DEF Next
<1>3. /\ UNCHANGED <<binlog, purged, bpc, bLine, szBinLogName, cap, flushed>>
      /\ Accounted' = Accounted
  BY <1>1, MFrame, AccountedKept
<1>4. UNCHANGED <<pipe, g_stBinLogSeq, g_stBinLogSeqInProgess, xai, base>>
  BY LoadEffect
<1>5. mpc = "loop" /\ bpc \notin {"pos", "seqpos"}
  BY DEF MLoadBinLog, TakeTurns
<1>6. mpc' \in {"first", "status", "check"}
  BY LoadEffect
<1>7. Exclusion' /\ SeqCovered'
  BY <1>3, <1>4, <1>5, <1>6 DEF Exclusion, SeqCovered, Good
<1>8. LinesCovered' /\ LineCovered' /\ TextFollows'
  BY <1>3, <1>4, <1>5, <1>6, TextKept DEF LinesCovered, LineCovered
<1>9. PassCovered'
  <2>1. CASE mpc' = "first"
    <3>1. mFile' = g_stBinLogSeq.name /\ mIdx' = g_stBinLogSeq.pos
      BY <2>1, LoadEffect
    <3>2. g_stBinLogSeq.name # 0
      BY <2>1, LoadEffect DEF TypeInv, TypeOK, PositionsOK, Position, ServerOK
    <3>3. At(mFile', mIdx') = g_stBinLogSeq
      BY <3>1 DEF At, TypeInv, TypeOK, PositionsOK, Position
    <3>4. Cov(binlog, base, g_stBinLogSeq, Accounted)
      BY <1>5, <3>2 DEF SeqCovered, Good
    <3>5. Cov(binlog, base, g_stBinLogSeq, Reach(Accounted, pipe, Len(pipe)))
      BY <3>4, CovMono DEF Reach
    <3> QED
      BY <1>3, <1>4, <2>1, <3>3, <3>4, <3>5 DEF PassCovered
  <2>2. CASE mpc' \in {"status", "check"}
    BY <2>2 DEF PassCovered, PassPcs
  <2> QED
    BY <1>6, <2>1, <2>2
<1> QED
  BY <1>2, <1>3, <1>7, <1>8, <1>9

(* The first start: the base is the end of the binlogs, nothing lies       *)
(* between the two.                                                        *)
LEMMA MStatusCapture ==
  ASSUME Orderly, CaptureInv, TakeTurns, MLoadMasterStatus
  PROVE  CaptureInv'
<1> USE DEF CaptureInv
<1>1. MNext
  BY DEF MNext
<1>2. TypeInv' /\ CaptureFlushed'
  BY <1>1, MTypeInv, NextFlushed DEF Next
<1>3. /\ UNCHANGED <<binlog, purged, bpc, bLine, szBinLogName, cap, flushed>>
      /\ Accounted' = Accounted
  BY <1>1, MFrame, AccountedKept
<1>4. UNCHANGED <<pipe, g_stBinLogSeqInProgess>>
  BY DEF MLoadMasterStatus
<1>5. /\ mpc = "status" /\ mpc' = "check"
      /\ bpc \notin {"pos", "seqpos"}
  BY DEF MLoadMasterStatus, MGoto, TakeTurns
<1>6. binlog \in Seq(Seq(Kinds)) /\ Len(binlog) > 0
  BY DEF TypeInv, TypeOK, ServerOK
<1> DEFINE end == At(Len(binlog), Len(binlog[Len(binlog)]) + 1)
<1>7. g_stBinLogSeq' = end /\ xai' = end /\ base' = end
  BY DEF MLoadMasterStatus
<1>8. end \in Position /\ Within(binlog, end)
  <2>1. Len(binlog) \in Nat /\ Len(binlog[Len(binlog)]) \in Nat
    BY <1>6, FileType
  <2> QED
    BY <1>6, <2>1 DEF Within, At, Position
<1>9. ASSUME NEW p \in Position, NEW S, Within(binlog, p)
      PROVE  Cov(binlog', base', p, S)
  BY <1>3, <1>6, <1>7, <1>9, CovEnd
<1> HIDE DEF end
<1>10. SeqCovered'
  <2>1. Good(g_stBinLogSeqInProgess)
    BY <1>5 DEF SeqCovered
  <2>2. g_stBinLogSeqInProgess \in Position
    BY DEF TypeInv, TypeOK, PositionsOK
  <2>3. Good(g_stBinLogSeqInProgess)'
    BY <1>4, <1>9, <2>1, <2>2 DEF Good, Cov
  <2>4. Good(xai)' /\ Good(g_stBinLogSeq)'
    BY <1>7, <1>8, <1>9 DEF Good
  <2> QED
    BY <1>3, <1>5, <2>3, <2>4 DEF SeqCovered
<1>11. LinesCovered'
  <2>1. ASSUME NEW j \in 1..Len(pipe)
        PROVE  Need(pipe[j]) \in Position /\ Within(binlog, Need(pipe[j]))
    BY NeedType DEF TypeInv, TypeOK, LinesOK, LinesCovered, Cov
  <2> QED
    BY <1>3, <1>4, <1>9, <2>1 DEF LinesCovered
<1>12. LineCovered'
  <2>1. Need(bLine) \in Position
    BY NeedType DEF TypeInv, TypeOK, LinesOK
  <2>2. bpc \in {"rowend", "tag", "pos"} \/ bLine.k \in SavedOnTag =>
          Within(binlog, Need(bLine))
    BY DEF LineCovered, Cov
  <2> QED
    BY <1>3, <1>4, <1>9, <2>1, <2>2 DEF LineCovered
<1>13. PassCovered' /\ Exclusion' /\ TextFollows'
  BY <1>3, <1>4, <1>5, TextKept DEF PassCovered, PassPcs, Exclusion
<1> QED
  BY <1>2, <1>3, <1>10, <1>11, <1>12, <1>13

(* M stores the place of its pass in the sequence in progress, or copies   *)
(* the sequence in progress, in two steps each.                            *)
LEMMA MStoreCapture ==
  ASSUME Orderly, CaptureInv, TakeTurns,
         MSetName \/ MSetPos \/ MCopyName \/ MCopyPos
  PROVE  CaptureInv'
<1> USE DEF CaptureInv
<1>1. MNext
  BY DEF MNext
<1>2. TypeInv' /\ CaptureFlushed'
  BY <1>1, MTypeInv, NextFlushed DEF Next
<1>3. /\ UNCHANGED <<binlog, purged, bpc, bLine, szBinLogName, cap, flushed>>
      /\ Accounted' = Accounted
  BY <1>1, MFrame, AccountedKept
<1>4. UNCHANGED <<nList, mFile, mIdx, pipe, xai, base>>
  BY DEF MSetName, MSetPos, MCopyName, MCopyPos, passVars, histVars
<1>5. bpc \notin {"pos", "seqpos"}
  BY DEF MSetName, MSetPos, MCopyName, MCopyPos, TakeTurns, Exclusion
<1>6. /\ MSetName => mpc = "setname" /\ mpc' = "setpos"
      /\ MSetPos => mpc = "setpos" /\ mpc' = "start"
      /\ MCopyName => mpc = "copyname" /\ mpc' = "copypos"
      /\ MCopyPos => mpc = "copypos" /\ mpc' = "check"
  BY DEF MSetName, MSetPos, MCopyName, MCopyPos, MGoto
<1>7. Exclusion' /\ LinesCovered' /\ LineCovered' /\ TextFollows'
  BY <1>3, <1>4, <1>5, <1>6, TextKept DEF Exclusion, LinesCovered, LineCovered
<1>8. PassCovered'
  BY <1>3, <1>4, <1>6 DEF PassCovered, PassPcs
<1>9. /\ g_stBinLogSeqInProgess \in Position /\ g_stBinLogSeq \in Position
      /\ mFile \in Nat /\ mIdx \in Nat
  BY DEF TypeInv, TypeOK, PositionsOK, ThreadsOK
<1>10. SeqCovered'
  <2>1. CASE MSetName
    <3>1. /\ g_stBinLogSeqInProgess'.name = mFile
          /\ g_stBinLogSeq' = g_stBinLogSeq
      BY <1>9, <2>1 DEF MSetName, Position
    <3> QED
      BY <1>3, <1>4, <1>5, <1>6, <2>1, <3>1 DEF SeqCovered, Good
  <2>2. CASE MSetPos
    <3>1. /\ g_stBinLogSeqInProgess' = At(mFile, mIdx)
          /\ g_stBinLogSeq' = g_stBinLogSeq
      BY <1>6, <1>9, <2>2 DEF MSetPos, Position, At, SeqCovered
    <3>2. Cov(binlog, base, At(mFile, mIdx), Accounted)
      BY <1>6, <2>2 DEF PassCovered
    <3> QED
      BY <1>3, <1>4, <1>5, <1>6, <2>2, <3>1, <3>2 DEF SeqCovered, Good
  <2>3. CASE MCopyName
    <3>1. /\ g_stBinLogSeqInProgess' = g_stBinLogSeqInProgess
          /\ g_stBinLogSeq'.name = g_stBinLogSeqInProgess.name
      BY <1>9, <2>3 DEF MCopyName, Position
    <3> QED
      BY <1>3, <1>4, <1>5, <1>6, <2>3, <3>1 DEF SeqCovered, Good
  <2>4. CASE MCopyPos
    <3>1. /\ g_stBinLogSeqInProgess' = g_stBinLogSeqInProgess
          /\ g_stBinLogSeq' = g_stBinLogSeqInProgess
      BY <1>6, <1>9, <2>4 DEF MCopyPos, CopiedPos, Position, SeqCovered
    <3> QED
      BY <1>3, <1>4, <1>5, <1>6, <2>4, <3>1 DEF SeqCovered, Good
  <2> QED
    BY <2>1, <2>2, <2>3, <2>4
<1> QED
  BY <1>2, <1>3, <1>7, <1>8, <1>10

(* M prints a line: it is covered by what has left M before it.            *)
LEMMA MPrintCapture ==
  ASSUME Orderly, CaptureInv,
         \/ MPrintFirst \/ MPrintStart \/ MDumpEvent \/ MDumpText
         \/ MPrintEnd \/ MPrintLast
  PROVE  CaptureInv'
<1> USE DEF CaptureInv
<1>1. MNext
  BY DEF MNext
<1>2. TypeInv' /\ CaptureFlushed'
  BY <1>1, MTypeInv, NextFlushed DEF Next
<1>3. /\ UNCHANGED <<binlog, purged, bpc, bLine, szBinLogName, cap, flushed, cut>>
      /\ Accounted' = Accounted
  BY <1>1, MFrame, AccountedKept
<1>4. UNCHANGED <<nList, g_stBinLogSeq, g_stBinLogSeqInProgess, xai, base>>
  BY DEF MPrintFirst, MPrintStart, MDumpEvent, MDumpText, MPrintEnd,
         MPrintLast, passVars, seqVars, histVars
<1>5. /\ mpc \in PassPcs \ {"setpos"} /\ mpc' # "setpos"
      /\ mpc' # "copypos"
  BY DEF MPrintFirst, MPrintStart, MDumpEvent, MDumpText, MPrintEnd,
         MPrintLast, MGoto, PassPcs
<1>6. Exclusion' /\ SeqCovered' /\ LineCovered'
  BY <1>3, <1>4, <1>5 DEF Exclusion, SeqCovered, Good, LineCovered, PassPcs
<1>7. /\ mFile \in Nat /\ mIdx \in Nat /\ mFile \in 1..nList
      /\ nList \in 0..Len(binlog) /\ LinesOK
      /\ binlog \in Seq(Seq(Kinds)) /\ Len(binlog) \in Nat
  BY <1>5 DEF TypeInv, TypeOK, ThreadsOK, PassOK, ServerOK
<1>8. Cov(binlog, base, At(mFile, mIdx), Reach(Accounted, pipe, Len(pipe)))
  BY <1>5 DEF PassCovered
<1>9. Cov(binlog, base, At(mFile, 1), Reach(Accounted, pipe, Len(pipe)))
  BY <1>7, <1>8, CovFirst
<1>10. ASSUME NEW k \in MarkerKinds
       PROVE  /\ Marker(k, mFile) \in Line
              /\ Need(Marker(k, mFile)) = At(mFile, 1)
              /\ Marker(k, mFile).k = k /\ Marker(k, mFile).f = mFile
  BY <1>7, LineType DEF Marker, Need
<1>11. ASSUME NEW k \in EventKinds
       PROVE  /\ EventLine(k, mFile, mIdx) \in Line
              /\ Need(EventLine(k, mFile, mIdx)) = At(mFile, mIdx)
              /\ EventLine(k, mFile, mIdx).k = k
              /\ EventLine(k, mFile, mIdx).f = mFile
              /\ EventLine(k, mFile, mIdx).i = mIdx
  BY <1>7, LineType
     DEF EventLine, Need, MarkerKinds, EventKinds, EventTags, CarrierKinds
<1>12. ASSUME NEW k \in MarkerKinds, pipe' = Append(pipe, Marker(k, mFile)),
              k \in {"END", "LAST"} =>
                LineBefore(bLine, pipe, Len(pipe) + 1).f = mFile,
              mpc # "text", mpc' # "text"
       PROVE  /\ LinesCovered' /\ TextFollows'
              /\ LineBefore(bLine', pipe', Len(pipe') + 1).f = mFile
              /\ Cov(binlog, base, At(mFile, mIdx), Reach(Accounted', pipe', Len(pipe')))
  <2> DEFINE l == Marker(k, mFile)
  <2>1. /\ l \in Line /\ Need(l) = At(mFile, 1) /\ l.k = k /\ l.f = mFile
        /\ l.k \notin EventKinds
    BY <1>10 DEF MarkerKinds, EventKinds, EventTags, CarrierKinds
  <2>2. pipe' = Append(pipe, l)
    BY <1>12
  <2>3. l.k \notin {"FIRST", "START"} =>
          LineBefore(bLine, pipe, Len(pipe) + 1).f = l.f
    BY <1>12, <2>1 DEF MarkerKinds
  <2> HIDE DEF l
  <2>4. /\ LinesCovered'
        /\ LineBefore(bLine', pipe', Len(pipe') + 1) = l
        /\ Reach(Accounted, pipe, Len(pipe)) \subseteq Reach(Accounted', pipe', Len(pipe'))
    BY <1>3, <1>4, <1>7, <1>9, <2>1, <2>2, <2>3, PrintCovered
  <2>5. TextFollows'
    BY <1>3, <1>7, <1>12, <2>1, <2>2, PrintFollows DEF EventKinds
  <2> QED
    BY <1>8, <2>1, <2>4, <2>5, CovMono
<1>13. ASSUME NEW k \in EventKinds,
              mIdx <= Len(binlog[mFile]),
              pipe' = Append(pipe, EventLine(k, mFile, mIdx)),
              LineBefore(bLine, pipe, Len(pipe) + 1).f = mFile,
              mpc = "text" <=> k \in CarrierKinds,
              k \in EventTags => mpc' = "text" /\ mFile' = mFile /\ mIdx' = mIdx,
              mpc' = "text" => k \in EventTags
       PROVE  /\ LinesCovered' /\ TextFollows'
              /\ LineBefore(bLine', pipe', Len(pipe') + 1).f = mFile
              /\ Cov(binlog, base, At(mFile, mIdx), Reach(Accounted', pipe', Len(pipe')))
              /\ k \in AccountedKinds =>
                   <<mFile, mIdx>> \in Reach(Accounted', pipe', Len(pipe'))
  <2> DEFINE l == EventLine(k, mFile, mIdx)
  <2>1. /\ l \in Line /\ Need(l) = At(mFile, mIdx)
        /\ l.k = k /\ l.f = mFile /\ l.i = mIdx
    BY <1>11, <1>13
  <2>2. pipe' = Append(pipe, l) /\ UNCHANGED <<binlog, base, cap, cut, bLine>>
    BY <1>3, <1>4, <1>13
  <2> HIDE DEF l
  <2>3. /\ LinesCovered'
        /\ LineBefore(bLine', pipe', Len(pipe') + 1) = l
        /\ Reach(Accounted, pipe, Len(pipe)) \subseteq Reach(Accounted', pipe', Len(pipe'))
        /\ l.k \in AccountedKinds =>
             <<l.f, l.i>> \in Reach(Accounted', pipe', Len(pipe'))
    BY <1>7, <1>8, <1>13, <2>1, <2>2, PrintCovered
  <2>4. TextFollows'
    BY <1>7, <1>13, <2>1, <2>2, PrintFollows
  <2> QED
    BY <1>8, <2>1, <2>3, <2>4, CovMono
<1>14. ASSUME <<mFile, mIdx>> \in Reach(Accounted', pipe', Len(pipe')),
              Cov(binlog, base, At(mFile, mIdx), Reach(Accounted', pipe', Len(pipe'))),
              mIdx <= Len(binlog[mFile])
       PROVE  Cov(binlog, base, At(mFile, mIdx + 1), Reach(Accounted', pipe', Len(pipe')))
  <2>1. Reach(Accounted', pipe', Len(pipe')) \cup {<<mFile, mIdx>>}
          = Reach(Accounted', pipe', Len(pipe'))
    BY <1>14
  <2> HIDE DEF CaptureInv
  <2> QED
    BY <1>7, <1>14, <2>1, CovStep
<1>15. CASE MPrintFirst
  <2>1. /\ mpc = "first" /\ mpc' = "setname" /\ UNCHANGED <<mFile, mIdx>>
        /\ pipe' = Append(pipe, Marker("FIRST", mFile))
    BY <1>15 DEF MPrintFirst, MGoto, passVars, PrintLine
  <2>2. /\ LinesCovered' /\ TextFollows'
        /\ Cov(binlog, base, At(mFile, mIdx), Reach(Accounted', pipe', Len(pipe')))
    BY <1>12, <2>1 DEF MarkerKinds
  <2>3. PassCovered'
    BY <1>3, <1>4, <2>1, <2>2 DEF PassCovered, PassPcs
  <2> QED
    BY <1>2, <1>3, <1>6, <2>2, <2>3
<1>16. CASE MPrintStart
  <2>1. /\ mpc = "start" /\ mpc' = "connect" /\ UNCHANGED <<mFile, mIdx>>
        /\ pipe' = Append(pipe, Marker("START", mFile))
    BY <1>16 DEF MPrintStart, MGoto, passVars, PrintLine
  <2>2. /\ LinesCovered' /\ TextFollows'
        /\ LineBefore(bLine', pipe', Len(pipe') + 1).f = mFile
        /\ Cov(binlog, base, At(mFile, mIdx), Reach(Accounted', pipe', Len(pipe')))
    BY <1>12, <2>1 DEF MarkerKinds
  <2>3. PassCovered'
    BY <1>3, <1>4, <2>1, <2>2 DEF PassCovered, PassPcs
  <2> QED
    BY <1>2, <1>3, <1>6, <2>2, <2>3
<1>17. CASE MPrintLast
  <2>1. /\ mpc = "last" /\ mpc' = "wait"
        /\ pipe' = Append(pipe, Marker("LAST", mFile))
    BY <1>17 DEF MPrintLast, MGoto, PrintLine
  <2>2. LinesCovered' /\ TextFollows'
    BY <1>12, <2>1 DEF MarkerKinds, PassCovered
  <2>3. PassCovered'
    BY <2>1 DEF PassCovered, PassPcs
  <2> QED
    BY <1>2, <1>3, <1>6, <2>2, <2>3
<1>18. CASE MPrintEnd
  <2>1. /\ mpc = "end" /\ mpc' # "text"
        /\ pipe' = Append(pipe, Marker("END", mFile))
    BY <1>18 DEF MPrintEnd, PrintLine, MGoto
  <2>2. /\ LinesCovered' /\ TextFollows'
        /\ LineBefore(bLine', pipe', Len(pipe') + 1).f = mFile
        /\ Cov(binlog, base, At(mFile, mIdx), Reach(Accounted', pipe', Len(pipe')))
    BY <1>12, <2>1 DEF MarkerKinds, PassCovered
  <2>3. CASE mpc' = "last" /\ UNCHANGED <<mFile, mIdx>>
    <3>1. PassCovered'
      BY <1>3, <1>4, <2>2, <2>3 DEF PassCovered, PassPcs
    <3> QED
      BY <1>2, <1>3, <1>6, <2>2, <3>1
  <2>4. CASE /\ mpc' = "start" /\ mFile' = mFile + 1 /\ mIdx' = 1
             /\ mFile # nList
    <3>1. mFile + 1 <= Len(binlog) /\ mFile < nList
      BY <1>7, <2>4
    <3>2. Readable => mIdx > Len(binlog[mFile])
      BY <2>1, <3>1 DEF PassCovered
    <3>3. Cov(binlog, base, At(mFile + 1, 1), Reach(Accounted', pipe', Len(pipe')))
      BY <1>7, <2>2, <3>1, <3>2, CovNextFile
    <3>4. PassCovered'
      BY <1>3, <1>4, <2>4, <3>3 DEF PassCovered, PassPcs
    <3> QED
      BY <1>2, <1>3, <1>6, <2>2, <3>4
  <2> QED
    BY <1>18, <2>3, <2>4
       DEF MPrintEnd, MGoto, LastOfList, BIN_LOG_HEADER_SIZE
<1>19. CASE MDumpEvent
  <2> DEFINE kind == binlog[mFile][mIdx]
  <2>1. /\ mpc = "dump" /\ mpc' = "text" /\ mIdx <= Len(binlog[mFile])
        /\ UNCHANGED <<mFile, mIdx>>
        /\ pipe' = Append(pipe, EventLine(TagOf(kind), mFile, mIdx))
    BY <1>19 DEF MDumpEvent, PrintLine, MGoto, passVars
  <2>2. /\ TagOf(kind) \in EventTags /\ TagOf(kind) \in EventKinds
        /\ TagOf(kind) \notin CarrierKinds
    <3>1. mIdx \in 1..Len(binlog[mFile]) /\ binlog[mFile] \in Seq(Kinds)
      BY <1>7, <2>1, FileType DEF TypeInv, PassOK
    <3>2. kind \in Kinds
      BY <3>1
    <3> QED
      BY <3>2, LineType DEF EventKinds, EventTags, CarrierKinds
  <2> HIDE DEF kind
  <2>3. /\ LinesCovered' /\ TextFollows'
        /\ LineBefore(bLine', pipe', Len(pipe') + 1).f = mFile
        /\ Cov(binlog, base, At(mFile, mIdx), Reach(Accounted', pipe', Len(pipe')))
    BY <1>13, <2>1, <2>2 DEF PassCovered
  <2>4. PassCovered'
    BY <1>3, <1>4, <2>1, <2>3 DEF PassCovered, PassPcs
  <2> QED
    BY <1>2, <1>3, <1>6, <2>3, <2>4
<1>20. CASE MDumpText
  <2> DEFINE k == TextOf(binlog[mFile][mIdx])
  <2>1. /\ mpc = "text" /\ mpc' = "dump" /\ mFile' = mFile /\ mIdx' = mIdx + 1
        /\ pipe' = Append(pipe, EventLine(k, mFile, mIdx))
    BY <1>20 DEF MDumpText, MGoto, PrintLine
  <2>2. mIdx <= Len(binlog[mFile])
    BY <2>1 DEF TypeInv, PassOK
  <2>3. /\ k \in CarrierKinds /\ k \in EventKinds /\ k \in AccountedKinds
        /\ k \notin EventTags
    BY DEF TextOf, CarrierKinds, EventKinds, EventTags, AccountedKinds
  <2> HIDE DEF k
  <2>4. /\ LinesCovered' /\ TextFollows'
        /\ LineBefore(bLine', pipe', Len(pipe') + 1).f = mFile
        /\ Cov(binlog, base, At(mFile, mIdx), Reach(Accounted', pipe', Len(pipe')))
        /\ <<mFile, mIdx>> \in Reach(Accounted', pipe', Len(pipe'))
    BY <1>13, <2>1, <2>2, <2>3 DEF PassCovered
  <2>5. Cov(binlog, base, At(mFile, mIdx'), Reach(Accounted', pipe', Len(pipe')))
    BY <1>14, <2>1, <2>2, <2>4
  <2>6. PassCovered'
    BY <1>3, <1>4, <2>1, <2>4, <2>5 DEF PassCovered, PassPcs
  <2> QED
    BY <1>2, <1>3, <1>6, <2>4, <2>6
<1> QED
  BY <1>15, <1>16, <1>17, <1>18, <1>19, <1>20

(* Thread M keeps every position covered.                                  *)
LEMMA MCapture ==
  ASSUME Orderly, CaptureInv, TakeTurns, MNext
  PROVE  CaptureInv'
  BY MQuietCapture, MLoadCapture, MStatusCapture, MStoreCapture, MPrintCapture
     DEF MNext

(* B takes a line: its event enters the capture as it leaves the pipe.     *)
LEMMA BWriteCapture ==
  ASSUME Orderly, CaptureInv, BWriteLine
  PROVE  CaptureInv'
<1> USE DEF CaptureInv
<1>1. BNext
  BY DEF BNext
<1>2. TypeInv' /\ CaptureFlushed'
  BY <1>1, BTypeInv, NextFlushed DEF Next
<1>3. UNCHANGED <<binlog, purged, mpc, nList, mFile, mIdx, base>>
  BY <1>1, BFrame
<1>4. /\ UNCHANGED <<szBinLogName, g_stBinLogSeq, g_stBinLogSeqInProgess, xai>>
      /\ bpc = "read" /\ bpc' \in {"rowend", "tag"}
      /\ pipe # <<>> /\ pipe' = Tail(pipe) /\ bLine' = Head(pipe)
  BY DEF BWriteLine, seqVars, BGoto
<1>6. pipe \in Seq(Line)
  BY DEF TypeInv, TypeOK, LinesOK
<1>7. /\ Len(pipe) \in Nat /\ Len(pipe) > 0 /\ Len(pipe') = Len(pipe) - 1
      /\ Head(pipe) = pipe[1] /\ pipe[1] \in Line
      /\ \A j \in 1..Len(pipe') : pipe'[j] = pipe[j + 1]
  BY <1>4, <1>6
<1>9. /\ Accounted \subseteq Accounted'
      /\ Head(pipe).k \in AccountedKinds =>
           <<Head(pipe).f, Head(pipe).i>> \in Accounted'
  BY <1>4, AccountedWrites
<1>8. \A j \in 0..Len(pipe') :
        Reach(Accounted, pipe, j + 1) \subseteq Reach(Accounted', pipe', j)
  BY <1>4, <1>6, <1>7, <1>9, ReachRead
<1>10. Exclusion' /\ SeqCovered'
  <2>1. Exclusion'
    BY <1>3, <1>4 DEF Exclusion
  <2>2. ASSUME NEW p, Good(p) PROVE p.name = 0 \/ Cov(binlog, base, p, Accounted')
    BY <1>9, <2>2, CovMono DEF Good
  <2>3. Good(xai)'
    BY <1>3, <1>4, <2>2 DEF Good, SeqCovered
  <2>4. mpc # "setpos" => Good(g_stBinLogSeqInProgess)'
    BY <1>3, <1>4, <2>2 DEF Good, SeqCovered
  <2>5. mpc # "copypos" => Good(g_stBinLogSeq)'
    BY <1>3, <1>4, <2>2 DEF Good, SeqCovered
  <2> QED
    BY <1>3, <1>4, <2>1, <2>3, <2>4, <2>5 DEF SeqCovered
<1>11. ASSUME NEW j \in 1..(Len(pipe') + 1)
       PROVE  LineBefore(bLine', pipe', j) = LineBefore(bLine, pipe, j + 1)
  <2>1. CASE j = 1
    BY <1>4, <1>7, <2>1 DEF LineBefore
  <2>2. CASE j # 1
    <3>1. j - 1 \in 1..Len(pipe') /\ pipe'[j - 1] = pipe[j]
      BY <1>7, <2>2
    <3> QED
      BY <2>2, <3>1 DEF LineBefore
  <2> QED
    BY <2>1, <2>2
<1>14. LinesCovered'
  <2> SUFFICES ASSUME NEW j \in 1..Len(pipe')
               PROVE  /\ pipe'[j].k \notin {"FIRST", "START"} =>
                           LineBefore(bLine', pipe', j).f = pipe'[j].f
                      /\ pipe'[j].k \in EventKinds =>
                           pipe'[j].i <= Len(binlog[pipe'[j].f])
                      /\ Cov(binlog, base, Need(pipe'[j]), Reach(Accounted', pipe', j - 1))
    BY <1>3 DEF LinesCovered
  <2>1. j + 1 \in 1..Len(pipe) /\ pipe'[j] = pipe[j + 1] /\ j - 1 \in 0..Len(pipe')
    BY <1>7
  <2>2. LineBefore(bLine', pipe', j) = LineBefore(bLine, pipe, j + 1)
    BY <1>7, <1>11
  <2>3. Reach(Accounted, pipe, j) \subseteq Reach(Accounted', pipe', j - 1)
    <3>1. (j - 1) + 1 = j
      OBVIOUS
    <3> QED
      BY <1>8, <2>1, <3>1
  <2>4. /\ pipe[j + 1].k \notin {"FIRST", "START"} =>
             LineBefore(bLine, pipe, j + 1).f = pipe[j + 1].f
        /\ pipe[j + 1].k \in EventKinds =>
             pipe[j + 1].i <= Len(binlog[pipe[j + 1].f])
        /\ Cov(binlog, base, Need(pipe[j + 1]), Reach(Accounted, pipe, j))
    <3>1. (j + 1) - 1 = j
      OBVIOUS
    <3> QED
      BY <2>1, <3>1 DEF LinesCovered
  <2> QED
    BY <2>1, <2>2, <2>3, <2>4, CovMono
<1>12. LineCovered'
  <2>1. 1 \in 1..Len(pipe) /\ bLine' = pipe[1]
    BY <1>4, <1>7
  <2>2. /\ pipe[1].k \notin {"FIRST", "START"} => bLine.f = pipe[1].f
        /\ Cov(binlog, base, Need(pipe[1]), Reach(Accounted, pipe, 0))
    BY <2>1 DEF LinesCovered, LineBefore
  <2>3. Reach(Accounted, pipe, 0) = Accounted
    BY DEF Reach, InPipe
  <2>4. Cov(binlog, base, Need(bLine'), Accounted')
    BY <1>9, <2>1, <2>2, <2>3, CovMono
  <2>5. szBinLogName = bLine.f
    BY <1>4 DEF LineCovered
  <2>6. bLine'.k \in EventKinds => /\ bLine'.f \in 1..Len(binlog)
                                   /\ bLine'.i \in 1..Len(binlog[bLine'.f])
    <3>1. /\ bLine'.k \in EventKinds => bLine'.i <= Len(binlog[bLine'.f])
          /\ bLine' \in Line
      BY <1>7, <2>1 DEF LinesCovered
    <3>2. bLine'.k \in EventKinds => Need(bLine') = At(bLine'.f, bLine'.i)
      BY <3>1 DEF Need, MarkerKinds, EventKinds, EventTags, CarrierKinds
    <3> QED
      BY <2>4, <3>1, <3>2, FileType
         DEF Cov, Within, At, Line, TypeInv, TypeOK, ServerOK
  <2> QED
    BY <1>3, <1>4, <1>9, <2>1, <2>2, <2>4, <2>5, <2>6 DEF LineCovered
<1>13. PassCovered'
  <2>1. Reach(Accounted, pipe, Len(pipe)) \subseteq Reach(Accounted', pipe', Len(pipe'))
    <3>1. Len(pipe') \in 0..Len(pipe') /\ Len(pipe') + 1 = Len(pipe)
      BY <1>7
    <3> QED
      BY <1>8, <3>1
  <2>2. LineBefore(bLine', pipe', Len(pipe') + 1) = LineBefore(bLine, pipe, Len(pipe) + 1)
    BY <1>7, <1>11
  <2> QED
    BY <1>3, <1>9, <2>1, <2>2, CovMono DEF PassCovered
<1>15. TextFollows'
  <2>1. ASSUME NEW j \in 1..Len(pipe'),
               LineBefore(bLine', pipe', j).k \in EventTags
                 \/ pipe'[j].k \in CarrierKinds
        PROVE  IsTextOf(pipe'[j], LineBefore(bLine', pipe', j))
    <3>1. j + 1 \in 1..Len(pipe) /\ pipe'[j] = pipe[j + 1] /\ j \in 1..(Len(pipe') + 1)
      BY <1>7
    <3> QED
      BY <1>11, <2>1, <3>1 DEF TextFollows
  <2>2. LineBefore(bLine', pipe', Len(pipe') + 1) = LineBefore(bLine, pipe, Len(pipe) + 1)
    BY <1>7, <1>11
  <2> QED
    BY <1>3, <2>1, <2>2 DEF TextFollows
<1> QED
  BY <1>2, <1>3, <1>10, <1>12, <1>13, <1>14, <1>15

(* The other steps of B: the pipe and the capture stay as they are; what B *)
(* stores, saves and hands to M is good.                                   *)
LEMMA BTagCapture ==
  ASSUME Orderly, CaptureInv, TakeTurns, BNext, ~BWriteLine
  PROVE  CaptureInv'
<1> USE DEF CaptureInv
<1>1. TypeInv' /\ CaptureFlushed'
  BY BTypeInv, NextFlushed DEF Next
<1>2. UNCHANGED <<binlog, purged, mpc, nList, mFile, mIdx, base>>
  BY BFrame
<1>3. UNCHANGED <<pipe, bLine, cap, flushed, cut>>
  BY DEF BNext, BEndOfRow, BText, BStmt, BTransactionTag, BStartBinlog,
         BStorePosition, BSaveInDisk, BEndBinlog, BFirstBinlog, BLastBinlog,
         BSignalEnd, BExit, capVars,
         histVars
<1>13. Accounted' = Accounted
  BY <1>3, AccountedKept
<1>4. LinesCovered' /\ PassCovered' /\ TextFollows'
  BY <1>2, <1>3, <1>13, TextKept DEF LinesCovered, PassCovered
<1>5. /\ g_stBinLogSeqInProgess \in Position /\ g_stBinLogSeq \in Position
      /\ bLine \in Line /\ szBinLogName \in Nat
      /\ binlog \in Seq(Seq(Kinds))
  BY DEF TypeInv, TypeOK, PositionsOK, LinesOK, ServerOK
<1> SUFFICES Exclusion' /\ SeqCovered' /\ LineCovered'
  BY <1>1, <1>2, <1>3, <1>4
<1> USE DEF BGoto, seqVars
<1>6. CASE BText \/ BStmt \/ BEndBinlog \/ BFirstBinlog \/ BExit
  <2>1. /\ UNCHANGED <<g_stBinLogSeq, g_stBinLogSeqInProgess, xai>>
        /\ bpc \in {"tag", "read"} /\ bpc' \in {"read", "dead"}
        /\ szBinLogName' = bLine.f
    BY <1>6 DEF BText, BStmt, BEndBinlog, BFirstBinlog, BExit,
                LineCovered, CarrierKinds
  <2> QED
    BY <1>2, <1>3, <1>13, <2>1 DEF Exclusion, SeqCovered, LineCovered, Good
<1>7. CASE BEndOfRow \/ BSaveInDisk
  <2>1. /\ UNCHANGED <<g_stBinLogSeq, g_stBinLogSeqInProgess, szBinLogName>>
        /\ xai' = g_stBinLogSeqInProgess
        /\ \/ bpc = "rowend" /\ bpc' = "tag"
           \/ bpc = "save" /\ bpc' = "read"
        /\ mpc \notin {"setpos", "copypos"}
    BY <1>7 DEF BEndOfRow, BSaveInDisk, TakeTurns
  <2> QED
    BY <1>2, <1>3, <1>13, <2>1 DEF Exclusion, SeqCovered, LineCovered, Good
<1>8. CASE BTransactionTag
  <2>1. /\ UNCHANGED <<g_stBinLogSeq, xai, szBinLogName>>
        /\ bpc = "tag" /\ bpc' = "pos"
        /\ g_stBinLogSeqInProgess'.name = szBinLogName
        /\ bLine.k \in {"BEGIN", "QUERY", "COMMIT"}
        /\ mpc \notin {"setpos", "copypos"}
    BY <1>5, <1>8 DEF BTransactionTag, TakeTurns, Position
  <2> QED
    BY <1>2, <1>3, <1>13, <2>1 DEF Exclusion, SeqCovered, LineCovered, Good
<1>9. CASE BStartBinlog
  <2>1. /\ UNCHANGED <<g_stBinLogSeq, xai>>
        /\ bpc = "tag" /\ szBinLogName' = bLine.f /\ bLine.k = "START"
        /\ mpc \notin {"setpos", "copypos"}
        /\ \/ bpc' = "pos" /\ g_stBinLogSeqInProgess'.name = bLine.f
           \/ bpc' = "read" /\ UNCHANGED g_stBinLogSeqInProgess
    BY <1>5, <1>9 DEF BStartBinlog, TakeTurns, Position
  <2> QED
    BY <1>2, <1>3, <1>13, <2>1 DEF Exclusion, SeqCovered, LineCovered, Good
<1>10. CASE BStorePosition
  <2>1. /\ UNCHANGED <<g_stBinLogSeq, xai, szBinLogName>>
        /\ bpc = "pos" /\ bpc' \in {"save", "read"}
        /\ g_stBinLogSeqInProgess' = At(bLine.f, StoredPos(bLine))
    BY <1>5, <1>10 DEF BStorePosition, LineCovered, Position, At
  <2>2. /\ bLine.k \in {"BEGIN", "QUERY", "COMMIT", "START"}
        /\ Cov(binlog, base, Need(bLine), Accounted)
        /\ bLine.f \in Nat /\ bLine.i \in Nat
    BY <1>5, <2>1 DEF LineCovered, Line
  <2>3. Cov(binlog, base, At(bLine.f, StoredPos(bLine)), Accounted)
    <3>1. CASE bLine.k \in {"BEGIN", "START"}
      BY <2>2, <3>1 DEF StoredPos, Need, MarkerKinds, BIN_LOG_HEADER_SIZE
    <3>2. CASE bLine.k \in {"QUERY", "COMMIT"}
      <4>1. /\ bLine.i <= Len(binlog[bLine.f])
            /\ Accounted \cup {<<bLine.f, bLine.i>>} = Accounted
        BY <2>1, <3>2, FileType
           DEF LineCovered, EventKinds, EventTags, Accounted, Due, SavedOnTag
      <4>2. Need(bLine) = At(bLine.f, bLine.i)
        BY <3>2 DEF Need, MarkerKinds
      <4>3. StoredPos(bLine) = bLine.i + 1
        BY <3>2 DEF StoredPos
      <4>4. Cov(binlog, base, At(bLine.f, bLine.i + 1),
                Accounted \cup {<<bLine.f, bLine.i>>})
        BY <1>5, <2>2, <4>1, <4>2, CovStep
      <4> QED
        BY <4>1, <4>3, <4>4
    <3> QED
      BY <2>2, <3>1, <3>2
  <2> QED
    BY <1>2, <1>3, <1>13, <2>1, <2>3 DEF Exclusion, SeqCovered, LineCovered, Good
<1>11. CASE BLastBinlog
  <2>1. /\ UNCHANGED <<g_stBinLogSeqInProgess, xai, szBinLogName>>
        /\ bpc = "tag" /\ bLine.k = "LAST"
        /\ mpc \notin {"setpos", "copypos"}
        /\ \/ /\ bpc' = "seqpos"
              /\ g_stBinLogSeq'.name = g_stBinLogSeqInProgess.name
           \/ bpc' = "read" /\ UNCHANGED g_stBinLogSeq
    BY <1>5, <1>11 DEF BLastBinlog, TakeTurns, Position
  <2> QED
    BY <1>2, <1>3, <1>13, <2>1 DEF Exclusion, SeqCovered, LineCovered, Good
<1>12. CASE BSignalEnd
  <2>1. /\ UNCHANGED <<g_stBinLogSeqInProgess, xai, szBinLogName>>
        /\ bpc = "seqpos" /\ bpc' = "read"
        /\ g_stBinLogSeq' = g_stBinLogSeqInProgess
    BY <1>5, <1>12 DEF BSignalEnd, SeqCovered, Position
  <2> QED
    BY <1>2, <1>3, <1>13, <2>1 DEF Exclusion, SeqCovered, LineCovered, Good
<1> QED
  BY <1>6, <1>7, <1>8, <1>9, <1>10, <1>11, <1>12 DEF BNext

(* A process that ends records what was due before the saved position.     *)
LEMMA CutOffCovers ==
  ASSUME TypeInv, LineCovered, Good(xai), CutOff
  PROVE  \/ xai.name = 0
         \/ Cov(binlog, base, xai, InCapture(cap) \cup cut')
<1> SUFFICES ASSUME Cov(binlog, base, xai, Accounted)
             PROVE  Cov(binlog, base, xai, InCapture(cap) \cup cut')
  BY DEF Good
<1>1. ASSUME NEW f \in 1..Len(binlog), NEW i \in 1..Len(binlog[f]),
             f = xai.name \/ Readable,
             Before(<<f, i>>, xai), ~Before(<<f, i>>, base)
      PROVE  <<f, i>> \in InCapture(cap) \cup cut'
  <2>1. <<f, i>> \in InCapture(cap) \cup cut \cup Due
    BY <1>1 DEF Cov, Accounted
  <2>2. <<f, i>> \in Upto(xai)
    <3>1. /\ Len(binlog[f]) \in Nat /\ Len(binlog[f]) <= MaxEvents
          /\ MaxEvents \in Nat
      BY FileType, ConstantsAssumption DEF TypeInv, TypeOK, ServerOK
    <3> QED
      BY <1>1, <3>1 DEF Upto, Events
  <2>3. Captured = InCapture(cap)
    BY DEF Captured, InCapture
  <2> QED
    BY <2>1, <2>2, <2>3 DEF CutOff
<1> QED
  BY <1>1 DEF Cov

(* Whatever ends the process, the capture is on disk up to the last line;  *)
(* a new process starts from the saved position.                           *)
LEMMA ProcessCapture ==
  ASSUME Orderly, CaptureInv, ProcessNext
  PROVE  CaptureInv'
<1> USE DEF CaptureInv
<1>1. TypeInv' /\ CaptureFlushed'
  BY ProcessTypeInv, NextFlushed DEF Next
<1>2. CASE TStop
  <2>1. UNCHANGED <<binlog, purged, mpc, nList, mFile, mIdx, pipe, bpc, bLine,
                    szBinLogName, g_stBinLogSeq, g_stBinLogSeqInProgess, xai,
                    cap, flushed, base, cut>>
    BY <1>2 DEF TStop, serverVars, mVars, passVars, bVars, seqVars, capVars,
                histVars
  <2> QED
    BY <1>1, <2>1, AccountedKept, TextKept
       DEF Exclusion, SeqCovered, Good, LinesCovered, LineCovered, PassCovered
<1>3. ASSUME NEW pc \in {"off", "loop"}, NEW resume,
             resume = xai \/ resume = NoPosition, FreshProcess(pc, resume),
             UNCHANGED <<binlog, purged, xai, base, cap>>,
             CutOff \/ (~Running /\ UNCHANGED cut)
      PROVE  CaptureInv'
  <2>1. /\ mpc' \in {"off", "loop"} /\ bpc' \in {"dead", "read"}
        /\ pipe' = <<>> /\ bLine' = NoLine /\ szBinLogName' = 0
        /\ g_stBinLogSeq' = resume /\ g_stBinLogSeqInProgess' = NoPosition
    BY <1>3 DEF FreshProcess
  <2>5. Accounted' = InCapture(cap) \cup cut'
    BY <1>3, <2>1 DEF Accounted, InCapture, Due, NoLine, SavedOnTag
  <2>6. xai.name = 0 \/ Cov(binlog, base, xai, InCapture(cap) \cup cut')
    <3>1. CASE CutOff
      BY <3>1, CutOffCovers DEF SeqCovered
    <3>2. CASE ~Running /\ UNCHANGED cut
      <4>1. Due = {}
        BY <3>2 DEF CaptureFlushed, Due, NoLine, SavedOnTag
      <4>2. Accounted = InCapture(cap) \cup cut'
        BY <3>2, <4>1 DEF Accounted
      <4> QED
        BY <4>2 DEF SeqCovered, Good
    <3> QED
      BY <1>3, <3>1, <3>2
  <2>2. SeqCovered'
    BY <1>3, <2>1, <2>5, <2>6 DEF SeqCovered, Good, NoPosition
  <2>3. LinesCovered' /\ TextFollows'
    BY <2>1 DEF LinesCovered, TextFollows, IsTextOf, LineBefore, NoLine,
       EventTags
  <2>4. LineCovered' /\ PassCovered' /\ Exclusion'
    BY <2>1 DEF LineCovered, PassCovered, PassPcs, Exclusion, NoLine,
              EventKinds, EventTags, CarrierKinds, SavedOnTag
  <2> QED
    BY <1>1, <1>3, <2>2, <2>3, <2>4
<1>4. CASE ProcessExit \/ BWriteFails
  BY <1>3, <1>4 DEF ProcessExit, BWriteFails, ExitFlushed, serverVars, histVars
<1>5. CASE Kill
  <2>1. cap' = cap
    <3>1. cap \in Seq(Nat \X Nat)
      BY DEF TypeInv, TypeOK, CaptureOK
    <3>2. cap' = SubSeq(cap, 1, Len(cap))
      BY <1>5 DEF Kill, Orderly, CaptureFlushed
    <3> QED
      BY <3>1, <3>2
  <2> QED
    BY <1>3, <1>5, <2>1 DEF Kill, serverVars, histVars
<1>6. CASE ProcessStart
  BY <1>3, <1>6 DEF ProcessStart, serverVars, capVars
<1> QED
  BY <1>2, <1>4, <1>5, <1>6 DEF ProcessNext

(* Every step of a benign instance keeps every position covered.           *)
LEMMA NextCapture ==
  ASSUME Orderly, CaptureInv, HandshakeInv, [Next]_vars
  PROVE  CaptureInv'
<1>3. TakeTurns
  BY TurnsTaken DEF CaptureInv
<1>1. CASE Next
  BY <1>1, <1>3, PurgeCapture, ServerCapture, MCapture, BWriteCapture,
     BTagCapture, ProcessCapture
     DEF Next
<1>2. CASE UNCHANGED vars
  <2>1. TypeInv'
    BY <1>2, NextTypeInv DEF CaptureInv
  <2>2. UNCHANGED <<binlog, purged, mpc, nList, mFile, mIdx, pipe, bpc, bLine,
                    szBinLogName, g_stBinLogSeq, g_stBinLogSeqInProgess, xai,
                    cap, flushed, cut, base>>
    BY <1>2 DEF vars, serverVars, mVars, passVars, bVars, seqVars, capVars,
                histVars
  <2>3. Accounted' = Accounted
    BY <2>2, AccountedKept
  <2> QED
    BY <2>1, <2>2, <2>3
       DEF CaptureInv, Exclusion, CaptureFlushed, Running, SeqCovered, Good,
           TextFollows, LinesCovered, LineCovered, PassCovered
<1> QED
  BY <1>1, <1>2

(* When a kill loses no captured line, and M either never gives up waiting *)
(* or finds the shared sequences untorn, every event before a position on  *)
(* its way to the .XAI file is captured, or is the one whose text B is to  *)
(* write next, or was that when an earlier process ended - whatever the    *)
(* server, the dumps, the timeouts, the lists, the disk, kills and         *)
(* restarts do.                                                            *)
THEOREM CaptureCovered == Orderly => (Spec => []CaptureInv)
<1> SUFFICES ASSUME Orderly PROVE Spec => []CaptureInv
  OBVIOUS
<1>1. Init => CaptureInv
  BY InitCapture
<1>2. CaptureInv /\ HandshakeInv /\ [Next]_vars => CaptureInv'
  BY NextCapture
<1> QED
  BY <1>1, <1>2, PassesMeet, PTL DEF Spec

(* The events before a position, one by one.                               *)
LEMMA UptoEvent ==
  ASSUME NEW p, NEW e \in Upto(p)
  PROVE  /\ e = <<e[1], e[2]>>
         /\ e[1] \in 1..Len(binlog) /\ e[2] \in 1..Len(binlog[e[1]])
         /\ Before(e, p) /\ ~Before(e, base)
<1>1. /\ e \in (1..Len(binlog)) \X (1..MaxEvents)
      /\ e[2] <= Len(binlog[e[1]])
      /\ Before(e, p) /\ ~Before(e, base)
  BY DEF Upto, Events
<1> QED
  BY <1>1, ConstantsAssumption

(* Nothing lies before the position of a sequence that was never set.      *)
LEMMA UptoNone ==
  ASSUME TypeInv, NEW p, p.name = 0
  PROVE  Upto(p) = {}
  BY DEF Upto, Events, Before, TypeInv, TypeOK, ServerOK

(* What is accounted for in terms of the properties' own definitions.      *)
LEMMA AccountedSplit == Accounted = Captured \cup cut \cup Due
  BY DEF Accounted, Captured, InCapture

(* Coverage in terms of the properties' own definitions.                   *)
LEMMA CovUpto ==
  ASSUME NEW p, Cov(binlog, base, p, Accounted), Readable
  PROVE  Upto(p) \subseteq Captured \cup cut \cup Due
<1> SUFFICES ASSUME NEW e \in Upto(p) PROVE e \in Accounted
  BY AccountedSplit
<1> QED
  BY UptoEvent DEF Cov

(* NoLoss for every number of binlogs, events, timeouts, kills and         *)
(* restarts: what lies before the position in the .XAI file is captured,   *)
(* but for the text of the tag it was saved on - due while the process     *)
(* runs, cut off when it ended there.                                      *)
THEOREM NothingLost == Benign => (Spec => []NoLoss)
<1> SUFFICES ASSUME Benign PROVE Spec => []NoLoss
  OBVIOUS
<1>1. CaptureInv => NoLoss
  <2> SUFFICES ASSUME CaptureInv PROVE NoLoss
    OBVIOUS
  <2>1. CASE Cov(binlog, base, xai, Accounted)
    BY <2>1, CovUpto DEF NoLoss, Benign
  <2>2. CASE xai.name = 0
    BY <2>2, UptoNone DEF NoLoss, CaptureInv
  <2> QED
    BY <2>1, <2>2 DEF CaptureInv, SeqCovered, Good
<1> QED
  BY <1>1, CaptureCovered, PTL DEF Benign

(* Without a flush per line: when the process has ended by itself, the     *)
(* disk holds everything before the position in the .XAI file but the      *)
(* texts that were due when a process ended.                               *)
THEOREM NothingLostOnExit == Benign => (Spec => []NoLossOnExit)
<1> SUFFICES ASSUME Benign PROVE Spec => []NoLossOnExit
  OBVIOUS
<1>1. CaptureInv /\ NoLoss => NoLossOnExit
  <2> SUFFICES ASSUME CaptureInv, NoLoss, ~Running
               PROVE  Upto(xai) \subseteq OnDisk \cup cut
    BY DEF NoLossOnExit
  <2>1. OnDisk = Captured /\ Due = {}
    BY DEF OnDisk, Captured, CaptureInv, CaptureFlushed, Due, NoLine, SavedOnTag
  <2> QED
    BY <2>1 DEF NoLoss
<1> QED
  BY <1>1, CaptureCovered, NothingLost, PTL DEF Benign

(* A pass of ReadJournal only resumes behind events that are captured or   *)
(* cut off - or the one whose text is the next line of B, when M made the  *)
(* copy after a timeout and not B at the LAST tag.                         *)
THEOREM ResumesBehindCapture == Benign => (Spec => []ResumeCaptured)
<1> SUFFICES ASSUME Benign PROVE Spec => []ResumeCaptured
  OBVIOUS
<1>1. CaptureInv => ResumeCaptured
  BY CovUpto DEF CaptureInv, PassCovered, ResumeCaptured, Benign
<1> QED
  BY <1>1, CaptureCovered, PTL DEF Benign

(* What failing dumps and purged binlogs leave of NoLoss: within the file  *)
(* the .XAI file names nothing before the saved position is missing, but   *)
(* for a text that is due or was cut off.                                  *)
THEOREM NoGapInSavedFile == Orderly => (Spec => []NoGapInFile)
<1> SUFFICES ASSUME Orderly PROVE Spec => []NoGapInFile
  OBVIOUS
<1>1. CaptureInv => NoGapInFile
  <2> SUFFICES ASSUME CaptureInv, NEW e \in Upto(xai), e[1] = xai.name
               PROVE  e \in Captured \cup cut \cup Due
    BY DEF NoGapInFile
  <2>1. Cov(binlog, base, xai, Accounted)
    BY UptoNone DEF CaptureInv, SeqCovered, Good
  <2>2. e \in Accounted
    BY <2>1, UptoEvent DEF Cov
  <2> QED
    BY <2>2, AccountedSplit
<1> QED
  BY <1>1, CaptureCovered, PTL

=============================================================================
