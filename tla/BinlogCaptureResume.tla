------------------------ MODULE BinlogCaptureResume ------------------------
(***************************************************************************)
(* A restarted capture opens with a whole transaction, as long as no       *)
(* savepoint is logged inside one: every position on its way to the .XAI   *)
(* file lies between two transactions.                                     *)
(***************************************************************************)
EXTENDS BinlogCaptureService

-----------------------------------------------------------------------------
(* The lines and their events *)

(* The lines thread M prints are true.                                     *)
LEMMA PrintTrue ==
  ASSUME TypeInv, LinesTrue, MNext
  PROVE  \/ UNCHANGED pipe
         \/ \E l \in Line : LineTrue(l) /\ pipe' = Append(pipe, l)
<1>1. mFile \in Nat /\ mIdx \in Nat
  BY DEF TypeInv, TypeOK, ThreadsOK
<1>2. CASE MPrintFirst \/ MPrintStart \/ MPrintEnd \/ MPrintLast
  <2>1. PICK k \in MarkerKinds : pipe' = Append(pipe, Marker(k, mFile))
    BY <1>2 DEF MPrintFirst, MPrintStart, MPrintEnd, MPrintLast, PrintLine,
       MarkerKinds
  <2>2. Marker(k, mFile) \in Line /\ LineTrue(Marker(k, mFile))
    BY <1>1, LineType
       DEF Marker, LineTrue, MarkerKinds, EventKinds, EventTags, CarrierKinds
  <2> QED
    BY <2>1, <2>2
<1>3. CASE MDumpEvent \/ MDumpText
  <2> DEFINE kind == binlog[mFile][mIdx]
  <2>1. PICK k \in {TagOf(kind), TextOf(kind)} :
          pipe' = Append(pipe, EventLine(k, mFile, mIdx))
    BY <1>3 DEF MDumpEvent, MDumpText, PrintLine
  <2>2. mFile \in 1..Len(binlog) /\ mIdx \in 1..Len(binlog[mFile])
    BY <1>1, <1>3, FileType
       DEF MDumpEvent, MDumpText, TypeInv, TypeOK, ThreadsOK, ServerOK, PassOK,
           PassPcs
  <2>3. kind \in Kinds
    BY <2>2 DEF TypeInv, TypeOK, ServerOK
  <2>4. k \in EventKinds
    BY <2>1, <2>3, LineType DEF EventKinds
  <2>5. EventLine(k, mFile, mIdx) \in Line
    BY <1>1, <2>4, LineType
  <2>6. LineTrue(EventLine(k, mFile, mIdx))
    BY <2>1, <2>2 DEF EventLine, LineTrue
  <2> QED
    BY <2>1, <2>5, <2>6
<1>5. CASE ~(\/ MPrintFirst \/ MPrintStart \/ MPrintEnd \/ MPrintLast
             \/ MDumpEvent \/ MDumpText)
  BY <1>5 DEF MNext, MLoadBinLog, MLoadBinLogFails, MLoadMasterStatus,
       MLoadMasterStatusFails, MSetName, MSetPos, MConnect, MDumpFails,
       MDumpEof, MWaitSignalled, MWaitTimeout, MCopyName, MCopyPos,
       MCheck, MCheckAlive, MSeesExit
<1> QED
  BY <1>2, <1>3, <1>5

(* The binlogs only grow: a line stays true.                               *)
LEMMA NextLinesTrue ==
  ASSUME TypeInv, LinesTrue, [Next]_vars
  PROVE  LinesTrue'
<1>1. pipe \in Seq(Line) /\ bLine \in Line
  BY DEF TypeInv, TypeOK, LinesOK
<1>2. CASE ServerNext
  <2>1. UNCHANGED <<pipe, bLine, mpc, mFile, mIdx>>
    BY <1>2 DEF ServerNext, Commit, Rotate, Purge, mVars, passVars, bVars
  <2>2. ASSUME NEW l, LineTrue(l) PROVE LineTrue(l)'
    BY <1>2, <2>2, ServerEffect DEF LineTrue
  <2> QED
    BY <2>1, <2>2 DEF LinesTrue
<1>3. CASE MNext
  <2>1. UNCHANGED <<binlog, bLine>>
    BY <1>3, MFrame
  <2>2. \A j \in 1..Len(pipe') : LineTrue(pipe'[j])
    <3>1. CASE UNCHANGED pipe
      BY <3>1 DEF LinesTrue
    <3>2. ASSUME NEW l \in Line, LineTrue(l), pipe' = Append(pipe, l)
          PROVE  \A j \in 1..Len(pipe') : LineTrue(pipe'[j])
      <4>1. /\ Len(pipe') = Len(pipe) + 1 /\ Len(pipe) \in Nat
            /\ \A j \in 1..Len(pipe) : pipe'[j] = pipe[j]
            /\ pipe'[Len(pipe) + 1] = l
        BY <1>1, <3>2
      <4> QED
        BY <3>2, <4>1 DEF LinesTrue
    <3> QED
      BY <1>3, <3>1, <3>2, PrintTrue
  <2> QED
    BY <2>1, <2>2 DEF LinesTrue, LineTrue
<1>4. CASE BNext
  <2>1. UNCHANGED <<binlog, mpc, mFile, mIdx>>
    BY <1>4, BFrame
  <2>2. CASE BWriteLine
    <3>1. pipe # <<>> /\ pipe' = Tail(pipe) /\ bLine' = Head(pipe)
      BY <2>2 DEF BWriteLine
    <3>2. /\ Len(pipe) \in Nat \ {0} /\ Len(pipe') = Len(pipe) - 1
          /\ Head(pipe) = pipe[1]
          /\ \A j \in 1..Len(pipe') : pipe'[j] = pipe[j + 1]
      BY <1>1, <3>1
    <3>3. LineTrue(bLine') /\ \A j \in 1..Len(pipe') : LineTrue(pipe'[j])
      BY <3>1, <3>2 DEF LinesTrue
    <3> QED
      BY <2>1, <3>3 DEF LinesTrue, LineTrue
  <2>3. CASE ~BWriteLine
    <3>1. UNCHANGED <<pipe, bLine>>
      BY <1>4, <2>3
         DEF BNext, BEndOfRow, BText, BStmt, BTransactionTag, BStartBinlog,
             BStorePosition, BSaveInDisk, BEndBinlog, BFirstBinlog,
             BLastBinlog, BSignalEnd, BExit
    <3> QED
      BY <2>1, <3>1 DEF LinesTrue, LineTrue
  <2> QED
    BY <2>2, <2>3
<1>5. CASE TStop \/ UNCHANGED vars
  BY <1>5 DEF TStop, vars, serverVars, mVars, passVars, bVars, LinesTrue,
     LineTrue
<1>6. CASE ProcessExit \/ BWriteFails \/ Kill \/ ProcessStart
  <2>1. /\ pipe' = <<>> /\ bLine' = NoLine /\ mpc' \in {"off", "loop"}
        /\ UNCHANGED binlog
    BY <1>6 DEF ProcessExit, BWriteFails, Kill, ProcessStart, FreshProcess,
       serverVars
  <2> QED
    BY <2>1 DEF LinesTrue, LineTrue, NoLine, EventKinds, EventTags, CarrierKinds
<1> QED
  BY <1>2, <1>3, <1>4, <1>5, <1>6 DEF Next, ProcessNext

(* Every line names an event of the binlogs, and is of its kind.           *)
THEOREM TagsTrue == Spec => []LinesTrue
<1>1. Init => LinesTrue
  BY DEF Init, LinesTrue, LineTrue, NoLine, EventKinds, EventTags,
     CarrierKinds
<1>2. TypeInv /\ LinesTrue /\ [Next]_vars => LinesTrue'
  BY NextLinesTrue
<1>3. Spec => []TypeInv
  BY InitTypeInv, NextTypeInv, PTL DEF Spec
<1> QED
  BY <1>1, <1>2, <1>3, PTL DEF Spec

-----------------------------------------------------------------------------
(* Boundaries *)

(* A group is added behind whole transactions.                             *)
LEMMA DelimitedConcat ==
  ASSUME NEW s \in Seq(Kinds), NEW g \in Seq(Kinds), Delimited(s), Delimited(g)
  PROVE  /\ Delimited(s \o g)
         /\ \A i \in 1..Len(s) : (s \o g)[i] = s[i]
         /\ g # <<>> => (s \o g)[Len(s) + 1] = "begin"
<1>1. /\ Len(s) \in Nat /\ Len(g) \in Nat /\ Len(s \o g) = Len(s) + Len(g)
      /\ \A i \in 1..Len(s) : (s \o g)[i] = s[i]
      /\ \A i \in 1..Len(g) : (s \o g)[Len(s) + i] = g[i]
  OBVIOUS
<1> DEFINE t == s \o g
<1> HIDE DEF t
<1>2. g # <<>> => t[Len(s) + 1] = "begin"
  <2> SUFFICES ASSUME g # <<>> PROVE t[Len(s) + 1] = "begin"
    OBVIOUS
  <2>1. 1 \in 1..Len(g)
    OBVIOUS
  <2> QED
    BY <1>1, <2>1 DEF Delimited, t
<1>3. ASSUME NEW i \in 1..Len(t), i = 1 \/ t[i - 1] \in {"query", "xid"}
      PROVE  t[i] = "begin"
  <2>1. CASE i <= Len(s)
    <3>1. i = 1 \/ i - 1 \in 1..Len(s)
      BY <1>1, <2>1
    <3>2. t[i] = s[i] /\ (i = 1 \/ t[i - 1] = s[i - 1])
      BY <1>1, <2>1, <3>1 DEF t
    <3> QED
      BY <1>3, <2>1, <3>2 DEF Delimited
  <2>2. CASE i = Len(s) + 1
    BY <1>1, <1>2, <2>2 DEF t
  <2>3. CASE i > Len(s) + 1
    <3> DEFINE k == i - Len(s)
    <3>1. k \in 1..Len(g) /\ k - 1 \in 1..Len(g) /\ k # 1
      BY <1>1, <2>3 DEF t
    <3>2. t[Len(s) + k] = g[k] /\ t[Len(s) + (k - 1)] = g[k - 1]
      BY <1>1, <3>1 DEF t
    <3>3. Len(s) + k = i /\ Len(s) + (k - 1) = i - 1 /\ i # 1
      BY <1>1, <2>3
    <3> HIDE DEF k
    <3> QED
      BY <1>3, <3>1, <3>2, <3>3 DEF Delimited
  <2> QED
    BY <1>1, <2>1, <2>2, <2>3 DEF t
<1> QED
  BY <1>1, <1>2, <1>3 DEF Delimited, t

(* What the server appends opens with a begin; nothing else changes.       *)
LEMMA ServerDelimited ==
  ASSUME TypeInv, GroupsDelimited, ServerNext,
         \A f \in 1..Len(binlog) : Delimited(binlog[f])
  PROVE  /\ \A f \in 1..Len(binlog') : Delimited(binlog'[f])
         /\ \A f \in 1..Len(binlog) :
              /\ \A i \in 1..Len(binlog[f]) : binlog'[f][i] = binlog[f][i]
              /\ Len(binlog[f]) < Len(binlog'[f]) =>
                   binlog'[f][Len(binlog[f]) + 1] = "begin"
<1>1. binlog \in Seq(Seq(Kinds)) /\ Len(binlog) \in Nat \ {0}
  BY DEF TypeInv, TypeOK, ServerOK
<1>2. \A f \in 1..Len(binlog) : Len(binlog[f]) \in Nat
  BY <1>1, FileType
<1>3. ASSUME NEW g \in Groups, Commit(g)
      PROVE  /\ \A f \in 1..Len(binlog') : Delimited(binlog'[f])
             /\ \A f \in 1..Len(binlog) :
                  /\ \A i \in 1..Len(binlog[f]) : binlog'[f][i] = binlog[f][i]
                  /\ Len(binlog[f]) < Len(binlog'[f]) =>
                       binlog'[f][Len(binlog[f]) + 1] = "begin"
  <2> DEFINE n == Len(binlog)
  <2>1. /\ binlog' = [binlog EXCEPT ![n] = @ \o g]
        /\ g \in Seq(Kinds) /\ Delimited(g)
    BY <1>3, ConstantsAssumption DEF Commit, GroupsDelimited
  <2>2. /\ Len(binlog') = n
        /\ binlog'[n] = binlog[n] \o g
        /\ \A f \in 1..n : f # n => binlog'[f] = binlog[f]
    BY <1>1, <2>1
  <2>3. n \in 1..n /\ binlog[n] \in Seq(Kinds) /\ Delimited(binlog[n])
    BY <1>1, FileType
  <2>4. /\ Delimited(binlog'[n])
        /\ \A i \in 1..Len(binlog[n]) : binlog'[n][i] = binlog[n][i]
        /\ g # <<>> => binlog'[n][Len(binlog[n]) + 1] = "begin"
    <3> DEFINE s == binlog[n]
    <3>1. s \in Seq(Kinds) /\ Delimited(s) /\ binlog'[n] = s \o g
      BY <2>2, <2>3
    <3> HIDE DEF s
    <3>2. /\ Delimited(s \o g)
          /\ \A i \in 1..Len(s) : (s \o g)[i] = s[i]
          /\ g # <<>> => (s \o g)[Len(s) + 1] = "begin"
      BY <2>1, <3>1, DelimitedConcat
    <3> QED
      BY <3>1, <3>2 DEF s
  <2>5. g = <<>> => Len(binlog'[n]) = Len(binlog[n])
    BY <2>2, <2>3
  <2> HIDE DEF n
  <2>6. ASSUME NEW f \in 1..n
        PROVE  /\ Delimited(binlog'[f])
               /\ \A i \in 1..Len(binlog[f]) : binlog'[f][i] = binlog[f][i]
               /\ Len(binlog[f]) < Len(binlog'[f]) =>
                    binlog'[f][Len(binlog[f]) + 1] = "begin"
    <3>1. CASE f = n
      BY <1>2, <2>3, <2>4, <2>5, <3>1 DEF n
    <3>2. CASE f # n
      BY <1>2, <2>2, <3>2 DEF n
    <3> QED
      BY <3>1, <3>2
  <2> QED
    BY <2>2, <2>6 DEF n
<1>4. CASE Rotate
  <2>1. binlog' = Append(binlog, <<>>)
    BY <1>4 DEF Rotate
  <2>2. /\ Len(binlog') = Len(binlog) + 1
        /\ \A f \in 1..Len(binlog) : binlog'[f] = binlog[f]
        /\ binlog'[Len(binlog) + 1] = <<>>
    BY <1>1, <2>1
  <2>3. Delimited(<<>>)
    BY DEF Delimited
  <2>4. ASSUME NEW f \in 1..Len(binlog') PROVE Delimited(binlog'[f])
    BY <1>1, <2>2, <2>3
  <2>5. ASSUME NEW f \in 1..Len(binlog)
        PROVE  binlog'[f] = binlog[f] /\ Len(binlog'[f]) = Len(binlog[f])
    BY <2>2
  <2> QED
    BY <1>2, <2>4, <2>5
<1>5. CASE Purge
  BY <1>2, <1>5 DEF Purge
<1> QED
  BY <1>3, <1>4, <1>5 DEF ServerNext

(* Commits and rotations leave every boundary a boundary.                  *)
LEMMA ServerBoundary ==
  ASSUME CaptureInv, GroupsDelimited, BoundaryInv, ServerNext
  PROVE  BoundaryInv'
<1>1. UNCHANGED <<mpc, mFile, mIdx, bpc, g_stBinLogSeq,
                  g_stBinLogSeqInProgess, xai>>
  BY DEF ServerNext, Commit, Rotate, Purge, mVars, passVars, bVars, seqVars
<1>2. TypeInv
  BY DEF CaptureInv
<1>3. /\ \A f \in 1..Len(binlog') : Delimited(binlog'[f])
      /\ \A f \in 1..Len(binlog) :
           /\ \A i \in 1..Len(binlog[f]) : binlog'[f][i] = binlog[f][i]
           /\ Len(binlog[f]) < Len(binlog'[f]) =>
                binlog'[f][Len(binlog[f]) + 1] = "begin"
  BY <1>2, ServerDelimited DEF BoundaryInv
<1>4. ASSUME NEW p \in Position, AtBoundary(p)
      PROVE  AtBoundary(p)'
  <2>1. /\ p.name \in 1..Len(binlog)
        /\ p.pos \in 1..(Len(binlog[p.name]) + 1)
        /\ p.pos <= Len(binlog[p.name]) => binlog[p.name][p.pos] = "begin"
    BY <1>4 DEF AtBoundary, Within
  <2>2. /\ Len(binlog) \in Nat /\ Len(binlog') \in Nat
        /\ Len(binlog') >= Len(binlog)
        /\ Len(binlog[p.name]) \in Nat /\ Len(binlog'[p.name]) \in Nat
        /\ Len(binlog'[p.name]) >= Len(binlog[p.name])
    BY <1>2, <2>1, ServerEffect
  <2>3. p.pos <= Len(binlog'[p.name]) => binlog'[p.name][p.pos] = "begin"
    <3> DEFINE s == binlog[p.name]
               t == binlog'[p.name]
    <3>1. /\ \A i \in 1..Len(s) : t[i] = s[i]
          /\ Len(s) < Len(t) => t[Len(s) + 1] = "begin"
      BY <1>3, <2>1
    <3>2. /\ Len(s) \in Nat /\ Len(t) \in Nat /\ Len(t) >= Len(s)
          /\ p.pos \in 1..(Len(s) + 1)
          /\ p.pos <= Len(s) => s[p.pos] = "begin"
      BY <2>1, <2>2
    <3> HIDE DEF s, t
    <3>3. p.pos <= Len(t) => t[p.pos] = "begin"
      BY <3>1, <3>2
    <3> QED
      BY <3>3 DEF t
  <2> QED
    BY <2>1, <2>2, <2>3 DEF AtBoundary, Within
<1>6. /\ xai \in Position /\ g_stBinLogSeq \in Position
      /\ g_stBinLogSeqInProgess \in Position /\ At(mFile, mIdx) \in Position
  BY <1>2 DEF TypeInv, TypeOK, PositionsOK, ThreadsOK, At, Position
<1>7. /\ Startable(xai)'
      /\ mpc # "setpos" /\ bpc # "pos" => Startable(g_stBinLogSeqInProgess)'
      /\ mpc # "copypos" /\ bpc # "seqpos" => Startable(g_stBinLogSeq)'
      /\ mpc \in {"first", "setname", "setpos"} => AtBoundary(At(mFile, mIdx))'
  BY <1>1, <1>4, <1>6 DEF BoundaryInv, Startable, AtBoundary
<1> QED
  BY <1>1, <1>3, <1>7 DEF BoundaryInv

(* A step that stores no position.                                         *)
LEMMA QuietBoundary ==
  ASSUME BoundaryInv,
         UNCHANGED <<binlog, bpc, g_stBinLogSeq, g_stBinLogSeqInProgess, xai>>,
         mpc \notin {"setpos", "copypos"},
         mpc' \in {"first", "setname", "setpos"} =>
           AtBoundary(At(mFile', mIdx'))
  PROVE  BoundaryInv'
<1>1. mpc' \in {"first", "setname", "setpos"} => AtBoundary(At(mFile, mIdx))'
  BY DEF AtBoundary
<1> QED
  BY <1>1 DEF BoundaryInv, Startable, AtBoundary

(* Thread M resumes where its sequence says, and copies B's.               *)
LEMMA MBoundary ==
  ASSUME CaptureInv, TakeTurns, BoundaryInv, MNext
  PROVE  BoundaryInv'
<1> USE DEF MGoto
<1>1. /\ UNCHANGED <<binlog, bpc>>
      /\ TypeInv /\ Exclusion /\ SeqCovered
  BY MFrame DEF CaptureInv
<1>3. /\ g_stBinLogSeq \in Position /\ g_stBinLogSeqInProgess \in Position
      /\ mFile \in Nat /\ mIdx \in Nat /\ purged \in Nat
  BY <1>1 DEF TypeInv, TypeOK, PositionsOK, ThreadsOK, ServerOK
<1>4. ASSUME NEW n \in 0..Len(binlog), MLoadBinLog(n)
      PROVE  BoundaryInv'
  <2>1. /\ mpc = "loop" /\ bpc # "seqpos"
        /\ UNCHANGED <<g_stBinLogSeq, g_stBinLogSeqInProgess, xai>>
        /\ \/ /\ mpc' = "first" /\ g_stBinLogSeq.name # 0
              /\ mFile' = g_stBinLogSeq.name /\ mIdx' = g_stBinLogSeq.pos
           \/ mpc' \in {"status", "check"}
    <3>1. mpc = "loop"
      BY <1>4 DEF MLoadBinLog
    <3>2. bpc # "seqpos"
      BY <1>4 DEF MLoadBinLog, TakeTurns
    <3> QED
      BY <1>1, <1>3, <1>4, <3>1, <3>2, LoadEffect
  <2>2. mpc' = "first" => AtBoundary(At(mFile', mIdx'))
    <3> SUFFICES ASSUME mpc' = "first" PROVE AtBoundary(At(mFile', mIdx'))
      OBVIOUS
    <3>1. AtBoundary(g_stBinLogSeq)
      BY <2>1 DEF BoundaryInv, Startable
    <3>2. At(mFile', mIdx') = g_stBinLogSeq
      BY <1>3, <2>1 DEF At, Position
    <3> QED
      BY <3>1, <3>2
  <2> QED
    BY <1>1, <2>1, <2>2, QuietBoundary
<1>5. CASE MLoadMasterStatus
  <2> DEFINE end == At(Len(binlog), Len(binlog[Len(binlog)]) + 1)
  <2>1. /\ xai' = end /\ g_stBinLogSeq' = end
        /\ mpc = "status" /\ mpc' = "check"
        /\ UNCHANGED g_stBinLogSeqInProgess
    BY <1>5 DEF MLoadMasterStatus
  <2>2. AtBoundary(end)
    <3>1. Len(binlog) \in 1..Len(binlog) /\ Len(binlog[Len(binlog)]) \in Nat
      BY <1>1, FileType DEF TypeInv, TypeOK, ServerOK
    <3> QED
      BY <3>1 DEF AtBoundary, Within, At
  <2> QED
    BY <1>1, <2>1, <2>2 DEF BoundaryInv, Startable, AtBoundary
<1>6. CASE MSetName
  <2>1. /\ mpc' = "setpos" /\ mpc = "setname" /\ bpc \notin {"pos", "seqpos"}
        /\ UNCHANGED <<xai, g_stBinLogSeq, mFile, mIdx>>
    BY <1>1, <1>6 DEF MSetName, TakeTurns, passVars
  <2> QED
    BY <1>1, <2>1 DEF BoundaryInv, Startable, AtBoundary
<1>7. CASE MSetPos
  <2>1. /\ mpc = "setpos" /\ mpc' = "start" /\ bpc \notin {"pos", "seqpos"}
        /\ UNCHANGED <<xai, g_stBinLogSeq>>
        /\ g_stBinLogSeqInProgess' = [g_stBinLogSeqInProgess EXCEPT !.pos = mIdx]
        /\ g_stBinLogSeqInProgess.name = mFile
    BY <1>1, <1>7 DEF MSetPos, Exclusion, SeqCovered
  <2>2. g_stBinLogSeqInProgess' = At(mFile, mIdx)
    BY <1>3, <2>1 DEF At, Position
  <2>3. AtBoundary(At(mFile, mIdx))
    BY <2>1 DEF BoundaryInv
  <2> QED
    BY <1>1, <2>1, <2>2, <2>3 DEF BoundaryInv, Startable, AtBoundary
<1>8. CASE MCopyName
  <2>1. /\ mpc = "copyname" /\ mpc' = "copypos" /\ bpc \notin {"pos", "seqpos"}
        /\ UNCHANGED <<xai, g_stBinLogSeqInProgess>>
    BY <1>1, <1>8 DEF MCopyName, TakeTurns
  <2> QED
    BY <1>1, <2>1 DEF BoundaryInv, Startable, AtBoundary
<1>9. CASE MCopyPos
  <2>1. /\ mpc = "copypos" /\ mpc' = "check" /\ bpc \notin {"pos", "seqpos"}
        /\ UNCHANGED <<xai, g_stBinLogSeqInProgess>>
        /\ g_stBinLogSeq' =
             [g_stBinLogSeq EXCEPT !.pos = g_stBinLogSeqInProgess.pos]
        /\ g_stBinLogSeq.name = g_stBinLogSeqInProgess.name
    BY <1>1, <1>9 DEF MCopyPos, CopiedPos, Exclusion, SeqCovered
  <2>2. g_stBinLogSeq' = g_stBinLogSeqInProgess
    BY <1>3, <2>1 DEF Position
  <2> QED
    BY <1>1, <2>1, <2>2 DEF BoundaryInv, Startable, AtBoundary
<1>10. CASE MPrintFirst
  <2>1. /\ mpc = "first" /\ UNCHANGED <<mFile, mIdx, g_stBinLogSeq,
             g_stBinLogSeqInProgess, xai>>
    BY <1>10 DEF MPrintFirst, passVars, seqVars
  <2>2. AtBoundary(At(mFile', mIdx'))
    BY <2>1 DEF BoundaryInv
  <2> QED
    BY <1>1, <2>1, <2>2, QuietBoundary
<1>11. CASE \/ MLoadBinLogFails \/ MLoadMasterStatusFails \/ MPrintStart
            \/ MConnect \/ MDumpFails \/ MDumpEvent \/ MDumpText \/ MDumpEof
            \/ MPrintEnd \/ MPrintLast \/ MWaitSignalled \/ MWaitTimeout
            \/ MCheck \/ MCheckAlive \/ MSeesExit
  <2>1. /\ mpc \notin {"setpos", "copypos"}
        /\ mpc' \notin {"first", "setname", "setpos"}
        /\ UNCHANGED <<g_stBinLogSeq, g_stBinLogSeqInProgess, xai>>
    BY <1>11 DEF MLoadBinLogFails, MLoadMasterStatusFails, MPrintStart,
       MConnect, MDumpFails, MDumpEvent, MDumpText, MDumpEof, MPrintEnd,
       MPrintLast, MWaitSignalled, MWaitTimeout, MCheck, MCheckAlive,
       MSeesExit, seqVars
  <2> QED
    BY <1>1, <2>1, QuietBoundary
<1> QED
  BY <1>4, <1>5, <1>6, <1>7, <1>8, <1>9, <1>10, <1>11 DEF MNext

(* The position of a true tag is a boundary: the start of BEGIN, the end   *)
(* of QUERY and COMMIT, the start of a file.                               *)
LEMMA StoredBoundary ==
  ASSUME TypeInv, BoundaryInv, NEW l \in Line, LineTrue(l),
         l.k \in {"BEGIN", "QUERY", "COMMIT", "START"},
         l.f \in 1..Len(binlog)
  PROVE  AtBoundary(At(l.f, StoredPos(l)))
<1> DEFINE s == binlog[l.f]
<1>1. Len(s) \in Nat /\ s \in Seq(Kinds) /\ Delimited(s)
  BY FileType DEF TypeInv, TypeOK, ServerOK, BoundaryInv
<1>2. l.k # "START" => /\ l.i \in 1..Len(s) /\ s[l.i] \in Kinds
                       /\ l.k \in {TagOf(s[l.i]), TextOf(s[l.i])}
  BY <1>1 DEF LineTrue, EventKinds, EventTags
<1>3. /\ l.k = "BEGIN" => s[l.i] = "begin"
      /\ l.k = "QUERY" => s[l.i] = "query"
      /\ l.k = "COMMIT" => s[l.i] = "xid"
  BY <1>2 DEF TagOf, TextOf, Kinds
<1> HIDE DEF s
<1>4. CASE l.k = "BEGIN"
  <2>1. StoredPos(l) = l.i
    BY <1>4 DEF StoredPos
  <2> QED
    BY <1>1, <1>2, <1>3, <1>4, <2>1 DEF AtBoundary, Within, At, s
<1>5. CASE l.k \in {"QUERY", "COMMIT"}
  <2>1. StoredPos(l) = l.i + 1
    BY <1>5 DEF StoredPos
  <2>2. l.i + 1 \in 1..(Len(s) + 1) /\ (l.i + 1) - 1 = l.i
    BY <1>1, <1>2, <1>5
  <2>3. l.i + 1 <= Len(s) => s[l.i + 1] = "begin"
    BY <1>1, <1>3, <1>5, <2>2 DEF Delimited
  <2> QED
    BY <2>1, <2>2, <2>3 DEF AtBoundary, Within, At, s
<1>6. CASE l.k = "START"
  <2>1. StoredPos(l) = 1
    BY <1>6 DEF StoredPos, BIN_LOG_HEADER_SIZE
  <2>2. 1 <= Len(s) => s[1] = "begin"
    BY <1>1 DEF Delimited
  <2> QED
    BY <1>1, <2>1, <2>2 DEF AtBoundary, Within, At, s
<1> QED
  BY <1>4, <1>5, <1>6

(* Thread B stores the position of its line, saves it and copies it for M. *)
LEMMA BBoundary ==
  ASSUME CaptureInv, TakeTurns, LinesTrue, BoundaryInv, BNext
  PROVE  BoundaryInv'
<1> USE DEF BGoto
<1>1. /\ UNCHANGED <<binlog, mpc, mFile, mIdx>>
      /\ TypeInv /\ Exclusion /\ SeqCovered /\ LineCovered
      /\ bLine \in Line
      /\ g_stBinLogSeq \in Position /\ g_stBinLogSeqInProgess \in Position
  BY BFrame DEF CaptureInv, TypeInv, TypeOK, LinesOK, PositionsOK
<1>2. CASE BWriteLine
  <2>1. /\ bpc = "read" /\ bpc' \in {"rowend", "tag"}
        /\ UNCHANGED <<xai, g_stBinLogSeq, g_stBinLogSeqInProgess>>
    BY <1>2 DEF BWriteLine, seqVars
  <2> QED
    BY <1>1, <2>1 DEF BoundaryInv, Startable, AtBoundary
<1>3. CASE BEndOfRow \/ BSaveInDisk
  <2>1. /\ xai' = g_stBinLogSeqInProgess /\ mpc # "setpos"
        /\ \/ bpc = "save" /\ bpc' = "read"
           \/ bpc = "rowend" /\ bpc' = "tag"
        /\ UNCHANGED <<g_stBinLogSeq, g_stBinLogSeqInProgess>>
    BY <1>1, <1>3 DEF BEndOfRow, BSaveInDisk, TakeTurns, seqVars
  <2> QED
    BY <1>1, <2>1 DEF BoundaryInv, Startable, AtBoundary
<1>4. CASE BTransactionTag \/ BStartBinlog
  <2>1. /\ bpc = "tag" /\ mpc \notin {"setpos", "copypos"}
        /\ UNCHANGED <<xai, g_stBinLogSeq>>
        /\ \/ bpc' = "pos"
           \/ bpc' = "read" /\ UNCHANGED g_stBinLogSeqInProgess
    BY <1>1, <1>4 DEF BTransactionTag, BStartBinlog, TakeTurns
  <2> QED
    BY <1>1, <2>1 DEF BoundaryInv, Startable, AtBoundary
<1>5. CASE BStorePosition
  <2>1. /\ bpc = "pos" /\ bpc' \in {"save", "read"}
        /\ g_stBinLogSeqInProgess' =
             [g_stBinLogSeqInProgess EXCEPT !.pos = StoredPos(bLine)]
        /\ UNCHANGED <<xai, g_stBinLogSeq>>
    BY <1>5 DEF BStorePosition
  <2>2. /\ g_stBinLogSeqInProgess.name = bLine.f
        /\ bLine.k \in {"BEGIN", "QUERY", "COMMIT", "START"}
        /\ bLine.f \in 1..Len(binlog)
    BY <1>1, <2>1, NeedType DEF LineCovered, Cov, Within
  <2>3. g_stBinLogSeqInProgess' = At(bLine.f, StoredPos(bLine))
    BY <1>1, <2>1, <2>2 DEF At, Position
  <2>4. AtBoundary(At(bLine.f, StoredPos(bLine)))
    BY <1>1, <2>1, <2>2, StoredBoundary DEF LinesTrue
  <2> QED
    BY <1>1, <2>1, <2>3, <2>4 DEF BoundaryInv, Startable, AtBoundary
<1>6. CASE BLastBinlog
  <2>1. /\ bpc = "tag" /\ mpc \notin {"setpos", "copypos"}
        /\ UNCHANGED <<xai, g_stBinLogSeqInProgess>>
        /\ \/ bpc' = "seqpos"
           \/ bpc' = "read" /\ UNCHANGED g_stBinLogSeq
    BY <1>1, <1>6 DEF BLastBinlog, TakeTurns
  <2> QED
    BY <1>1, <2>1 DEF BoundaryInv, Startable, AtBoundary
<1>7. CASE BSignalEnd
  <2>1. /\ bpc = "seqpos" /\ bpc' = "read" /\ mpc \notin {"setpos", "copypos"}
        /\ g_stBinLogSeq' =
             [g_stBinLogSeq EXCEPT !.pos = g_stBinLogSeqInProgess.pos]
        /\ g_stBinLogSeq.name = g_stBinLogSeqInProgess.name
        /\ UNCHANGED <<xai, g_stBinLogSeqInProgess>>
    BY <1>1, <1>7 DEF BSignalEnd, Exclusion, SeqCovered
  <2>2. g_stBinLogSeq' = g_stBinLogSeqInProgess
    BY <1>1, <2>1 DEF Position
  <2> QED
    BY <1>1, <2>1, <2>2 DEF BoundaryInv, Startable, AtBoundary
<1>8. CASE BText \/ BStmt \/ BEndBinlog \/ BFirstBinlog \/ BExit
  <2>1. /\ bpc \in {"tag", "read"} /\ bpc' \in {"read", "dead"}
        /\ UNCHANGED <<xai, g_stBinLogSeq, g_stBinLogSeqInProgess>>
    BY <1>8 DEF BText, BStmt, BEndBinlog, BFirstBinlog, BExit, seqVars
  <2> QED
    BY <1>1, <2>1 DEF BoundaryInv, Startable, AtBoundary
<1> QED
  BY <1>2, <1>3, <1>4, <1>5, <1>6, <1>7, <1>8 DEF BNext

(* A process starts from the .XAI file.                                    *)
LEMMA ProcessBoundary ==
  ASSUME BoundaryInv, ProcessNext
  PROVE  BoundaryInv'
<1>1. UNCHANGED <<binlog, xai>>
  BY DEF ProcessNext, TStop, ProcessExit, BWriteFails, Kill, ProcessStart,
         serverVars
<1>2. CASE TStop
  BY <1>1, <1>2 DEF TStop, mVars, passVars, bVars, seqVars, BoundaryInv,
     Startable, AtBoundary
<1>3. ASSUME NEW pc \in {"off", "loop"}, NEW resume \in {NoPosition, xai},
             FreshProcess(pc, resume)
      PROVE  BoundaryInv'
  <2>1. /\ mpc' = pc /\ bpc' \in {"dead", "read"}
        /\ g_stBinLogSeq' = resume /\ g_stBinLogSeqInProgess' = NoPosition
    BY <1>3 DEF FreshProcess
  <2>2. NoPosition.name = 0
    BY DEF NoPosition
  <2> QED
    BY <1>1, <2>1, <2>2 DEF BoundaryInv, Startable, AtBoundary
<1>4. CASE ProcessExit \/ BWriteFails \/ Kill \/ ProcessStart
  BY <1>3, <1>4 DEF ProcessExit, BWriteFails, Kill, ProcessStart
<1> QED
  BY <1>2, <1>4 DEF ProcessNext

(* Nothing is logged yet, and the first file is a boundary.                *)
LEMMA InitBoundary == Init => BoundaryInv
<1> SUFFICES ASSUME Init PROVE BoundaryInv
  OBVIOUS
<1>1. Len(binlog) = 1 /\ binlog[1] = <<>>
  BY DEF Init
<1>2. AtBoundary(At(1, 1)) /\ \A f \in 1..Len(binlog) : Delimited(binlog[f])
  BY <1>1 DEF AtBoundary, Within, At, Delimited
<1>3. Startable(xai)
  BY <1>2 DEF Init, Startable, NoPosition
<1> QED
  BY <1>2, <1>3 DEF Init, BoundaryInv, Startable, NoPosition

(* BoundaryInv is inductive together with CaptureInv.                      *)
LEMMA NextBoundary ==
  ASSUME Orderly, GroupsDelimited, CaptureInv, HandshakeInv, LinesTrue,
         BoundaryInv, [Next]_vars
  PROVE  BoundaryInv'
<1>6. TakeTurns
  BY TurnsTaken DEF CaptureInv
<1>1. CASE ServerNext
  BY <1>1, ServerBoundary
<1>2. CASE MNext
  BY <1>2, <1>6, MBoundary
<1>3. CASE BNext
  BY <1>3, <1>6, BBoundary
<1>4. CASE ProcessNext
  BY <1>4, ProcessBoundary
<1>5. CASE UNCHANGED vars
  BY <1>5 DEF vars, serverVars, mVars, passVars, bVars, seqVars, BoundaryInv,
     Startable, AtBoundary
<1> QED
  BY <1>1, <1>2, <1>3, <1>4, <1>5 DEF Next

(* Every position a thread holds lies between two transactions, after      *)
(* timeouts, failed dumps, purges and restarts too.                        *)
THEOREM PositionsAtBoundaries ==
  Orderly /\ GroupsDelimited => (Spec => []BoundaryInv)
<1> SUFFICES ASSUME Orderly, GroupsDelimited PROVE Spec => []BoundaryInv
  OBVIOUS
<1>1. Init => BoundaryInv
  BY InitBoundary
<1>2. CaptureInv /\ HandshakeInv /\ LinesTrue /\ BoundaryInv /\ [Next]_vars
        => BoundaryInv'
  BY NextBoundary
<1> QED
  BY <1>1, <1>2, CaptureCovered, PassesMeet, TagsTrue, PTL DEF Spec

(* A restarted capture opens with a whole transaction, unless a savepoint  *)
(* is logged inside one (BEGIN tag of listenBinLogThread).                 *)
THEOREM ResumesAtTransaction ==
  Orderly /\ GroupsDelimited => (Spec => []ResumeAtTransaction)
<1> SUFFICES ASSUME Orderly, GroupsDelimited
             PROVE  Spec => []ResumeAtTransaction
  OBVIOUS
<1>1. CaptureInv /\ BoundaryInv => ResumeAtTransaction
  <2> SUFFICES ASSUME CaptureInv, BoundaryInv, xai.name \in 1..Len(binlog)
               PROVE  \/ xai.pos > Len(binlog[xai.name])
                      \/ binlog[xai.name][xai.pos] = "begin"
    BY DEF ResumeAtTransaction
  <2>1. AtBoundary(xai) /\ xai.pos \in Nat
    BY DEF BoundaryInv, Startable, CaptureInv, TypeInv, TypeOK, PositionsOK,
       Position
  <2>2. Len(binlog[xai.name]) \in Nat
    BY FileType DEF CaptureInv, TypeInv, TypeOK, ServerOK
  <2> QED
    BY <2>1, <2>2 DEF AtBoundary
<1> QED
  BY <1>1, CaptureCovered, PositionsAtBoundaries, PTL

=============================================================================
