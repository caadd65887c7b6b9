------------------------ MODULE BinlogCaptureTimely ------------------------
(***************************************************************************)
(* As long as thread M never gives up waiting for thread B, the saved      *)
(* position never moves back and a process captures no event twice.        *)
(***************************************************************************)
EXTENDS BinlogCaptureResume

-----------------------------------------------------------------------------
(* The order of positions *)

LEMMA NotAfterTrans ==
  ASSUME NEW p \in Position, NEW q \in Position, NEW r \in Position,
         NotAfter(p, q), NotAfter(q, r)
  PROVE  NotAfter(p, r)
  BY DEF NotAfter, Position

LEMMA NotAfterSelf ==
  ASSUME NEW p \in Position
  PROVE  NotAfter(p, p)
  BY DEF NotAfter, Position

(* A line lies between two positions, and what B stores for it is one of   *)
(* them.                                                                   *)
LEMMA LinePositions ==
  ASSUME NEW l \in Line
  PROVE  /\ Need(l) \in Position /\ Past(l) \in Position
         /\ NotAfter(Need(l), Past(l))
         /\ l.k \in {"BEGIN", "QUERY", "COMMIT", "START"} =>
              LET p == At(l.f, StoredPos(l))
              IN  p \in Position /\ NotAfter(Need(l), p) /\ NotAfter(p, Past(l))
  BY DEF Line, LineKinds, MarkerKinds, EventKinds, EventTags, CarrierKinds,
     Need, Past, At, Position, NotAfter, StoredPos, BIN_LOG_HEADER_SIZE

(* A line M prints: what B may store of a tag lies between the tags M had  *)
(* printed before and those it has printed then; the event of a text lies  *)
(* between what M had dumped before and what it has dumped then.           *)
Printed(l) ==
  /\ l \in Line /\ pipe' = Append(pipe, l)
  /\ mpc \in PassPcs \ {"setname", "setpos"}
  /\ mpc' \in {"setname", "start", "connect", "dump", "text", "last", "wait"}
  /\ mpc = "first" <=> mpc' = "setname"
  /\ Stored(l) => NotAfter(Ahead, Need(l))
  /\ Carries(l) \/ Stored(l) => NotAfter(At(mFile, mIdx), Need(l))
  /\ mpc' \in PassPcs =>
       /\ NotAfter(Ahead, Ahead')
       /\ NotAfter(At(mFile, mIdx), At(mFile', mIdx'))
       /\ Stored(l) => NotAfter(Past(l), Ahead')
       /\ Carries(l) => NotAfter(Past(l), At(mFile', mIdx'))
  /\ mpc' = "setname" => UNCHANGED <<mFile, mIdx>>
  /\ mpc' = "wait" => mpc = "last"
  /\ mpc' = "start" => mIdx' = 1
  /\ mFile' \in Nat /\ mIdx' \in Nat
  /\ UNCHANGED <<g_stBinLogSeq, g_stBinLogSeqInProgess, g_StBinLogInfoFirst,
                 g_hEventEndOfBinlog, g_fExitApp, xai>>

LEMMA PrintsInOrder ==
  ASSUME TypeInv, PositionInv, timeouts = 0,
         MPrintFirst \/ MPrintStart \/ MDumpEvent \/ MDumpText \/ MPrintEnd
           \/ MPrintLast
  PROVE  \E l \in Line : Printed(l)
<1>1. mFile \in Nat /\ mIdx \in Nat
  BY DEF TypeInv, TypeOK, ThreadsOK
<1>2. NotAfter(At(mFile, mIdx), At(mFile, mIdx))
  BY <1>1 DEF NotAfter, At
<1>3. ASSUME NEW k \in MarkerKinds
      PROVE  /\ Marker(k, mFile) \in Line
             /\ Stored(Marker(k, mFile)) =>
                  k = "START" /\ mFile # g_StBinLogInfoFirst
             /\ ~Carries(Marker(k, mFile))
             /\ Need(Marker(k, mFile)) = At(mFile, 1)
             /\ Past(Marker(k, mFile)) = At(mFile, 1)
  BY <1>1 DEF Marker, Line, LineKinds, Stored, Carries, CarrierKinds,
     MarkerKinds, Need, Past
<1>4. ASSUME NEW k \in EventKinds
      PROVE  /\ EventLine(k, mFile, mIdx) \in Line
             /\ EventLine(k, mFile, mIdx).k = k
             /\ Need(EventLine(k, mFile, mIdx)) = At(mFile, mIdx)
             /\ Past(EventLine(k, mFile, mIdx)) = At(mFile, mIdx + 1)
  BY <1>1 DEF EventLine, Line, LineKinds, EventKinds, EventTags, CarrierKinds,
     MarkerKinds, Need, Past
<1>5. NotAfter(At(mFile, mIdx), At(mFile, mIdx + 1))
      /\ NotAfter(At(mFile, mIdx + 1), At(mFile, mIdx + 1))
      /\ NotAfter(At(mFile, mIdx), At(mFile + 1, 1))
  BY <1>1 DEF NotAfter, At
<1> USE DEF MGoto, PassPcs, passVars, seqVars, infoVars, flagVars
<1>6. CASE MPrintFirst
  <2> DEFINE l == Marker("FIRST", mFile)
  <2>1. /\ mpc = "first" /\ mpc' = "setname" /\ pipe' = Append(pipe, l)
        /\ UNCHANGED <<mFile, mIdx, seqVars, infoVars, flagVars, xai>>
    BY <1>6 DEF MPrintFirst, PrintLine
  <2>2. l \in Line /\ ~Stored(l) /\ ~Carries(l)
    BY <1>3 DEF MarkerKinds
  <2>3. Ahead = At(mFile, mIdx) /\ Ahead' = At(mFile, mIdx)
    BY <2>1 DEF Ahead
  <2> HIDE DEF l
  <2> QED
    BY <1>1, <1>2, <2>1, <2>2, <2>3 DEF Printed
<1>7. CASE MPrintStart
  <2> DEFINE l == Marker("START", mFile)
  <2>1. /\ mpc = "start" /\ mpc' = "connect" /\ pipe' = Append(pipe, l)
        /\ UNCHANGED <<mFile, mIdx, seqVars, infoVars, flagVars, xai>>
    BY <1>7 DEF MPrintStart, PrintLine
  <2>2. /\ l \in Line /\ Need(l) = At(mFile, 1) /\ Past(l) = At(mFile, 1)
        /\ Stored(l) => mIdx = 1
        /\ ~Carries(l)
    BY <1>3, <2>1 DEF MarkerKinds, PositionInv, LinesInBinlogOrder
  <2>3. Ahead = At(mFile, mIdx) /\ Ahead' = At(mFile, mIdx)
    BY <2>1 DEF Ahead
  <2> HIDE DEF l
  <2> QED
    BY <1>1, <1>2, <2>1, <2>2, <2>3 DEF Printed
<1>8. CASE MDumpEvent
  <2> DEFINE kind == binlog[mFile][mIdx]
             l == EventLine(TagOf(kind), mFile, mIdx)
  <2>1. /\ mpc = "dump" /\ mpc' = "text" /\ pipe' = Append(pipe, l)
        /\ UNCHANGED <<mFile, mIdx, seqVars, infoVars, flagVars, xai>>
    BY <1>8 DEF MDumpEvent, PrintLine
  <2>2. mFile \in 1..Len(binlog) /\ mIdx \in 1..Len(binlog[mFile])
    BY <1>1, <1>8, FileType
       DEF MDumpEvent, TypeInv, TypeOK, ThreadsOK, ServerOK, PassOK
  <2>3. kind \in Kinds
    BY <2>2 DEF TypeInv, TypeOK, ServerOK
  <2> HIDE DEF kind
  <2>4. TagOf(kind) \in EventKinds /\ TagOf(kind) \notin CarrierKinds
    BY <2>3 DEF TagOf, Kinds, EventKinds, EventTags, CarrierKinds
  <2>5. l \in Line /\ Need(l) = At(mFile, mIdx) /\ Past(l) = At(mFile, mIdx + 1)
        /\ ~Carries(l)
    BY <1>4, <2>4 DEF Carries
  <2>6. Ahead = At(mFile, mIdx) /\ Ahead' = At(mFile, mIdx + 1)
    BY <2>1 DEF Ahead
  <2> HIDE DEF l
  <2> QED
    BY <1>1, <1>2, <1>5, <2>1, <2>5, <2>6 DEF Printed
<1>9. CASE MDumpText
  <2> DEFINE kind == binlog[mFile][mIdx]
             l == EventLine(TextOf(kind), mFile, mIdx)
  <2>1. /\ mpc = "text" /\ mpc' = "dump" /\ pipe' = Append(pipe, l)
        /\ mIdx' = mIdx + 1
        /\ UNCHANGED <<mFile, seqVars, infoVars, flagVars, xai>>
    BY <1>9 DEF MDumpText, PrintLine
  <2> HIDE DEF kind
  <2>2. TextOf(kind) \in EventKinds /\ TextOf(kind) \in {"TEXT", "ROW"}
    BY DEF TextOf, EventKinds, CarrierKinds
  <2>3. l \in Line /\ Need(l) = At(mFile, mIdx) /\ Past(l) = At(mFile, mIdx + 1)
        /\ ~Stored(l)
    BY <1>4, <2>2 DEF Stored
  <2>4. Ahead = At(mFile, mIdx + 1) /\ Ahead' = At(mFile, mIdx + 1)
    BY <2>1 DEF Ahead
  <2> HIDE DEF l
  <2> QED
    BY <1>1, <1>2, <1>5, <2>1, <2>3, <2>4 DEF Printed
<1>10. CASE MPrintEnd
  <2> DEFINE l == Marker("END", mFile)
  <2>1. /\ mpc = "end" /\ pipe' = Append(pipe, l)
        /\ UNCHANGED <<g_StBinLogInfoFirst, seqVars, flagVars, xai>>
        /\ \/ mpc' = "last" /\ UNCHANGED <<mFile, mIdx>>
           \/ mpc' = "start" /\ mFile' = mFile + 1 /\ mIdx' = 1
    BY <1>10 DEF MPrintEnd, PrintLine, BIN_LOG_HEADER_SIZE
  <2>2. l \in Line /\ ~Stored(l) /\ ~Carries(l)
    BY <1>3 DEF MarkerKinds
  <2>3. Ahead = At(mFile, mIdx) /\ Ahead' = At(mFile', mIdx')
    BY <2>1 DEF Ahead
  <2> HIDE DEF l
  <2> QED
    BY <1>1, <1>2, <1>5, <2>1, <2>2, <2>3 DEF Printed
<1>11. CASE MPrintLast
  <2> DEFINE l == Marker("LAST", mFile)
  <2>1. /\ mpc = "last" /\ mpc' = "wait" /\ pipe' = Append(pipe, l)
        /\ UNCHANGED <<mFile, mIdx, seqVars, infoVars, flagVars, xai>>
    BY <1>11 DEF MPrintLast, PrintLine
  <2>2. l \in Line /\ ~Stored(l) /\ ~Carries(l)
    BY <1>3 DEF MarkerKinds
  <2> HIDE DEF l
  <2> QED
    BY <1>1, <1>2, <2>1, <2>2 DEF Printed
<1> QED
  BY <1>6, <1>7, <1>8, <1>9, <1>10, <1>11

(* Printing keeps the lines in order.                                      *)
LEMMA PrintOrder ==
  ASSUME TypeInv, HandshakeInv, PositionInv, timeouts = 0,
         NEW l \in Line, Printed(l), UNCHANGED <<bpc, bLine>>
  PROVE  LinesInBinlogOrder' /\ InProgessBehind' /\ SavedBehind'
<1> USE DEF PositionInv
<1>1. /\ pipe \in Seq(Line) /\ Len(pipe) \in Nat /\ bLine \in Line
      /\ g_stBinLogSeqInProgess \in Position
      /\ Ahead \in Position /\ Ahead' \in Position
  <2>1. /\ pipe \in Seq(Line) /\ bLine \in Line
        /\ g_stBinLogSeqInProgess \in Position
        /\ mFile \in Nat /\ mIdx \in Nat
    BY DEF TypeInv, TypeOK, LinesOK, ThreadsOK, PositionsOK
  <2>2. mFile' \in Nat /\ mIdx' \in Nat
    BY DEF Printed
  <2>3. \A f, i \in Nat : At(f, i) \in Position /\ i + 1 \in Nat
    BY DEF At, Position
  <2>4. /\ Ahead = At(mFile, mIdx) \/ Ahead = At(mFile, mIdx + 1)
        /\ Ahead' = At(mFile', mIdx') \/ Ahead' = At(mFile', mIdx' + 1)
    BY DEF Ahead
  <2>5. Ahead \in Position /\ Ahead' \in Position
    BY <2>1, <2>2, <2>3, <2>4
  <2> QED
    BY <2>1, <2>5
<1>2. /\ Len(pipe') = Len(pipe) + 1
      /\ \A j \in 1..Len(pipe) : pipe'[j] = pipe[j] /\ pipe[j] \in Line
      /\ pipe'[Len(pipe) + 1] = l
  BY <1>1 DEF Printed
<1>3. \A x \in Line : Need(x) \in Position /\ Past(x) \in Position
  BY LinePositions
<1>4. mpc \in PassPcs
  BY DEF Printed
(* Whatever is ahead of M's position is ahead of the line.                 *)
<1>5. ASSUME NEW p \in Position, NotAfter(p, Ahead)
      PROVE  /\ Stored(l) => NotAfter(p, Need(l))
             /\ mpc' \in PassPcs => NotAfter(p, Ahead')
  BY <1>1, <1>3, <1>5, NotAfterTrans DEF Printed
<1>6. \A k \in 1..Len(pipe) :
        Stored(pipe[k]) => NotAfter(Past(pipe[k]), Ahead)
  BY <1>4 DEF LinesInBinlogOrder
<1>7. InHand => NotAfter(Past(bLine), Ahead)
  BY <1>4 DEF LinesInBinlogOrder
<1>8. LinesInBinlogOrder'
  <2>1. \A j, k \in 1..Len(pipe') :
          j < k /\ Stored(pipe'[j]) /\ Stored(pipe'[k])
            => NotAfter(Past(pipe'[j]), Need(pipe'[k]))
    <3> SUFFICES ASSUME NEW j \in 1..Len(pipe'), NEW k \in 1..Len(pipe'), j < k,
                        Stored(pipe'[j]), Stored(pipe'[k])
                 PROVE  NotAfter(Past(pipe'[j]), Need(pipe'[k]))
      OBVIOUS
    <3>1. j \in 1..Len(pipe)
      BY <1>1, <1>2
    <3>2. CASE k \in 1..Len(pipe)
      BY <1>2, <3>1, <3>2 DEF LinesInBinlogOrder
    <3>3. CASE k = Len(pipe) + 1
      <4>1. Past(pipe[j]) \in Position
            /\ NotAfter(Past(pipe[j]), Ahead)
        BY <1>2, <1>3, <1>6, <3>1
      <4>2. Stored(l)
        BY <1>2, <3>3
      <4> QED
        BY <1>2, <1>5, <3>1, <3>3, <4>1, <4>2
    <3> QED
      BY <1>1, <1>2, <3>2, <3>3
  <2>2. InHand => \A k \in 1..Len(pipe') :
                    Stored(pipe'[k]) => NotAfter(Past(bLine), Need(pipe'[k]))
    <3> SUFFICES ASSUME InHand, NEW k \in 1..Len(pipe'), Stored(pipe'[k])
                 PROVE  NotAfter(Past(bLine), Need(pipe'[k]))
      OBVIOUS
    <3>1. CASE k \in 1..Len(pipe)
      BY <1>2, <3>1 DEF LinesInBinlogOrder
    <3>2. CASE k = Len(pipe) + 1
      BY <1>1, <1>2, <1>3, <1>5, <1>7, <3>2
    <3> QED
      BY <1>1, <1>2, <3>1, <3>2
  <2>3. mpc' \in PassPcs =>
          /\ \A k \in 1..Len(pipe') :
               Stored(pipe'[k]) => NotAfter(Past(pipe'[k]), Ahead')
          /\ InHand => NotAfter(Past(bLine), Ahead')
    <3> SUFFICES ASSUME mpc' \in PassPcs
                 PROVE  /\ \A k \in 1..Len(pipe') : Stored(pipe'[k]) =>
                             NotAfter(Past(pipe'[k]), Ahead')
                        /\ InHand => NotAfter(Past(bLine), Ahead')
      OBVIOUS
    <3>1. ASSUME NEW k \in 1..Len(pipe'), Stored(pipe'[k])
          PROVE  NotAfter(Past(pipe'[k]), Ahead')
      <4>1. CASE k \in 1..Len(pipe)
        BY <1>2, <1>3, <1>5, <1>6, <3>1, <4>1
      <4>2. CASE k = Len(pipe) + 1
        BY <1>2, <3>1, <4>2 DEF Printed
      <4> QED
        BY <1>1, <1>2, <4>1, <4>2
    <3>2. InHand => NotAfter(Past(bLine), Ahead')
      BY <1>1, <1>3, <1>5, <1>7
    <3> QED
      BY <3>1, <3>2
  <2>4. /\ mpc' \in {"first", "setname", "setpos"} =>
             mFile' = g_StBinLogInfoFirst'
        /\ mpc' = "start" => mFile' = g_StBinLogInfoFirst' \/ mIdx' = 1
        /\ bpc' = "pos" => InHand
    BY DEF Printed, LinesInBinlogOrder
  <2>5. UNCHANGED <<g_StBinLogInfoFirst, bpc, bLine>>
    BY DEF Printed
  <2> QED
    BY <2>1, <2>2, <2>3, <2>4, <2>5 DEF LinesInBinlogOrder, InHand, Stored
<1>9. InProgessBehind'
  <2> SUFFICES ASSUME mpc' \notin {"first", "setname", "setpos"}, bpc # "pos"
               PROVE  InProgessBehind'
    BY DEF InProgessBehind
  <2>1. mpc \notin {"first", "setname", "setpos"}
    BY DEF Printed
  <2>2. /\ \A k \in 1..Len(pipe) :
             Stored(pipe[k]) => NotAfter(g_stBinLogSeqInProgess, Need(pipe[k]))
        /\ InHand => NotAfter(g_stBinLogSeqInProgess, Need(bLine))
        /\ NotAfter(g_stBinLogSeqInProgess, Ahead)
    BY <1>4, <2>1 DEF InProgessBehind
  <2>3. /\ Stored(l) => NotAfter(g_stBinLogSeqInProgess, Need(l))
        /\ mpc' \in PassPcs =>
             NotAfter(g_stBinLogSeqInProgess, Ahead')
    BY <1>1, <1>5, <2>2
  <2>4. \A k \in 1..Len(pipe') :
          Stored(pipe'[k]) => NotAfter(g_stBinLogSeqInProgess, Need(pipe'[k]))
    BY <1>1, <1>2, <2>2, <2>3
  <2>5. UNCHANGED <<g_stBinLogSeqInProgess, g_StBinLogInfoFirst, bpc, bLine>>
    BY DEF Printed
  <2> QED
    BY <2>2, <2>3, <2>4, <2>5 DEF InProgessBehind, InHand, Stored
<1>10. SavedBehind'
  <2>1. ~g_fExitApp /\ mpc = "last" => ~g_hEventEndOfBinlog
    BY DEF HandshakeInv, PassCloses, Running
  <2>2. mpc' \in {"first", "setname", "setpos"} =>
          mpc = "first" /\ UNCHANGED <<mFile, mIdx>>
    BY DEF Printed
  <2>3. mpc' \notin {"loop", "check", "alive", "setpos", "off"} /\ mpc # "off"
        /\ mpc # "setpos"
    BY DEF Printed, PassPcs
  <2> QED
    BY <2>1, <2>2, <2>3
       DEF SavedBehind, Printed, Running, NotAfter, Need, At
<1> QED
  BY <1>8, <1>9, <1>10

(* M keeps positions in order: a pass starts at the sequence in which B    *)
(* ended the last one.                                                     *)
LEMMA MPositions ==
  ASSUME Orderly, CaptureInv, ServiceInv, HandshakeInv, PositionInv,
         timeouts = 0, MNext, ~MWaitTimeout
  PROVE  LinesInBinlogOrder' /\ InProgessBehind' /\ SavedBehind'
<1> USE DEF PositionInv
<1>1. TypeInv
  BY DEF CaptureInv
<1>2. UNCHANGED <<bpc, bLine>>
  BY MFrame
<1>3. mFile \in Nat /\ mIdx \in Nat /\ g_stBinLogSeq \in Position
      /\ xai \in Position /\ g_stBinLogSeqInProgess \in Position
  BY <1>1 DEF TypeInv, TypeOK, ThreadsOK, PositionsOK
<1>4. CASE MPrintFirst \/ MPrintStart \/ MDumpEvent \/ MDumpText \/ MPrintEnd
             \/ MPrintLast
  BY <1>1, <1>2, <1>4, PrintsInOrder, PrintOrder
<1>5. ASSUME NEW n \in 0..Len(binlog), MLoadBinLog(n)
      PROVE  LinesInBinlogOrder' /\ InProgessBehind' /\ SavedBehind'
  <2>1. mpc = "loop" /\ ~g_fExitApp /\ UNCHANGED <<g_hEventEndOfBinlog, g_fExitApp>>
    BY <1>5 DEF MLoadBinLog
  <2>2. pipe = <<>> /\ bpc = "read"
    BY <2>1 DEF HandshakeInv, PassCloses, Consumed, Running
  <2>3. UNCHANGED <<pipe, g_stBinLogSeq, g_stBinLogSeqInProgess, xai>>
    BY <1>5, LoadEffect
  <2>4. mpc' \in {"first", "status", "check"}
    BY <1>5, LoadEffect
  <2>5. mpc' = "first" => /\ mFile' = g_StBinLogInfoFirst'
                          /\ mFile' = g_stBinLogSeq.name
                          /\ mIdx' = g_stBinLogSeq.pos
    BY <1>5, LoadEffect
  <2>6. Len(pipe') = 0 /\ ~InHand'
    BY <1>2, <2>2, <2>3 DEF InHand
  <2>7. LinesInBinlogOrder'
    BY <1>2, <2>2, <2>4, <2>5, <2>6 DEF LinesInBinlogOrder
  <2>8. InProgessBehind'
    BY <2>4, <2>6 DEF InProgessBehind, PassPcs
  <2>9. NotAfter(xai, g_stBinLogSeq)
    BY <2>1 DEF SavedBehind
  <2>10. SavedBehind'
    <3>1. NotAfter(xai, At(g_stBinLogSeq.name, g_stBinLogSeq.pos))
      BY <2>9 DEF NotAfter, At
    <3>2. mpc' \in {"first", "setname", "setpos"} =>
            NotAfter(xai', At(mFile', mIdx'))
      BY <2>3, <2>4, <2>5, <3>1
    <3> QED
      BY <1>2, <2>1, <2>2, <2>3, <2>4, <2>9, <3>2 DEF SavedBehind, Running
  <2> QED
    BY <2>7, <2>8, <2>10
<1>6. CASE MLoadMasterStatus
  <2>1. /\ mpc = "status" /\ mpc' = "check" /\ xai' = g_stBinLogSeq'
        /\ UNCHANGED <<pipe, g_stBinLogSeqInProgess, g_StBinLogInfoFirst,
                       g_hEventEndOfBinlog, g_fExitApp>>
    BY <1>6 DEF MLoadMasterStatus, MGoto, infoVars, flagVars
  <2>2. g_stBinLogSeqInProgess.name = 0
    BY <2>1 DEF ServiceInv, BaseSet
  <2>3. bpc # "pos"
    BY <2>1, <2>2 DEF ServiceInv, InProgessUnset, Running
  <2>4. xai' \in Position
    BY <1>1, <1>6, MTypeInv DEF TypeInv, TypeOK, PositionsOK
  <2>5. NotAfter(xai', g_stBinLogSeq')
    BY <2>1, <2>4, NotAfterSelf
  <2>6. LinesInBinlogOrder'
    BY <1>2, <2>1 DEF LinesInBinlogOrder, InHand, Stored, Ahead, PassPcs
  <2>7. InProgessBehind'
    BY <1>2, <2>1 DEF InProgessBehind, InHand, Stored, Ahead, PassPcs
  <2>8. SavedBehind'
    BY <1>2, <2>1, <2>2, <2>3, <2>5 DEF SavedBehind
  <2> QED
    BY <2>6, <2>7, <2>8
<1>7. CASE MSetName
  <2>1. /\ mpc = "setname" /\ mpc' = "setpos"
        /\ UNCHANGED <<pipe, mFile, mIdx, g_stBinLogSeq, g_StBinLogInfoFirst,
                       g_hEventEndOfBinlog, g_fExitApp, xai>>
    BY <1>7 DEF MSetName, MGoto, infoVars, flagVars, passVars
  <2>2. bpc # "pos"
    BY <2>1 DEF HandshakeInv, PassOpens
  <2>3. LinesInBinlogOrder'
    BY <1>2, <2>1 DEF LinesInBinlogOrder, InHand, Stored, Ahead, PassPcs
  <2>4. InProgessBehind'
    BY <2>1 DEF InProgessBehind
  <2>5. SavedBehind'
    BY <1>2, <2>1, <2>2 DEF SavedBehind
  <2> QED
    BY <2>3, <2>4, <2>5
<1>8. CASE MSetPos
  <2>1. /\ mpc = "setpos" /\ mpc' = "start"
        /\ g_stBinLogSeqInProgess' = [g_stBinLogSeqInProgess EXCEPT !.pos = mIdx]
        /\ UNCHANGED <<pipe, mFile, mIdx, g_stBinLogSeq, g_StBinLogInfoFirst,
                       g_hEventEndOfBinlog, g_fExitApp, xai>>
    BY <1>8 DEF MSetPos, MGoto, infoVars, flagVars, passVars
  <2>2. g_stBinLogSeqInProgess.name = mFile
    BY <2>1 DEF CaptureInv, SeqCovered
  <2>3. g_stBinLogSeqInProgess' = At(mFile, mIdx)
    BY <1>3, <2>1, <2>2 DEF At, Position
  <2>4. /\ \A k \in 1..Len(pipe) : ~Stored(pipe[k])
        /\ ~InHand /\ bpc # "pos"
    BY <2>1 DEF HandshakeInv, PassOpens, Stored, InHand, CarrierKinds
  <2>5. NotAfter(At(mFile, mIdx), At(mFile, mIdx))
    BY <1>3 DEF NotAfter, At
  <2>6. LinesInBinlogOrder'
    BY <1>2, <2>1 DEF LinesInBinlogOrder, InHand, Stored, Ahead, PassPcs
  <2>7. InProgessBehind'
    BY <1>2, <2>1, <2>3, <2>4, <2>5 DEF InProgessBehind, InHand, Stored, Ahead
  <2>8. SavedBehind'
    BY <1>2, <2>1, <2>3, <2>4 DEF SavedBehind
  <2> QED
    BY <2>6, <2>7, <2>8
<1>9. CASE MConnect \/ MDumpFails \/ MDumpEof
  <2>1. /\ mpc \in {"connect", "dump"} /\ mpc' \in {"dump", "end"}
        /\ UNCHANGED <<pipe, mFile, mIdx, seqVars, infoVars, flagVars, xai>>
    BY <1>9 DEF MConnect, MDumpFails, MDumpEof, MGoto, passVars
  <2>2. LinesInBinlogOrder'
    BY <1>2, <2>1 DEF LinesInBinlogOrder, InHand, Stored, Ahead, PassPcs, infoVars
  <2>3. InProgessBehind'
    BY <1>2, <2>1 DEF InProgessBehind, InHand, Stored, Ahead, PassPcs, infoVars, seqVars
  <2>4. SavedBehind'
    BY <1>2, <2>1 DEF SavedBehind, Running, seqVars, flagVars
  <2> QED
    BY <2>2, <2>3, <2>4
<1>10. CASE MLoadBinLogFails \/ MLoadMasterStatusFails \/ MWaitSignalled
            \/ MCheck \/ MCheckAlive \/ MSeesExit
  <2>1. /\ \/ mpc \in {"loop", "status", "check", "alive"}
           \/ mpc = "wait" /\ g_hEventEndOfBinlog
        /\ mpc' \in {"loop", "check", "alive", "done"}
        /\ UNCHANGED <<pipe, mFile, mIdx, seqVars, infoVars, g_fExitApp, xai>>
    BY <1>10 DEF MLoadBinLogFails, MLoadMasterStatusFails, MWaitSignalled,
       MCheck, MCheckAlive, MSeesExit, MGoto, passVars, flagVars
  <2>2. LinesInBinlogOrder'
    BY <1>2, <2>1 DEF LinesInBinlogOrder, InHand, Stored, Ahead, PassPcs, infoVars
  <2>3. InProgessBehind'
    BY <1>2, <2>1 DEF InProgessBehind, InHand, Stored, Ahead, PassPcs, infoVars, seqVars
  <2>4. SavedBehind'
    BY <1>2, <2>1 DEF SavedBehind, Running, seqVars
  <2> QED
    BY <2>2, <2>3, <2>4
<1>11. CASE MCopyName \/ MCopyPos
  BY <1>11 DEF MCopyName, MCopyPos, HandshakeInv
<1> QED
  BY <1>4, <1>5, <1>6, <1>7, <1>8, <1>9, <1>10, <1>11 DEF MNext

(* What B saves is the sequence in progress, and that is behind what it    *)
(* saved before.                                                           *)
LEMMA SavedForward ==
  ASSUME ServiceInv, HandshakeInv, PositionInv, timeouts = 0, Running,
         bpc \in {"rowend", "save", "seqpos"}
  PROVE  mpc \notin {"first", "setname", "setpos"}
         /\ NotAfter(xai, g_stBinLogSeqInProgess)
<1>1. g_stBinLogSeqInProgess.name # 0
  BY DEF ServiceInv, InProgessUnset
<1>2. mpc \notin {"first", "setname", "setpos"}
  BY DEF HandshakeInv, PassOpens
<1> QED
  BY <1>1, <1>2 DEF PositionInv, SavedBehind

(* B takes lines in order and stores positions that only grow.             *)
LEMMA BPositions ==
  ASSUME Orderly, CaptureInv, ServiceInv, HandshakeInv, PositionInv,
         timeouts = 0, Running, BNext
  PROVE  LinesInBinlogOrder' /\ InProgessBehind' /\ SavedBehind'
<1> USE DEF PositionInv
<1>1. TypeInv
  BY DEF CaptureInv
<1>2. UNCHANGED <<mpc, mFile, mIdx, g_StBinLogInfoFirst>>
  BY BFrame
<1>3. UNCHANGED g_fExitApp
  BY DEF BNext, BWriteLine, BEndOfRow, BText, BStmt, BTransactionTag,
     BStartBinlog, BStorePosition, BSaveInDisk, BEndBinlog, BFirstBinlog,
     BLastBinlog, BSignalEnd, BExit, flagVars
<1>4. /\ pipe \in Seq(Line) /\ Len(pipe) \in Nat /\ bLine \in Line
      /\ g_stBinLogSeq \in Position /\ g_stBinLogSeqInProgess \in Position
      /\ xai \in Position
  BY <1>1 DEF TypeInv, TypeOK, LinesOK, PositionsOK
(* Between passes B waits for a line.                                      *)
<1>5. ~g_fExitApp /\ (mpc \in {"loop", "status", "check", "alive"}
                       \/ g_hEventEndOfBinlog)
        => bpc = "read" /\ pipe = <<>>
  BY DEF HandshakeInv, PassCloses, Consumed
<1>6. CASE BWriteLine
  <2>1. /\ bpc = "read" /\ pipe # <<>> /\ pipe' = Tail(pipe)
        /\ bLine' = Head(pipe) /\ bpc' \in {"rowend", "tag"}
        /\ UNCHANGED <<g_stBinLogSeq, g_stBinLogSeqInProgess,
                       g_hEventEndOfBinlog, xai>>
    BY <1>6 DEF BWriteLine, BGoto, seqVars, flagVars
  <2>2. /\ Len(pipe) \in Nat \ {0} /\ Len(pipe') = Len(pipe) - 1
        /\ bLine' = pipe[1]
        /\ \A j \in 1..Len(pipe') : pipe'[j] = pipe[j + 1]
    BY <1>4, <2>1
  <2>3. /\ \A j \in 1..Len(pipe') : j + 1 \in 1..Len(pipe) /\ 1 < j + 1
        /\ 1 \in 1..Len(pipe)
    BY <2>2
  <2>4. LinesInBinlogOrder'
    <3>1. \A j, k \in 1..Len(pipe') :
            j < k /\ Stored(pipe'[j]) /\ Stored(pipe'[k])
              => NotAfter(Past(pipe'[j]), Need(pipe'[k]))
      <4> SUFFICES ASSUME NEW j \in 1..Len(pipe'), NEW k \in 1..Len(pipe'),
                          j < k, Stored(pipe'[j]), Stored(pipe'[k])
                   PROVE  NotAfter(Past(pipe'[j]), Need(pipe'[k]))
        OBVIOUS
      <4>1. j + 1 < k + 1
        OBVIOUS
      <4> QED
        BY <2>2, <2>3, <4>1 DEF LinesInBinlogOrder
    <3>2. Stored(pipe[1]) => \A k \in 1..Len(pipe') :
            Stored(pipe'[k]) => NotAfter(Past(pipe[1]), Need(pipe'[k]))
      BY <2>2, <2>3 DEF LinesInBinlogOrder
    <3>3. mpc \in PassPcs =>
            /\ \A k \in 1..Len(pipe') :
                 Stored(pipe'[k]) => NotAfter(Past(pipe'[k]), Ahead)
            /\ Stored(pipe[1]) => NotAfter(Past(pipe[1]), Ahead)
      BY <2>2, <2>3 DEF LinesInBinlogOrder
    <3>4. /\ mpc \in {"first", "setname", "setpos"} => mFile = g_StBinLogInfoFirst
          /\ mpc = "start" => mFile = g_StBinLogInfoFirst \/ mIdx = 1
      BY DEF LinesInBinlogOrder
    <3> QED
      BY <1>2, <2>1, <2>2, <3>1, <3>2, <3>3, <3>4
         DEF LinesInBinlogOrder, InHand, Stored, Ahead
  <2>5. InProgessBehind'
    <3> SUFFICES ASSUME mpc \notin {"first", "setname", "setpos"}
                 PROVE  InProgessBehind'
      BY <1>2 DEF InProgessBehind
    <3>1. /\ \A k \in 1..Len(pipe) : Stored(pipe[k]) =>
               NotAfter(g_stBinLogSeqInProgess, Need(pipe[k]))
          /\ mpc \in PassPcs => NotAfter(g_stBinLogSeqInProgess, Ahead)
      BY <2>1 DEF InProgessBehind
    <3>2. \A k \in 1..Len(pipe') : Stored(pipe'[k]) =>
            NotAfter(g_stBinLogSeqInProgess, Need(pipe'[k]))
      BY <2>2, <2>3, <3>1
    <3>3. Stored(pipe[1]) => NotAfter(g_stBinLogSeqInProgess, Need(pipe[1]))
      BY <2>3, <3>1
    <3> QED
      BY <1>2, <2>1, <2>2, <3>1, <3>2, <3>3 DEF InProgessBehind, InHand, Stored, Ahead
  <2>6. SavedBehind'
    BY <1>2, <1>3, <2>1 DEF SavedBehind, Running
  <2> QED
    BY <2>4, <2>5, <2>6
<1>7. CASE BEndOfRow
  <2>1. /\ bpc = "rowend" /\ bpc' = "tag" /\ xai' = g_stBinLogSeqInProgess
        /\ UNCHANGED <<pipe, bLine, g_stBinLogSeq, g_stBinLogSeqInProgess,
                       g_hEventEndOfBinlog>>
    BY <1>7 DEF BEndOfRow, BGoto, seqVars, flagVars
  <2>2. mpc \notin {"first", "setname", "setpos"}
    BY <2>1, SavedForward
  <2>3. NotAfter(xai', g_stBinLogSeqInProgess')
    BY <1>4, <2>1, NotAfterSelf
  <2>4. LinesInBinlogOrder'
    BY <1>2, <2>1 DEF LinesInBinlogOrder, InHand, Stored, Ahead
  <2>5. InProgessBehind'
    BY <1>2, <2>1 DEF InProgessBehind, InHand, Stored, Ahead
  <2>6. SavedBehind'
    BY <1>2, <1>3, <1>5, <2>1, <2>2, <2>3 DEF SavedBehind
  <2> QED
    BY <2>4, <2>5, <2>6
<1>8. CASE BText \/ BStmt \/ BEndBinlog \/ BFirstBinlog \/ BExit
  <2>1. /\ bpc \in {"tag", "read"} /\ bpc' \in {"read", "dead"}
        /\ UNCHANGED <<pipe, bLine, g_stBinLogSeq, g_stBinLogSeqInProgess,
                       g_hEventEndOfBinlog, xai>>
    BY <1>8 DEF BText, BStmt, BEndBinlog, BFirstBinlog, BExit, BGoto, seqVars,
       flagVars
  <2>2. LinesInBinlogOrder'
    BY <1>2, <2>1 DEF LinesInBinlogOrder, InHand, Stored, Ahead
  <2>3. InProgessBehind'
    BY <1>2, <2>1 DEF InProgessBehind, InHand, Stored, Ahead
  <2>4. SavedBehind'
    BY <1>2, <1>3, <2>1 DEF SavedBehind, Running
  <2> QED
    BY <2>2, <2>3, <2>4
<1>9. CASE BTransactionTag \/ (BStartBinlog /\ bLine.f # g_StBinLogInfoFirst)
  <2>1. /\ bpc = "tag" /\ bpc' = "pos"
        /\ UNCHANGED <<pipe, bLine, g_stBinLogSeq, g_hEventEndOfBinlog, xai>>
    BY <1>9 DEF BTransactionTag, BStartBinlog, BGoto, flagVars
  <2>2. InHand /\ bLine.k # "FIRST"
    BY <1>9, <2>1
       DEF BTransactionTag, BStartBinlog, InHand, Stored, Ahead, CarrierKinds
  <2>3. mpc \notin {"first", "setname", "setpos"}
    BY <2>1, <2>2 DEF HandshakeInv, PassOpens
  <2>4. NotAfter(g_stBinLogSeqInProgess, Need(bLine))
    BY <2>1, <2>2, <2>3 DEF InProgessBehind
  <2>5. g_stBinLogSeqInProgess.name # 0
    BY <2>1, <2>2 DEF ServiceInv, InProgessUnset
  <2>6. NotAfter(xai, g_stBinLogSeqInProgess)
    BY <2>1, <2>3, <2>5 DEF SavedBehind
  <2>7. NotAfter(xai, Need(bLine))
    BY <1>4, <2>4, <2>6, NotAfterTrans, LinePositions
  <2>8. LinesInBinlogOrder'
    BY <1>2, <2>1, <2>2 DEF LinesInBinlogOrder, InHand, Stored, Ahead
  <2>9. InProgessBehind'
    BY <2>1 DEF InProgessBehind
  <2>10. SavedBehind'
    BY <1>2, <1>3, <1>5, <2>1, <2>3, <2>7 DEF SavedBehind
  <2> QED
    BY <2>8, <2>9, <2>10
<1>10. CASE BStartBinlog /\ bLine.f = g_StBinLogInfoFirst
  <2>1. /\ bpc = "tag" /\ bpc' = "read"
        /\ UNCHANGED <<pipe, bLine, g_stBinLogSeq, g_stBinLogSeqInProgess,
                       g_hEventEndOfBinlog, xai>>
    BY <1>10 DEF BStartBinlog, BGoto
  <2>2. LinesInBinlogOrder'
    BY <1>2, <2>1 DEF LinesInBinlogOrder, InHand, Stored, Ahead
  <2>3. InProgessBehind'
    BY <1>2, <2>1 DEF InProgessBehind, InHand, Stored, Ahead
  <2>4. SavedBehind'
    BY <1>2, <1>3, <2>1 DEF SavedBehind, Running
  <2> QED
    BY <2>2, <2>3, <2>4
<1>11. CASE BStorePosition
  <2> DEFINE p == At(bLine.f, StoredPos(bLine))
  <2>1. /\ bpc = "pos" /\ bpc' \in {"save", "read"}
        /\ g_stBinLogSeqInProgess' =
             [g_stBinLogSeqInProgess EXCEPT !.pos = StoredPos(bLine)]
        /\ UNCHANGED <<pipe, bLine, g_stBinLogSeq, g_hEventEndOfBinlog, xai>>
    BY <1>11 DEF BStorePosition, BGoto, flagVars
  <2>2. /\ g_stBinLogSeqInProgess.name = bLine.f
        /\ bLine.k \in {"BEGIN", "QUERY", "COMMIT", "START"}
    BY <2>1 DEF CaptureInv, LineCovered
  <2>3. g_stBinLogSeqInProgess' = p
    BY <1>4, <2>1, <2>2 DEF At, Position
  <2>4. p \in Position /\ NotAfter(Need(bLine), p) /\ NotAfter(p, Past(bLine))
        /\ Need(bLine) \in Position /\ Past(bLine) \in Position
    BY <1>4, <2>2, LinePositions
  <2> HIDE DEF p
  <2>5. InHand /\ NotAfter(xai, Need(bLine))
    BY <2>1 DEF LinesInBinlogOrder, SavedBehind
  <2>6. NotAfter(xai, p)
    BY <1>4, <2>4, <2>5, NotAfterTrans
  <2>7. \A k \in 1..Len(pipe) : Stored(pipe[k]) => NotAfter(p, Need(pipe[k]))
    <3> SUFFICES ASSUME NEW k \in 1..Len(pipe), Stored(pipe[k])
                 PROVE  NotAfter(p, Need(pipe[k]))
      OBVIOUS
    <3>1. NotAfter(Past(bLine), Need(pipe[k]))
      BY <2>5 DEF LinesInBinlogOrder
    <3>2. Need(pipe[k]) \in Position
      BY <1>4, LinePositions
    <3> QED
      BY <2>4, <3>1, <3>2, NotAfterTrans
  <2>8. mpc \in PassPcs => NotAfter(p, Ahead)
    <3> SUFFICES ASSUME mpc \in PassPcs PROVE NotAfter(p, Ahead)
      OBVIOUS
    <3>1. NotAfter(Past(bLine), Ahead)
      BY <2>5 DEF LinesInBinlogOrder
    <3>2. Ahead \in Position
      BY <1>1 DEF TypeInv, TypeOK, ThreadsOK, At, Position, Ahead
    <3> QED
      BY <2>4, <3>1, <3>2, NotAfterTrans
  <2>9. LinesInBinlogOrder'
    BY <1>2, <2>1 DEF LinesInBinlogOrder, InHand, Stored, Ahead
  <2>10. InProgessBehind'
    BY <1>2, <2>1, <2>3, <2>7, <2>8 DEF InProgessBehind, InHand, Stored, Ahead
  <2>11. SavedBehind'
    BY <1>2, <1>3, <2>1, <2>3, <2>6 DEF SavedBehind
  <2> QED
    BY <2>9, <2>10, <2>11
<1>12. CASE BSaveInDisk
  <2>1. /\ bpc = "save" /\ bpc' = "read" /\ xai' = g_stBinLogSeqInProgess
        /\ UNCHANGED <<pipe, bLine, g_stBinLogSeq, g_stBinLogSeqInProgess,
                       g_hEventEndOfBinlog>>
    BY <1>12 DEF BSaveInDisk, BGoto, seqVars, flagVars
  <2>2. mpc \notin {"first", "setname", "setpos"}
    BY <2>1, SavedForward
  <2>3. NotAfter(xai', g_stBinLogSeqInProgess')
    BY <1>4, <2>1, NotAfterSelf
  <2>4. LinesInBinlogOrder'
    BY <1>2, <2>1 DEF LinesInBinlogOrder, InHand, Stored, Ahead
  <2>5. InProgessBehind'
    BY <1>2, <2>1 DEF InProgessBehind, InHand, Stored, Ahead
  <2>6. SavedBehind'
    BY <1>2, <1>3, <1>5, <2>1, <2>2, <2>3 DEF SavedBehind
  <2> QED
    BY <2>4, <2>5, <2>6
<1>13. CASE BLastBinlog
  <2>1. /\ bpc = "tag" /\ bpc' \in {"seqpos", "read"}
        /\ UNCHANGED <<pipe, bLine, g_stBinLogSeqInProgess,
                       g_hEventEndOfBinlog, xai>>
    BY <1>13 DEF BLastBinlog, BGoto, flagVars
  <2>2. LinesInBinlogOrder'
    BY <1>2, <2>1 DEF LinesInBinlogOrder, InHand, Stored, Ahead
  <2>3. InProgessBehind'
    BY <1>2, <2>1 DEF InProgessBehind, InHand, Stored, Ahead
  <2>4. SavedBehind'
    BY <1>2, <1>3, <1>5, <2>1 DEF SavedBehind, Running
  <2> QED
    BY <2>2, <2>3, <2>4
<1>14. CASE BSignalEnd
  <2>1. /\ bpc = "seqpos" /\ bpc' = "read"
        /\ g_stBinLogSeq' =
             [g_stBinLogSeq EXCEPT !.pos = g_stBinLogSeqInProgess.pos]
        /\ UNCHANGED <<pipe, bLine, g_stBinLogSeqInProgess, xai>>
    BY <1>14 DEF BSignalEnd, BGoto
  <2>2. g_stBinLogSeq.name = g_stBinLogSeqInProgess.name
    BY <2>1 DEF CaptureInv, SeqCovered
  <2>3. g_stBinLogSeq' = g_stBinLogSeqInProgess
    BY <1>4, <2>1, <2>2 DEF Position
  <2>4. NotAfter(xai, g_stBinLogSeqInProgess)
    BY <2>1, SavedForward
  <2>5. LinesInBinlogOrder'
    BY <1>2, <2>1 DEF LinesInBinlogOrder, InHand, Stored, Ahead
  <2>6. InProgessBehind'
    BY <1>2, <2>1 DEF InProgessBehind, InHand, Stored, Ahead
  <2>7. SavedBehind'
    BY <1>2, <1>3, <2>1, <2>3, <2>4 DEF SavedBehind, Running
  <2> QED
    BY <2>5, <2>6, <2>7
<1> QED
  BY <1>6, <1>7, <1>8, <1>9, <1>10, <1>11, <1>12, <1>13, <1>14 DEF BNext

(* Every step keeps positions in order: a process that starts resumes from *)
(* the saved position.                                                     *)
LEMMA NextPositions ==
  ASSUME Orderly, CaptureInv, ServiceInv, HandshakeInv, PositionInv,
         [Next]_vars
  PROVE  PositionInv'
<1> SUFFICES ASSUME timeouts' = 0
             PROVE  LinesInBinlogOrder' /\ InProgessBehind' /\ SavedBehind'
  BY DEF PositionInv
<1>1. TypeInv
  BY DEF CaptureInv
<1>2. timeouts = 0 /\ ~MWaitTimeout
  BY <1>1, TimeoutsKept
<1>3. LinesInBinlogOrder /\ InProgessBehind /\ SavedBehind
  BY <1>2 DEF PositionInv
<1>4. CASE ServerNext \/ UNCHANGED vars
  <2>1. UNCHANGED <<mpc, mFile, mIdx, pipe, bpc, bLine, g_stBinLogSeq,
                    g_stBinLogSeqInProgess, g_StBinLogInfoFirst,
                    g_hEventEndOfBinlog, g_fExitApp, xai>>
    BY <1>4 DEF ServerNext, Commit, Rotate, Purge, vars, mVars, passVars, bVars,
       seqVars, infoVars, flagVars
  <2>2. LinesInBinlogOrder'
    BY <1>3, <2>1 DEF LinesInBinlogOrder, InHand, Stored, Ahead
  <2>3. InProgessBehind'
    BY <1>3, <2>1 DEF InProgessBehind, InHand, Stored, Ahead
  <2>4. SavedBehind'
    BY <1>3, <2>1 DEF SavedBehind, Running
  <2> QED
    BY <2>2, <2>3, <2>4
<1>5. CASE MNext
  BY <1>2, <1>5, MPositions
<1>6. CASE BNext
  <2>1. Running
    <3>1. bpc # "dead"
      BY <1>6 DEF BNext, BWriteLine, BEndOfRow, BText, BStmt, BTransactionTag,
         BStartBinlog, BStorePosition, BSaveInDisk, BEndBinlog, BFirstBinlog,
         BLastBinlog, BSignalEnd, BExit
    <3> QED
      BY <3>1 DEF CaptureInv, CaptureFlushed
  <2> QED
    BY <1>2, <1>6, <2>1, BPositions
<1>7. CASE TStop
  <2>1. /\ UNCHANGED <<mpc, mFile, mIdx, pipe, bpc, bLine, seqVars, infoVars, xai>>
        /\ g_fExitApp'
    BY <1>7 DEF TStop, mVars, passVars, bVars
  <2>2. LinesInBinlogOrder'
    BY <1>3, <2>1 DEF LinesInBinlogOrder, InHand, Stored, Ahead, infoVars
  <2>3. InProgessBehind'
    BY <1>3, <2>1 DEF InProgessBehind, InHand, Stored, Ahead, infoVars, seqVars
  <2>4. SavedBehind'
    BY <1>3, <2>1 DEF SavedBehind, Running, seqVars
  <2> QED
    BY <2>2, <2>3, <2>4
<1>8. CASE ProcessExit \/ BWriteFails \/ Kill \/ ProcessStart
  <2>1. /\ pipe' = <<>> /\ bpc' \in {"read", "dead"} /\ xai' = xai
        /\ g_stBinLogSeqInProgess'.name = 0
        /\ mpc' = "off" \/ (mpc' = "loop" /\ g_stBinLogSeq' = xai)
    BY <1>8 DEF ProcessExit, BWriteFails, Kill, ProcessStart, FreshProcess,
       NoPosition
  <2>2. NotAfter(xai, xai)
    BY <1>1, NotAfterSelf DEF TypeInv, TypeOK, PositionsOK
  <2>3. LinesInBinlogOrder' /\ InProgessBehind'
    BY <2>1 DEF LinesInBinlogOrder, InProgessBehind, InHand, PassPcs
  <2>4. SavedBehind'
    BY <2>1, <2>2 DEF SavedBehind
  <2> QED
    BY <2>3, <2>4
<1> QED
  BY <1>4, <1>5, <1>6, <1>7, <1>8 DEF Next, ProcessNext

LEMMA InitPositions == Init => PositionInv
<1> SUFFICES ASSUME Init PROVE PositionInv
  OBVIOUS
<1>1. /\ pipe = <<>> /\ bpc = "read" /\ mpc = "loop" /\ g_stBinLogSeq = xai
      /\ g_stBinLogSeqInProgess.name = 0
  BY DEF Init, NoPosition
<1>2. NotAfter(xai, xai)
  BY NotAfterSelf, InitTypeInv DEF TypeInv, TypeOK, PositionsOK
<1> QED
  BY <1>1, <1>2 DEF PositionInv, LinesInBinlogOrder, InProgessBehind,
     SavedBehind, InHand, PassPcs

(* As long as M never gave up waiting for B, lines travel in the order of  *)
(* their events and every position on its way to the .XAI file is behind   *)
(* those that will be stored after it.                                     *)
THEOREM PositionsInOrder == Orderly => (Spec => []PositionInv)
<1> SUFFICES ASSUME Orderly PROVE Spec => []PositionInv
  OBVIOUS
<1>1. CaptureInv /\ ServiceInv /\ HandshakeInv /\ PositionInv /\ [Next]_vars
        => PositionInv'
  BY NextPositions
<1>2. Spec => []CaptureInv /\ []ServiceInv
  BY CaptureCovered, CapturedInBinlogOrder
<1> QED
  BY <1>1, <1>2, InitPositions, PassesMeet, PTL DEF Spec

(* When M never gives up waiting, SaveInDisk never moves the .XAI file     *)
(* backwards: the two tags that save, the end of a row, and the position   *)
(* of SHOW MASTER STATUS when nothing was saved yet.                       *)
THEOREM SavedNeverBack ==
  Orderly /\ MaxTimeouts = 0 => (Spec => XaiMonotonic)
<1> SUFFICES ASSUME Orderly, MaxTimeouts = 0 PROVE Spec => XaiMonotonic
  OBVIOUS
<1> DEFINE Inv == CaptureInv /\ ServiceInv /\ HandshakeInv /\ PositionInv
           Forward == Before(<<xai.name, xai.pos>>, xai') \/ xai' = xai
<1>1. ASSUME Inv, Inv', [Next]_vars PROVE [Forward]_xai
  <2> SUFFICES ASSUME xai' # xai PROVE Forward
    OBVIOUS
  <2>1. timeouts = 0 /\ xai \in Position /\ xai' \in Position
    BY <1>1 DEF CaptureInv, TypeInv, TypeOK, ThreadsOK, PositionsOK
  <2>2. CASE BEndOfRow \/ BSaveInDisk
    <3>1. bpc \in {"rowend", "save"} /\ xai' = g_stBinLogSeqInProgess
      BY <2>2 DEF BEndOfRow, BSaveInDisk
    <3>2. Running
      BY <1>1, <3>1 DEF CaptureInv, CaptureFlushed
    <3>3. NotAfter(xai, xai')
      BY <1>1, <2>1, <3>1, <3>2, SavedForward
    <3> QED
      BY <2>1, <3>3 DEF NotAfter, Before, Position
  <2>3. CASE MLoadMasterStatus
    <3>1. xai' = At(Len(binlog), Len(binlog[Len(binlog)]) + 1) /\ mpc = "status"
      BY <2>3 DEF MLoadMasterStatus
    <3>2. xai.name = 0
      BY <1>1, <3>1 DEF ServiceInv, BaseSet
    <3>3. Len(binlog) \in Nat /\ Len(binlog) > 0
      BY <1>1 DEF CaptureInv, TypeInv, TypeOK, ServerOK
    <3> QED
      BY <3>1, <3>2, <3>3 DEF Before, At
  <2>4. CASE ~(BEndOfRow \/ BSaveInDisk \/ MLoadMasterStatus)
    <3>1. UNCHANGED xai
      <4>1. CASE MNext
        BY <2>4, <4>1, LoadEffect
           DEF MNext, MLoadBinLogFails, MLoadMasterStatusFails, MPrintFirst,
               MSetName, MSetPos, MPrintStart, MConnect, MDumpFails,
               MDumpEvent, MDumpText, MDumpEof, MPrintEnd, MPrintLast,
               MWaitSignalled, MWaitTimeout, MCopyName, MCopyPos, MCheck,
               MCheckAlive, MSeesExit
      <4>2. CASE BNext
        BY <2>4, <4>2
           DEF BNext, BWriteLine, BText, BStmt, BTransactionTag, BStartBinlog,
               BStorePosition, BEndBinlog, BFirstBinlog, BLastBinlog,
               BSignalEnd, BExit
      <4>3. CASE ServerNext \/ ProcessNext \/ UNCHANGED vars
        BY <4>3 DEF ServerNext, Commit, Rotate, Purge, ProcessNext, TStop,
           ProcessExit, BWriteFails, Kill, ProcessStart, vars
      <4> QED
        BY <1>1, <4>1, <4>2, <4>3 DEF Next
    <3> QED
      BY <3>1
  <2> QED
    BY <2>2, <2>3, <2>4
<1>2. Spec => []Inv
  <2>1. Spec => []CaptureInv /\ []ServiceInv /\ []HandshakeInv /\ []PositionInv
    BY CaptureCovered, CapturedInBinlogOrder, PassesMeet, PositionsInOrder
  <2> QED
    BY <2>1, PTL
<1> HIDE DEF Inv
<1>3. Spec => [][Forward]_xai
  BY <1>1, <1>2, PTL DEF Spec
<1> QED
  BY <1>3 DEF XaiMonotonic

-----------------------------------------------------------------------------
(* No event twice *)

LEMMA BeforeTrans ==
  ASSUME NEW e \in Nat \X Nat, NEW p \in Position, NEW q \in Position,
         Before(e, p), NotAfter(p, q)
  PROVE  Before(e, q)
  BY DEF Before, NotAfter, Position

LEMMA PassedTrans ==
  ASSUME TypeInv, NEW p \in Position, NEW q \in Position, Passed(p),
         NotAfter(p, q)
  PROVE  Passed(q)
<1>1. cap \in Seq(Nat \X Nat) /\ boot \in Nat
  BY DEF TypeInv, TypeOK, CaptureOK
<1>2. ASSUME NEW n \in Appended PROVE cap[n] \in Nat \X Nat
  BY <1>1 DEF Appended
<1> QED
  BY <1>2, BeforeTrans DEF Passed

(* A step of thread M opens a pass, prints a line, or leaves the pipe and  *)
(* the place it has dumped up to alone.                                    *)
LEMMA MSteps ==
  ASSUME MNext, mpc \notin {"copyname", "copypos"}, ~MWaitTimeout
  PROVE  \/ MPrintFirst \/ MPrintStart \/ MDumpEvent \/ MDumpText \/ MPrintEnd
              \/ MPrintLast
         \/ \E n \in 0..Len(binlog) : MLoadBinLog(n)
         \/ /\ UNCHANGED <<pipe, mFile, mIdx, g_StBinLogInfoFirst, g_fExitApp>>
            /\ mpc' # "first"
            /\ mpc' \in PassPcs => mpc \in PassPcs
<1>1. CASE \/ MPrintFirst \/ MPrintStart \/ MDumpEvent \/ MDumpText
           \/ MPrintEnd \/ MPrintLast
           \/ \E n \in 0..Len(binlog) : MLoadBinLog(n)
  BY <1>1
<1>2. CASE ~(\/ MPrintFirst \/ MPrintStart \/ MDumpEvent \/ MDumpText
             \/ MPrintEnd \/ MPrintLast
             \/ \E n \in 0..Len(binlog) : MLoadBinLog(n))
  BY <1>2 DEF MNext, MLoadBinLogFails, MLoadMasterStatus,
     MLoadMasterStatusFails, MSetName, MSetPos, MConnect, MDumpFails, MDumpEof,
     MWaitSignalled, MCopyName, MCopyPos, MCheck, MCheckAlive, MSeesExit,
     MGoto, PassPcs, passVars, infoVars, flagVars
<1> QED
  BY <1>1, <1>2

(* B appends the event of the line it takes from the pipe.                 *)
LEMMA AppendEffect ==
  ASSUME TypeInv, BWriteLine
  PROVE  /\ Len(pipe) \in Nat \ {0} /\ Len(pipe') = Len(pipe) - 1
         /\ \A j \in 1..Len(pipe') :
              /\ pipe'[j] = pipe[j + 1] /\ pipe[j + 1] \in Line
              /\ j + 1 \in 1..Len(pipe)
         /\ 1 \in 1..Len(pipe) /\ bLine' = pipe[1] /\ pipe[1] \in Line
         /\ Len(cap) \in Nat
         /\ \A n \in 1..Len(cap) : cap'[n] = cap[n] /\ cap[n] \in Nat \X Nat
         /\ IF pipe[1].k \in CarrierKinds
            THEN /\ Len(cap') = Len(cap) + 1
                 /\ cap'[Len(cap) + 1] = <<pipe[1].f, pipe[1].i>>
            ELSE cap' = cap
<1>1. pipe \in Seq(Line) /\ pipe # <<>> /\ cap \in Seq(Nat \X Nat)
  BY DEF TypeInv, TypeOK, LinesOK, CaptureOK, BWriteLine
<1>2. /\ pipe' = Tail(pipe) /\ bLine' = Head(pipe)
      /\ cap' = IF Head(pipe).k \in CarrierKinds
                THEN Append(cap, <<Head(pipe).f, Head(pipe).i>>) ELSE cap
  BY DEF BWriteLine
<1>3. /\ Len(pipe) \in Nat \ {0} /\ Len(pipe') = Len(pipe) - 1
      /\ \A j \in 1..Len(pipe') : pipe'[j] = pipe[j + 1]
      /\ Head(pipe) = pipe[1]
  BY <1>1, <1>2
<1>4. 1 \in 1..Len(pipe) /\ \A j \in 1..Len(pipe) : pipe[j] \in Line
  BY <1>1, <1>3
<1>5. \A j \in 1..Len(pipe') : j + 1 \in 1..Len(pipe)
  BY <1>3
<1>6. Len(cap) \in Nat /\ \A n \in 1..Len(cap) : cap[n] \in Nat \X Nat
  BY <1>1
<1>7. CASE pipe[1].k \in CarrierKinds
  <2> DEFINE e == <<pipe[1].f, pipe[1].i>>
  <2>1. e \in Nat \X Nat /\ cap' = Append(cap, e)
    BY <1>2, <1>3, <1>4, <1>7 DEF Line
  <2>2. /\ Len(cap') = Len(cap) + 1 /\ cap'[Len(cap) + 1] = e
        /\ \A n \in 1..Len(cap) : cap'[n] = cap[n]
    BY <1>1, <2>1
  <2> QED
    BY <1>2, <1>3, <1>4, <1>5, <1>6, <1>7, <2>2
<1>8. CASE pipe[1].k \notin CarrierKinds
  BY <1>2, <1>3, <1>4, <1>5, <1>6, <1>8
<1> QED
  BY <1>7, <1>8

(* A position behind what B takes from the pipe is behind all it has       *)
(* appended then.                                                          *)
LEMMA AppendPassed ==
  ASSUME TypeInv, BWriteLine, NEW p \in Position, Passed(p),
         Carries(pipe[1]) => NotAfter(Past(pipe[1]), p)
  PROVE  \A n \in Appended' : Before(cap'[n], p)
<1> DEFINE l == pipe[1]
<1>1. /\ l \in Line /\ Len(cap) \in Nat
      /\ \A n \in 1..Len(cap) : cap'[n] = cap[n]
      /\ IF Carries(l) THEN /\ Len(cap') = Len(cap) + 1
                            /\ cap'[Len(cap) + 1] = <<l.f, l.i>>
                       ELSE cap' = cap
  BY AppendEffect DEF Carries
<1>2. boot' = boot /\ boot \in Nat
  BY DEF BWriteLine, histVars, TypeInv, TypeOK, CaptureOK
<1> SUFFICES ASSUME NEW n \in Appended' PROVE Before(cap'[n], p)
  OBVIOUS
<1> HIDE DEF l
<1>3. CASE n \in 1..Len(cap)
  <2>1. n \in Appended /\ cap'[n] = cap[n]
    BY <1>1, <1>2, <1>3 DEF Appended
  <2> QED
    BY <2>1 DEF Passed
<1>4. CASE n \notin 1..Len(cap)
  <2>1. Carries(l) /\ n = Len(cap) + 1
    BY <1>1, <1>2, <1>4 DEF Appended
  <2>2. cap'[n] = <<l.f, l.i>>
    BY <1>1, <2>1
  <2>3. NotAfter(At(l.f, l.i + 1), p)
    BY <2>1 DEF l, Past, Carries, CarrierKinds, MarkerKinds
  <2> QED
    BY <1>1, <2>2, <2>3 DEF Before, NotAfter, At, Position, Line
<1> QED
  BY <1>3, <1>4

(* Texts are printed and taken in order.                                   *)
LEMMA MTexts ==
  ASSUME TypeInv, HandshakeInv, PositionInv, TextsInBinlogOrder, timeouts = 0,
         MNext, ~MWaitTimeout
  PROVE  TextsInBinlogOrder'
<1>1. CASE MPrintFirst \/ MPrintStart \/ MDumpEvent \/ MDumpText \/ MPrintEnd
             \/ MPrintLast
  <2>1. PICK l \in Line : Printed(l)
    BY <1>1, PrintsInOrder
  <2>2. /\ pipe \in Seq(Line) /\ Len(pipe) \in Nat
        /\ Len(pipe') = Len(pipe) + 1
        /\ \A k \in 1..Len(pipe) : pipe'[k] = pipe[k] /\ pipe[k] \in Line
        /\ pipe'[Len(pipe) + 1] = l
    BY <2>1 DEF Printed, TypeInv, TypeOK, LinesOK
  <2>3. /\ At(mFile, mIdx) \in Position /\ At(mFile', mIdx') \in Position
        /\ \A x \in Line : Need(x) \in Position /\ Past(x) \in Position
    <3>1. mFile \in Nat /\ mIdx \in Nat /\ mFile' \in Nat /\ mIdx' \in Nat
      BY <2>1 DEF TypeInv, TypeOK, ThreadsOK, Printed
    <3> QED
      BY <3>1, LinePositions DEF At, Position
  <2>4. \A k \in 1..Len(pipe) :
          Carries(pipe[k]) => NotAfter(Past(pipe[k]), At(mFile, mIdx))
    BY <2>1 DEF TextsInBinlogOrder, Printed
  <2>5. ASSUME NEW j \in 1..Len(pipe'), NEW k \in 1..Len(pipe'), j < k,
               Carries(pipe'[j]), Carries(pipe'[k]) \/ Stored(pipe'[k])
        PROVE  NotAfter(Past(pipe'[j]), Need(pipe'[k]))
    <3>1. j \in 1..Len(pipe)
      BY <2>2, <2>5
    <3>2. CASE k \in 1..Len(pipe)
      BY <2>2, <2>5, <3>1, <3>2 DEF TextsInBinlogOrder
    <3>3. CASE k = Len(pipe) + 1
      <4>1. NotAfter(Past(pipe[j]), At(mFile, mIdx))
        BY <2>2, <2>4, <2>5, <3>1
      <4>2. NotAfter(At(mFile, mIdx), Need(l))
        BY <2>1, <2>2, <2>5, <3>3 DEF Printed
      <4>3. pipe'[j] = pipe[j] /\ pipe'[k] = l /\ pipe[j] \in Line
        BY <2>2, <3>1, <3>3
      <4> QED
        BY <2>3, <4>1, <4>2, <4>3, NotAfterTrans
    <3> QED
      BY <2>2, <3>2, <3>3
  <2>6. ASSUME mpc' \in PassPcs, NEW k \in 1..Len(pipe'), Carries(pipe'[k])
        PROVE  NotAfter(Past(pipe'[k]), At(mFile', mIdx'))
    <3>1. CASE k \in 1..Len(pipe)
      <4>1. pipe'[k] = pipe[k] /\ pipe[k] \in Line
        BY <2>2, <3>1
      <4>2. NotAfter(Past(pipe[k]), At(mFile, mIdx))
        BY <2>4, <2>6, <3>1, <4>1
      <4>3. NotAfter(At(mFile, mIdx), At(mFile', mIdx'))
        BY <2>1, <2>6 DEF Printed
      <4> QED
        BY <2>3, <4>1, <4>2, <4>3, NotAfterTrans
    <3>2. CASE k = Len(pipe) + 1
      BY <2>1, <2>2, <2>6, <3>2 DEF Printed
    <3> QED
      BY <2>2, <3>1, <3>2
  <2>7. UNCHANGED g_StBinLogInfoFirst
    BY <2>1 DEF Printed
  <2> QED
    BY <2>5, <2>6, <2>7 DEF TextsInBinlogOrder, Stored, Carries
<1>2. ASSUME NEW n \in 0..Len(binlog), MLoadBinLog(n)
      PROVE  TextsInBinlogOrder'
  <2>1. mpc = "loop" /\ ~g_fExitApp
    BY <1>2 DEF MLoadBinLog
  <2>2. pipe' = <<>>
    BY <1>2, <2>1, LoadEffect DEF HandshakeInv, PassCloses, Consumed, Running
  <2> QED
    BY <2>2 DEF TextsInBinlogOrder
<1>3. CASE /\ UNCHANGED <<pipe, mFile, mIdx, g_StBinLogInfoFirst>>
           /\ mpc' \in PassPcs => mpc \in PassPcs
  BY <1>3 DEF TextsInBinlogOrder, Stored
<1>4. mpc \notin {"copyname", "copypos"}
  BY DEF HandshakeInv
<1> QED
  BY <1>1, <1>2, <1>3, <1>4, MSteps

LEMMA BTexts ==
  ASSUME TypeInv, TextsInBinlogOrder, BNext
  PROVE  TextsInBinlogOrder'
<1>1. UNCHANGED <<mpc, mFile, mIdx, g_StBinLogInfoFirst>>
  BY BFrame
<1>2. CASE BWriteLine
  <2>1. \A j \in 1..Len(pipe') : pipe'[j] = pipe[j + 1] /\ j + 1 \in 1..Len(pipe)
    BY <1>2, AppendEffect
  <2>2. ASSUME NEW j \in 1..Len(pipe'), NEW k \in 1..Len(pipe'), j < k,
               Carries(pipe'[j]), Carries(pipe'[k]) \/ Stored(pipe'[k])
        PROVE  NotAfter(Past(pipe'[j]), Need(pipe'[k]))
    <3>1. j + 1 < k + 1
      BY <2>2
    <3> QED
      BY <2>1, <2>2, <3>1 DEF TextsInBinlogOrder
  <2>3. mpc \in PassPcs => \A k \in 1..Len(pipe') :
          Carries(pipe'[k]) => NotAfter(Past(pipe'[k]), At(mFile, mIdx))
    BY <2>1 DEF TextsInBinlogOrder
  <2> QED
    BY <1>1, <2>2, <2>3 DEF TextsInBinlogOrder, Stored, Carries
<1>3. CASE ~BWriteLine
  <2>1. UNCHANGED pipe
    BY <1>3 DEF BNext, BEndOfRow, BText, BStmt, BTransactionTag, BStartBinlog,
       BStorePosition, BSaveInDisk, BEndBinlog, BFirstBinlog, BLastBinlog,
       BSignalEnd, BExit
  <2> QED
    BY <1>1, <2>1 DEF TextsInBinlogOrder, Stored
<1> QED
  BY <1>2, <1>3

(* Events are appended in ascending order.                                 *)
LEMMA MAscending ==
  ASSUME Orderly, CaptureInv, HandshakeInv, PositionInv, CompleteInv,
         timeouts = 0, MNext, ~MWaitTimeout
  PROVE  CapturedAscending'
<1>1. TypeInv /\ CapturedAscending /\ ResumeBehindAll
  BY DEF CaptureInv, CompleteInv
<1>2. UNCHANGED <<bpc, bLine, cap, boot>>
  BY MFrame
<1>3. \A m, n \in Appended : m < n => Before(cap[m], At(cap[n][1], cap[n][2]))
  BY <1>1 DEF CapturedAscending
<1>4. CASE MPrintFirst \/ MPrintStart \/ MDumpEvent \/ MDumpText \/ MPrintEnd
             \/ MPrintLast
  <2>1. PICK l \in Line : Printed(l)
    BY <1>1, <1>4, PrintsInOrder
  <2>2. At(mFile, mIdx) \in Position /\ At(mFile', mIdx') \in Position
        /\ Need(l) \in Position
    <3>1. mFile \in Nat /\ mIdx \in Nat /\ mFile' \in Nat /\ mIdx' \in Nat
      BY <1>1, <2>1 DEF TypeInv, TypeOK, ThreadsOK, Printed
    <3>2. Need(l) \in Position
      BY LinePositions
    <3> QED
      BY <3>1, <3>2 DEF At, Position
  <2>3. Passed(At(mFile, mIdx))
    BY <1>1, <2>1 DEF CapturedAscending, Printed
  <2>4. Carries(l) \/ Stored(l) => Passed(Need(l))
    BY <1>1, <2>1, <2>2, <2>3, PassedTrans DEF Printed
  <2>5. mpc' \in PassPcs => Passed(At(mFile', mIdx'))
    BY <1>1, <2>1, <2>2, <2>3, PassedTrans DEF Printed
  <2>6. /\ Len(pipe) \in Nat /\ Len(pipe') = Len(pipe) + 1
        /\ \A k \in 1..Len(pipe) : pipe'[k] = pipe[k]
        /\ pipe'[Len(pipe) + 1] = l
    BY <1>1, <2>1 DEF Printed, TypeInv, TypeOK, LinesOK
  <2>7. \A k \in 1..Len(pipe') :
          Carries(pipe'[k]) \/ Stored(pipe'[k]) => Passed(Need(pipe'[k]))
    BY <1>1, <2>4, <2>6 DEF CapturedAscending
  <2>8. UNCHANGED g_StBinLogInfoFirst /\ (InHand => Passed(Need(bLine)))
    BY <1>1, <2>1 DEF Printed, CapturedAscending
  <2>9. \A k \in 1..Len(pipe') :
          Carries(pipe[k])' \/ Stored(pipe[k])' => Passed(Need(pipe[k]))'
    BY <1>2, <2>7, <2>8 DEF Passed, Appended, Stored, Carries
  <2> QED
    BY <1>2, <1>3, <2>5, <2>8, <2>9
       DEF CapturedAscending, Appended, Passed, Stored, InHand
<1>5. ASSUME NEW n \in 0..Len(binlog), MLoadBinLog(n)
      PROVE  CapturedAscending'
  <2>1. mpc = "loop" /\ ~g_fExitApp
    BY <1>5 DEF MLoadBinLog
  <2>2. pipe = <<>> /\ bpc = "read"
    BY <2>1 DEF HandshakeInv, PassCloses, Consumed, Running
  <2>3. UNCHANGED pipe /\ mpc' \in {"first", "status", "check"}
    BY <1>5, LoadEffect
  <2>4. mpc' = "first" => mFile' = g_stBinLogSeq.name /\ mIdx' = g_stBinLogSeq.pos
    BY <1>5, LoadEffect
  <2>5. Passed(g_stBinLogSeq)
    BY <1>1, <2>1 DEF ResumeBehindAll
  <2>6. mpc' \in PassPcs => Passed(At(mFile', mIdx'))
    BY <2>3, <2>4, <2>5 DEF PassPcs, Passed, Before, At
  <2> QED
    BY <1>2, <1>3, <2>2, <2>3, <2>6
       DEF CapturedAscending, Appended, Passed, InHand
<1>6. CASE /\ UNCHANGED <<pipe, mFile, mIdx, g_StBinLogInfoFirst>>
           /\ mpc' \in PassPcs => mpc \in PassPcs
  BY <1>1, <1>2, <1>6
     DEF CapturedAscending, Appended, Passed, Stored, InHand
<1>7. mpc \notin {"copyname", "copypos"}
  BY DEF HandshakeInv
<1> QED
  BY <1>4, <1>5, <1>6, <1>7, MSteps

LEMMA BAscending ==
  ASSUME Orderly, CaptureInv, PositionInv, CompleteInv, timeouts = 0, BNext
  PROVE  CapturedAscending'
<1>1. TypeInv /\ CapturedAscending /\ TextsInBinlogOrder
  BY DEF CaptureInv, CompleteInv
<1>2. UNCHANGED <<mpc, mFile, mIdx, g_StBinLogInfoFirst, boot>>
  BY BFrame
<1>3. CASE BWriteLine
  <2> DEFINE l == pipe[1]
             e == <<l.f, l.i>>
             N == Len(cap) + 1
  <2>1. /\ Len(pipe) \in Nat \ {0} /\ Len(pipe') = Len(pipe) - 1
        /\ \A j \in 1..Len(pipe') :
             /\ pipe'[j] = pipe[j + 1] /\ pipe[j + 1] \in Line
             /\ j + 1 \in 1..Len(pipe)
        /\ 1 \in 1..Len(pipe) /\ bLine' = l /\ l \in Line
        /\ Len(cap) \in Nat
        /\ \A n \in 1..Len(cap) : cap'[n] = cap[n] /\ cap[n] \in Nat \X Nat
        /\ IF l.k \in CarrierKinds THEN Len(cap') = N /\ cap'[N] = e
                                   ELSE cap' = cap
    BY <1>1, <1>3, AppendEffect
  <2>2. bpc' \in {"rowend", "tag"} /\ boot \in Nat
    BY <1>1, <1>3 DEF BWriteLine, BGoto, TypeInv, TypeOK, CaptureOK
  <2>3. /\ Carries(l) \/ Stored(l) => Passed(Need(l))
        /\ Carries(l) => ~Stored(l) /\ Need(l) = At(l.f, l.i)
    BY <1>1, <2>1 DEF CapturedAscending, Stored, Carries, Need, CarrierKinds,
       MarkerKinds
(* A position behind the line is behind everything appended with it.       *)
  <2>4. ASSUME NEW p \in Position, Passed(p),
               Carries(l) => NotAfter(Past(l), p)
        PROVE  \A n \in Appended' : Before(cap'[n], p)
    BY <1>1, <1>3, <2>4, AppendPassed
  <2>5. \A m, n \in Appended' : m < n => Before(cap'[m], At(cap'[n][1], cap'[n][2]))
    <3> SUFFICES ASSUME NEW m \in Appended', NEW n \in Appended', m < n
                 PROVE  Before(cap'[m], At(cap'[n][1], cap'[n][2]))
      OBVIOUS
    <3>1. CASE n \in 1..Len(cap)
      <4>1. m \in Appended /\ n \in Appended /\ m \in 1..Len(cap)
        BY <1>2, <2>1, <2>2, <3>1 DEF Appended
      <4> QED
        BY <1>1, <2>1, <3>1, <4>1 DEF CapturedAscending
    <3>2. CASE n \notin 1..Len(cap)
      <4>1. l.k \in CarrierKinds /\ n = N /\ m \in 1..Len(cap) /\ m \in Appended
        BY <1>2, <2>1, <2>2, <3>2 DEF Appended
      <4>2. cap'[n] = e /\ cap'[m] = cap[m]
        BY <2>1, <4>1
      <4>3. Before(cap[m], At(l.f, l.i))
        BY <2>3, <4>1 DEF Passed, Carries
      <4> QED
        BY <4>2, <4>3
    <3> QED
      BY <3>1, <3>2
  <2>6. \A k \in 1..Len(pipe') :
          Carries(pipe'[k]) \/ Stored(pipe'[k]) =>
            \A n \in Appended' : Before(cap'[n], Need(pipe'[k]))
    <3> SUFFICES ASSUME NEW k \in 1..Len(pipe'),
                        Carries(pipe'[k]) \/ Stored(pipe'[k])
                 PROVE  \A n \in Appended' : Before(cap'[n], Need(pipe'[k]))
      OBVIOUS
    <3>1. pipe'[k] = pipe[k + 1] /\ k + 1 \in 1..Len(pipe) /\ 1 < k + 1
          /\ 1 \in 1..Len(pipe) /\ Need(pipe[k + 1]) \in Position
      BY <2>1, LinePositions
    <3>2. Passed(Need(pipe[k + 1]))
      BY <1>1, <3>1 DEF CapturedAscending
    <3>3. Carries(l) => NotAfter(Past(l), Need(pipe[k + 1]))
      BY <1>1, <3>1 DEF TextsInBinlogOrder
    <3> QED
      BY <2>4, <3>1, <3>2, <3>3
  <2>7. Stored(l) => \A n \in Appended' : Before(cap'[n], Need(l))
    <3>1. Need(l) \in Position
      BY <2>1, LinePositions
    <3> QED
      BY <2>3, <2>4, <3>1
  <2>8. mpc \in PassPcs => \A n \in Appended' : Before(cap'[n], At(mFile, mIdx))
    <3> SUFFICES ASSUME mpc \in PassPcs
                 PROVE  \A n \in Appended' : Before(cap'[n], At(mFile, mIdx))
      OBVIOUS
    <3>1. At(mFile, mIdx) \in Position /\ Passed(At(mFile, mIdx))
      BY <1>1 DEF TypeInv, TypeOK, ThreadsOK, At, Position, CapturedAscending
    <3>2. Carries(l) => NotAfter(Past(l), At(mFile, mIdx))
      BY <1>1, <2>1 DEF TextsInBinlogOrder
    <3> QED
      BY <2>4, <3>1, <3>2
  <2>9. bLine' = l
    BY <2>1
  <2> HIDE DEF l, e, N
  <2> QED
    BY <1>2, <2>5, <2>6, <2>7, <2>8, <2>9
       DEF CapturedAscending, Passed, Appended, InHand, Stored, Carries
<1>4. CASE ~BWriteLine
  <2>1. UNCHANGED <<pipe, bLine, cap>>
    BY <1>3, <1>4 DEF BNext, BEndOfRow, BText, BStmt, BTransactionTag, BStartBinlog,
       BStorePosition, BSaveInDisk, BEndBinlog, BFirstBinlog, BLastBinlog,
       BSignalEnd, BExit, capVars
  <2>2. bpc' \in {"rowend", "tag", "pos"} => bpc \in {"rowend", "tag", "pos"}
    BY <1>4 DEF BNext, BEndOfRow, BText, BStmt, BTransactionTag, BStartBinlog,
       BStorePosition, BSaveInDisk, BEndBinlog, BFirstBinlog, BLastBinlog,
       BSignalEnd, BExit, BGoto
  <2> QED
    BY <1>1, <1>2, <2>1, <2>2
       DEF CapturedAscending, Passed, Appended, InHand, Stored
<1> QED
  BY <1>3, <1>4

(* Binlogs are made of whole transactions.                                 *)
LEMMA FilesClosed ==
  ASSUME TypeInv, GroupsClosed, \A f \in 1..Len(binlog) : Closed(binlog[f]),
         [Next]_vars
  PROVE  \A f \in 1..Len(binlog') : Closed(binlog'[f])
<1>1. binlog \in Seq(Seq(Kinds)) /\ Len(binlog) \in Nat \ {0}
  BY DEF TypeInv, TypeOK, ServerOK
<1>2. ASSUME NEW g \in Groups, Commit(g)
      PROVE  \A f \in 1..Len(binlog') : Closed(binlog'[f])
  <2> DEFINE n == Len(binlog)
             s == binlog[n]
  <2>1. binlog' = [binlog EXCEPT ![n] = @ \o g] /\ g \in Seq(Kinds) /\ Closed(g)
    BY <1>2, ConstantsAssumption DEF Commit, GroupsClosed
  <2>2. Len(binlog') = n /\ binlog'[n] = s \o g
        /\ \A f \in 1..n : f # n => binlog'[f] = binlog[f]
    BY <1>1, <2>1
  <2>3. s \in Seq(Kinds) /\ Closed(s)
    BY <1>1, FileType
  <2> HIDE DEF s
  <2>4. Closed(s \o g)
    <3>1. CASE g = <<>>
      BY <2>3, <3>1
    <3>2. CASE g # <<>>
      <4>1. Len(g) \in 1..Len(g) /\ Len(s \o g) = Len(s) + Len(g)
            /\ (s \o g)[Len(s) + Len(g)] = g[Len(g)]
        BY <2>1, <2>3, <3>2
      <4> QED
        BY <2>1, <3>2, <4>1 DEF Closed
    <3> QED
      BY <3>1, <3>2
  <2> HIDE DEF n
  <2> QED
    BY <2>2, <2>4 DEF n
<1>3. CASE Rotate
  <2>1. /\ Len(binlog') = Len(binlog) + 1
        /\ \A f \in 1..Len(binlog) : binlog'[f] = binlog[f]
        /\ binlog'[Len(binlog) + 1] = <<>>
    BY <1>1, <1>3 DEF Rotate
  <2>2. Closed(<<>>)
    BY DEF Closed
  <2> QED
    BY SMTT(30), <1>1, <2>1, <2>2
<1>4. CASE Purge \/ MNext \/ BNext \/ ProcessNext \/ UNCHANGED vars
  <2>1. UNCHANGED binlog
    BY <1>4, MFrame, BFrame DEF Purge, ProcessNext, TStop, ProcessExit,
       BWriteFails, Kill, ProcessStart, serverVars, vars
  <2> QED
    BY <2>1
<1> QED
  BY <1>2, <1>3, <1>4 DEF Next, ServerNext

(* M prints the end of a transaction it is in the middle of, in the same   *)
(* pass.                                                                   *)
LEMMA PrintsEnd ==
  ASSUME TypeInv,
         MPrintFirst \/ MPrintStart \/ MDumpEvent \/ MDumpText \/ MPrintEnd
           \/ MPrintLast,
         NEW l \in Line, pipe' = Append(pipe, l)
  PROVE  /\ Opens(l) => MidGroup'
         /\ MidGroup => MidGroup' \/ l.k \in SavedOnTag
         /\ UNCHANGED fError
<1>1. mFile \in Nat /\ mIdx \in Nat /\ UNCHANGED binlog
  BY DEF TypeInv, TypeOK, ThreadsOK, MPrintFirst, MPrintStart, MDumpEvent,
     MDumpText, MPrintEnd, MPrintLast, serverVars
<1>2. ASSUME NEW x \in Line, pipe' = Append(pipe, x)
      PROVE  l = x
  <2>1. pipe \in Seq(Line)
    BY DEF TypeInv, TypeOK, LinesOK
  <2>2. Append(pipe, x)[Len(pipe) + 1] = x /\ Append(pipe, l)[Len(pipe) + 1] = l
    BY <2>1
  <2> QED
    BY <1>2, <2>2
<1>3. ASSUME NEW k \in EventKinds
      PROVE  LET x == EventLine(k, mFile, mIdx)
             IN  x \in Line /\ x.k = k /\ x.f = mFile /\ x.i = mIdx
  BY <1>1 DEF EventLine, Line, LineKinds
<1>4. CASE MPrintFirst \/ MPrintStart \/ MPrintEnd \/ MPrintLast
  <2>1. PICK k \in MarkerKinds : pipe' = Append(pipe, Marker(k, mFile))
    BY <1>4 DEF MPrintFirst, MPrintStart, MPrintEnd, MPrintLast, PrintLine,
       MarkerKinds
  <2>2. Marker(k, mFile) \in Line
    BY <1>1, <2>1 DEF Marker, Line, LineKinds
  <2>3. l = Marker(k, mFile)
    BY <1>2, <2>1, <2>2
  <2>4. ~Opens(l)
    BY <2>3 DEF Marker, MarkerKinds, Opens, EventKinds, EventTags, CarrierKinds
  <2>5. ~MidGroup
    BY <1>4 DEF MPrintFirst, MPrintStart, MPrintEnd, MPrintLast, MidGroup
  <2>6. UNCHANGED fError
    BY <1>4 DEF MPrintFirst, MPrintStart, MPrintEnd, MPrintLast, passVars
  <2> QED
    BY <2>4, <2>5, <2>6
<1>5. CASE MDumpEvent
  <2> DEFINE kind == binlog[mFile][mIdx]
  <2>1. /\ mpc = "dump" /\ mpc' = "text"
        /\ pipe' = Append(pipe, EventLine(TagOf(kind), mFile, mIdx))
        /\ UNCHANGED <<mFile, mIdx, fError>>
    BY <1>5 DEF MDumpEvent, PrintLine, MGoto, passVars
  <2>2. mFile \in 1..Len(binlog) /\ mIdx \in 1..Len(binlog[mFile])
    BY <1>1, <1>5, FileType
       DEF MDumpEvent, TypeInv, TypeOK, ThreadsOK, ServerOK, PassOK, PassPcs
  <2>3. kind \in Kinds
    BY <2>2 DEF TypeInv, TypeOK, ServerOK
  <2>4. MidGroup' <=> kind \in {"begin", "rows"}
    BY <1>1, <2>1 DEF MidGroup
  <2> HIDE DEF kind
  <2>5. /\ TagOf(kind) \in EventKinds
        /\ kind \notin {"begin", "rows"} => TagOf(kind) \in SavedOnTag
    BY <2>3 DEF TagOf, Kinds, EventKinds, EventTags, SavedOnTag
  <2>6. l.k = TagOf(kind) /\ l.f = mFile /\ l.i = mIdx
    BY <1>2, <1>3, <2>1, <2>5
  <2>7. Opens(l) => kind \in {"begin", "rows"}
    BY <2>6 DEF Opens, kind
  <2> QED
    BY <2>1, <2>4, <2>5, <2>6, <2>7
<1>6. CASE MDumpText
  <2> DEFINE kind == binlog[mFile][mIdx]
  <2>1. /\ mpc = "text" /\ mpc' = "dump" /\ mIdx' = mIdx + 1
        /\ pipe' = Append(pipe, EventLine(TextOf(kind), mFile, mIdx))
        /\ UNCHANGED <<mFile, fError>>
    BY <1>6 DEF MDumpText, MGoto, PrintLine
  <2>2. mIdx' > 1 /\ mIdx' - 1 = mIdx
    BY <1>1, <2>1 DEF TypeInv, PassOK
  <2>3. /\ MidGroup' <=> kind \in {"begin", "rows"}
        /\ MidGroup <=> kind \in {"begin", "rows"}
    BY <1>1, <2>1, <2>2 DEF MidGroup
  <2> HIDE DEF kind
  <2>4. TextOf(kind) \in EventKinds
    BY DEF TextOf, EventKinds, CarrierKinds
  <2>5. l.f = mFile /\ l.i = mIdx
    BY <1>2, <1>3, <2>1, <2>4
  <2>6. Opens(l) => kind \in {"begin", "rows"}
    BY <2>5 DEF Opens, kind
  <2> QED
    BY <2>1, <2>3, <2>6
<1> QED
  BY <1>4, <1>5, <1>6

(* At the end of a binlog M is not in the middle of a transaction.         *)
LEMMA EofClosed ==
  ASSUME CaptureInv, \A f \in 1..Len(binlog) : Closed(binlog[f]), MDumpEof
  PROVE  ~MidGroup
<1>1. mpc = "dump" /\ mIdx > Len(binlog[mFile])
  BY DEF MDumpEof
<1>2. mFile \in 1..Len(binlog) /\ mIdx \in 1..(Len(binlog[mFile]) + 1)
  BY <1>1 DEF CaptureInv, PassCovered, PassPcs, Cov, Within, At
<1>3. binlog[mFile] \in Seq(Kinds) /\ Len(binlog[mFile]) \in Nat
  BY <1>2, FileType DEF CaptureInv, TypeInv, TypeOK, ServerOK
<1>4. mIdx - 1 = Len(binlog[mFile])
  BY <1>1, <1>2, <1>3
<1>5. mIdx > 1 => binlog[mFile][mIdx - 1] \in {"query", "xid"}
  <2> SUFFICES ASSUME mIdx > 1
               PROVE  binlog[mFile][Len(binlog[mFile])] \in {"query", "xid"}
    BY <1>4
  <2>1. Len(binlog[mFile]) > 0
    BY <1>2, <1>3, <1>4
  <2> QED
    BY <1>2, <1>3, <2>1 DEF Closed
<1> QED
  BY <1>1, <1>5 DEF MidGroup

(* M goes on to the end of what it has begun to print.                     *)
LEMMA MTransactions ==
  ASSUME Orderly, CaptureInv, HandshakeInv, PositionInv, CompleteInv,
         timeouts = 0, MNext, ~MWaitTimeout
  PROVE  TransactionsEnd'
<1>1. /\ TypeInv /\ CapturedAscending /\ TransactionsEnd /\ ResumeBehindAll
      /\ \A f \in 1..Len(binlog) : Closed(binlog[f])
  BY DEF CaptureInv, CompleteInv
<1>2. UNCHANGED <<bpc, bLine, cap, boot, binlog>>
  BY MFrame
<1>3. Running
  BY DEF MNext, MLoadBinLog, MLoadBinLogFails, MLoadMasterStatus,
         MLoadMasterStatusFails, MPrintFirst, MSetName, MSetPos, MPrintStart,
         MConnect, MDumpFails, MDumpEvent, MDumpText, MDumpEof, MPrintEnd,
         MPrintLast, MWaitSignalled, MWaitTimeout, MCopyName, MCopyPos,
         MCheck, MCheckAlive, MSeesExit, Running
<1>4. CASE MPrintFirst \/ MPrintStart \/ MDumpEvent \/ MDumpText \/ MPrintEnd
             \/ MPrintLast
  <2>1. PICK l \in Line : Printed(l)
    BY <1>1, <1>4, PrintsInOrder
  <2>2. /\ Opens(l) => MidGroup'
        /\ MidGroup => MidGroup' \/ l.k \in SavedOnTag
        /\ UNCHANGED fError
    BY <1>1, <1>4, <2>1, PrintsEnd DEF Printed
  <2>3. /\ Len(pipe) \in Nat /\ Len(pipe') = Len(pipe) + 1
        /\ \A k \in 1..Len(pipe) : pipe'[k] = pipe[k]
        /\ pipe'[Len(pipe) + 1] = l
    BY <1>1, <2>1 DEF Printed, TypeInv, TypeOK, LinesOK
  <2>4. ASSUME NEW j \in 0..Len(pipe), EndInPipe(j) \/ MidGroup
        PROVE  EndInPipe(j)' \/ MidGroup'
    <3>1. CASE EndInPipe(j)
      BY <2>3, <3>1 DEF EndInPipe
    <3>2. CASE l.k \in SavedOnTag
      <4>1. Len(pipe) + 1 \in 1..Len(pipe') /\ Len(pipe) + 1 > j
        BY <2>3
      <4> QED
        BY <2>3, <3>2, <4>1 DEF EndInPipe
    <3> QED
      BY <2>2, <2>4, <3>1, <3>2
  <2> SUFFICES ASSUME ~fError
               PROVE  TransactionsEnd'
    BY <2>2 DEF TransactionsEnd
  <2>5. ASSUME NEW j \in 1..Len(pipe'), Opens(pipe'[j])
        PROVE  EndInPipe(j)' \/ MidGroup'
    <3>1. CASE j = Len(pipe) + 1
      BY <2>2, <2>3, <2>5, <3>1
    <3>2. CASE j \in 1..Len(pipe)
      BY <1>1, <1>3, <2>3, <2>4, <2>5, <3>2 DEF TransactionsEnd
    <3> QED
      BY <2>3, <3>1, <3>2
  <2>6. mpc' \notin {"first", "setname", "setpos"} /\ bpc # "pos" =>
         \/ Passed(g_stBinLogSeqInProgess)'
         \/ bpc \in {"rowend", "tag"} /\ bLine.k \in SavedOnTag
         \/ EndInPipe(0)' \/ MidGroup'
    <3>1. mpc' \notin {"first", "setname", "setpos"} =>
            mpc \notin {"first", "setname", "setpos"}
      BY <2>1 DEF Printed
    <3>2. Passed(g_stBinLogSeqInProgess)' <=> Passed(g_stBinLogSeqInProgess)
      BY <1>2, <2>1 DEF Passed, Appended, Printed
    <3> QED
      BY <1>1, <1>3, <2>3, <2>4, <3>1, <3>2 DEF TransactionsEnd
  <2> QED
    BY <1>2, <2>5, <2>6 DEF TransactionsEnd, Opens
<1>5. ASSUME NEW n \in 0..Len(binlog), MLoadBinLog(n)
      PROVE  TransactionsEnd'
  <2>1. mpc = "loop" /\ ~g_fExitApp
    BY <1>5 DEF MLoadBinLog
  <2>2. pipe = <<>> /\ bpc = "read"
    BY <2>1 DEF HandshakeInv, PassCloses, Consumed, Running
  <2>3. UNCHANGED <<pipe, g_stBinLogSeqInProgess>>
        /\ mpc' \in {"first", "status", "check"}
    BY <1>5, LoadEffect
  <2>4. Passed(g_stBinLogSeqInProgess)
    BY <1>1, <1>3, <2>1, <2>2
       DEF TransactionsEnd, ResumeBehindAll, EndInPipe, MidGroup
  <2> QED
    BY <1>2, <2>2, <2>3, <2>4
       DEF TransactionsEnd, Passed, Appended, EndInPipe
<1>6. CASE MSetPos
  <2>1. /\ mpc = "setpos" /\ mpc' = "start"
        /\ g_stBinLogSeqInProgess' = [g_stBinLogSeqInProgess EXCEPT !.pos = mIdx]
        /\ UNCHANGED pipe
    BY <1>6 DEF MSetPos, MGoto
  <2>2. g_stBinLogSeqInProgess.name = mFile /\ g_stBinLogSeqInProgess \in Position
    BY <1>1, <2>1 DEF CaptureInv, SeqCovered, TypeInv, TypeOK, PositionsOK
  <2>3. g_stBinLogSeqInProgess' = At(mFile, mIdx)
    BY <2>1, <2>2 DEF At, Position
  <2>4. Passed(At(mFile, mIdx))
    BY <1>1, <2>1 DEF CapturedAscending, PassPcs
  <2>5. \A j \in 1..Len(pipe) : ~Opens(pipe[j])
    BY <2>1 DEF HandshakeInv, PassOpens, Opens, EventKinds, EventTags,
       CarrierKinds
  <2> QED
    BY <1>2, <2>1, <2>3, <2>4, <2>5
       DEF TransactionsEnd, Passed, Appended, Opens
<1>7. CASE MDumpFails \/ MLoadBinLogFails
  BY <1>7 DEF MDumpFails, MLoadBinLogFails, TransactionsEnd
<1>8. CASE MLoadMasterStatus \/ MLoadMasterStatusFails \/ MSetName \/ MConnect
           \/ MDumpEof \/ MWaitSignalled \/ MCheck \/ MCheckAlive \/ MSeesExit
  <2>1. /\ UNCHANGED <<pipe, fError>>
        /\ mpc' # "first" /\ mpc' \notin {"text", "setname"}
        /\ mpc \in {"first", "setname", "setpos"} => mpc' = "setpos"
        /\ mpc' # "setpos" => UNCHANGED g_stBinLogSeqInProgess
    BY <1>8 DEF MLoadMasterStatus, MLoadMasterStatusFails, MSetName, MConnect,
       MDumpEof, MWaitSignalled, MCheck, MCheckAlive, MSeesExit, MGoto,
       passVars, seqVars
  <2>2. ~MidGroup
    <3>1. CASE MDumpEof
      BY <1>1, <3>1, EofClosed
    <3>2. CASE ~MDumpEof
      BY <1>8, <3>2 DEF MLoadMasterStatus, MLoadMasterStatusFails, MSetName,
         MConnect, MWaitSignalled, MCheck, MCheckAlive, MSeesExit, MidGroup
    <3> QED
      BY <3>1, <3>2
  <2> QED
    BY <1>1, <1>2, <1>3, <2>1, <2>2
       DEF TransactionsEnd, EndInPipe, Passed, Appended, Opens
<1>9. CASE MCopyName \/ MCopyPos
  BY <1>9 DEF MCopyName, MCopyPos, HandshakeInv
<1> QED
  BY <1>4, <1>5, <1>6, <1>7, <1>8, <1>9 DEF MNext

(* The sequence in progress stays where the tag of a transaction's end has *)
(* put it until the text of that event is written.                         *)
LEMMA MTagStored ==
  ASSUME HandshakeInv, TagStored, timeouts = 0, MNext
  PROVE  TagStored'
<1>1. UNCHANGED <<bpc, bLine>>
  BY MFrame
<1>2. CASE MSetName \/ MSetPos
  <2>1. bLine.k \notin SavedOnTag
    BY <1>2 DEF MSetName, MSetPos, HandshakeInv, PassOpens, SavedOnTag
  <2> QED
    BY <1>1, <2>1 DEF TagStored
<1>3. CASE ~(MSetName \/ MSetPos)
  <2>1. UNCHANGED g_stBinLogSeqInProgess
    BY <1>3, LoadEffect
       DEF MNext, MLoadBinLogFails, MLoadMasterStatus, MLoadMasterStatusFails,
           MPrintFirst, MPrintStart, MConnect, MDumpFails, MDumpEvent,
           MDumpText, MDumpEof, MPrintEnd, MPrintLast, MWaitSignalled,
           MWaitTimeout, MCopyName, MCopyPos, MCheck, MCheckAlive, MSeesExit,
           seqVars
  <2> QED
    BY <1>1, <2>1 DEF TagStored
<1> QED
  BY <1>2, <1>3

LEMMA BTagStored ==
  ASSUME CaptureInv, TagStored, BNext
  PROVE  TagStored'
<1>1. CASE BStorePosition
  <2>1. /\ g_stBinLogSeqInProgess.name = bLine.f
        /\ g_stBinLogSeqInProgess \in Position /\ bLine' = bLine
        /\ g_stBinLogSeqInProgess' =
             [g_stBinLogSeqInProgess EXCEPT !.pos = StoredPos(bLine)]
    BY <1>1 DEF BStorePosition, CaptureInv, LineCovered, TypeInv, TypeOK,
       PositionsOK
  <2>2. bLine.k \in SavedOnTag => StoredPos(bLine) = bLine.i + 1
    BY DEF SavedOnTag, StoredPos
  <2> QED
    BY <2>1, <2>2 DEF TagStored, At, Position
<1>2. CASE BWriteLine \/ BTransactionTag \/ BStartBinlog
  <2>1. /\ bpc' \in {"rowend", "tag", "pos"} \/ bLine'.k \notin SavedOnTag
    BY <1>2 DEF BWriteLine, BTransactionTag, BStartBinlog, BGoto, SavedOnTag
  <2> QED
    BY <2>1 DEF TagStored
<1>3. CASE \/ BEndOfRow \/ BText \/ BStmt \/ BSaveInDisk \/ BEndBinlog
           \/ BFirstBinlog \/ BLastBinlog \/ BSignalEnd \/ BExit
  <2>1. /\ UNCHANGED <<bLine, g_stBinLogSeqInProgess>>
        /\ \/ bpc' \in {"rowend", "tag", "pos"}
           \/ bpc \notin {"rowend", "tag", "pos"}
           \/ bLine.k \notin SavedOnTag
    BY <1>3 DEF BEndOfRow, BText, BStmt, BSaveInDisk, BEndBinlog, BFirstBinlog,
       BLastBinlog, BSignalEnd, BExit, BGoto, SavedOnTag, CarrierKinds, seqVars
  <2> QED
    BY <2>1 DEF TagStored
<1> QED
  BY <1>1, <1>2, <1>3 DEF BNext

(* B stores the end of a transaction before it captures its last event.    *)
LEMMA BTransactions ==
  ASSUME Orderly, CaptureInv, LinesTrue, PositionInv, CompleteInv,
         timeouts = 0, Running, BNext
  PROVE  TransactionsEnd'
<1>1. TypeInv /\ CapturedAscending /\ TagStored /\ TransactionsEnd
  BY DEF CaptureInv, CompleteInv
<1>2. UNCHANGED <<mpc, mFile, mIdx, binlog, boot>>
  BY BFrame
<1>3. UNCHANGED fError
  BY DEF BNext, BWriteLine, BEndOfRow, BText, BStmt, BTransactionTag,
     BStartBinlog, BStorePosition, BSaveInDisk, BEndBinlog, BFirstBinlog,
     BLastBinlog, BSignalEnd, BExit, mVars, passVars
<1>4. /\ MidGroup' <=> MidGroup
      /\ \A x \in Line : Opens(x)' <=> Opens(x)
  BY <1>2 DEF MidGroup, Opens
<1> SUFFICES ASSUME ~fError PROVE TransactionsEnd'
  BY <1>3 DEF TransactionsEnd
<1>5. CASE BWriteLine
  <2> DEFINE l == pipe[1]
  <2>1. /\ Len(pipe) \in Nat \ {0} /\ Len(pipe') = Len(pipe) - 1
        /\ \A j \in 1..Len(pipe') :
             /\ pipe'[j] = pipe[j + 1] /\ pipe[j + 1] \in Line
             /\ j + 1 \in 1..Len(pipe)
        /\ 1 \in 1..Len(pipe) /\ bLine' = l /\ l \in Line
        /\ l.k \notin CarrierKinds => cap' = cap
    BY <1>1, <1>5, AppendEffect
  <2>2. bpc = "read" /\ bpc' \in {"rowend", "tag"}
        /\ UNCHANGED g_stBinLogSeqInProgess
    BY <1>5 DEF BWriteLine, BGoto, seqVars
(* A line behind line j + 1 is one behind line j of what is left.          *)
  <2>3. ASSUME NEW j \in 0..Len(pipe'), EndInPipe(j + 1) \/ MidGroup
        PROVE  EndInPipe(j)' \/ MidGroup'
    <3>1. CASE MidGroup
      BY <1>4, <3>1
    <3>2. CASE EndInPipe(j + 1)
      <4>1. PICK k \in 1..Len(pipe) : k > j + 1 /\ pipe[k].k \in SavedOnTag
        BY <3>2 DEF EndInPipe
      <4>2. k - 1 \in 1..Len(pipe') /\ k - 1 > j /\ (k - 1) + 1 = k
        BY <2>1, <4>1
      <4>3. pipe'[k - 1] = pipe[k]
        BY <2>1, <4>2
      <4> QED
        BY <4>1, <4>2, <4>3 DEF EndInPipe
    <3> QED
      BY <2>3, <3>1, <3>2
  <2>4. ASSUME NEW j \in 1..Len(pipe'), Opens(pipe'[j])
        PROVE  EndInPipe(j)' \/ MidGroup'
    <3>1. j + 1 \in 1..Len(pipe) /\ Opens(pipe[j + 1]) /\ j \in 0..Len(pipe')
      BY <2>1, <2>4
    <3>2. EndInPipe(j + 1) \/ MidGroup
      BY <1>1, <3>1 DEF TransactionsEnd
    <3> QED
      BY <2>3, <3>1, <3>2
  <2>5. EndInPipe(1) \/ MidGroup => EndInPipe(0)' \/ MidGroup'
    <3>1. 0 \in 0..Len(pipe') /\ 0 + 1 = 1
      BY <2>1
    <3> QED
      BY <2>3, <3>1
  <2>6. mpc \notin {"first", "setname", "setpos"} =>
         \/ Passed(g_stBinLogSeqInProgess)'
         \/ l.k \in SavedOnTag
         \/ EndInPipe(0)' \/ MidGroup'
    <3> SUFFICES ASSUME mpc \notin {"first", "setname", "setpos"},
                        l.k \notin SavedOnTag
                 PROVE  \/ Passed(g_stBinLogSeqInProgess)'
                        \/ EndInPipe(0)' \/ MidGroup'
      OBVIOUS
    <3>1. CASE Opens(l)
      BY <1>1, <2>1, <2>5, <3>1 DEF TransactionsEnd
    <3>2. CASE l.k \notin CarrierKinds
      <4>1. cap' = cap
        BY <2>1, <3>2
      <4>2. Passed(g_stBinLogSeqInProgess) \/ EndInPipe(0) \/ MidGroup
        BY <1>1, <2>2 DEF TransactionsEnd
      <4>3. Passed(g_stBinLogSeqInProgess) => Passed(g_stBinLogSeqInProgess)'
        BY <1>2, <2>2, <4>1 DEF Passed, Appended
      <4>4. EndInPipe(0) => EndInPipe(1)
        BY <2>1 DEF EndInPipe
      <4> QED
        BY <2>5, <4>2, <4>3, <4>4
(* The text of a query or xid event: its tag is the line B has handled.    *)
    <3>3. CASE l.k \in CarrierKinds /\ ~Opens(l)
      <4> DEFINE kind == binlog[l.f][l.i]
                 p == At(l.f, l.i + 1)
      <4>1. IsTextOf(l, bLine)
        <5>1. LineBefore(bLine, pipe, 1) = bLine
          BY DEF LineBefore
        <5> QED
          BY <2>1, <3>3, <5>1 DEF CaptureInv, TextFollows
      <4>2. /\ l.f \in 1..Len(binlog) /\ l.i \in 1..Len(binlog[l.f])
            /\ bLine.k \in {TagOf(kind), TextOf(kind)}
        BY <4>1 DEF LinesTrue, LineTrue, IsTextOf, EventKinds
      <4>3. kind \in Kinds
        BY <1>1, <4>2 DEF TypeInv, TypeOK, ServerOK
      <4>4. kind \in {"query", "xid"}
        BY <3>3, <4>3 DEF Opens, EventKinds, Kinds
      <4> HIDE DEF kind
      <4>5. bLine.k \in SavedOnTag
        BY <4>1, <4>2, <4>4
           DEF IsTextOf, EventTags, TagOf, TextOf, SavedOnTag
      <4>6. g_stBinLogSeqInProgess = p
        BY <1>1, <2>2, <4>1, <4>5 DEF TagStored, IsTextOf
      <4>7. /\ Need(l) = At(l.f, l.i) /\ Past(l) = p
            /\ Need(l) \in Position /\ p \in Position
            /\ NotAfter(Need(l), p) /\ NotAfter(p, p)
        BY <2>1, <3>3 DEF Need, Past, MarkerKinds, CarrierKinds, At, Position,
           NotAfter, Line
      <4>8. Passed(Need(l))
        BY <1>1, <2>1, <3>3 DEF CapturedAscending, Carries
      <4> HIDE DEF p
      <4>9. Passed(p)
        BY <1>1, <4>7, <4>8, PassedTrans
      <4>10. \A n \in Appended' : Before(cap'[n], p)
        BY <1>1, <1>5, <4>7, <4>9, AppendPassed
      <4> QED
        BY <2>2, <4>6, <4>10 DEF Passed
    <3> QED
      BY <3>1, <3>2, <3>3
  <2>7. bLine' = l
    BY <2>1
  <2> HIDE DEF l
  <2>8. \A j \in 1..Len(pipe') : Opens(pipe[j])' => EndInPipe(j)' \/ MidGroup'
    BY <1>2, <2>4 DEF Opens
  <2> QED
    BY <1>2, <2>2, <2>6, <2>7, <2>8 DEF TransactionsEnd
<1>6. CASE BStorePosition
  <2> DEFINE p == At(bLine.f, StoredPos(bLine))
  <2>1. /\ bpc = "pos" /\ bpc' \in {"save", "read"}
        /\ g_stBinLogSeqInProgess' =
             [g_stBinLogSeqInProgess EXCEPT !.pos = StoredPos(bLine)]
        /\ UNCHANGED <<pipe, bLine, cap>>
    BY <1>6 DEF BStorePosition, BGoto, capVars
  <2>2. /\ g_stBinLogSeqInProgess.name = bLine.f
        /\ bLine.k \in {"BEGIN", "QUERY", "COMMIT", "START"}
        /\ g_stBinLogSeqInProgess \in Position /\ bLine \in Line
    BY <1>1, <2>1
       DEF CaptureInv, LineCovered, TypeInv, TypeOK, PositionsOK, LinesOK
  <2>3. g_stBinLogSeqInProgess' = p
    BY <2>1, <2>2 DEF At, Position
  <2>4. p \in Position /\ Need(bLine) \in Position /\ NotAfter(Need(bLine), p)
    BY <2>2, LinePositions
  <2> HIDE DEF p
  <2>5. Passed(Need(bLine))
    BY <1>1, <2>1 DEF CapturedAscending, PositionInv, LinesInBinlogOrder
  <2>6. Passed(p)
    BY <1>1, <2>4, <2>5, PassedTrans
  <2>7. Passed(g_stBinLogSeqInProgess)'
    BY <1>2, <2>1, <2>3, <2>6 DEF Passed, Appended
  <2>8. \A j \in 1..Len(pipe) : (Opens(pipe[j]) => EndInPipe(j) \/ MidGroup)'
    BY <1>1, <1>2, <1>4, <2>1 DEF TransactionsEnd, EndInPipe, Opens
  <2> QED
    BY <2>1, <2>7, <2>8 DEF TransactionsEnd
<1>7. CASE BTransactionTag \/ BStartBinlog
  <2>1. /\ bpc = "tag" /\ bpc' \in {"pos", "read"}
        /\ UNCHANGED <<pipe, bLine, cap>>
        /\ bpc' = "read" => /\ UNCHANGED g_stBinLogSeqInProgess
                            /\ bLine.k = "START"
    BY <1>7 DEF BTransactionTag, BStartBinlog, BGoto, capVars
  <2> QED
    BY <1>1, <1>2, <1>4, <2>1
       DEF TransactionsEnd, EndInPipe, Passed, Appended, Opens, SavedOnTag
<1>8. CASE \/ BEndOfRow \/ BText \/ BStmt \/ BSaveInDisk \/ BEndBinlog
           \/ BFirstBinlog \/ BLastBinlog \/ BSignalEnd \/ BExit
  <2>1. /\ UNCHANGED <<pipe, bLine, cap, g_stBinLogSeqInProgess>>
        /\ bpc # "pos" /\ bpc' # "pos"
        /\ \/ bpc = "rowend" /\ bpc' = "tag"
           \/ /\ bpc' \notin {"rowend", "tag"}
              /\ bpc \in {"rowend", "tag"} => bLine.k \notin SavedOnTag
    BY <1>8 DEF BEndOfRow, BText, BStmt, BSaveInDisk, BEndBinlog, BFirstBinlog,
       BLastBinlog, BSignalEnd, BExit, BGoto, SavedOnTag, CarrierKinds, capVars, seqVars
  <2> QED
    BY <1>1, <1>2, <1>4, <2>1 DEF TransactionsEnd, EndInPipe, Passed, Appended, Opens
<1> QED
  BY <1>5, <1>6, <1>7, <1>8 DEF BNext

(* The copy of the sequence is behind all that was captured.               *)
LEMMA NextResume ==
  ASSUME Orderly, CaptureInv, ServiceInv, HandshakeInv, CompleteInv,
         timeouts = 0, Running, (MNext /\ ~MWaitTimeout) \/ BNext
  PROVE  ResumeBehindAll'
<1>1. TypeInv /\ TransactionsEnd /\ ResumeBehindAll
  BY DEF CaptureInv, CompleteInv
<1>2. CASE MNext /\ ~MWaitTimeout
  <2>1. UNCHANGED <<cap, boot, bpc>>
    BY <1>2, MFrame
  <2>2. ~g_fExitApp /\ mpc = "last" => ~g_hEventEndOfBinlog
    BY DEF HandshakeInv, PassCloses, Running
  <2>3. CASE MLoadMasterStatus
    <3>1. mpc = "status" /\ mpc' = "check"
      BY <2>3 DEF MLoadMasterStatus, MGoto
    <3>2. cap = <<>>
      BY <3>1 DEF ServiceInv, BaseSet
    <3>3. Appended' = {}
      BY <1>1, <2>1, <3>2 DEF Appended, TypeInv, TypeOK, CaptureOK
    <3> QED
      BY <3>1, <3>3 DEF ResumeBehindAll, Passed
  <2>4. CASE \E n \in 0..Len(binlog) : MLoadBinLog(n)
    <3> SUFFICES ASSUME NEW n \in 0..Len(binlog), MLoadBinLog(n)
                 PROVE  ResumeBehindAll'
      BY <2>4
    <3>1. mpc = "loop" /\ UNCHANGED g_fExitApp
      BY DEF MLoadBinLog
    <3>2. mpc' \in {"first", "status", "check"} /\ UNCHANGED g_stBinLogSeq
      BY LoadEffect
    <3> QED
      BY <1>1, <2>1, <3>1, <3>2 DEF ResumeBehindAll, Passed, Appended
  <2>5. CASE MWaitSignalled \/ MCheck \/ MCheckAlive \/ MSeesExit
             \/ MLoadBinLogFails \/ MLoadMasterStatusFails
    <3>1. /\ UNCHANGED <<g_stBinLogSeq, g_fExitApp>>
          /\ fError' = fError \/ fError' = TRUE
          /\ mpc' \in {"loop", "check", "alive", "done"}
          /\ mpc' = "loop" => mpc = "alive" /\ fError' = fError
          /\ mpc' = "alive" => ~fError /\ fError' = fError
          /\ \/ mpc \in {"loop", "status", "check", "alive"}
             \/ mpc = "wait" /\ g_hEventEndOfBinlog
      BY <2>5 DEF MWaitSignalled, MCheck, MCheckAlive, MSeesExit,
         MLoadBinLogFails, MLoadMasterStatusFails, MGoto, passVars, seqVars,
         flagVars
    <3> QED
      BY <1>1, <2>1, <3>1 DEF ResumeBehindAll, Passed, Appended
  <2>6. CASE MPrintLast
    <3>1. mpc = "last" /\ mpc' = "wait" /\ UNCHANGED flagVars
      BY <2>6 DEF MPrintLast, MGoto
    <3> QED
      BY <2>2, <3>1 DEF ResumeBehindAll, flagVars
  <2>7. CASE \/ MPrintFirst \/ MSetName \/ MSetPos \/ MPrintStart \/ MConnect
             \/ MDumpFails \/ MDumpEvent \/ MDumpText \/ MDumpEof \/ MPrintEnd
    <3>1. mpc' \in PassPcs
      BY <2>7 DEF MPrintFirst, MSetName, MSetPos, MPrintStart, MConnect,
         MDumpFails, MDumpEvent, MDumpText, MDumpEof, MPrintEnd, MGoto, PassPcs
    <3> QED
      BY <3>1 DEF ResumeBehindAll, PassPcs
  <2>8. CASE MCopyName \/ MCopyPos
    BY <2>8 DEF MCopyName, MCopyPos, HandshakeInv
  <2> QED
    BY <1>2, <2>3, <2>4, <2>5, <2>6, <2>7, <2>8 DEF MNext
<1>3. CASE BNext
  <2>1. UNCHANGED <<mpc, boot>>
    BY <1>3, BFrame
  <2>2. UNCHANGED <<g_fExitApp, fError>>
    BY <1>3 DEF BNext, BWriteLine, BEndOfRow, BText, BStmt, BTransactionTag,
     BStartBinlog, BStorePosition, BSaveInDisk, BEndBinlog, BFirstBinlog,
     BLastBinlog, BSignalEnd, BExit, flagVars, mVars, passVars
  <2>3. ~g_fExitApp /\ (mpc \in {"loop", "status", "check", "alive"}
                         \/ g_hEventEndOfBinlog)
          => bpc = "read" /\ pipe = <<>>
    BY DEF HandshakeInv, PassCloses, Consumed, Running
  <2>4. CASE BSignalEnd
    <3>1. /\ bpc = "seqpos" /\ UNCHANGED cap
          /\ g_stBinLogSeq' =
               [g_stBinLogSeq EXCEPT !.pos = g_stBinLogSeqInProgess.pos]
      BY <2>4 DEF BSignalEnd, capVars
    <3>2. g_stBinLogSeq' = g_stBinLogSeqInProgess
      BY <1>1, <3>1 DEF CaptureInv, SeqCovered, TypeInv, TypeOK, PositionsOK,
         Position
    <3>3. ~g_fExitApp => mpc = "wait" /\ pipe = <<>>
      BY <3>1 DEF HandshakeInv, PassCloses, Consumed, Running
    <3>4. ~g_fExitApp /\ ~fError => Passed(g_stBinLogSeqInProgess)
      BY <1>1, <3>1, <3>3 DEF TransactionsEnd, EndInPipe, MidGroup
    <3> QED
      BY <1>1, <2>1, <2>2, <3>1, <3>2, <3>3, <3>4
         DEF ResumeBehindAll, Passed, Appended
  <2>5. CASE BWriteLine \/ BLastBinlog
    <3>1. /\ (bpc = "read" /\ pipe # <<>>) \/ bpc = "tag"
          /\ UNCHANGED g_hEventEndOfBinlog
      BY <2>5 DEF BWriteLine, BLastBinlog, flagVars
    <3> QED
      BY <1>1, <2>1, <2>2, <2>3, <3>1 DEF ResumeBehindAll
  <2>6. CASE ~(BSignalEnd \/ BWriteLine \/ BLastBinlog)
    <3>1. UNCHANGED <<cap, g_stBinLogSeq, g_hEventEndOfBinlog>>
      BY <1>3, <2>6 DEF BNext, BEndOfRow, BText, BStmt, BTransactionTag,
         BStartBinlog, BStorePosition, BSaveInDisk, BEndBinlog, BFirstBinlog,
         BExit, capVars, seqVars, flagVars
    <3> QED
      BY <1>1, <2>1, <2>2, <3>1 DEF ResumeBehindAll, Passed, Appended
  <2> QED
    BY <2>4, <2>5, <2>6
<1> QED
  BY <1>2, <1>3

(* The server only appends: what M has read it has read.                   *)
LEMMA ServerGroup ==
  ASSUME CaptureInv, ServerNext
  PROVE  MidGroup => MidGroup'
<1> SUFFICES ASSUME MidGroup PROVE MidGroup'
  OBVIOUS
<1>1. UNCHANGED <<mpc, mFile, mIdx>>
  BY DEF ServerNext, Commit, Rotate, Purge, mVars, passVars
<1>2. TypeInv /\ mpc \in PassPcs
  BY DEF CaptureInv, MidGroup, PassPcs
<1>3. mFile \in 1..Len(binlog) /\ mIdx \in 1..(Len(binlog[mFile]) + 1)
  BY <1>2 DEF CaptureInv, PassCovered, Cov, Within, At
<1>4. Len(binlog[mFile]) \in Nat
      /\ \A i \in 1..Len(binlog[mFile]) : binlog'[mFile][i] = binlog[mFile][i]
  BY <1>2, <1>3, ServerEffect
<1>5. CASE mpc = "text"
  <2>1. mIdx \in 1..Len(binlog[mFile])
    BY <1>2, <1>3, <1>4, <1>5 DEF TypeInv, PassOK
  <2> QED
    BY <1>1, <1>4, <1>5, <2>1 DEF MidGroup
<1>6. CASE mpc # "text"
  <2>1. mIdx > 1 /\ mIdx - 1 \in 1..Len(binlog[mFile])
    BY <1>3, <1>4, <1>6 DEF MidGroup
  <2>2. binlog'[mFile][mIdx - 1] = binlog[mFile][mIdx - 1]
    BY <1>4, <2>1
  <2> QED
    BY <1>1, <1>6, <2>2 DEF MidGroup
<1> QED
  BY <1>5, <1>6

(* The server and the thread of the stop channel.                          *)
LEMMA QuietComplete ==
  ASSUME CaptureInv, LinesTrue, TextsInBinlogOrder, CapturedAscending,
         TagStored, TransactionsEnd, ResumeBehindAll,
         ServerNext \/ TStop \/ UNCHANGED vars
  PROVE  /\ TextsInBinlogOrder' /\ CapturedAscending'
         /\ TagStored' /\ TransactionsEnd' /\ ResumeBehindAll'
<1>1. /\ UNCHANGED <<mpc, mFile, mIdx, fError, pipe, bpc, bLine, g_stBinLogSeq,
                     g_stBinLogSeqInProgess, g_StBinLogInfoFirst, cap, boot>>
      /\ g_fExitApp' \/ UNCHANGED <<g_fExitApp, g_hEventEndOfBinlog>>
  BY DEF ServerNext, Commit, Rotate, Purge, TStop, vars, mVars, passVars,
     bVars, seqVars, infoVars, flagVars, capVars, histVars
<1>2. MidGroup => MidGroup'
  <2>1. CASE ServerNext
    BY <2>1, ServerGroup
  <2>2. CASE TStop \/ UNCHANGED vars
    <3>1. UNCHANGED <<binlog, mpc, mFile, mIdx>>
      BY <2>2 DEF TStop, vars, serverVars, mVars, passVars
    <3> QED
      BY <3>1 DEF MidGroup
  <2> QED
    BY <2>1, <2>2
<1>3. TextsInBinlogOrder' /\ CapturedAscending' /\ TagStored'
  BY <1>1 DEF TextsInBinlogOrder, CapturedAscending, TagStored, Passed,
     Appended, InHand, Stored
(* The event of a line is one the server has logged already.               *)
<1>4. ASSUME NEW j \in 1..Len(pipe), Opens(pipe[j])'
      PROVE  Opens(pipe[j])
  <2>1. /\ pipe[j].k \in EventKinds
        /\ pipe[j].f \in 1..Len(binlog) /\ pipe[j].i \in 1..Len(binlog[pipe[j].f])
    BY <1>1, <1>4 DEF LinesTrue, LineTrue, Opens
  <2>2. binlog'[pipe[j].f][pipe[j].i] = binlog[pipe[j].f][pipe[j].i]
    <3>1. CASE ServerNext
      BY <2>1, <3>1, ServerEffect DEF CaptureInv
    <3>2. CASE TStop \/ UNCHANGED vars
      BY <3>2 DEF TStop, vars, serverVars
    <3> QED
      BY <3>1, <3>2
  <2> QED
    BY <1>1, <1>4, <2>1, <2>2 DEF Opens
<1>5. TransactionsEnd'
  BY <1>1, <1>2, <1>4 DEF TransactionsEnd, EndInPipe, Passed, Appended, Running
<1>6. ResumeBehindAll'
  BY <1>1 DEF ResumeBehindAll, Passed, Appended
<1> QED
  BY <1>3, <1>5, <1>6

(* A process that is gone has nothing in hand; one that starts has         *)
(* appended nothing yet.                                                   *)
LEMMA ProcessComplete ==
  ASSUME CaptureInv, CapturedAscending,
         ProcessExit \/ BWriteFails \/ Kill \/ ProcessStart
  PROVE  /\ TextsInBinlogOrder' /\ CapturedAscending'
         /\ TagStored' /\ TransactionsEnd' /\ ResumeBehindAll'
<1>1. /\ pipe' = <<>> /\ bpc' \in {"read", "dead"} /\ fError' = FALSE
      /\ bLine' = NoLine
      /\ g_stBinLogSeqInProgess' = NoPosition
      /\ mpc' = "off" \/ (mpc' = "loop" /\ ProcessStart)
  BY DEF ProcessExit, BWriteFails, Kill, ProcessStart, FreshProcess
<1>2. /\ cap \in Seq(Nat \X Nat) /\ Len(cap) \in Nat /\ boot \in Nat
      /\ flushed \in 0..Len(cap)
  BY DEF CaptureInv, TypeInv, TypeOK, CaptureOK
<1>3. /\ \A n \in Appended' : n \in Appended /\ cap'[n] = cap[n]
      /\ ProcessStart => Appended' = {}
  <2>1. CASE ProcessStart
    BY <1>2, <2>1 DEF ProcessStart, Appended, capVars
  <2>2. CASE ProcessExit \/ BWriteFails
    BY <2>2, <1>1 DEF ProcessExit, BWriteFails, ProcessStart, Appended, histVars
  <2>3. CASE Kill
    <3>1. cap' = SubSeq(cap, 1, flushed) /\ boot' = boot
      BY <2>3 DEF Kill, histVars
    <3>2. Len(cap') = flushed /\ \A n \in 1..flushed : cap'[n] = cap[n]
      BY SMTT(30), <1>2, <3>1
    <3>3. Appended' = (boot + 1)..flushed
      BY <3>1, <3>2 DEF Appended
    <3>4. \A n \in Appended' : n \in 1..flushed /\ n \in Appended
      <4> SUFFICES ASSUME NEW n \in (boot + 1)..flushed
                   PROVE  n \in 1..flushed /\ n \in (boot + 1)..Len(cap)
        BY <3>3 DEF Appended
      <4> QED
        BY <1>2
    <3>5. ~ProcessStart
      BY <2>3 DEF Kill, ProcessStart
    <3> QED
      BY <3>2, <3>4, <3>5
  <2> QED
    BY <2>1, <2>2, <2>3
<1>4. TextsInBinlogOrder' /\ CapturedAscending' /\ TagStored'
  BY <1>1, <1>3 DEF TextsInBinlogOrder, CapturedAscending, TagStored, InHand,
     PassPcs, NoLine, SavedOnTag
<1>5. TransactionsEnd'
  <2>1. mpc' = "loop" => Passed(g_stBinLogSeqInProgess)'
    BY <1>1, <1>3 DEF Passed
  <2> QED
    BY <1>1, <2>1 DEF TransactionsEnd, Running
<1>6. ResumeBehindAll'
  BY <1>1, <1>3 DEF ResumeBehindAll, Passed
<1> QED
  BY <1>4, <1>5, <1>6

LEMMA NextComplete ==
  ASSUME Orderly, GroupsClosed, CaptureInv, ServiceInv, LinesTrue,
         HandshakeInv, PositionInv, CompleteInv, [Next]_vars
  PROVE  CompleteInv'
<1>1. TypeInv /\ \A f \in 1..Len(binlog) : Closed(binlog[f])
  BY DEF CaptureInv, CompleteInv
<1>2. \A f \in 1..Len(binlog') : Closed(binlog'[f])
  BY <1>1, FilesClosed
<1> SUFFICES ASSUME timeouts' = 0
             PROVE  /\ TextsInBinlogOrder' /\ CapturedAscending'
                    /\ TagStored' /\ TransactionsEnd' /\ ResumeBehindAll'
  BY <1>2 DEF CompleteInv
<1>3. timeouts = 0 /\ ~MWaitTimeout
  BY <1>1, TimeoutsKept
<1>4. /\ TextsInBinlogOrder /\ CapturedAscending
      /\ TagStored /\ TransactionsEnd /\ ResumeBehindAll
  BY <1>3 DEF CompleteInv
<1>5. CASE ServerNext \/ TStop \/ UNCHANGED vars
  BY <1>4, <1>5, QuietComplete
<1>6. CASE MNext
  <2>1. Running
    BY <1>6 DEF MNext, MLoadBinLog, MLoadBinLogFails, MLoadMasterStatus,
       MLoadMasterStatusFails, MPrintFirst, MSetName, MSetPos, MPrintStart,
       MConnect, MDumpFails, MDumpEvent, MDumpText, MDumpEof, MPrintEnd,
       MPrintLast, MWaitSignalled, MWaitTimeout, MCopyName, MCopyPos, MCheck,
       MCheckAlive, MSeesExit, Running
  <2> QED
    BY <1>1, <1>3, <1>4, <1>6, <2>1, MTexts, MAscending, MTagStored, MTransactions,
       NextResume
<1>7. CASE BNext
  <2>1. Running
    <3>1. bpc # "dead"
      BY <1>7 DEF BNext, BWriteLine, BEndOfRow, BText, BStmt, BTransactionTag,
         BStartBinlog, BStorePosition, BSaveInDisk, BEndBinlog, BFirstBinlog,
         BLastBinlog, BSignalEnd, BExit
    <3> QED
      BY <3>1 DEF CaptureInv, CaptureFlushed
  <2> QED
    BY <1>1, <1>3, <1>4, <1>7, <2>1, BTexts, BAscending, BTagStored,
       BTransactions, NextResume
<1>8. CASE ProcessExit \/ BWriteFails \/ Kill \/ ProcessStart
  BY <1>4, <1>8, ProcessComplete
<1> QED
  BY <1>5, <1>6, <1>7, <1>8 DEF Next, ProcessNext

LEMMA InitComplete == Init => CompleteInv
<1> SUFFICES ASSUME Init PROVE CompleteInv
  OBVIOUS
<1>1. /\ binlog = <<<<>>>> /\ cap = <<>> /\ boot = 0 /\ pipe = <<>>
      /\ bpc = "read" /\ bLine = NoLine /\ mpc = "loop" /\ fError = FALSE
  BY DEF Init
<1>2. \A f \in 1..Len(binlog) : Closed(binlog[f])
  BY <1>1 DEF Closed
<1>3. Appended = {}
  BY <1>1 DEF Appended
<1> QED
  BY <1>1, <1>2, <1>3 DEF CompleteInv, TextsInBinlogOrder, CapturedAscending,
     TagStored, TransactionsEnd, ResumeBehindAll, Passed, InHand, PassPcs,
     NoLine, SavedOnTag

(* As long as M never gave up waiting for B, a pass ends where a           *)
(* transaction does, and the next one starts behind all that listenBinLog- *)
(* Thread has written to the capture file.                                 *)
THEOREM PassesComplete ==
  Orderly /\ GroupsClosed => (Spec => []CompleteInv)
<1> SUFFICES ASSUME Orderly, GroupsClosed PROVE Spec => []CompleteInv
  OBVIOUS
<1>1. CaptureInv /\ ServiceInv /\ LinesTrue /\ HandshakeInv /\ PositionInv
        /\ CompleteInv /\ [Next]_vars
        => CompleteInv'
  BY NextComplete
<1>2. Spec => /\ []CaptureInv /\ []ServiceInv /\ []LinesTrue
              /\ []HandshakeInv /\ []PositionInv
  BY CaptureCovered, CapturedInBinlogOrder, TagsTrue, PassesMeet,
     PositionsInOrder
<1> QED
  BY <1>1, <1>2, InitComplete, PTL DEF Spec

(* When M never gives up waiting, a process writes no event to the capture *)
(* file twice.                                                             *)
THEOREM NeverTwice ==
  Orderly /\ GroupsClosed /\ MaxTimeouts = 0 => (Spec => []NoDuplicates)
<1> SUFFICES ASSUME Orderly, GroupsClosed, MaxTimeouts = 0
             PROVE  Spec => []NoDuplicates
  OBVIOUS
<1>1. CaptureInv /\ CompleteInv => NoDuplicates
  <2> SUFFICES ASSUME CaptureInv, CompleteInv PROVE NoDuplicates
    OBVIOUS
  <2>1. /\ timeouts = 0 /\ cap \in Seq(Nat \X Nat) /\ boot \in Nat
        /\ Len(cap) \in Nat
    BY DEF CaptureInv, TypeInv, TypeOK, ThreadsOK, CaptureOK
  <2>2. ASSUME NEW m \in Appended, NEW n \in Appended, m < n
        PROVE  cap[m] # cap[n]
    <3>1. Before(cap[m], At(cap[n][1], cap[n][2]))
      BY <2>1, <2>2 DEF CompleteInv, CapturedAscending
    <3>2. cap[m] \in Nat \X Nat
      BY <2>1 DEF Appended
    <3> QED
      BY <3>1, <3>2 DEF Before, At
  <2> QED
    BY <2>1, <2>2 DEF NoDuplicates, Appended
<1>2. Spec => []CaptureInv /\ []CompleteInv
  BY CaptureCovered, PassesComplete
<1> QED
  BY <1>1, <1>2, PTL

=============================================================================
