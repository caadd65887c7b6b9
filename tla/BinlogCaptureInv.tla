-------------------------- MODULE BinlogCaptureInv --------------------------
(***************************************************************************)
(* The inductive invariants of the capture pipeline.                       *)
(*                                                                         *)
(* NoLoss speaks of one position, the saved one.  It is kept because every *)
(* position any thread holds, on its way to the .XAI file, is covered: the *)
(* events before it are accounted for - captured, cut off, or due as the   *)
(* text of the tag B has read - or travel ahead of it in the pipe.         *)
(***************************************************************************)
EXTENDS BinlogCapture

(***************************************************************************)
(* The conditions of the argument.  Orderly: accesses to the shared        *)
(* sequences are not torn when M may give up waiting for B, and a kill     *)
(* finds no captured line in the stdio buffer.  Readable: binlogs can be   *)
(* read to their end.                                                      *)
(***************************************************************************)
Orderly == /\ "torn" \in Faults => MaxTimeouts = 0
           /\ "kill" \in Faults => FlushEachLine
Readable == Faults \cap {"dump", "purge"} = {}
Benign == Orderly /\ Readable

(***************************************************************************)
(* Coverage, over explicit values of the state: p is a position of the     *)
(* binlogs bl and every event before p, from b on, is in S; every event of *)
(* p's own file, when a dump may fail and the pass goes on with the next.  *)
(***************************************************************************)
Within(bl, p) == /\ p.name \in 1..Len(bl)
                 /\ p.pos \in 1..(Len(bl[p.name]) + 1)

Cov(bl, b, p, S) ==
  /\ Within(bl, p)
  /\ \A f \in 1..Len(bl) : \A i \in 1..Len(bl[f]) :
       /\ f = p.name \/ Readable
       /\ Before(<<f, i>>, p)
       /\ ~Before(<<f, i>>, b)
       => <<f, i>> \in S

(* The events of the capture c.  Those accounted for, also when B has read *)
(* the first j lines of the pipe q: a text adds its event to the capture,  *)
(* a tag that saves makes its event due.                                   *)
InCapture(c) == {c[n] : n \in 1..Len(c)}
Accounted == InCapture(cap) \cup cut \cup Due
AccountedKinds == CarrierKinds \cup SavedOnTag
InPipe(q, j) == {<<q[m].f, q[m].i>> : m \in {n \in 1..j : q[n].k \in AccountedKinds}}
Reach(S, q, j) == S \cup InPipe(q, j)

(* The position before which a line needs everything captured.             *)
Need(l) == At(l.f, IF l.k \in MarkerKinds THEN 1 ELSE l.i)

(* A position a thread may resume from: nothing is recorded yet, or it is  *)
(* covered by what is accounted for.                                       *)
Good(p) == p.name = 0 \/ Cov(binlog, base, p, Accounted)

-----------------------------------------------------------------------------
(* The pass of thread M: it is inside the loaded list, and while it dumps  *)
(* its next event is a position.                                           *)
PassPcs == {"first", "setname", "setpos", "start", "connect", "dump", "text",
            "end", "last"}
PassOK ==
  /\ mpc \in PassPcs => mFile \in 1..nList
  /\ mpc \in {"dump", "text"} => mIdx >= 1
  /\ mpc = "text" => mIdx <= Len(binlog[mFile])

TypeInv == TypeOK /\ PassOK

-----------------------------------------------------------------------------
(* No loss *)

(* The threads are never inside a two-step store at the same time.         *)
Exclusion == mpc \in {"setpos", "copypos"} => bpc \notin {"pos", "seqpos"}

(* Every recorded position is good, except while it is being stored.       *)
SeqCovered ==
  /\ Good(xai)
  /\ mpc # "setpos" /\ bpc # "pos" => Good(g_stBinLogSeqInProgess)
  /\ mpc # "copypos" /\ bpc # "seqpos" => Good(g_stBinLogSeq)
  /\ mpc = "setpos" => g_stBinLogSeqInProgess.name = mFile
  /\ mpc = "copypos" \/ bpc = "seqpos" =>
       g_stBinLogSeq.name = g_stBinLogSeqInProgess.name

(* The line before line j of the pipe; the one before the first is the     *)
(* line B is working on.                                                   *)
LineBefore(l, q, j) == IF j = 1 THEN l ELSE q[j - 1]

(* A tag is followed by its event's text, in the pipe or by what M prints  *)
(* next, and a text comes behind its tag only.                             *)
IsTextOf(l, tag) == /\ tag.k \in EventTags /\ l.k \in CarrierKinds
                    /\ l.f = tag.f /\ l.i = tag.i
TextFollows ==
  /\ \A j \in 1..Len(pipe) :
       LineBefore(bLine, pipe, j).k \in EventTags \/ pipe[j].k \in CarrierKinds
         => IsTextOf(pipe[j], LineBefore(bLine, pipe, j))
  /\ LET last == LineBefore(bLine, pipe, Len(pipe) + 1) IN
     last.k \in EventTags \/ mpc = "text" =>
       last.k \in EventTags /\ mpc = "text" /\ last.f = mFile /\ last.i = mIdx

(* Lines change file only at FIRST and START, events exist, and each line  *)
(* is covered by what is accounted for and the lines ahead of it.          *)
LinesCovered ==
  \A j \in 1..Len(pipe) :
    /\ pipe[j].k \notin {"FIRST", "START"} =>
         LineBefore(bLine, pipe, j).f = pipe[j].f
    /\ pipe[j].k \in EventKinds => pipe[j].i <= Len(binlog[pipe[j].f])
    /\ Cov(binlog, base, Need(pipe[j]), Reach(Accounted, pipe, j - 1))

(* All the line B works on needs is accounted for; szBinLogName names its  *)
(* file.                                                                   *)
LineCovered ==
  /\ bpc \in {"rowend", "tag", "pos"} \/ bLine.k \in SavedOnTag =>
       Cov(binlog, base, Need(bLine), Accounted)
  /\ bLine.k \in EventKinds =>
       bLine.f \in 1..Len(binlog) /\ bLine.i \in 1..Len(binlog[bLine.f])
  /\ \/ bpc \in {"rowend", "tag"} /\ bLine.k \in {"FIRST", "START"}
     \/ szBinLogName = bLine.f
  /\ bpc = "pos" => /\ g_stBinLogSeqInProgess.name = bLine.f
                    /\ bLine.k \in {"BEGIN", "QUERY", "COMMIT", "START"}

(* What M has dumped is accounted for or in the pipe; what it starts a     *)
(* pass from is accounted for.                                             *)
PassCovered ==
  /\ mpc \in PassPcs =>
       Cov(binlog, base, At(mFile, mIdx), Reach(Accounted, pipe, Len(pipe)))
  /\ mpc \in {"first", "setname", "setpos"} =>
       Cov(binlog, base, At(mFile, mIdx), Accounted)
  /\ mpc \in {"connect", "dump", "text", "end", "last"} =>
       LineBefore(bLine, pipe, Len(pipe) + 1).f = mFile
  /\ Readable /\ mpc = "end" /\ mFile < nList => mIdx > Len(binlog[mFile])

(* Nothing captured is in the stdio buffer when each line is flushed, or   *)
(* when no process runs; then there is no thread B with a line either.     *)
CaptureFlushed ==
  /\ FlushEachLine \/ ~Running => flushed = Len(cap)
  /\ ~Running => bpc = "dead" /\ bLine = NoLine

(* Each position on the way from the dump to the .XAI file is covered:     *)
(* StartReadBinLog, the pipe, listenBinLogThread, the two copies of the    *)
(* sequence and SaveInDisk.                                                *)
CaptureInv ==
  /\ TypeInv
  /\ Readable => purged = 0
  /\ CaptureFlushed
  /\ Exclusion
  /\ SeqCovered
  /\ TextFollows
  /\ LinesCovered
  /\ LineCovered
  /\ PassCovered

-----------------------------------------------------------------------------
(* The service *)

(* As long as the sequence in progress was never set in this process, only *)
(* the FIRST tag of the first pass can be on its way to B.                 *)
InProgessUnset ==
  Running /\ g_stBinLogSeqInProgess.name = 0 =>
    /\ mpc \in {"loop", "status", "check", "alive", "done", "first", "setname"}
    /\ bpc \in {"read", "tag", "dead"} /\ ~bDataColumnInProgress
    /\ bpc = "tag" => bLine.k = "FIRST"
    /\ \A j \in 1..Len(pipe) : pipe[j].k = "FIRST"

(* Before the base is set nothing is captured or recorded; it is set once. *)
BaseSet ==
  /\ base.name = 0 =>
       /\ xai.name = 0 /\ g_stBinLogSeq.name = 0
       /\ g_stBinLogSeqInProgess.name = 0
       /\ cap = <<>> /\ pipe = <<>> /\ cut = {}
       /\ mpc \in {"off", "loop", "status", "check", "alive", "done"}
  /\ base.name # 0 =>
       /\ xai.name # 0
       /\ Running => g_stBinLogSeq.name # 0
       /\ mpc # "status"

(* An event that is captured, or was cut off behind the base, is in the    *)
(* binlogs, and so is every event before it, from the base on, captured or *)
(* cut off.                                                                *)
CapturedInOrder ==
  /\ \A e \in InCapture(cap) \cup cut :
       /\ Cov(binlog, base, At(e[1], e[2]), InCapture(cap) \cup cut)
       /\ e[2] <= Len(binlog[e[1]])
  /\ \A e \in cut : ~Before(e, base)

(* Once a position is recorded the process never starts from the server's  *)
(* end again, and what it appends to the capture leaves no gap before it:  *)
(* LoadBinLog and LoadMasterStatus, the FIRST tag that comes before the    *)
(* sequence is set, and the order of the lines.                            *)
ServiceInv == InProgessUnset /\ BaseSet /\ CapturedInOrder

-----------------------------------------------------------------------------
(* Transactions *)

(* A sequence of events is made of whole transactions: it opens with a     *)
(* begin, and so does what follows the end of a transaction.               *)
Delimited(s) ==
  \A i \in 1..Len(s) : i = 1 \/ s[i - 1] \in {"query", "xid"} => s[i] = "begin"

(* No savepoint and no other statement is logged inside a transaction.     *)
GroupsDelimited == \A g \in Groups : Delimited(g)

(* The event at p, or the next one to be logged there, opens a group.      *)
AtBoundary(p) ==
  /\ Within(binlog, p)
  /\ p.pos <= Len(binlog[p.name]) => binlog[p.name][p.pos] = "begin"

(* A position a thread may resume from.                                    *)
Startable(p) == p.name = 0 \/ AtBoundary(p)

(* A line of an event is its tag or its text.                              *)
LineTrue(l) ==
  l.k \in EventKinds =>
    /\ l.f \in 1..Len(binlog) /\ l.i \in 1..Len(binlog[l.f])
    /\ l.k \in {TagOf(binlog[l.f][l.i]), TextOf(binlog[l.f][l.i])}

LinesTrue ==
  /\ \A j \in 1..Len(pipe) : LineTrue(pipe[j])
  /\ LineTrue(bLine)

(* Every position on its way to the .XAI file lies between transactions:   *)
(* the start of BEGIN, the end of QUERY and COMMIT, the start of a file.   *)
BoundaryInv ==
  /\ \A f \in 1..Len(binlog) : Delimited(binlog[f])
  /\ Startable(xai)
  /\ mpc # "setpos" /\ bpc # "pos" => Startable(g_stBinLogSeqInProgess)
  /\ mpc # "copypos" /\ bpc # "seqpos" => Startable(g_stBinLogSeq)
  /\ mpc \in {"first", "setname", "setpos"} => AtBoundary(At(mFile, mIdx))

-----------------------------------------------------------------------------
(* The hand-shake of the passes *)

(* B has consumed the LAST tag of a pass, or not yet seen a line.          *)
Consumed == pipe = <<>> /\ bLine.k = "LAST"

(* B leaves the wait for the columns of a row with the next line.          *)
RowClosed == bpc # "rowend" /\ bLine.k # "ROW" => ~bDataColumnInProgress

(* M enters a pass only when B has consumed the previous one; until M has  *)
(* stored its position, only the FIRST tag can reach B.                    *)
PassOpens ==
  /\ mpc \in {"status", "first"} => Consumed /\ bpc \in {"read", "dead"}
  /\ mpc \in {"setname", "setpos"} =>
       /\ \A j \in 1..Len(pipe) : pipe[j].k = "FIRST"
       /\ bLine.k \in {"FIRST", "LAST"} /\ bpc \in {"read", "tag", "dead"}
       /\ bpc = "tag" => bLine.k = "FIRST"

(* Until the exit flag is up, the event is raised by B alone, once per     *)
(* pass, when it has consumed the LAST tag M waits behind.                 *)
PassCloses ==
  Running /\ ~g_fExitApp =>
    /\ bpc # "dead"
    /\ mpc \in {"loop", "status", "check", "alive", "done"} \/ g_hEventEndOfBinlog
         => Consumed /\ bpc = "read"
    /\ g_hEventEndOfBinlog => mpc = "wait"
    /\ \A j \in 1..Len(pipe) :
         pipe[j].k = "LAST" => j = Len(pipe) /\ mpc = "wait"
    /\ bpc = "seqpos" \/ (bpc \in {"rowend", "tag"} /\ bLine.k = "LAST")
         => Consumed /\ mpc = "wait"

(* ReadJournal and listenBinLogThread meet once per pass, as long as M     *)
(* never gave up waiting: the event, the LAST tag and the copy of the      *)
(* sequence belong to one pass.                                            *)
HandshakeInv ==
  timeouts = 0 => /\ mpc \notin {"copyname", "copypos"}
                  /\ RowClosed /\ PassOpens /\ PassCloses

(* M and B take turns at the shared sequences: neither enters an access    *)
(* while the other is inside one.                                          *)
TakeTurns ==
  /\ MMayAccess /\ (\/ mpc \in {"status", "setname", "copyname"}
                    \/ mpc = "loop" /\ ~g_fExitApp)
       => bpc \notin {"pos", "seqpos"}
  /\ BMayAccess /\ (\/ bpc \in {"rowend", "save"}
                    \/ bpc = "tag" /\ bLine.k # "FIRST")
       => mpc \notin {"setpos", "copypos"}

-----------------------------------------------------------------------------
(* The order of positions *)

NotAfter(p, q) == p.name < q.name \/ (p.name = q.name /\ p.pos <= q.pos)

(* The lines whose position B may store: the tags of a transaction, and    *)
(* the START of a binlog that is not the first of the pass.  Past(l) is    *)
(* the position behind one.                                                *)
Stored(l) == \/ l.k \in {"BEGIN", "QUERY", "COMMIT"}
             \/ (l.k = "START" /\ l.f # g_StBinLogInfoFirst)
Past(l) == At(l.f, IF l.k \in MarkerKinds THEN 1 ELSE l.i + 1)

(* B holds a line it may store the position of.                            *)
InHand == bpc \in {"rowend", "tag", "pos"} /\ Stored(bLine)

(* The position behind the tags M has printed.                             *)
Ahead == At(mFile, IF mpc = "text" THEN mIdx + 1 ELSE mIdx)

(* Tags come in the order of their events, all of them behind M.           *)
LinesInBinlogOrder ==
  /\ \A j, k \in 1..Len(pipe) :
       j < k /\ Stored(pipe[j]) /\ Stored(pipe[k])
         => NotAfter(Past(pipe[j]), Need(pipe[k]))
  /\ InHand => \A k \in 1..Len(pipe) :
                 Stored(pipe[k]) => NotAfter(Past(bLine), Need(pipe[k]))
  /\ mpc \in PassPcs =>
       /\ \A k \in 1..Len(pipe) :
            Stored(pipe[k]) => NotAfter(Past(pipe[k]), Ahead)
       /\ InHand => NotAfter(Past(bLine), Ahead)
  /\ mpc \in {"first", "setname", "setpos"} => mFile = g_StBinLogInfoFirst
  /\ mpc = "start" => mFile = g_StBinLogInfoFirst \/ mIdx = 1
  /\ bpc = "pos" => InHand

(* The sequence in progress is behind every line still to come.            *)
InProgessBehind ==
  mpc \notin {"first", "setname", "setpos"} /\ bpc # "pos" =>
    /\ \A k \in 1..Len(pipe) :
         Stored(pipe[k]) => NotAfter(g_stBinLogSeqInProgess, Need(pipe[k]))
    /\ InHand => NotAfter(g_stBinLogSeqInProgess, Need(bLine))
    /\ mpc \in PassPcs => NotAfter(g_stBinLogSeqInProgess, Ahead)

(* The saved position is behind what may be saved next: the sequence in    *)
(* progress, the position of the line in hand, the start of the pass.      *)
SavedBehind ==
  /\ Running /\ g_stBinLogSeqInProgess.name # 0 /\ mpc # "setpos" /\ bpc # "pos"
       => NotAfter(xai, g_stBinLogSeqInProgess)
  /\ bpc = "pos" => NotAfter(xai, Need(bLine))
  /\ mpc \in {"first", "setname", "setpos"} => NotAfter(xai, At(mFile, mIdx))
  /\ \/ mpc \in {"loop", "status", "check", "alive"}
     \/ mpc = "wait" /\ g_hEventEndOfBinlog
     => g_fExitApp \/ NotAfter(xai, g_stBinLogSeq)

(* Positions only move forward on their way to the .XAI file, as long as M *)
(* never gave up waiting.                                                  *)
PositionInv ==
  timeouts = 0 => LinesInBinlogOrder /\ InProgessBehind /\ SavedBehind

-----------------------------------------------------------------------------
(* No event twice *)

(* Every transaction ends with a QUERY or XID event.                       *)
Closed(s) == s # <<>> => s[Len(s)] \in {"query", "xid"}
GroupsClosed == \A g \in Groups : Closed(g)

(* What the running process has appended to the capture, and a position    *)
(* behind all of it.                                                       *)
Appended == (boot + 1)..Len(cap)
Passed(p) == \A n \in Appended : Before(cap[n], p)

(* Texts come in the order of their events, tags behind the texts before   *)
(* them, all of them behind M.                                             *)
Carries(l) == l.k \in CarrierKinds
TextsInBinlogOrder ==
  /\ \A j, k \in 1..Len(pipe) :
       j < k /\ Carries(pipe[j]) /\ (Carries(pipe[k]) \/ Stored(pipe[k]))
         => NotAfter(Past(pipe[j]), Need(pipe[k]))
  /\ mpc \in PassPcs =>
       \A k \in 1..Len(pipe) :
         Carries(pipe[k]) => NotAfter(Past(pipe[k]), At(mFile, mIdx))

(* The events appended ascend, and all that is still to come is behind     *)
(* them.                                                                   *)
CapturedAscending ==
  /\ \A m, n \in Appended : m < n => Before(cap[m], At(cap[n][1], cap[n][2]))
  /\ \A k \in 1..Len(pipe) :
       Carries(pipe[k]) \/ Stored(pipe[k]) => Passed(Need(pipe[k]))
  /\ InHand => Passed(Need(bLine))
  /\ mpc \in PassPcs => Passed(At(mFile, mIdx))

(* The end of a transaction is in the pipe behind line j, or M is in the   *)
(* middle of one.                                                          *)
Opens(l) == l.k \in EventKinds /\ binlog[l.f][l.i] \in {"begin", "rows"}
EndInPipe(j) == \E k \in 1..Len(pipe) : k > j /\ pipe[k].k \in SavedOnTag
MidGroup == \/ /\ mpc = "dump" /\ mIdx > 1
               /\ binlog[mFile][mIdx - 1] \in {"begin", "rows"}
            \/ mpc = "text" /\ binlog[mFile][mIdx] \in {"begin", "rows"}

(* The sequence in progress is behind the event of a tag that saves before *)
(* the event's text is written.                                            *)
TagStored ==
  bLine.k \in SavedOnTag /\ bpc \notin {"rowend", "tag", "pos"} =>
    g_stBinLogSeqInProgess = At(bLine.f, bLine.i + 1)

(* A transaction that B has opened is ended in the same pass, unless       *)
(* reading the binlog fails: what is captured behind the sequence in       *)
(* progress has its end ahead of it.                                       *)
TransactionsEnd ==
  Running /\ ~fError =>
    /\ \A j \in 1..Len(pipe) : Opens(pipe[j]) => EndInPipe(j) \/ MidGroup
    /\ mpc \notin {"first", "setname", "setpos"} /\ bpc # "pos" =>
         \/ Passed(g_stBinLogSeqInProgess)
         \/ bpc \in {"rowend", "tag"} /\ bLine.k \in SavedOnTag
         \/ EndInPipe(0) \/ MidGroup

(* The next pass starts behind everything captured.                        *)
ResumeBehindAll ==
  /\ mpc \in {"loop", "alive"} => ~fError
  /\ \/ mpc \in {"loop", "status", "check", "alive"}
     \/ mpc = "wait" /\ g_hEventEndOfBinlog
     => g_fExitApp \/ fError \/ Passed(g_stBinLogSeq)

(* A pass ends where a transaction does, as long as M never gave up        *)
(* waiting.                                                                *)
CompleteInv ==
  /\ \A f \in 1..Len(binlog) : Closed(binlog[f])
  /\ timeouts = 0 => /\ TextsInBinlogOrder /\ CapturedAscending
                  /\ TagStored /\ TransactionsEnd /\ ResumeBehindAll

=============================================================================
