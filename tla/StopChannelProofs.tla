-------------------------- MODULE StopChannelProofs --------------------------
(***************************************************************************)
(* What StopChannel guarantees for any number of clients, any messages and *)
(* any of the faults: the pipe is left empty and listened to again after   *)
(* every client, and Cleanup frees nothing that thread B still uses.       *)
(***************************************************************************)
EXTENDS StopChannel, TLAPS

(* A client at the pipe keeps StopInv.                                     *)
LEMMA ClientStep ==
  ASSUME StopInv, NEW c \in Clients,
         ClientStarts(c) \/ ClientOpens(c) \/ ClientCannotOpen(c)
         \/ ClientWaited(c) \/ ClientWaitFails(c) \/ ClientWrites(c)
         \/ ClientCannotWrite(c) \/ ClientCloses(c) \/ ClientDies(c)
  PROVE  StopInv'
<1> USE StopAssumption DEF StopInv, StopTypeOK, PipeInUse, PipeListened,
      BKnown, DeafOnlyAtStart,
      Running, vars, pipeVars, tVars, mVars, logVars, Nobody, ClientGoto,
      Closed, WaitOver
<1>1. CASE ClientStarts(c)
  BY <1>1 DEF ClientStarts
<1>2. CASE ClientOpens(c)
  BY <1>2 DEF ClientOpens
<1>3. CASE ClientCannotOpen(c)
  BY <1>3 DEF ClientCannotOpen
<1>4. CASE ClientWaited(c)
  BY <1>4 DEF ClientWaited
<1>5. CASE ClientWaitFails(c)
  BY <1>5 DEF ClientWaitFails
<1>6. CASE ClientWrites(c)
  BY <1>6 DEF ClientWrites
<1>7. CASE ClientCannotWrite(c)
  BY <1>7 DEF ClientCannotWrite
<1>8. CASE ClientCloses(c)
  BY <1>8 DEF ClientCloses
<1>9. CASE ClientDies(c)
  BY <1>9 DEF ClientDies
<1> QED  BY <1>1, <1>2, <1>3, <1>4, <1>5, <1>6, <1>7, <1>8, <1>9

(* Thread T keeps it.                                                      *)
LEMMA ThreadTStep ==
  ASSUME StopInv,
         TConnect \/ TConnected \/ TRead \/ TReadFails \/ TStop
         \/ TDisconnect \/ TLeave
  PROVE  StopInv'
<1> USE StopAssumption DEF StopInv, StopTypeOK, PipeInUse, PipeListened,
      BKnown, DeafOnlyAtStart,
      Running, vars, pipeVars, tVars, mVars, logVars, Nobody, TReady,
      Writing, StopMessages, Disconnected
<1>1. CASE TConnect
  BY <1>1 DEF TConnect
<1>2. CASE TConnected
  BY <1>2 DEF TConnected
<1>3. CASE TRead
  BY <1>3 DEF TRead
<1>4. CASE TReadFails
  BY <1>4 DEF TReadFails
<1>5. CASE TStop
  BY <1>5 DEF TStop
<1>6. CASE TDisconnect
  BY <1>6 DEF TDisconnect
<1>7. CASE TLeave
  BY <1>7 DEF TLeave
<1> QED  BY <1>1, <1>2, <1>3, <1>4, <1>5, <1>6, <1>7

(* Thread B keeps it.                                                      *)
LEMMA ThreadBStep ==
  ASSUME StopInv,
         BGetsData \/ BDone \/ BEndOfPipe \/ BLeave \/ BReturn
  PROVE  StopInv'
<1> USE StopAssumption DEF StopInv, StopTypeOK, PipeInUse, PipeListened,
      BKnown, DeafOnlyAtStart,
      Running, vars, pipeVars, tVars, mVars, logVars, Nobody, BReady, Writing
<1>1. CASE BGetsData
  BY <1>1 DEF BGetsData
<1>2. CASE BDone
  BY <1>2 DEF BDone
<1>3. CASE BEndOfPipe
  BY <1>3 DEF BEndOfPipe
<1>4. CASE BLeave
  BY <1>4 DEF BLeave
<1>5. CASE BReturn
  BY <1>5 DEF BReturn
<1> QED  BY <1>1, <1>2, <1>3, <1>4, <1>5

(* main keeps it.                                                          *)
LEMMA MainStep ==
  ASSUME StopInv,
         InitFails \/ StartThread \/ CreatePipe \/ CreatePipeFails
         \/ CreateThreadPipe \/ CreateThreadPipeFails \/ OpenDb \/ ReadJournal
         \/ ReadJournalExits \/ StopRedirection \/ SetEventB \/ WaitForB
         \/ WaitForBTimeout \/ Cleanup \/ LogWriteM \/ LogClose \/ ProcessExit
         \/ ReadJournalFails
  PROVE  StopInv'
<1> USE StopAssumption DEF StopInv, StopTypeOK, PipeInUse, PipeListened,
      BKnown, DeafOnlyAtStart,
      Running, vars, pipeVars, tVars, mVars, logVars, Nobody, MGoto, Writing,
      BEnded
<1>1. CASE InitFails
  BY <1>1 DEF InitFails
<1>2. CASE StartThread
  BY <1>2 DEF StartThread
<1>3. CASE CreatePipe
  BY <1>3 DEF CreatePipe
<1>4. CASE CreatePipeFails
  BY <1>4 DEF CreatePipeFails
<1>5. CASE CreateThreadPipe
  BY <1>5 DEF CreateThreadPipe
<1>6. CASE CreateThreadPipeFails
  BY <1>6 DEF CreateThreadPipeFails
<1>7. CASE OpenDb
  BY <1>7 DEF OpenDb
<1>8. CASE ReadJournal
  BY <1>8 DEF ReadJournal, ReadJournalEnds
<1>9. CASE ReadJournalExits
  BY <1>9 DEF ReadJournalExits
<1>10. CASE StopRedirection
  <2>1. /\ redirected' \in BOOLEAN
        /\ UNCHANGED <<cpc, pst, msg, owner, tpc, heard, g_fExitApp, mpc,
                       iReturn, g_hEvent_B, released, bpc, m_pLogFile,
                       m_MutexLog, lpc>>
    BY Zenon, <1>10 DEF StopRedirection
  <2> QED  BY <2>1
<1>11. CASE SetEventB
  BY <1>11 DEF SetEventB
<1>12. CASE WaitForB
  BY <1>12 DEF WaitForB
<1>13. CASE WaitForBTimeout
  BY <1>13 DEF WaitForBTimeout
<1>14. CASE Cleanup
  BY <1>14 DEF Cleanup
<1>15. CASE LogWriteM
  BY <1>15 DEF LogWriteM
<1>16. CASE LogClose
  BY <1>16 DEF LogClose
<1>17. CASE ProcessExit
  BY <1>17 DEF ProcessExit
<1>18. CASE ReadJournalFails
  BY <1>18 DEF ReadJournalFails, ReadJournalEnds
<1> QED  BY <1>1, <1>2, <1>3, <1>4, <1>5, <1>6, <1>7, <1>8, <1>9, <1>10,
<1>11, <1>12, <1>13, <1>14, <1>15, <1>16, <1>17, <1>18

(* MyLogFile::Write of T or B keeps it.                                    *)
LEMMA LogStep ==
  ASSUME StopInv, NEW t \in {"T", "B"}, LogLock(t) \/ LogPut(t)
  PROVE  StopInv'
<1> USE DEF StopInv, StopTypeOK, PipeInUse, PipeListened, BKnown,
      DeafOnlyAtStart, Running,
      vars, pipeVars, tVars, mVars, logVars, Nobody, Unlocked
<1>1. CASE LogLock(t)
  BY <1>1 DEF LogLock
<1>2. CASE LogPut(t)
  BY <1>2 DEF LogPut
<1> QED  BY <1>1, <1>2

(* StopInv holds at the start and in every step.                           *)
LEMMA StopInvInit == Init => StopInv
<1> SUFFICES ASSUME Init PROVE StopInv
  OBVIOUS
<1>1. StopTypeOK
  <2>1. /\ heard \in BOOLEAN /\ g_fExitApp \in BOOLEAN
        /\ redirected \in BOOLEAN /\ g_hEvent_B \in BOOLEAN /\ released \in BOOLEAN
    BY Zenon DEF Init
  <2> QED  BY <2>1 DEF Init, StopTypeOK, Nobody
<1>2. PipeInUse /\ PipeListened
  BY DEF Init, PipeInUse, PipeListened, Running
<1>3. BKnown /\ DeafOnlyAtStart
  BY DEF Init, BKnown, DeafOnlyAtStart
<1> QED  BY <1>1, <1>2, <1>3 DEF StopInv

LEMMA StopInvNext == StopInv /\ [Next]_vars => StopInv'
<1> SUFFICES ASSUME StopInv, [Next]_vars PROVE StopInv'
  OBVIOUS
<1>1. CASE \E c \in Clients : ClientStarts(c) \/ ClientNext(c) \/ ClientDies(c)
  BY Zenon, <1>1, ClientStep DEF ClientNext
<1>2. CASE TNext
  BY Zenon, <1>2, ThreadTStep, LogStep DEF TNext, LogNext
<1>3. CASE BNext
  BY Zenon, <1>3, ThreadBStep, LogStep DEF BNext, LogNext
<1>4. CASE MNext \/ ReadJournalFails
  BY Zenon, <1>4, MainStep DEF MNext
<1>5. CASE UNCHANGED vars
  BY <1>5 DEF vars, pipeVars, tVars, mVars, logVars, StopInv, StopTypeOK,
     PipeInUse, PipeListened, BKnown, DeafOnlyAtStart, Running
<1> QED
  BY <1>1, <1>2, <1>3, <1>4, <1>5 DEF Next

(* No client is at the pipe while T does not listen, T always comes back   *)
(* to it, and M goes on to Cleanup with STATUS_OK only when B has ended:   *)
(* the invariant the three guarantees below rest on.                       *)
THEOREM StopInvHolds == Spec => []StopInv
  BY StopInvInit, StopInvNext, PTL DEF Spec

(* The pipe, the threads and the trace log stay in their types, whatever   *)
(* the number of clients: no message without a client behind it, and the   *)
(* mutex of the trace log belongs to the thread that writes.               *)
THEOREM StopTypes == Spec => []StopTypeOK
<1>1. StopInv => StopTypeOK
  BY DEF StopInv
<1> QED  BY <1>1, StopInvHolds, PTL

(* When main returns STATUS_OK, Cleanup came after thread B's last use of  *)
(* the buffers, the capture file and the trace log.                        *)
THEOREM CleanupSafe == Spec => []CleanupAfterB
<1>1. StopInv => CleanupAfterB
  BY DEF StopInv, BKnown, CleanupAfterB
<1> QED  BY <1>1, StopInvHolds, PTL

(* Once ListenPipeThread has had a client, only the exit flag ends it: T   *)
(* reaches ConnectNamedPipe again only with the pipe disconnected, so      *)
(* ERROR_NO_DATA is met by a first client alone.                           *)
THEOREM NotDeafened == Spec => []DeafOnlyAtStart
<1>1. StopInv => DeafOnlyAtStart
  BY DEF StopInv
<1> QED  BY <1>1, StopInvHolds, PTL

=============================================================================
