---------------------------- MODULE StopChannel ----------------------------
(***************************************************************************)
(* How ddMySqlBinLogCapture is told to stop, and how it ends.              *)
(*                                                                         *)
(* A client (the STOP command, SendMessageToLogReader) opens the named     *)
(* pipe of the process and writes a message.  Thread T (ListenPipeThread)  *)
(* reads it and raises g_fExitApp.  M leaves ReadJournal, gives thread B   *)
(* two seconds to end, frees what the threads share and closes the trace   *)
(* log.  T and B may still be running when M does that.                    *)
(*                                                                         *)
(* ReadJournal is one step here: that M gets out of it is the subject of   *)
(* BinlogCapture.  The named pipe is external; its states are those in     *)
(* which CreateFile, ConnectNamedPipe, ReadFile and WaitNamedPipe differ.  *)
(***************************************************************************)
EXTENDS Naturals

CONSTANTS
  Clients,  (* the clients that try to stop the process, once each         *)
  Message,  (* what each of them sends                                     *)
  Faults    (* what may go wrong: a subset of AllFaults                    *)

(* "init": a step of main before the threads, or the creation of the pipe  *)
(* or of thread T, fails.  "start": StartThread fails, with or without     *)
(* having started B.  "db": the trace database cannot be opened.  "error": *)
(* ReadJournal ends by itself.  "slow": B needs more than two seconds to   *)
(* end.  "client": a client dies before it writes.                         *)
AllFaults == {"init", "start", "db", "error", "slow", "client"}

ASSUME StopAssumption ==
  /\ Message \in [Clients -> Nat \ {0}]
  /\ Faults \subseteq AllFaults

VARIABLES
  cpc,        (* where each client stands                                  *)
  pst,        (* state of the pipe                                         *)
  msg,        (* the message in the pipe, 0: none                          *)
  owner,      (* the client at the other end                               *)
  tpc,        (* thread T                                                  *)
  heard,      (* history: T has had a client                               *)
  g_fExitApp,
  mpc,        (* main                                                      *)
  iReturn,    (* STATUS_OK or STATUS_ERROR                                 *)
  redirected, (* stdout goes to B                                          *)
  g_hEvent_B,
  released,   (* Cleanup has freed the buffers and closed the capture file *)
  bpc,        (* thread B                                                  *)
  m_pLogFile, (* the trace log: "open", "closed" (a stale handle), "null"  *)
  m_MutexLog, (* the thread that holds it                                  *)
  lpc         (* where T and B stand in MyLogFile::Write                   *)

pipeVars == <<pst, msg, owner>>
tVars == <<tpc, heard, g_fExitApp>>
mVars == <<mpc, iReturn, redirected, g_hEvent_B, released>>
logVars == <<m_pLogFile, m_MutexLog, lpc>>
vars == <<cpc, pipeVars, tVars, mVars, bpc, logVars>>

Nobody == "nobody"
Running == mpc # "gone"

(* The messages that stop the process.  Mutant: without 1.                 *)
StopMessagesFew == {2, 3}
StopMessages == {1, 2, 3}

-----------------------------------------------------------------------------
(* MyLogFile *)

(* Write looks at the handle before it takes the mutex.                    *)
Writing(t) ==
  lpc' = [lpc EXCEPT ![t] = IF m_pLogFile = "null" THEN "idle" ELSE "lock"]

LogLock(t) ==
  /\ Running
  /\ lpc[t] = "lock"
  /\ m_MutexLog = Nobody
  /\ m_MutexLog' = t
  /\ lpc' = [lpc EXCEPT ![t] = "put"]
  /\ UNCHANGED <<cpc, pipeVars, tVars, mVars, bpc, m_pLogFile>>

(* fputs and UnlockMutex.  Mutants: the mutex is kept; an early return     *)
(* when the process is stopping skips UnlockMutex.                         *)
StillLocked == m_MutexLog
LockedOnExit == IF g_fExitApp THEN m_MutexLog ELSE Nobody
Unlocked == Nobody

LogPut(t) ==
  /\ Running
  /\ lpc[t] = "put"
  /\ m_MutexLog' = Unlocked
  /\ lpc' = [lpc EXCEPT ![t] = "idle"]
  /\ UNCHANGED <<cpc, pipeVars, tVars, mVars, bpc, m_pLogFile>>

-----------------------------------------------------------------------------
(* A client: SendMessageToLogReader *)

ClientGoto(c, l) == cpc' = [cpc EXCEPT ![c] = l]

ClientStarts(c) ==
  /\ cpc[c] = "idle"
  /\ ClientGoto(c, "open")
  /\ UNCHANGED <<pipeVars, tVars, mVars, bpc, logVars>>

ClientOpens(c) ==
  /\ cpc[c] = "open"
  /\ pst = "listening"
  /\ pst' = "connected"
  /\ owner' = c
  /\ ClientGoto(c, "write")
  /\ UNCHANGED <<msg, tVars, mVars, bpc, logVars>>

(* ERROR_PIPE_BUSY: wait for the pipe.  No pipe: give up.                  *)
ClientCannotOpen(c) ==
  /\ cpc[c] = "open"
  /\ pst # "listening"
  /\ ClientGoto(c, IF pst = "none" THEN "failed" ELSE "wait")
  /\ UNCHANGED <<pipeVars, tVars, mVars, bpc, logVars>>

ClientWaited(c) ==
  /\ cpc[c] = "wait"
  /\ pst = "listening"
  /\ ClientGoto(c, "open")
  /\ UNCHANGED <<pipeVars, tVars, mVars, bpc, logVars>>

(* WaitNamedPipe returns after two seconds.  Mutant: it waits for ever.    *)
NeverOver == pst = "none"
WaitOver == TRUE

ClientWaitFails(c) ==
  /\ cpc[c] = "wait"
  /\ WaitOver
  /\ ClientGoto(c, "failed")
  /\ UNCHANGED <<pipeVars, tVars, mVars, bpc, logVars>>

ClientWrites(c) ==
  /\ cpc[c] = "write"
  /\ pst = "connected"
  /\ msg' = Message[c]
  /\ ClientGoto(c, "close")
  /\ UNCHANGED <<pst, owner, tVars, mVars, bpc, logVars>>

ClientCannotWrite(c) ==
  /\ cpc[c] = "write"
  /\ pst # "connected"
  /\ ClientGoto(c, "failed")
  /\ UNCHANGED <<pipeVars, tVars, mVars, bpc, logVars>>

(* Closing leaves the message in the pipe.                                 *)
Closed(c) == pst' = IF pst = "connected" /\ owner = c THEN "closed" ELSE pst

ClientCloses(c) ==
  /\ cpc[c] = "close"
  /\ Closed(c)
  /\ ClientGoto(c, "ok")
  /\ UNCHANGED <<msg, owner, tVars, mVars, bpc, logVars>>

ClientDies(c) ==
  /\ "client" \in Faults
  /\ cpc[c] = "write"
  /\ Closed(c)
  /\ ClientGoto(c, "failed")
  /\ UNCHANGED <<msg, owner, tVars, mVars, bpc, logVars>>

-----------------------------------------------------------------------------
(* Thread T: ListenPipeThread, which writes to the trace log at each step  *)

TReady(l) == Running /\ tpc = l /\ lpc["T"] = "idle"

(* ConnectNamedPipe.  A client that has come and gone makes it fail with   *)
(* ERROR_NO_DATA, and T ends.                                              *)
TConnect ==
  /\ TReady("connect")
  /\ pst' = IF pst = "disconnected" THEN "listening" ELSE pst
  /\ tpc' = CASE pst \in {"listening", "disconnected"} -> "wait"
              [] pst = "connected" -> "read"
              [] OTHER -> "leave"
  /\ heard' = (heard \/ pst = "connected")
  /\ IF tpc' = "wait" THEN UNCHANGED lpc ELSE Writing("T")
  /\ UNCHANGED <<cpc, msg, owner, g_fExitApp, mVars, bpc, m_pLogFile,
                 m_MutexLog>>

TConnected ==
  /\ TReady("wait")
  /\ pst \in {"connected", "closed"}
  /\ tpc' = "read"
  /\ heard' = TRUE
  /\ Writing("T")
  /\ UNCHANGED <<cpc, pipeVars, g_fExitApp, mVars, bpc, m_pLogFile, m_MutexLog>>

TRead ==
  /\ TReady("read")
  /\ msg # 0
  /\ msg' = 0
  /\ tpc' = IF msg \in StopMessages THEN "stop" ELSE "disconnect"
  /\ Writing("T")
  /\ UNCHANGED <<cpc, pst, owner, heard, g_fExitApp, mVars, bpc, m_pLogFile,
                 m_MutexLog>>

(* ReadFile fails: the client closed without a message.                    *)
TReadFails ==
  /\ TReady("read")
  /\ msg = 0
  /\ pst = "closed"
  /\ tpc' = "disconnect"
  /\ Writing("T")
  /\ UNCHANGED <<cpc, pipeVars, heard, g_fExitApp, mVars, bpc, m_pLogFile,
                 m_MutexLog>>

(* The flag, then the events that cut M's waiting short.                   *)
TStop ==
  /\ TReady("stop")
  /\ g_fExitApp' = TRUE
  /\ tpc' = "disconnect"
  /\ UNCHANGED <<cpc, pipeVars, heard, mVars, bpc, logVars>>

(* DisconnectNamedPipe.  Mutant: it is forgotten.                          *)
NotDisconnected == pst
Disconnected == "disconnected"

TDisconnect ==
  /\ TReady("disconnect")
  /\ pst' = Disconnected
  /\ IF g_fExitApp THEN tpc' = "leave" /\ UNCHANGED lpc
                   ELSE tpc' = "connect" /\ Writing("T")
  /\ UNCHANGED <<cpc, msg, owner, heard, g_fExitApp, mVars, bpc, m_pLogFile,
                 m_MutexLog>>

TLeave ==
  /\ TReady("leave")
  /\ tpc' = "dead"
  /\ Writing("T")
  /\ UNCHANGED <<cpc, pipeVars, heard, g_fExitApp, mVars, bpc, m_pLogFile,
                 m_MutexLog>>

-----------------------------------------------------------------------------
(* Thread B: listenBinLogThread *)

BReady(l) == Running /\ bpc = l /\ lpc["B"] = "idle"

(* Bytes arrive - what the library and main itself have printed, also      *)
(* after the redirection has ended.  B works on them with the shared       *)
(* buffers and the capture file, and writes to the trace log.              *)
BGetsData ==
  /\ BReady("read")
  /\ bpc' = "busy"
  /\ Writing("B")
  /\ UNCHANGED <<cpc, pipeVars, tVars, mVars, m_pLogFile, m_MutexLog>>

BDone ==
  /\ BReady("busy")
  /\ bpc' = IF g_fExitApp THEN "leave" ELSE "read"
  /\ UNCHANGED <<cpc, pipeVars, tVars, mVars, logVars>>

(* The redirection has ended: the read returns, B looks at the flag and at *)
(* its event.                                                              *)
BEndOfPipe ==
  /\ BReady("read")
  /\ ~redirected
  /\ g_fExitApp \/ g_hEvent_B
  /\ bpc' = "leave"
  /\ UNCHANGED <<cpc, pipeVars, tVars, mVars, logVars>>

BLeave ==
  /\ BReady("leave")
  /\ bpc' = "last"
  /\ Writing("B")
  /\ UNCHANGED <<cpc, pipeVars, tVars, mVars, m_pLogFile, m_MutexLog>>

BReturn ==
  /\ BReady("last")
  /\ bpc' = "dead"
  /\ UNCHANGED <<cpc, pipeVars, tVars, mVars, logVars>>

-----------------------------------------------------------------------------
(* main *)

MGoto(l) == mpc' = l

(* Everything up to OpenCapture and InitReadBinLog fails.                  *)
InitFails ==
  /\ mpc = "init"
  /\ "init" \in Faults
  /\ iReturn' = "error"
  /\ MGoto("pipe")
  /\ UNCHANGED <<cpc, pipeVars, tVars, redirected, g_hEvent_B, released, bpc,
                 logVars>>

StartThread ==
  /\ mpc = "init"
  /\ redirected' = TRUE
  /\ \/ bpc' = "read" /\ UNCHANGED iReturn
     \/ "start" \in Faults /\ bpc' \in {"none", "read"} /\ iReturn' = "error"
  /\ MGoto("pipe")
  /\ UNCHANGED <<cpc, pipeVars, tVars, g_hEvent_B, released, logVars>>

(* InitThreadPipe is called whatever iReturn is: the pipe, then thread T.  *)
CreatePipe ==
  /\ mpc = "pipe"
  /\ pst' = "listening"
  /\ MGoto("thread")
  /\ UNCHANGED <<cpc, msg, owner, tVars, iReturn, redirected, g_hEvent_B,
                 released, bpc, logVars>>

CreatePipeFails ==
  /\ mpc = "pipe"
  /\ "init" \in Faults
  /\ MGoto("db")
  /\ UNCHANGED <<cpc, pipeVars, tVars, iReturn, redirected, g_hEvent_B,
                 released, bpc, logVars>>

CreateThreadPipe ==
  /\ mpc = "thread"
  /\ tpc' = "connect"
  /\ Writing("T")
  /\ MGoto("db")
  /\ UNCHANGED <<cpc, pipeVars, heard, g_fExitApp, iReturn, redirected,
                 g_hEvent_B, released, bpc, m_pLogFile, m_MutexLog>>

(* The pipe stays, with nobody to listen.                                  *)
CreateThreadPipeFails ==
  /\ mpc = "thread"
  /\ "init" \in Faults
  /\ tpc' = "dead"
  /\ MGoto("db")
  /\ UNCHANGED <<cpc, pipeVars, heard, g_fExitApp, iReturn, redirected,
                 g_hEvent_B, released, bpc, logVars>>

(* The trace database; ReadJournal is entered with STATUS_OK only.         *)
OpenDb ==
  /\ mpc = "db"
  /\ \/ UNCHANGED iReturn
     \/ "db" \in Faults /\ iReturn' = "error"
  /\ MGoto(IF iReturn' = "ok" THEN "read" ELSE "cleanup")
  /\ UNCHANGED <<cpc, pipeVars, tVars, redirected, g_hEvent_B, released, bpc,
                 logVars>>

(* ReadJournal returns: it was told to, or it met an error of its own.     *)
ReadJournalEnds ==
  /\ mpc = "read"
  /\ MGoto("stop")
  /\ UNCHANGED <<cpc, pipeVars, tVars, iReturn, redirected, g_hEvent_B,
                 released, bpc, logVars>>

ReadJournal == g_fExitApp /\ ReadJournalEnds
ReadJournalFails == "error" \in Faults /\ ReadJournalEnds

(* IsAliveThread: ReadJournal finds B gone and calls exit(0).              *)
ReadJournalExits ==
  /\ mpc = "read"
  /\ bpc = "dead"
  /\ MGoto("exit")
  /\ UNCHANGED <<cpc, pipeVars, tVars, iReturn, redirected, g_hEvent_B,
                 released, bpc, logVars>>

(* StopThread: the redirection ends, then B's event is set.                *)
StopRedirection ==
  /\ mpc = "stop"
  /\ redirected
  /\ redirected' = FALSE
  /\ UNCHANGED <<cpc, pipeVars, tVars, mpc, iReturn, g_hEvent_B, released,
                 bpc, logVars>>

SetEventB ==
  /\ mpc = "stop"
  /\ ~redirected
  /\ g_hEvent_B' = TRUE
  /\ MGoto("wait")
  /\ UNCHANGED <<cpc, pipeVars, tVars, iReturn, redirected, released, bpc,
                 logVars>>

(* The wait for B succeeds.  Mutant: nobody waits.                         *)
BEndedAnyway == TRUE
BEnded == bpc = "dead"

WaitForB ==
  /\ mpc = "wait"
  /\ BEnded
  /\ MGoto("cleanup")
  /\ UNCHANGED <<cpc, pipeVars, tVars, iReturn, redirected, g_hEvent_B,
                 released, bpc, logVars>>

WaitForBTimeout ==
  /\ mpc = "wait"
  /\ "slow" \in Faults
  /\ iReturn' = "error"
  /\ MGoto("cleanup")
  /\ UNCHANGED <<cpc, pipeVars, tVars, redirected, g_hEvent_B, released, bpc,
                 logVars>>

(* Cleanup is called whatever iReturn is.                                  *)
Cleanup ==
  /\ mpc = "cleanup"
  /\ released' = TRUE
  /\ MGoto("trace")
  /\ UNCHANGED <<cpc, pipeVars, tVars, iReturn, redirected, g_hEvent_B, bpc,
                 logVars>>

(* M's last Write, then Close, which takes no mutex: the file is closed,   *)
(* then the handle cleared.                                                *)
LogWriteM ==
  /\ mpc = "trace"
  /\ m_MutexLog = Nobody
  /\ MGoto("close")
  /\ UNCHANGED <<cpc, pipeVars, tVars, iReturn, redirected, g_hEvent_B,
                 released, bpc, logVars>>

LogClose ==
  /\ mpc = "close"
  /\ m_pLogFile' = IF m_pLogFile = "open" THEN "closed" ELSE "null"
  /\ MGoto(IF m_pLogFile = "open" THEN "close" ELSE "exit")
  /\ UNCHANGED <<cpc, pipeVars, tVars, iReturn, redirected, g_hEvent_B,
                 released, bpc, m_MutexLog, lpc>>

(* main returns: the threads and the pipe are gone.                        *)
ProcessExit ==
  /\ mpc = "exit"
  /\ MGoto("gone")
  /\ pst' = "none" /\ msg' = 0
  /\ UNCHANGED <<cpc, owner, tVars, iReturn, redirected, g_hEvent_B, released,
                 bpc, logVars>>

-----------------------------------------------------------------------------

Init ==
  /\ cpc = [c \in Clients |-> "idle"]
  /\ pst = "none" /\ msg = 0 /\ owner = Nobody
  /\ tpc = "none" /\ heard = FALSE /\ g_fExitApp = FALSE
  /\ mpc = "init" /\ iReturn = "ok" /\ redirected = FALSE
  /\ g_hEvent_B = FALSE /\ released = FALSE
  /\ bpc = "none"
  /\ m_pLogFile = "open" /\ m_MutexLog = Nobody
  /\ lpc = [t \in {"T", "B"} |-> "idle"]

ClientNext(c) ==
  \/ ClientOpens(c) \/ ClientCannotOpen(c) \/ ClientWaited(c)
  \/ ClientWaitFails(c) \/ ClientWrites(c) \/ ClientCannotWrite(c)
  \/ ClientCloses(c)

LogNext(t) == LogLock(t) \/ LogPut(t)

TNext ==
  \/ TConnect \/ TConnected \/ TRead \/ TReadFails \/ TStop \/ TDisconnect
  \/ TLeave \/ LogNext("T")

BNext ==
  BGetsData \/ BDone \/ BEndOfPipe \/ BLeave \/ BReturn \/ LogNext("B")

MNext ==
  \/ InitFails \/ StartThread \/ CreatePipe \/ CreatePipeFails
  \/ CreateThreadPipe \/ CreateThreadPipeFails \/ OpenDb \/ ReadJournal
  \/ ReadJournalExits \/ StopRedirection \/ SetEventB \/ WaitForB
  \/ WaitForBTimeout \/ Cleanup \/ LogWriteM \/ LogClose
  \/ ProcessExit

Next ==
  \/ \E c \in Clients : ClientStarts(c) \/ ClientNext(c) \/ ClientDies(c)
  \/ TNext \/ BNext \/ MNext \/ ReadJournalFails

Spec == Init /\ [][Next]_vars

(* The operating system schedules every thread and every client that has   *)
(* started; a mutex that becomes free again and again is obtained.  No     *)
(* error is assumed to happen: ReadJournal may read for ever.              *)
Fairness ==
  /\ \A c \in Clients : WF_vars(ClientNext(c))
  /\ WF_vars(TNext) /\ WF_vars(BNext) /\ WF_vars(MNext)
  /\ \A t \in {"T", "B"} : SF_vars(LogLock(t))
  /\ SF_vars(LogWriteM)
FairSpec == Spec /\ Fairness

-----------------------------------------------------------------------------
(* Properties *)

(* Type invariant of the pipe, the threads and the trace log: a message is *)
(* in the pipe only with a client behind it, and the mutex is held exactly *)
(* by the thread that is writing.                                          *)
StopTypeOK ==
  /\ cpc \in [Clients -> {"idle", "open", "wait", "write", "close", "ok",
                          "failed"}]
  /\ pst \in {"none", "listening", "connected", "closed", "disconnected"}
  /\ msg \in Nat /\ (msg # 0 => pst \in {"connected", "closed"})
  /\ owner \in Clients \cup {Nobody}
  /\ tpc \in {"none", "connect", "wait", "read", "stop", "disconnect",
              "leave", "dead"}
  /\ bpc \in {"none", "read", "busy", "leave", "last", "dead"}
  /\ mpc \in {"init", "pipe", "thread", "db", "read", "stop", "wait",
              "cleanup", "trace", "close", "exit", "gone"}
  /\ iReturn \in {"ok", "error"}
  /\ heard \in BOOLEAN /\ g_fExitApp \in BOOLEAN /\ redirected \in BOOLEAN
  /\ g_hEvent_B \in BOOLEAN /\ released \in BOOLEAN
  /\ m_pLogFile \in {"open", "closed", "null"}
  /\ lpc \in [{"T", "B"} -> {"idle", "lock", "put"}]
  /\ \A t \in {"T", "B"} : m_MutexLog = t <=> lpc[t] = "put"
  /\ m_MutexLog \in {"T", "B", Nobody}

(* When main returns STATUS_OK, Cleanup freed the buffers and closed the   *)
(* capture file, and Close the trace log, after thread B had used them for *)
(* the last time - whoever stopped the process and whatever B was doing.   *)
CleanupAfterB ==
  released /\ iReturn = "ok" => bpc \in {"none", "dead"} /\ lpc["B"] = "idle"

(* ListenPipeThread is deaf without a stop message only when it never      *)
(* started or when a client came and went before its first                 *)
(* ConnectNamedPipe: once it has had a client, no order of messages,       *)
(* unknown messages and dying clients ends it.                             *)
DeafOnlyAtStart == tpc \in {"leave", "dead"} => g_fExitApp \/ ~heard

(* The client at the other end of the pipe, who has not written yet, is    *)
(* its owner and T has not read from it; T leaves the connected states     *)
(* only by disconnecting, with the pipe empty.                             *)
PipeInUse ==
  /\ \A c \in Clients : cpc[c] = "write" /\ pst # "none" =>
       /\ pst = "connected" /\ owner = c
       /\ msg = 0 /\ tpc \notin {"stop", "disconnect"}
  /\ tpc \in {"read", "stop", "disconnect"} =>
       pst \in {"connected", "closed", "none"}
  /\ tpc \in {"stop", "disconnect"} => msg = 0

(* T has the pipe from its first ConnectNamedPipe on, and after a client   *)
(* always comes back to it through DisconnectNamedPipe.                    *)
PipeListened ==
  /\ mpc \in {"init", "pipe"} =>
       pst = "none" /\ \A c \in Clients : cpc[c] # "write"
  /\ mpc \in {"init", "pipe", "thread"} => tpc = "none"
  /\ tpc = "none" => ~heard /\ lpc["T"] = "idle"
  /\ Running /\ (mpc = "thread" \/ tpc \notin {"none", "dead"}) => pst # "none"
  /\ heard /\ tpc = "connect" => pst \in {"disconnected", "none"}

(* What M knows of B when it goes on to Cleanup.                           *)
BKnown ==
  /\ mpc = "init" => bpc = "none"
  /\ bpc \in {"none", "dead"} => lpc["B"] = "idle"
  /\ released => mpc \in {"trace", "close", "exit", "gone"}
  /\ iReturn = "ok" /\ (mpc \in {"cleanup", "trace", "close"} \/ released) =>
       bpc = "dead"

(* A stop leaves nothing behind: no client is at the pipe while T does     *)
(* not listen to it, T comes back to the pipe after every client, and what *)
(* Cleanup frees is B's no more.                                           *)
StopInv ==
  StopTypeOK /\ PipeInUse /\ PipeListened /\ BKnown /\ DeafOnlyAtStart

(* A client that was told its stop message was written gets the process    *)
(* stopped, whatever other clients sent before it - unless T is the deaf   *)
(* one of DeafOnlyAtStart.                                                 *)
Deaf == tpc = "dead" /\ ~g_fExitApp
StopHeard ==
  \A c \in Clients :
    cpc[c] = "ok" /\ Message[c] \in {1, 2, 3} ~> ~Running \/ Deaf

(* The exit flag ends the process: neither the wait for B nor the mutex of *)
(* the trace log, which T and B also take, holds M up for ever.            *)
StopMeansEnd == g_fExitApp ~> ~Running

(* SendMessageToLogReader always returns, also when other clients keep the *)
(* pipe busy or T no longer listens.                                       *)
ClientAnswered ==
  \A c \in Clients : cpc[c] = "open" ~> cpc[c] \in {"ok", "failed"}

=============================================================================
