--------------------------- MODULE CaptureJournal ---------------------------
(***************************************************************************)
(* The capture files of ddMySqlBinLogCapture: OpenCapture, ChangeJournal,  *)
(* the list of capture files and the writes of listenBinLogThread.         *)
(*                                                                         *)
(* The journal is a chain of files <name>_capture_<number>.jrn.  A file    *)
(* begins with a *!SOF! mark and ends with a *!EOF! mark that names the    *)
(* next number.  A process never continues a file: OpenCapture marks the   *)
(* last one as ended, creates the next and opens it again for the lines.   *)
(* When the file has grown too large thread B does the same from within    *)
(* its loop.  The process may end or be killed between any two steps, and  *)
(* opening and writing may fail.                                           *)
(*                                                                         *)
(* All writes append, so the journal is kept as one sequence of entries in *)
(* the order they were written, each with its file.  An entry, mark or     *)
(* line, has size 1.                                                       *)
(***************************************************************************)
EXTENDS Integers, Sequences, FiniteSets

CONSTANTS
  Setting,      (* g_lCaptureAndProcess                                    *)
  Unit,         (* 1024 * 1000                                             *)
  DefaultUnits, (* 1000                                                    *)
  Word,         (* 2^32: the number of values of an unsigned long          *)
  Faults,       (* what may go wrong: a subset of AllFaults                *)
  MaxFiles,     (* bound on the number of capture files                    *)
  MaxLines,     (* bound on the number of lines                            *)
  MaxStarts     (* bound on the number of processes                        *)

(* "open": fopen fails.  "write": fwrite fails.  "kill": the process dies  *)
(* without running exit handlers.                                          *)
AllFaults == {"open", "write", "kill"}

ASSUME JournalAssumption ==
  /\ Setting \in Int
  /\ Unit \in Nat \ {0}
  /\ DefaultUnits \in Nat \ {0}
  /\ Word \in Nat \ {0}
  /\ Faults \subseteq AllFaults
  /\ MaxFiles \in Nat
  /\ MaxLines \in Nat
  /\ MaxStarts \in Nat

VARIABLES
  exist,        (* the numbers of the files in the directory               *)
  jrn,          (* all entries, the stdio buffer of the open file included *)
  onDisk,       (* how many of them have left the buffer                   *)
  open,         (* the file behind g_pFileCapture, 0 when NULL             *)
  g_ulCaptureNum, g_ulCaptureSize, g_lFlush,
  fChange, fReturn, (* argument and result of OpenCapture                  *)
  pc,           (* where OpenCapture or thread B stands; "off": no process *)
  starts,
  handed        (* history: lines thread B has written completely          *)

diskVars == <<exist, jrn, onDisk>>
callVars == <<fChange, fReturn>>
vars == <<diskVars, open, g_ulCaptureNum, g_ulCaptureSize, g_lFlush,
          callVars, pc, starts, handed>>

(* PART: a line without its end, left by a kill or by the first part of a  *)
(* LOB line.  n is the next file of an EOF, the file of an SOF, the        *)
(* ordinal of a line.                                                      *)
EntryKinds == {"SOF", "PART", "LINE", "EOF"}
Entry == [file : Nat, k : EntryKinds, n : Nat]

(* The limit is computed with 32-bit numbers.                              *)
(* Mutant: one unit less.                                                  *)
CaptureMaxLess == Unit * (Setting - 1)
g_ulCaptureMax ==
  IF Setting > 1 THEN (Unit * Setting) % Word ELSE (Unit * DefaultUnits) % Word

Goto(l) == pc' = l

(* fwrite of one entry to the open file.                                   *)
Put(k, n) == jrn' = Append(jrn, [file |-> open, k |-> k, n |-> n])
Grown == (g_ulCaptureSize + 1) % Word
FlushAll == onDisk' = Len(jrn')

(* BuildCaptureList and GetLastCaptureList: the directory lists the names, *)
(* numbers padded to ten digits, in order.                                 *)
(* Mutants: the first file of the list; the number of the next file.       *)
NextCapture == 1 + CHOOSE n \in exist : \A m \in exist : m <= n
FirstCapture == CHOOSE n \in exist : \A m \in exist : n <= m
LastCapture == CHOOSE n \in exist : \A m \in exist : m <= n

-----------------------------------------------------------------------------
(* OpenCapture *)

(* A process starts: main calls OpenCapture("M", false).                   *)
Start(flush) ==
  /\ pc = "off"
  /\ starts < MaxStarts
  /\ starts' = starts + 1
  /\ g_lFlush' = flush
  /\ fChange' = FALSE /\ fReturn' = TRUE
  /\ IF exist = {}
     THEN g_ulCaptureNum' = 1 /\ Goto("create")
     ELSE g_ulCaptureNum' = LastCapture + 1 /\ Goto("last")
  /\ g_ulCaptureNum' <= MaxFiles
  /\ UNCHANGED <<diskVars, open, g_ulCaptureSize, handed>>

(* Mutant: fopen "w+b" empties the file.                                   *)
OpenLastEmptied ==
  /\ pc = "last"
  /\ jrn' = SelectSeq(jrn, LAMBDA e : e.file # LastCapture)
  /\ onDisk' = Len(jrn')
  /\ open' = LastCapture
  /\ Goto("eof")
  /\ UNCHANGED <<exist, g_ulCaptureNum, g_ulCaptureSize, g_lFlush, callVars,
                 starts, handed>>

(* fopen "r+b" of the last file of the list.                               *)
OpenLast ==
  /\ pc = "last"
  /\ open' = LastCapture
  /\ Goto("eof")
  /\ UNCHANGED <<diskVars, g_ulCaptureNum, g_ulCaptureSize, g_lFlush,
                 callVars, starts, handed>>

(* The failure is recorded, and OpenCapture goes on.                       *)
OpenLastFails ==
  /\ pc = "last"
  /\ "open" \in Faults
  /\ fReturn' = FALSE
  /\ Goto("create")
  /\ UNCHANGED <<diskVars, open, g_ulCaptureNum, g_ulCaptureSize, g_lFlush,
                 fChange, starts, handed>>

(* The mark names the next file.  Mutant: it names the ended one.          *)
EofNumberOld == g_ulCaptureNum - 1
EofNumber == g_ulCaptureNum

MarkEof ==
  /\ pc = "eof"
  /\ Put("EOF", EofNumber)
  /\ Goto("closeold")
  /\ UNCHANGED <<exist, onDisk, open, g_ulCaptureNum, g_ulCaptureSize,
                 g_lFlush, callVars, starts, handed>>

MarkEofFails ==
  /\ pc = "eof"
  /\ "write" \in Faults
  /\ fReturn' = FALSE
  /\ Goto("closeold")
  /\ UNCHANGED <<diskVars, open, g_ulCaptureNum, g_ulCaptureSize, g_lFlush,
                 fChange, starts, handed>>

CloseOld ==
  /\ pc = "closeold"
  /\ onDisk' = Len(jrn)
  /\ open' = 0
  /\ Goto("create")
  /\ UNCHANGED <<exist, jrn, g_ulCaptureNum, g_ulCaptureSize, g_lFlush,
                 callVars, starts, handed>>

(* fopen "a+b" of the new file creates it.                                 *)
Create ==
  /\ pc = "create"
  /\ exist' = exist \cup {g_ulCaptureNum}
  /\ open' = g_ulCaptureNum
  /\ g_ulCaptureSize' = 0
  /\ Goto("sof")
  /\ UNCHANGED <<jrn, onDisk, g_ulCaptureNum, g_lFlush, callVars, starts,
                 handed>>

CreateFails ==
  /\ pc = "create"
  /\ "open" \in Faults
  /\ g_ulCaptureSize' = 0
  /\ fReturn' = FALSE
  /\ Goto("return")
  /\ UNCHANGED <<diskVars, open, g_ulCaptureNum, g_lFlush, fChange, starts,
                 handed>>

MarkSof ==
  /\ pc = "sof"
  /\ Put("SOF", g_ulCaptureNum)
  /\ g_ulCaptureSize' = Grown
  /\ Goto("closenew")
  /\ UNCHANGED <<exist, onDisk, open, g_ulCaptureNum, g_lFlush, callVars,
                 starts, handed>>

MarkSofFails ==
  /\ pc = "sof"
  /\ "write" \in Faults
  /\ fReturn' = FALSE
  /\ Goto("closenew")
  /\ UNCHANGED <<diskVars, open, g_ulCaptureNum, g_ulCaptureSize, g_lFlush,
                 fChange, starts, handed>>

CloseNew ==
  /\ pc = "closenew"
  /\ onDisk' = Len(jrn)
  /\ open' = 0
  /\ Goto("reopen")
  /\ UNCHANGED <<exist, jrn, g_ulCaptureNum, g_ulCaptureSize, g_lFlush,
                 callVars, starts, handed>>

Reopen ==
  /\ pc = "reopen"
  /\ open' = g_ulCaptureNum
  /\ Goto("return")
  /\ UNCHANGED <<diskVars, g_ulCaptureNum, g_ulCaptureSize, g_lFlush,
                 callVars, starts, handed>>

ReopenFails ==
  /\ pc = "reopen"
  /\ "open" \in Faults
  /\ fReturn' = FALSE
  /\ Goto("return")
  /\ UNCHANGED <<diskVars, open, g_ulCaptureNum, g_ulCaptureSize, g_lFlush,
                 fChange, starts, handed>>

(* The process goes on only when every step of OpenCapture succeeded.      *)
(* Mutant: when the new file could be opened.                              *)
MayRunOpen == open # 0
MayRun == fReturn

ReturnOk ==
  /\ pc = "return"
  /\ MayRun
  /\ Goto("run")
  /\ UNCHANGED <<diskVars, open, g_ulCaptureNum, g_ulCaptureSize, g_lFlush,
                 callVars, starts, handed>>

(* What the buffer holds is written when the process ends by itself.       *)
Ends ==
  /\ onDisk' = Len(jrn)
  /\ open' = 0
  /\ Goto("off")
  /\ UNCHANGED <<exist, jrn, g_ulCaptureNum, g_ulCaptureSize, g_lFlush,
                 callVars, starts, handed>>

(* At the start main does not call ReadJournal and returns; a failed       *)
(* change makes thread B call exit(0).                                     *)
ReturnError ==
  /\ pc = "return"
  /\ ~MayRun
  /\ Ends

-----------------------------------------------------------------------------
(* Thread B *)

(* A LOB line that does not fit the line buffer is written in parts; the   *)
(* size is not tested after a part.  One part before the end of a line is  *)
(* the bound here.                                                         *)
WritePart ==
  /\ pc = "run"
  /\ handed < MaxLines
  /\ jrn # <<>> => jrn[Len(jrn)].k # "PART"
  /\ Put("PART", handed + 1)
  /\ IF g_lFlush THEN FlushAll ELSE UNCHANGED onDisk
  /\ g_ulCaptureSize' = Grown
  /\ UNCHANGED <<exist, open, g_ulCaptureNum, g_lFlush, callVars, pc, starts,
                 handed>>

WriteLine ==
  /\ pc = "run"
  /\ handed < MaxLines
  /\ Put("LINE", handed + 1)
  /\ handed' = handed + 1
  /\ IF g_lFlush THEN FlushAll ELSE UNCHANGED onDisk
  /\ g_ulCaptureSize' = Grown
  /\ Goto("test")
  /\ UNCHANGED <<exist, open, g_ulCaptureNum, g_lFlush, callVars, starts>>

(* A line or a part cannot be written: exit(0).                            *)
WriteFails ==
  /\ pc = "run"
  /\ "write" \in Faults
  /\ Ends

TooLarge == g_ulCaptureSize > g_ulCaptureMax

KeepFile ==
  /\ pc = "test"
  /\ ~TooLarge
  /\ Goto("run")
  /\ UNCHANGED <<diskVars, open, g_ulCaptureNum, g_ulCaptureSize, g_lFlush,
                 callVars, starts, handed>>

(* fflush, then OpenCapture("B", true).                                    *)
ChangeJournal ==
  /\ pc = "test"
  /\ TooLarge
  /\ g_ulCaptureNum < MaxFiles
  /\ onDisk' = Len(jrn)
  /\ fChange' = TRUE /\ fReturn' = TRUE
  /\ g_ulCaptureNum' = g_ulCaptureNum + 1
  /\ Goto("eof")
  /\ UNCHANGED <<exist, jrn, open, g_ulCaptureSize, g_lFlush, starts, handed>>

(* The ten seconds are over, or the C runtime empties a full buffer.       *)
BufferFlush ==
  /\ \E n \in onDisk..Len(jrn) : onDisk' = n
  /\ UNCHANGED <<exist, jrn, open, g_ulCaptureNum, g_ulCaptureSize, g_lFlush,
                 callVars, pc, starts, handed>>

-----------------------------------------------------------------------------
(* The end of the process *)

(* M returns from main or calls exit(0), whatever thread B is doing.       *)
Exit ==
  /\ pc \in {"run", "test"} \/ (fChange /\ pc # "off")
  /\ Ends

(* The buffer is lost, except what the C runtime had written of it; that   *)
(* may end in the middle of a line.                                        *)
Torn(n) == IF n < Len(jrn) /\ jrn[n + 1].k = "LINE"
           THEN {<<>>, <<[jrn[n + 1] EXCEPT !.k = "PART"]>>}
           ELSE {<<>>}

Kill ==
  /\ pc # "off"
  /\ "kill" \in Faults
  /\ \E n \in onDisk..Len(jrn) : \E rest \in Torn(n) :
       /\ jrn' = SubSeq(jrn, 1, n) \o rest
       /\ onDisk' = Len(jrn')
  /\ open' = 0
  /\ Goto("off")
  /\ UNCHANGED <<exist, g_ulCaptureNum, g_ulCaptureSize, g_lFlush, callVars,
                 starts, handed>>

-----------------------------------------------------------------------------

(* The first process finds no capture file.                                *)
Init ==
  /\ exist = {} /\ jrn = <<>> /\ onDisk = 0 /\ open = 0
  /\ g_ulCaptureNum = 0 /\ g_ulCaptureSize = 0 /\ g_lFlush = FALSE
  /\ fChange = FALSE /\ fReturn = TRUE
  /\ pc = "off" /\ starts = 0 /\ handed = 0

OpenCapture ==
  \/ OpenLast \/ OpenLastFails \/ MarkEof \/ MarkEofFails \/ CloseOld
  \/ Create \/ CreateFails \/ MarkSof \/ MarkSofFails \/ CloseNew
  \/ Reopen \/ ReopenFails \/ ReturnOk \/ ReturnError

ListenBinLog ==
  WritePart \/ WriteLine \/ WriteFails \/ KeepFile \/ ChangeJournal

Process == (\E flush \in BOOLEAN : Start(flush)) \/ BufferFlush \/ Exit \/ Kill

Next == OpenCapture \/ ListenBinLog \/ Process

Spec == Init /\ [][Next]_vars

-----------------------------------------------------------------------------
(* Properties *)

Pcs == {"off", "last", "eof", "closeold", "create", "sof", "closenew",
        "reopen", "return", "run", "test"}

(* Type invariant of the directory, the open file and OpenCapture: what is *)
(* open is a file of the directory.                                        *)
JournalTypeOK ==
  /\ exist \subseteq 1..MaxFiles
  /\ jrn \in Seq(Entry)
  /\ onDisk \in 0..Len(jrn)
  /\ open \in exist \cup {0}
  /\ g_ulCaptureNum \in 0..MaxFiles /\ g_ulCaptureSize \in 0..(Word - 1)
  /\ g_lFlush \in BOOLEAN /\ fChange \in BOOLEAN /\ fReturn \in BOOLEAN
  /\ pc \in Pcs
  /\ starts \in Nat /\ handed \in Nat

Index == 1..Len(jrn)
SameFile(i, j) == jrn[i].file = jrn[j].file

(* Reading the files by number gives the lines in the order thread B wrote *)
(* them, none twice, and no line continues in the next file: OpenCapture   *)
(* numbers the files without a gap, writes only to the newest and changes  *)
(* it only between two lines.                                              *)
ReadInOrder ==
  /\ \A n \in exist : n > 1 => n - 1 \in exist
  /\ \A i, j \in Index : i < j =>
       /\ jrn[i].file <= jrn[j].file
       /\ jrn[i].k = "LINE" /\ jrn[j].k = "LINE" => jrn[i].n < jrn[j].n
  /\ \A i \in Index : i > 1 /\ jrn[i - 1].k = "PART"
                         /\ jrn[i].k \in {"PART", "LINE"} => SameFile(i - 1, i)

(* In each file the SOF mark comes first and once, no line is in a file    *)
(* without it, and an EOF mark is final: whatever fails and whenever the   *)
(* process dies, nothing is written behind the mark that sends a reader to *)
(* the next file, except the mark again.                                   *)
MarksFrame ==
  /\ \A i, j \in Index : i < j /\ SameFile(i, j) =>
       /\ jrn[j].k # "SOF"
       /\ jrn[i].k = "EOF" => jrn[j].k = "EOF"
  /\ \A j \in Index : jrn[j].k \in {"PART", "LINE"} =>
       \E i \in 1..(j - 1) : SameFile(i, j) /\ jrn[i].k = "SOF"

(* Thread B writes lines only while the previous file, on disk, ends with  *)
(* the mark that names the file it writes to: a reader that follows the    *)
(* marks from that file on finds the lines.                                *)
PredecessorEnded ==
  pc \in {"run", "test"} /\ g_ulCaptureNum > 1 =>
    \E i \in 1..onDisk :
      /\ jrn[i] = [file |-> g_ulCaptureNum - 1, k |-> "EOF",
                   n |-> g_ulCaptureNum]
      /\ \A j \in (i + 1)..Len(jrn) : jrn[j].file = g_ulCaptureNum

(* Which files there are while OpenCapture works on the next one, and      *)
(* which of them is open.                                                  *)
FilesKnown ==
  /\ pc = "off" => \E m \in 0..MaxFiles : exist = 1..m
  /\ pc \in {"last", "eof", "closeold"} => g_ulCaptureNum > 1
  /\ pc \in {"last", "eof", "closeold", "create"} =>
       g_ulCaptureNum > 0 /\ exist = 1..(g_ulCaptureNum - 1)
  /\ pc \in {"sof", "closenew", "reopen", "run", "test"} =>
       g_ulCaptureNum > 0 /\ exist = 1..g_ulCaptureNum
  /\ pc = "return" =>
       /\ g_ulCaptureNum > 0
       /\ exist = 1..g_ulCaptureNum
            \/ (~fReturn /\ exist = 1..(g_ulCaptureNum - 1))

OpenKnown ==
  /\ pc \in {"off", "last", "create", "reopen"} => open = 0
  /\ pc \in {"eof", "closeold"} => open = g_ulCaptureNum - 1
  /\ pc \in {"sof", "closenew", "run", "test"} => open = g_ulCaptureNum
  /\ pc = "return" => open \in {0, g_ulCaptureNum}
  /\ pc = "return" /\ fReturn => open = g_ulCaptureNum
  /\ pc \in {"run", "test"} => fReturn

(* The newest file is empty when it gets its SOF mark, has the mark when   *)
(* OpenCapture succeeds, and no EOF mark while lines are written to it.    *)
NewestFile ==
  /\ \A i \in Index : jrn[i].file \in exist
  /\ pc = "sof" => \A i \in Index : jrn[i].file # g_ulCaptureNum
  /\ pc \in {"sof", "closenew", "reopen", "return", "run", "test"} =>
       \A i \in Index : jrn[i].file = g_ulCaptureNum => jrn[i].k # "EOF"
  /\ pc \in {"closenew", "reopen", "return", "run", "test"} /\ fReturn =>
       \E i \in Index : jrn[i].file = g_ulCaptureNum /\ jrn[i].k = "SOF"

(* The EOF mark of the previous file, among the first m entries.           *)
EndedWithin(m) ==
  \E i \in 1..m :
    /\ jrn[i] = [file |-> g_ulCaptureNum - 1, k |-> "EOF", n |-> g_ulCaptureNum]
    /\ \A j \in (i + 1)..Len(jrn) : jrn[j].file = g_ulCaptureNum

(* As long as OpenCapture has met no failure the previous file is ended,   *)
(* and from the close on that is on disk.                                  *)
EndedSoFar ==
  g_ulCaptureNum > 1 /\ fReturn =>
    /\ pc = "closeold" => EndedWithin(Len(jrn))
    /\ pc \in {"create", "sof", "closenew", "reopen", "return", "run", "test"} =>
         EndedWithin(onDisk)

(* Line numbers are given by thread B.                                     *)
LinesHanded == \A i \in Index : jrn[i].k = "LINE" => jrn[i].n <= handed

(* OpenCapture and thread B keep the chain of files in order: the files    *)
(* are numbered without a gap, only the newest one is written to, and it   *)
(* gets lines only when its own SOF mark and the EOF mark of its           *)
(* predecessor are in place - in whatever step a process failed or died    *)
(* before.                                                                 *)
JournalInv ==
  /\ JournalTypeOK /\ FilesKnown /\ OpenKnown
  /\ ReadInOrder /\ MarksFrame /\ NewestFile /\ EndedSoFar /\ LinesHanded

(* A file is changed when it exceeds the size the setting asks for, and    *)
(* not before; it never exceeds it by more than one line and its part.     *)
Asked == Unit * (IF Setting > 1 THEN Setting ELSE DefaultUnits)
SizeOf(f, K) == Cardinality({i \in Index : jrn[i].file = f /\ jrn[i].k \in K})
FileSizes ==
  /\ \A f \in exist : SizeOf(f, {"SOF", "PART", "LINE"}) <= Asked + 2
  /\ fChange /\ pc = "eof" =>
       SizeOf(open, {"SOF", "PART", "LINE"}) > Asked

(* The chain of files is one endless file of lines (see CaptureFile).      *)
LinesUpto(m) == {jrn[i].n : i \in {j \in 1..m : jrn[j].k = "LINE"}}
File == INSTANCE CaptureFile WITH lines <- LinesUpto(Len(jrn)),
                                  stable <- LinesUpto(onDisk)
ImplementsFile == File!Spec

=============================================================================
