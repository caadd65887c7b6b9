------------------------ MODULE CaptureJournalProofs ------------------------
(***************************************************************************)
(* The chain of capture files is in order, for any limit on the size of a  *)
(* file, any number of processes and lines, and whatever fails or dies.    *)
(***************************************************************************)
EXTENDS CaptureJournal, FiniteSetTheorems, TLAPS

-----------------------------------------------------------------------------
(* The operators the journal is written with *)

(* fwrite appends one entry and leaves the others alone.                   *)
Appended(e) ==
  /\ Len(jrn') = Len(jrn) + 1
  /\ \A i \in 1..Len(jrn) : jrn'[i] = jrn[i]
  /\ jrn'[Len(jrn) + 1] = e

Written(k, n) == [file |-> open, k |-> k, n |-> n]

LEMMA PutEffect ==
  ASSUME JournalTypeOK, NEW k \in EntryKinds, NEW n \in Nat, Put(k, n)
  PROVE  /\ jrn' \in Seq(Entry)
         /\ Written(k, n) \in Entry /\ Appended(Written(k, n))
<1>1. open \in Nat
  BY JournalAssumption DEF JournalTypeOK
<1>2. Written(k, n) \in Entry
  BY <1>1 DEF Entry, Written
<1>3. jrn' = Append(jrn, Written(k, n))
  BY DEF Put, Written
<1> QED
  BY <1>2, <1>3 DEF JournalTypeOK, Appended

(* Every entry has a file, a kind and a number.                            *)
LEMMA EntryTypes ==
  ASSUME JournalTypeOK
  PROVE  /\ Len(jrn) \in Nat
         /\ \A i \in Index : /\ jrn[i].file \in Nat /\ jrn[i].n \in Nat
                             /\ jrn[i].k \in EntryKinds
<1>1. Len(jrn) \in Nat /\ \A i \in Index : jrn[i] \in Entry
  BY DEF JournalTypeOK, Index
<1>2. \A e \in Entry : e.file \in Nat /\ e.n \in Nat /\ e.k \in EntryKinds
  BY DEF Entry
<1> QED
  BY <1>1, <1>2

(* A kill leaves a prefix of the journal that holds at least what was on   *)
(* disk; a line at its end may have become a part of a line.               *)
LEMMA KillEffect ==
  ASSUME JournalTypeOK, Kill
  PROVE  /\ jrn' \in Seq(Entry)
         /\ onDisk <= Len(jrn') /\ Len(jrn') <= Len(jrn)
         /\ onDisk' = Len(jrn')
         /\ \A i \in 1..onDisk : jrn'[i] = jrn[i]
         /\ \A i \in 1..Len(jrn') :
              /\ jrn'[i].file = jrn[i].file /\ jrn'[i].n = jrn[i].n
              /\ \/ jrn'[i].k = jrn[i].k
                 \/ i = Len(jrn') /\ jrn[i].k = "LINE" /\ jrn'[i].k = "PART"
<1>1. PICK n \in onDisk..Len(jrn) : \E rest \in Torn(n) :
        jrn' = SubSeq(jrn, 1, n) \o rest /\ onDisk' = Len(jrn')
  BY DEF Kill
<1>2. /\ n \in Nat /\ n <= Len(jrn) /\ onDisk <= n
      /\ SubSeq(jrn, 1, n) \in Seq(Entry)
      /\ Len(SubSeq(jrn, 1, n)) = n
      /\ \A i \in 1..n : SubSeq(jrn, 1, n)[i] = jrn[i]
  BY DEF JournalTypeOK
<1>3. CASE jrn' = SubSeq(jrn, 1, n) \o <<>>
  <2>1. jrn' = SubSeq(jrn, 1, n)
    BY <1>2, <1>3
  <2>2. onDisk' = Len(jrn')
    BY <1>1
  <2> HIDE <1>1, <1>3
  <2> QED
    BY <1>2, <2>1, <2>2 DEF JournalTypeOK
<1> DEFINE e == [jrn[n + 1] EXCEPT !.k = "PART"]
<1>4. CASE /\ n < Len(jrn) /\ jrn[n + 1].k = "LINE"
           /\ jrn' = SubSeq(jrn, 1, n) \o <<e>>
  <2>1. jrn[n + 1] \in Entry
    BY <1>2, <1>4 DEF JournalTypeOK
  <2>2. e \in Entry /\ e.k = "PART" /\ e.file = jrn[n + 1].file
          /\ e.n = jrn[n + 1].n
    BY <2>1 DEF Entry, EntryKinds
  <2> HIDE DEF e
  <2>3. /\ jrn' \in Seq(Entry) /\ Len(jrn') = n + 1 /\ jrn'[n + 1] = e
        /\ \A i \in 1..n : jrn'[i] = jrn[i]
    BY <1>2, <1>4, <2>2
  <2>4. onDisk' = Len(jrn')
    BY <1>1
  <2> HIDE <1>1
  <2> QED
    BY <1>2, <1>4, <2>2, <2>3, <2>4 DEF JournalTypeOK
<1> QED
  BY <1>1, <1>3, <1>4 DEF Torn

(* The last file of the list is the one with the largest number.           *)
LEMMA LastOfChain ==
  ASSUME NEW m \in Nat, exist = 1..m, exist # {}
  PROVE  LastCapture = m
<1>1. m \in exist /\ \A j \in exist : j <= m
  OBVIOUS
<1>2. \A n \in exist : (\A j \in exist : j <= n) => n = m
  BY <1>1
<1> QED
  BY <1>1, <1>2 DEF LastCapture

-----------------------------------------------------------------------------
(* Steps that write no entry *)

(* What the entries alone tell stays as it is.                             *)
LEMMA QuietEntries ==
  ASSUME JournalInv, UNCHANGED <<exist, jrn, handed>>
  PROVE  (ReadInOrder /\ MarksFrame /\ LinesHanded)'
  BY DEF JournalInv, ReadInOrder, MarksFrame, LinesHanded, Index, SameFile

(* OpenCapture, thread B and the end of the process without an entry.      *)
LEMMA QuietStep ==
  ASSUME JournalInv,
         OpenLast \/ OpenLastFails \/ MarkEofFails \/ CloseOld
         \/ CreateFails \/ MarkSofFails \/ CloseNew \/ Reopen \/ ReopenFails
         \/ ReturnOk \/ ReturnError \/ WriteFails \/ KeepFile
         \/ ChangeJournal \/ BufferFlush \/ Exit
  PROVE  JournalInv'
<1> USE JournalAssumption DEF JournalInv, diskVars, callVars, Goto
<1>0. /\ UNCHANGED <<exist, jrn, handed>>
      /\ onDisk' \in Nat /\ onDisk <= onDisk' /\ onDisk' <= Len(jrn)
  BY DEF JournalTypeOK, OpenLast, OpenLastFails, MarkEofFails, CloseOld, CreateFails, MarkSofFails, CloseNew, Reopen, ReopenFails, ReturnOk, ReturnError, WriteFails, KeepFile, ChangeJournal, BufferFlush, Exit, Ends
<1>1. (ReadInOrder /\ MarksFrame /\ LinesHanded)'
  BY <1>0, QuietEntries
<1>2. CASE OpenLast
  <2>1. /\ exist = 1..(g_ulCaptureNum - 1) /\ g_ulCaptureNum - 1 \in Nat \ {0}
        /\ 1 \in exist
    BY <1>2 DEF OpenLast, FilesKnown, JournalTypeOK
  <2>2. LastCapture = g_ulCaptureNum - 1
    BY <2>1, LastOfChain
  <2> QED
    BY <1>0, <1>1, <1>2, <2>1, <2>2 DEF OpenLast, JournalTypeOK, Pcs, FilesKnown, OpenKnown, NewestFile, EndedSoFar, EndedWithin, Index
<1>3. CASE OpenLastFails
  BY <1>0, <1>1, <1>3 DEF OpenLastFails, Ends, MayRun, JournalTypeOK, Pcs, FilesKnown, OpenKnown, NewestFile, EndedSoFar, EndedWithin, Index
<1>4. CASE MarkEofFails
  BY <1>0, <1>1, <1>4 DEF MarkEofFails, Ends, MayRun, JournalTypeOK, Pcs, FilesKnown, OpenKnown, NewestFile, EndedSoFar, EndedWithin, Index
<1>5. CASE CloseOld
  BY <1>0, <1>1, <1>5 DEF CloseOld, Ends, MayRun, JournalTypeOK, Pcs, FilesKnown, OpenKnown, NewestFile, EndedSoFar, EndedWithin, Index
<1>6. CASE CreateFails
  <2>1. JournalTypeOK'
    <3>1. fReturn' \in BOOLEAN
      BY Zenon, <1>6 DEF CreateFails
    <3>2. /\ g_ulCaptureSize' = 0 /\ pc' = "return"
          /\ UNCHANGED <<onDisk, open, g_ulCaptureNum, g_lFlush, fChange, starts>>
      BY <1>6 DEF CreateFails
    <3> QED
      BY <1>0, <3>1, <3>2 DEF JournalTypeOK, Pcs
  <2>2. FilesKnown' /\ OpenKnown'
    BY <1>0, <1>6 DEF CreateFails, JournalTypeOK, FilesKnown, OpenKnown
  <2>3. NewestFile'
    BY <1>0, <1>6 DEF CreateFails, JournalTypeOK, NewestFile, FilesKnown, Index
  <2>4. EndedSoFar'
    BY <1>0, <1>6 DEF CreateFails, JournalTypeOK, EndedSoFar, EndedWithin
  <2> QED
    BY <1>1, <2>1, <2>2, <2>3, <2>4
<1>7. CASE MarkSofFails
  BY <1>0, <1>1, <1>7 DEF MarkSofFails, Ends, MayRun, JournalTypeOK, Pcs, FilesKnown, OpenKnown, NewestFile, EndedSoFar, EndedWithin, Index
<1>8. CASE CloseNew
  BY <1>0, <1>1, <1>8 DEF CloseNew, Ends, MayRun, JournalTypeOK, Pcs, FilesKnown, OpenKnown, NewestFile, EndedSoFar, EndedWithin, Index
<1>9. CASE Reopen
  BY <1>0, <1>1, <1>9 DEF Reopen, Ends, MayRun, JournalTypeOK, Pcs, FilesKnown, OpenKnown, NewestFile, EndedSoFar, EndedWithin, Index
<1>10. CASE ReopenFails
  BY <1>0, <1>1, <1>10 DEF ReopenFails, Ends, MayRun, JournalTypeOK, Pcs, FilesKnown, OpenKnown, NewestFile, EndedSoFar, EndedWithin, Index
<1>11. CASE ReturnOk
  BY <1>0, <1>1, <1>11 DEF ReturnOk, Ends, MayRun, JournalTypeOK, Pcs, FilesKnown, OpenKnown, NewestFile, EndedSoFar, EndedWithin, Index
<1>12. CASE ReturnError
  BY <1>0, <1>1, <1>12 DEF ReturnError, Ends, MayRun, JournalTypeOK, Pcs, FilesKnown, OpenKnown, NewestFile, EndedSoFar, EndedWithin, Index
<1>13. CASE WriteFails
  BY SMTT(30), <1>0, <1>1, <1>13 DEF WriteFails, Ends, MayRun, JournalTypeOK, Pcs, FilesKnown, OpenKnown, NewestFile, EndedSoFar, EndedWithin, Index
<1>14. CASE KeepFile
  BY <1>0, <1>1, <1>14 DEF KeepFile, Ends, MayRun, JournalTypeOK, Pcs, FilesKnown, OpenKnown, NewestFile, EndedSoFar, EndedWithin, Index
<1>15. CASE ChangeJournal
  BY <1>0, <1>1, <1>15 DEF ChangeJournal, Ends, MayRun, JournalTypeOK, Pcs, FilesKnown, OpenKnown, NewestFile, EndedSoFar, EndedWithin, Index
<1>16. CASE BufferFlush
  <2>1. JournalTypeOK'
    BY <1>0, <1>16 DEF BufferFlush, JournalTypeOK, Pcs
  <2>2. FilesKnown' /\ OpenKnown'
    BY <1>0, <1>16 DEF BufferFlush, JournalTypeOK, FilesKnown, OpenKnown
  <2>3. NewestFile'
    BY <1>0, <1>16 DEF BufferFlush, JournalTypeOK, NewestFile, FilesKnown, Index
  <2>4. EndedSoFar'
    BY <1>0, <1>16 DEF BufferFlush, JournalTypeOK, EndedSoFar, EndedWithin
  <2> QED
    BY <1>1, <2>1, <2>2, <2>3, <2>4
<1>17. CASE Exit
  BY <1>0, <1>1, <1>17 DEF Exit, Ends, MayRun, JournalTypeOK, Pcs, FilesKnown, OpenKnown, NewestFile, EndedSoFar, EndedWithin, Index
<1> QED
  BY <1>2, <1>3, <1>4, <1>5, <1>6, <1>7, <1>8, <1>9, <1>10, <1>11, <1>12, <1>13, <1>14, <1>15, <1>16, <1>17

(* A process starts behind the newest file.                                *)
LEMMA StartStep ==
  ASSUME JournalInv, NEW flush \in BOOLEAN, Start(flush)
  PROVE  JournalInv'
<1> USE JournalAssumption DEF JournalInv
<1>0. UNCHANGED <<exist, jrn, handed, onDisk, open, g_ulCaptureSize>>
  BY DEF Start, diskVars
<1>1. (ReadInOrder /\ MarksFrame /\ LinesHanded)'
  BY <1>0, QuietEntries
<1>2. PICK m \in 0..MaxFiles : exist = 1..m
  BY DEF Start, FilesKnown
<1>3. /\ g_ulCaptureNum' = m + 1 /\ m + 1 <= MaxFiles
      /\ pc' = IF m = 0 THEN "create" ELSE "last"
  <2>1. CASE m = 0
    BY <1>2, <2>1 DEF Start, Goto
  <2>2. CASE m # 0
    <3>1. 1 \in exist
      BY <1>2, <2>2
    <3>2. LastCapture = m
      BY <1>2, <3>1, LastOfChain
    <3> QED
      BY <2>2, <3>1, <3>2 DEF Start, Goto
  <2> QED  BY <2>1, <2>2
<1>4. /\ g_lFlush' \in BOOLEAN /\ fChange' \in BOOLEAN /\ fReturn' \in BOOLEAN
      /\ starts' \in Nat
  <2>1. starts' \in Nat
    BY DEF Start, JournalTypeOK
  <2> QED  BY Zenon, <2>1 DEF Start
<1>5. JournalTypeOK'
  BY <1>0, <1>2, <1>3, <1>4 DEF JournalTypeOK, Pcs
<1>6. FilesKnown'
  BY <1>0, <1>2, <1>3 DEF FilesKnown
<1>7. open = 0
  BY DEF Start, OpenKnown
<1>8. OpenKnown' /\ NewestFile'
  BY <1>0, <1>3, <1>7 DEF OpenKnown, NewestFile, Index
<1>9. EndedSoFar'
  BY <1>2, <1>3 DEF EndedSoFar
<1> QED
  BY <1>1, <1>5, <1>6, <1>8, <1>9

(* The new file is empty.                                                  *)
LEMMA CreateStep ==
  ASSUME JournalInv, Create
  PROVE  JournalInv'
<1> USE JournalAssumption DEF JournalInv
<1>0. /\ UNCHANGED <<jrn, onDisk, handed, g_ulCaptureNum, g_lFlush, fChange,
                     fReturn, starts>>
      /\ pc = "create" /\ pc' = "sof" /\ open' = g_ulCaptureNum
      /\ g_ulCaptureSize' = 0
      /\ exist' = exist \cup {g_ulCaptureNum}
  BY DEF Create, Goto, callVars
<1>1. /\ g_ulCaptureNum \in 1..MaxFiles
      /\ exist = 1..(g_ulCaptureNum - 1) /\ exist' = 1..g_ulCaptureNum
  BY <1>0 DEF FilesKnown, JournalTypeOK
<1>2. JournalTypeOK'
  BY <1>0, <1>1 DEF JournalTypeOK, Pcs
<1>3. FilesKnown' /\ OpenKnown'
  BY <1>0, <1>1 DEF FilesKnown, OpenKnown
<1>4. (ReadInOrder /\ MarksFrame /\ LinesHanded)'
  BY SMTT(30), <1>0, <1>1 DEF ReadInOrder, MarksFrame, LinesHanded, Index, SameFile
<1>5. NewestFile'
  BY SMTT(30), <1>0, <1>1 DEF NewestFile, Index
<1>6. EndedSoFar'
  BY <1>0 DEF EndedSoFar, EndedWithin
<1> QED
  BY <1>2, <1>3, <1>4, <1>5, <1>6

-----------------------------------------------------------------------------
(* Steps that write an entry *)

(* The file that is written to is the newest one: an entry goes behind the *)
(* entries of all other files.                                             *)
LEMMA PutAtEnd ==
  ASSUME JournalInv, pc \in {"eof", "sof", "run"}
  PROVE  /\ open \in exist
         /\ \A i \in Index : jrn[i].file \in Nat /\ jrn[i].file <= open
<1> USE JournalAssumption DEF JournalInv
<1>1. open \in exist /\ \A f \in exist : f \in Nat /\ f <= open
  BY DEF FilesKnown, OpenKnown, JournalTypeOK
<1> QED
  BY <1>1 DEF NewestFile

(* An entry that fits behind the others keeps the files in order ...       *)
LEMMA PutInOrder ==
  ASSUME JournalTypeOK, ReadInOrder, UNCHANGED exist,
         NEW e \in Entry, Appended(e),
         \A i \in Index : jrn[i].file <= e.file,
         e.k = "LINE" => \A i \in Index : jrn[i].k = "LINE" => jrn[i].n < e.n,
         e.k \in {"PART", "LINE"} /\ Index # {} => jrn[Len(jrn)].file = e.file
  PROVE  ReadInOrder'
<1>1. Len(jrn) \in Nat /\ \A i \in 1..Len(jrn) : jrn[i] \in Entry
  BY DEF JournalTypeOK
<1>2. \A n \in exist' : n > 1 => n - 1 \in exist'
  BY DEF ReadInOrder
<1>3. ASSUME NEW i \in 1..Len(jrn'), NEW j \in 1..Len(jrn'), i < j
      PROVE  /\ jrn'[i].file <= jrn'[j].file
             /\ jrn'[i].k = "LINE" /\ jrn'[j].k = "LINE" => jrn'[i].n < jrn'[j].n
  <2>1. i \in 1..Len(jrn) /\ jrn'[i] = jrn[i]
    BY <1>1, <1>3 DEF Appended
  <2>2. CASE j \in 1..Len(jrn)
    BY <1>3, <2>1, <2>2 DEF ReadInOrder, Index, Appended
  <2>3. CASE j = Len(jrn) + 1
    BY <2>1, <2>3 DEF Index, Appended
  <2> QED
    BY <1>1, <2>2, <2>3 DEF Appended
<1>4. ASSUME NEW i \in 1..Len(jrn'), i > 1, jrn'[i - 1].k = "PART",
             jrn'[i].k \in {"PART", "LINE"}
      PROVE  jrn'[i - 1].file = jrn'[i].file
  <2>1. i - 1 \in 1..Len(jrn) /\ jrn'[i - 1] = jrn[i - 1]
    BY <1>1, <1>4 DEF Appended
  <2>2. CASE i \in 1..Len(jrn)
    BY <1>4, <2>1, <2>2 DEF ReadInOrder, Index, Appended, SameFile
  <2>3. CASE i = Len(jrn) + 1
    BY <1>1, <1>4, <2>1, <2>3 DEF Index, Appended
  <2> QED
    BY <1>1, <2>2, <2>3 DEF Appended
<1> QED
  BY <1>2, <1>3, <1>4 DEF ReadInOrder, Index, SameFile

(* ... and the marks where they belong.                                    *)
LEMMA PutFramed ==
  ASSUME JournalTypeOK, MarksFrame,
         NEW e \in Entry, Appended(e),
         e.k = "SOF" => \A i \in Index : jrn[i].file # e.file,
         e.k # "EOF" => \A i \in Index : jrn[i].file = e.file => jrn[i].k # "EOF",
         e.k \in {"PART", "LINE"} =>
           \E i \in Index : jrn[i].file = e.file /\ jrn[i].k = "SOF"
  PROVE  MarksFrame'
<1>1. Len(jrn) \in Nat
  BY DEF JournalTypeOK
<1>2. ASSUME NEW i \in 1..Len(jrn'), NEW j \in 1..Len(jrn'), i < j,
             jrn'[i].file = jrn'[j].file
      PROVE  jrn'[j].k # "SOF" /\ (jrn'[i].k = "EOF" => jrn'[j].k = "EOF")
  <2>1. i \in 1..Len(jrn) /\ jrn'[i] = jrn[i]
    BY <1>1, <1>2 DEF Appended
  <2>2. CASE j \in 1..Len(jrn)
    BY <1>2, <2>1, <2>2 DEF MarksFrame, Index, SameFile, Appended
  <2>3. CASE j = Len(jrn) + 1
    BY <1>2, <2>1, <2>3 DEF Index, Appended
  <2> QED
    BY <1>1, <2>2, <2>3 DEF Appended
<1>3. ASSUME NEW j \in 1..Len(jrn'), jrn'[j].k \in {"PART", "LINE"}
      PROVE  \E i \in 1..(j - 1) : jrn'[i].file = jrn'[j].file /\ jrn'[i].k = "SOF"
  <2>1. CASE j \in 1..Len(jrn)
    <3>1. PICK i \in 1..(j - 1) : SameFile(i, j) /\ jrn[i].k = "SOF"
      BY <1>3, <2>1 DEF MarksFrame, Index, Appended
    <3> QED
      BY <1>1, <2>1, <3>1 DEF SameFile, Appended
  <2>2. CASE j = Len(jrn) + 1
    <3>1. PICK i \in Index : jrn[i].file = e.file /\ jrn[i].k = "SOF"
      BY <1>3, <2>2 DEF Appended
    <3> QED
      BY <1>1, <2>2, <3>1 DEF Index, Appended
  <2> QED
    BY <1>1, <2>1, <2>2 DEF Appended
<1> QED
  BY <1>2, <1>3 DEF MarksFrame, Index, SameFile

(* The EOF mark goes behind everything in the file that ends.              *)
LEMMA MarkEofStep ==
  ASSUME JournalInv, MarkEof
  PROVE  JournalInv'
<1> USE JournalAssumption DEF JournalInv
<1> DEFINE e == Written("EOF", g_ulCaptureNum)
<1>0. /\ UNCHANGED <<exist, onDisk, open, handed, g_ulCaptureNum,
                     g_ulCaptureSize, g_lFlush, fChange, fReturn, starts>>
      /\ pc = "eof" /\ pc' = "closeold" /\ Put("EOF", g_ulCaptureNum)
      /\ g_ulCaptureNum \in Nat /\ onDisk \in 0..Len(jrn)
  BY DEF MarkEof, Goto, callVars, EofNumber, JournalTypeOK
<1>1. jrn' \in Seq(Entry) /\ e \in Entry /\ Appended(e)
  BY <1>0, PutEffect DEF EntryKinds
<1>2. e.file = open /\ e.k = "EOF" /\ e.n = g_ulCaptureNum
  BY DEF Written
<1>3. /\ open \in exist /\ open = g_ulCaptureNum - 1
      /\ \A i \in Index : jrn[i].file \in Nat /\ jrn[i].file <= open
  BY <1>0, PutAtEnd DEF OpenKnown
<1>4. JournalTypeOK'
  BY <1>0, <1>1 DEF JournalTypeOK, Pcs, Appended
<1>5. FilesKnown' /\ OpenKnown'
  BY <1>0 DEF FilesKnown, OpenKnown
<1>6. EndedSoFar'
  <2>1. e = [file |-> g_ulCaptureNum - 1, k |-> "EOF", n |-> g_ulCaptureNum]
    BY <1>3 DEF Written
  <2> HIDE DEF e
  <2> QED
    BY <1>0, <1>1, <2>1 DEF EndedSoFar, EndedWithin, Appended
<1> HIDE DEF e
<1>7. ReadInOrder'
  BY <1>0, <1>1, <1>2, <1>3, PutInOrder
<1>8. MarksFrame'
  BY <1>1, <1>2, PutFramed
<1>9. NewestFile' /\ LinesHanded'
  BY SMTT(30), <1>0, <1>1, <1>2, <1>3 DEF NewestFile, LinesHanded, Index, Appended
<1> QED
  BY <1>4, <1>5, <1>6, <1>7, <1>8, <1>9

(* The SOF mark is the first entry of the newest file.                     *)
LEMMA MarkSofStep ==
  ASSUME JournalInv, MarkSof
  PROVE  JournalInv'
<1> USE JournalAssumption DEF JournalInv
<1> DEFINE e == Written("SOF", g_ulCaptureNum)
<1>0. /\ UNCHANGED <<exist, onDisk, open, handed, g_ulCaptureNum, g_lFlush,
                     fChange, fReturn, starts>>
      /\ pc = "sof" /\ pc' = "closenew" /\ Put("SOF", g_ulCaptureNum)
      /\ g_ulCaptureNum \in Nat /\ onDisk \in 0..Len(jrn)
      /\ g_ulCaptureSize' \in 0..(Word - 1)
  BY DEF MarkSof, Goto, callVars, Grown, JournalTypeOK
<1>1. jrn' \in Seq(Entry) /\ e \in Entry /\ Appended(e)
  BY <1>0, PutEffect DEF EntryKinds
<1>2. e.file = open /\ e.k = "SOF" /\ e.n = g_ulCaptureNum
  BY DEF Written
<1>3. /\ open \in exist /\ open = g_ulCaptureNum
      /\ \A i \in Index : jrn[i].file \in Nat /\ jrn[i].file <= open
      /\ \A i \in Index : jrn[i].file # open
  BY <1>0, PutAtEnd DEF OpenKnown, NewestFile
<1> HIDE DEF e
<1>4. JournalTypeOK'
  BY <1>0, <1>1 DEF JournalTypeOK, Pcs, Appended
<1>5. FilesKnown' /\ OpenKnown'
  BY <1>0 DEF FilesKnown, OpenKnown
<1>6. ReadInOrder'
  BY <1>0, <1>1, <1>2, <1>3, PutInOrder
<1>7. MarksFrame'
  BY <1>1, <1>2, <1>3, PutFramed
<1>8. LinesHanded'
  BY <1>0, <1>1, <1>2 DEF LinesHanded, Index, Appended
<1>10. NewestFile'
  <2>1. Len(jrn) + 1 \in 1..Len(jrn') /\ jrn'[Len(jrn) + 1] = e /\ Len(jrn) \in Nat
    BY <1>1, EntryTypes DEF Appended
  <2>2. \A i \in Index : jrn'[i] = jrn[i] /\ jrn[i].file \in exist
                           /\ jrn[i].file # open
    BY <1>1, <1>3 DEF NewestFile, Index, Appended
  <2>3. \A i \in 1..Len(jrn') : i \in Index \/ jrn'[i] = e
    BY <1>1, <2>1 DEF Index, Appended
  <2>4. \A i \in 1..Len(jrn') : /\ jrn'[i].file \in exist
                                /\ jrn'[i].file = open => jrn'[i].k # "EOF"
    BY <1>2, <1>3, <2>2, <2>3
  <2> QED
    BY <1>0, <1>2, <1>3, <2>1, <2>4 DEF NewestFile, Index
<1>9. EndedSoFar'
  BY SMTT(30), <1>0, <1>1, <1>2, <1>3 DEF EndedSoFar, EndedWithin, Appended
<1> QED
  BY <1>4, <1>5, <1>6, <1>7, <1>8, <1>9, <1>10

(* A line, or a part of one, goes behind the SOF mark of the newest file.  *)
LEMMA WriteStep ==
  ASSUME JournalInv, WritePart \/ WriteLine
  PROVE  JournalInv'
<1> USE JournalAssumption DEF JournalInv
<1>0. /\ UNCHANGED <<exist, open, g_ulCaptureNum, g_lFlush, fChange, fReturn,
                     starts>>
      /\ pc = "run" /\ pc' \in {"run", "test"}
      /\ onDisk \in 0..Len(jrn) /\ (onDisk' = onDisk \/ onDisk' = Len(jrn'))
      /\ g_ulCaptureSize' \in 0..(Word - 1)
      /\ handed \in Nat /\ handed' \in {handed, handed + 1}
  BY DEF WritePart, WriteLine, Goto, callVars, Grown, JournalTypeOK, FlushAll
<1>1. PICK k \in {"PART", "LINE"} :
        Put(k, handed + 1) /\ (k = "LINE" => handed' = handed + 1)
  BY DEF WritePart, WriteLine
<1> DEFINE e == Written(k, handed + 1)
<1>2. jrn' \in Seq(Entry) /\ e \in Entry /\ Appended(e)
  BY <1>0, <1>1, PutEffect DEF EntryKinds
<1>3. e.file = open /\ e.k = k /\ e.n = handed + 1
  BY DEF Written
<1>4. /\ open \in exist /\ open = g_ulCaptureNum /\ fReturn
      /\ \A i \in Index : jrn[i].file \in Nat /\ jrn[i].file <= open
  BY <1>0, PutAtEnd DEF OpenKnown
<1>5. PICK s \in Index : jrn[s].file = open /\ jrn[s].k = "SOF"
  BY <1>0, <1>4 DEF NewestFile
<1>6. Len(jrn) \in Index /\ jrn[Len(jrn)].file = open
  <2>1. Len(jrn) \in Index /\ (s = Len(jrn) \/ s < Len(jrn))
    BY <1>5 DEF Index, JournalTypeOK
  <2>2. open <= jrn[Len(jrn)].file
    BY <1>4, <1>5, <2>1 DEF ReadInOrder
  <2> QED
    BY <1>4, <2>1, <2>2 DEF JournalTypeOK
<1> HIDE DEF e
<1>7. JournalTypeOK'
  BY <1>0, <1>2 DEF JournalTypeOK, Pcs, Appended
<1>8. FilesKnown' /\ OpenKnown'
  BY <1>0, <1>4 DEF FilesKnown, OpenKnown
<1>9. ReadInOrder'
  <2>1. \A i \in Index : jrn[i].k = "LINE" => jrn[i].n < e.n
    BY <1>0, <1>3, EntryTypes DEF LinesHanded
  <2> QED
    BY <1>0, <1>2, <1>3, <1>4, <1>6, <2>1, PutInOrder
<1>10. MarksFrame'
  <2>1. \A i \in Index : jrn[i].file = open => jrn[i].k # "EOF"
    BY <1>0, <1>4 DEF NewestFile
  <2> QED
    BY <1>1, <1>2, <1>3, <1>5, <2>1, PutFramed
<1>11. NewestFile'
  <2>1. /\ \A i \in Index : jrn[i].file \in exist
        /\ \A i \in Index : jrn[i].file = open => jrn[i].k # "EOF"
    BY <1>0, <1>4 DEF NewestFile
  <2>2. s \in 1..Len(jrn') /\ jrn'[s] = jrn[s] /\ Len(jrn) \in Nat
    BY <1>2, <1>5 DEF Index, Appended, JournalTypeOK
  <2>3. \A i \in 1..Len(jrn') : jrn'[i].file \in exist
                 /\ (jrn'[i].file = open => jrn'[i].k # "EOF")
    BY <1>1, <1>2, <1>3, <1>4, <2>1, <2>2 DEF Index, Appended
  <2> QED
    BY <1>0, <1>4, <1>5, <2>2, <2>3 DEF NewestFile, Index
<1>12. LinesHanded'
  <2>1. \A i \in Index : jrn[i].n \in Nat
    BY EntryTypes
  <2> QED
    BY <1>0, <1>1, <1>2, <1>3, <2>1 DEF LinesHanded, Index, Appended
<1>13. EndedSoFar'
  <2> SUFFICES ASSUME g_ulCaptureNum > 1 PROVE EndedWithin(onDisk)'
    BY <1>0 DEF EndedSoFar
  <2>1. PICK i \in 1..onDisk :
          /\ jrn[i] = [file |-> g_ulCaptureNum - 1, k |-> "EOF",
                       n |-> g_ulCaptureNum]
          /\ \A j \in (i + 1)..Len(jrn) : jrn[j].file = g_ulCaptureNum
    BY <1>0, <1>4 DEF EndedSoFar, EndedWithin
  <2>2. i \in 1..onDisk' /\ i \in 1..Len(jrn) /\ jrn'[i] = jrn[i]
    BY <1>0, <1>2, EntryTypes DEF Appended
  <2>3. \A j \in (i + 1)..Len(jrn') : jrn'[j].file = g_ulCaptureNum
    BY SMTT(30), <1>2, <1>3, <1>4, <2>1, <2>2, EntryTypes DEF Appended
  <2> QED
    BY <1>0, <2>1, <2>2, <2>3 DEF EndedWithin
<1> QED
  BY <1>7, <1>8, <1>9, <1>10, <1>11, <1>12, <1>13

(* A kill cuts the journal off behind what was on disk.                    *)
LEMMA KillStep ==
  ASSUME JournalInv, Kill
  PROVE  JournalInv'
<1> USE JournalAssumption DEF JournalInv
<1>0. /\ UNCHANGED <<exist, g_ulCaptureNum, g_ulCaptureSize, g_lFlush, fChange,
                     fReturn, starts, handed>>
      /\ pc # "off" /\ pc' = "off" /\ open' = 0
  BY DEF Kill, Goto, callVars
<1>1. /\ jrn' \in Seq(Entry)
      /\ Len(jrn') <= Len(jrn) /\ onDisk' = Len(jrn')
      /\ \A i \in 1..Len(jrn') :
           /\ jrn'[i].file = jrn[i].file /\ jrn'[i].n = jrn[i].n
           /\ \/ jrn'[i].k = jrn[i].k
              \/ i = Len(jrn') /\ jrn[i].k = "LINE" /\ jrn'[i].k = "PART"
  BY KillEffect
<1>2. JournalTypeOK'
  BY <1>0, <1>1 DEF JournalTypeOK, Pcs
<1>3. FilesKnown' /\ OpenKnown'
  BY <1>0 DEF FilesKnown, OpenKnown, JournalTypeOK, Pcs
<1> DEFINE n == Len(jrn')
<1>8. n \in Nat /\ \A i \in 1..n : i \in Index
  BY <1>1, EntryTypes DEF Index
<1>4. ReadInOrder'
  <2>1. \A i, j \in 1..n : i < j =>
          /\ jrn'[i].file <= jrn'[j].file
          /\ jrn'[i].k = "LINE" /\ jrn'[j].k = "LINE" => jrn'[i].n < jrn'[j].n
    BY <1>1, <1>8 DEF ReadInOrder
  <2>2. \A i \in 1..n : i > 1 /\ jrn'[i - 1].k = "PART"
            /\ jrn'[i].k \in {"PART", "LINE"} => jrn'[i - 1].file = jrn'[i].file
    <3> SUFFICES ASSUME NEW i \in 1..n, i > 1, jrn'[i - 1].k = "PART",
                        jrn'[i].k \in {"PART", "LINE"}
                 PROVE  jrn'[i - 1].file = jrn'[i].file
      OBVIOUS
    <3>1. i - 1 \in 1..n /\ i - 1 # n
      BY <1>8
    <3>2. jrn[i - 1].k = "PART" /\ jrn[i].k \in {"PART", "LINE"}
      BY <1>1, <3>1
    <3> QED
      BY <1>1, <1>8, <3>1, <3>2 DEF ReadInOrder, SameFile
  <2> QED
    BY <1>0, <2>1, <2>2 DEF ReadInOrder, Index, SameFile
<1>5. MarksFrame'
  <2>1. \A i, j \in 1..n : i < j /\ jrn'[i].file = jrn'[j].file =>
          jrn'[j].k # "SOF" /\ (jrn'[i].k = "EOF" => jrn'[j].k = "EOF")
    BY <1>1, <1>8 DEF MarksFrame, SameFile
  <2>2. ASSUME NEW j \in 1..n, jrn'[j].k \in {"PART", "LINE"}
        PROVE  \E i \in 1..(j - 1) : jrn'[i].file = jrn'[j].file /\ jrn'[i].k = "SOF"
    <3>1. jrn[j].k \in {"PART", "LINE"}
      BY <1>1, <2>2
    <3>2. PICK i \in 1..(j - 1) : SameFile(i, j) /\ jrn[i].k = "SOF"
      BY <1>8, <3>1 DEF MarksFrame
    <3>3. i \in 1..n
      BY <1>8
    <3> QED
      BY <1>1, <3>2, <3>3 DEF SameFile
  <2> QED
    BY <2>1, <2>2 DEF MarksFrame, Index, SameFile
<1>6. NewestFile' /\ LinesHanded'
  <2>1. \A i \in 1..n : jrn'[i].file \in exist
    BY <1>1, <1>8 DEF NewestFile
  <2>2. \A i \in 1..n : jrn'[i].k = "LINE" => jrn'[i].n <= handed
    BY <1>1, <1>8 DEF LinesHanded
  <2> QED
    BY <1>0, <2>1, <2>2 DEF NewestFile, LinesHanded, Index
<1>7. EndedSoFar'
  BY <1>0 DEF EndedSoFar
<1> QED
  BY <1>2, <1>3, <1>4, <1>5, <1>6, <1>7
-----------------------------------------------------------------------------

LEMMA JournalInvInit == Init => JournalInv
<1> SUFFICES ASSUME Init PROVE JournalInv
  OBVIOUS
<1>1. g_lFlush \in BOOLEAN /\ fChange \in BOOLEAN /\ fReturn \in BOOLEAN
  BY Zenon DEF Init
<1>2. /\ exist = {} /\ jrn = <<>> /\ onDisk = 0 /\ open = 0 /\ Len(jrn) = 0
      /\ g_ulCaptureNum = 0 /\ g_ulCaptureSize = 0 /\ pc = "off" /\ starts = 0
      /\ handed = 0
  BY DEF Init
<1>3. JournalTypeOK
  BY <1>1, <1>2, JournalAssumption DEF JournalTypeOK, Pcs
<1>4. FilesKnown
  <2>1. exist = 1..0 /\ 0 \in 0..MaxFiles
    BY <1>2, JournalAssumption
  <2> QED  BY <1>2, <2>1 DEF FilesKnown
<1>5. OpenKnown /\ EndedSoFar
  BY <1>2 DEF OpenKnown, EndedSoFar
<1>6. Index = {}
  BY <1>2 DEF Index
<1>7. ReadInOrder /\ MarksFrame /\ NewestFile /\ LinesHanded
  BY <1>2, <1>6 DEF ReadInOrder, MarksFrame, NewestFile, LinesHanded
<1> QED  BY <1>3, <1>4, <1>5, <1>7 DEF JournalInv

LEMMA JournalInvNext == JournalInv /\ [Next]_vars => JournalInv'
<1> SUFFICES ASSUME JournalInv, [Next]_vars PROVE JournalInv'
  OBVIOUS
<1>1. CASE OpenCapture
  BY Zenon, <1>1, QuietStep, CreateStep, MarkEofStep, MarkSofStep DEF OpenCapture
<1>2. CASE ListenBinLog
  BY Zenon, <1>2, QuietStep, WriteStep DEF ListenBinLog
<1>3. CASE Process
  BY Zenon, <1>3, QuietStep, StartStep, KillStep DEF Process
<1>4. CASE UNCHANGED vars
  <2>1. UNCHANGED <<exist, jrn, onDisk, open, g_ulCaptureNum, g_ulCaptureSize,
                    g_lFlush, fChange, fReturn, pc, starts, handed>>
    BY <1>4 DEF vars, diskVars, callVars
  <2>2. (ReadInOrder /\ MarksFrame /\ LinesHanded)'
    BY <2>1, QuietEntries
  <2> QED
    BY <2>1, <2>2 DEF JournalInv, JournalTypeOK, FilesKnown, OpenKnown,
       NewestFile, EndedSoFar, EndedWithin, Index
<1> QED
  BY <1>1, <1>2, <1>3, <1>4 DEF Next

(* OpenCapture and thread B keep the chain of files in order, whatever     *)
(* fails and whenever a process dies.                                      *)
THEOREM JournalInOrder == Spec => []JournalInv
  BY JournalInvInit, JournalInvNext, PTL DEF Spec

(* What is open is a file of the directory, and the sizes and numbers stay *)
(* in their types.                                                         *)
THEOREM JournalTypes == Spec => []JournalTypeOK
<1>1. JournalInv => JournalTypeOK
  BY DEF JournalInv
<1> QED  BY <1>1, JournalInOrder, PTL

(* Reading the files by number gives the lines in the order thread B wrote *)
(* them, none twice, and no line runs on in the next file.                 *)
THEOREM LinesInOrder == Spec => []ReadInOrder
<1>1. JournalInv => ReadInOrder
  BY DEF JournalInv
<1> QED  BY <1>1, JournalInOrder, PTL

(* Every file begins with its SOF mark, no line is in a file without it,   *)
(* and nothing follows an EOF mark but the mark again.                     *)
THEOREM MarksInPlace == Spec => []MarksFrame
<1>1. JournalInv => MarksFrame
  BY DEF JournalInv
<1> QED  BY <1>1, JournalInOrder, PTL

(* Thread B writes lines only when the previous file, on disk, ends with   *)
(* the mark that leads to the file it writes to.                           *)
THEOREM ChainOnDisk == Spec => []PredecessorEnded
<1>1. JournalInv => PredecessorEnded
  BY DEF JournalInv, OpenKnown, EndedSoFar, EndedWithin, PredecessorEnded
<1> QED  BY <1>1, JournalInOrder, PTL
-----------------------------------------------------------------------------
(* The chain of files implements one endless file of lines *)

(* The numbers of the lines among the first m entries of a journal.        *)
LinesOf(s, m) == {s[i].n : i \in {j \in 1..m : s[j].k = "LINE"}}

(* Journals that agree on m entries have the same lines there.             *)
LEMMA LinesAgree ==
  ASSUME NEW s, NEW t, NEW m \in Nat, \A i \in 1..m : s[i] = t[i]
  PROVE  LinesOf(s, m) = LinesOf(t, m)
  BY DEF LinesOf

(* In a journal whose lines are numbered upwards the lines of a prefix     *)
(* come before the others.                                                 *)
LEMMA LinesOrdered ==
  ASSUME NEW s, NEW b \in Nat, NEW a \in 0..b,
         \A i, j \in 1..b : i < j /\ s[i].k = "LINE" /\ s[j].k = "LINE"
                              => s[i].n < s[j].n
  PROVE  /\ LinesOf(s, a) \subseteq LinesOf(s, b)
         /\ \A x \in LinesOf(s, a), y \in LinesOf(s, b) \ LinesOf(s, a) : x < y
<1>1. \A i \in 1..a : i \in 1..b
  OBVIOUS
<1>2. ASSUME NEW x \in LinesOf(s, a), NEW y \in LinesOf(s, b) \ LinesOf(s, a)
      PROVE  x < y
  <2>1. PICK i \in 1..a : s[i].k = "LINE" /\ x = s[i].n
    BY DEF LinesOf
  <2>2. PICK j \in 1..b : s[j].k = "LINE" /\ y = s[j].n
    BY DEF LinesOf
  <2>3. j \notin 1..a
    BY <2>2 DEF LinesOf
  <2>4. i < j
    BY <2>3
  <2> QED
    BY <1>1, <2>1, <2>2, <2>4
<1> QED
  BY <1>1, <1>2 DEF LinesOf

(* The mapping, before and after a step.                                   *)
LEMMA Mapped ==
  /\ LinesUpto(Len(jrn)) = LinesOf(jrn, Len(jrn))
  /\ LinesUpto(onDisk) = LinesOf(jrn, onDisk)
  /\ LinesUpto(Len(jrn))' = LinesOf(jrn', Len(jrn'))
  /\ LinesUpto(onDisk)' = LinesOf(jrn', onDisk')
  BY DEF LinesUpto, LinesOf

(* Lines that settle, come from the front of the journal after the step.   *)
LEMMA SettleRefines ==
  ASSUME JournalInv, JournalInv',
         onDisk <= onDisk', \A i \in 1..onDisk : jrn'[i] = jrn[i]
  PROVE  File!Settle
<1>1. onDisk \in Nat /\ onDisk' \in 0..Len(jrn') /\ Len(jrn') \in Nat
  BY DEF JournalInv, JournalTypeOK
<1>2. \A i, j \in 1..Len(jrn') :
        i < j /\ jrn'[i].k = "LINE" /\ jrn'[j].k = "LINE" => jrn'[i].n < jrn'[j].n
  BY DEF JournalInv, ReadInOrder, Index
<1>3. onDisk \in 0..onDisk' /\ onDisk' \in Nat
  BY <1>1
<1>4. LinesOf(jrn, onDisk) = LinesOf(jrn', onDisk)
  BY <1>1, LinesAgree
<1>5. LinesOf(jrn', onDisk) \subseteq LinesOf(jrn', onDisk')
  <2>1. \A i, j \in 1..onDisk' :
        i < j /\ jrn'[i].k = "LINE" /\ jrn'[j].k = "LINE" => jrn'[i].n < jrn'[j].n
    BY <1>1, <1>2
  <2> QED
    BY <1>3, <2>1, LinesOrdered
<1>6. /\ LinesOf(jrn', onDisk') \subseteq LinesOf(jrn', Len(jrn'))
      /\ \A x \in LinesOf(jrn', onDisk'),
            y \in LinesOf(jrn', Len(jrn')) \ LinesOf(jrn', onDisk') : x < y
  BY <1>1, <1>2, LinesOrdered
<1> QED
  BY <1>4, <1>5, <1>6, Mapped DEF File!Settle, File!Precedes

(* A step that writes no entry at most settles lines.                      *)
LEMMA FlushRefines ==
  ASSUME JournalInv, JournalInv', UNCHANGED jrn, onDisk <= onDisk'
  PROVE  File!Flush
<1>1. File!Settle
  BY SettleRefines
<1> QED
  BY <1>1, Mapped DEF File!Flush

(* A mark or a part is no line; a line is added behind all others.         *)
LEMMA PutRefines ==
  ASSUME JournalInv, JournalInv', NEW e \in Entry, Appended(e),
         onDisk <= onDisk', e.k = "LINE" => e.n = handed + 1
  PROVE  File!Flush \/ File!AppendLine
<1>1. Len(jrn) \in Nat /\ onDisk \in 0..Len(jrn) /\ handed \in Nat
  BY DEF JournalInv, JournalTypeOK
<1>2. File!Settle
  BY <1>1, SettleRefines DEF Appended
<1>3. LinesOf(jrn, Len(jrn)) = LinesOf(jrn', Len(jrn))
  BY <1>1, LinesAgree DEF Appended
<1>4. CASE e.k # "LINE"
  <2>1. LinesOf(jrn', Len(jrn')) = LinesOf(jrn', Len(jrn))
    BY <1>1, <1>4 DEF LinesOf, Appended
  <2> QED
    BY <1>2, <1>3, <2>1, Mapped DEF File!Flush
<1>5. CASE e.k = "LINE"
  <2>1. LinesOf(jrn', Len(jrn')) = LinesOf(jrn', Len(jrn)) \cup {e.n}
    BY <1>1, <1>5 DEF LinesOf, Appended
  <2>2. \A x \in LinesOf(jrn, Len(jrn)) : x < e.n
    <3>1. \A i \in 1..Len(jrn) : jrn[i].k = "LINE" => jrn[i].n < e.n
      BY <1>1, <1>5, EntryTypes DEF JournalInv, LinesHanded, Index
    <3> QED
      BY <3>1 DEF LinesOf
  <2> QED
    BY <1>2, <1>3, <2>1, <2>2, Mapped DEF File!AppendLine, File!Precedes
<1> QED
  BY <1>4, <1>5

(* A kill cuts off lines that had not settled, and leaves the rest stable. *)
LEMMA KillRefines ==
  ASSUME JournalInv, JournalInv', Kill
  PROVE  File!Crash
<1>1. /\ onDisk <= Len(jrn') /\ Len(jrn') <= Len(jrn)
      /\ onDisk' = Len(jrn')
      /\ \A i \in 1..onDisk : jrn'[i] = jrn[i]
      /\ \A i \in 1..Len(jrn') :
           /\ jrn'[i].n = jrn[i].n
           /\ \/ jrn'[i].k = jrn[i].k
              \/ i = Len(jrn') /\ jrn[i].k = "LINE" /\ jrn'[i].k = "PART"
  BY KillEffect DEF JournalInv
<1>2. Len(jrn) \in Nat /\ Len(jrn') \in Nat
  BY DEF JournalInv, JournalTypeOK
<1>3. File!Settle
  BY <1>1, SettleRefines
<1>4. \A i, j \in 1..Len(jrn) :
        i < j /\ jrn[i].k = "LINE" /\ jrn[j].k = "LINE" => jrn[i].n < jrn[j].n
  BY DEF JournalInv, ReadInOrder, Index
<1>5. PICK m \in 0..Len(jrn) : LinesOf(jrn', Len(jrn')) = LinesOf(jrn, m)
  <2>1. CASE \A i \in 1..Len(jrn') : jrn'[i].k = jrn[i].k
    <3>1. LinesOf(jrn', Len(jrn')) = LinesOf(jrn, Len(jrn'))
      BY <1>1, <2>1 DEF LinesOf
    <3> QED  BY <1>1, <1>2, <3>1
  <2>2. CASE \E i \in 1..Len(jrn') : jrn'[i].k # jrn[i].k
    <3>1. /\ Len(jrn') # 0 /\ jrn'[Len(jrn')].k = "PART"
          /\ \A i \in 1..(Len(jrn') - 1) : jrn'[i].k = jrn[i].k
      BY <1>1, <1>2, <2>2
    <3>2. LinesOf(jrn', Len(jrn')) = LinesOf(jrn, Len(jrn') - 1)
      BY <1>1, <1>2, <3>1 DEF LinesOf
    <3>3. Len(jrn') - 1 \in 0..Len(jrn)
      BY <1>1, <1>2, <3>1
    <3> QED  BY <3>2, <3>3
  <2> QED  BY <2>1, <2>2
<1>6. /\ LinesOf(jrn, m) \subseteq LinesOf(jrn, Len(jrn))
      /\ \A x \in LinesOf(jrn, m), y \in LinesOf(jrn, Len(jrn)) \ LinesOf(jrn, m) :
           x < y
  BY <1>2, <1>4, LinesOrdered
<1> QED
  BY <1>3, <1>5, <1>6, Mapped DEF File!Crash, File!Precedes

(* The chain of numbered files is one endless file of lines: lines are     *)
(* added behind the others, what is on disk stays, and a crash cuts off    *)
(* only lines that were still in the buffer.                               *)
THEOREM JournalImplementsFile == Spec => ImplementsFile
<1>1. Init => File!Init
  BY DEF Init, File!Init, LinesUpto
<1>2. JournalInv /\ JournalInv' /\ [Next]_vars => [File!Next]_(File!vars)
  <2> SUFFICES ASSUME JournalInv, JournalInv', [Next]_vars
               PROVE  File!Next \/ UNCHANGED File!vars
    OBVIOUS
  <2>1. onDisk \in 0..Len(jrn) /\ Len(jrn) \in Nat
    BY DEF JournalInv, JournalTypeOK
  <2>2. CASE UNCHANGED jrn /\ onDisk <= onDisk'
    BY <2>2, FlushRefines DEF File!Next
  <2>3. CASE MarkEof \/ MarkSof \/ WritePart \/ WriteLine
    <3>1. PICK k \in EntryKinds, n \in Nat :
            Put(k, n) /\ (k = "LINE" => n = handed + 1)
      BY <2>3 DEF MarkEof, MarkSof, WritePart, WriteLine, EntryKinds, EofNumber,
         JournalInv, JournalTypeOK
    <3>2. Written(k, n) \in Entry /\ Appended(Written(k, n))
      BY <3>1, PutEffect DEF JournalInv
    <3>3. onDisk <= onDisk'
      BY <2>1, <2>3, <3>2 DEF MarkEof, MarkSof, WritePart, WriteLine, FlushAll,
         Appended
    <3>4. Written(k, n).k = "LINE" => Written(k, n).n = handed + 1
      BY <3>1 DEF Written
    <3> QED
      BY <3>2, <3>3, <3>4, PutRefines DEF File!Next
  <2>4. CASE Kill
    BY <2>4, KillRefines DEF File!Next
  <2>5. MarkEof \/ MarkSof \/ WritePart \/ WriteLine \/ Kill
          \/ (UNCHANGED jrn /\ onDisk <= onDisk')
    <3>1. CASE OpenCapture
      BY <2>1, <3>1 DEF OpenCapture, OpenLast, OpenLastFails, MarkEofFails,
         CloseOld, Create, CreateFails, MarkSofFails, CloseNew, Reopen,
         ReopenFails, ReturnOk, ReturnError, Ends, diskVars
    <3>2. CASE ListenBinLog
      BY <2>1, <3>2 DEF ListenBinLog, WriteFails, KeepFile, ChangeJournal, Ends,
         diskVars
    <3>3. CASE Process
      BY <2>1, <3>3 DEF Process, Start, BufferFlush, Exit, Ends, diskVars
    <3>4. CASE UNCHANGED vars
      BY <2>1, <3>4 DEF vars, diskVars
    <3> QED
      BY <3>1, <3>2, <3>3, <3>4 DEF Next
  <2> QED
    BY <2>2, <2>3, <2>4, <2>5
<1> QED
  BY <1>1, <1>2, JournalInOrder, PTL DEF Spec, ImplementsFile, File!Spec

-----------------------------------------------------------------------------
(***************************************************************************)
(* The sizes of the capture files.  The limit is computed with 32-bit      *)
(* numbers, so the result is for settings whose limit fits a Word: with a  *)
(* larger one g_ulCaptureMax wraps around and files are changed too early. *)
(***************************************************************************)

(* The entries of file f that count for its size.                          *)
Data == {"SOF", "PART", "LINE"}
Counted(s, f) == {i \in 1..Len(s) : s[i].file = f /\ s[i].k \in Data}
FileSize(f) == Cardinality(Counted(jrn, f))

(* g_ulCaptureSize is the size of the newest file, and the file is changed *)
(* in time.                                                                *)
SizeKnown ==
  /\ \A f \in exist : FileSize(f) <= Asked + 2
  /\ pc \in {"sof", "closenew", "reopen", "return", "run", "test"} =>
       g_ulCaptureSize = FileSize(g_ulCaptureNum)
  /\ pc = "sof" => g_ulCaptureSize = 0
  /\ pc \in {"closenew", "reopen", "return"} => g_ulCaptureSize <= 1
  /\ pc = "run" => g_ulCaptureSize <= Asked + 1
  /\ pc = "run" /\ jrn[Len(jrn)].k # "PART" => g_ulCaptureSize <= Asked
  /\ pc = "last" => ~fChange
  /\ fChange /\ pc = "eof" => FileSize(open) > Asked

(* The limit fits an unsigned long, with room for a line and its part.     *)
Fits == Asked + 2 < Word

LEMMA AskedPositive == Asked \in Nat \ {0}
<1> DEFINE u == IF Setting > 1 THEN Setting ELSE DefaultUnits
<1>1. u \in Nat \ {0} /\ Unit \in Nat \ {0}
  BY JournalAssumption
<1>2. Asked = Unit * u
  BY DEF Asked
<1> HIDE DEF u
<1> QED
  BY <1>1, <1>2

LEMMA LimitIsAsked ==
  ASSUME Fits
  PROVE  g_ulCaptureMax = Asked
<1>1. Asked \in Nat /\ Word \in Nat \ {0} /\ Asked < Word
  BY AskedPositive, JournalAssumption DEF Fits
<1>2. Asked % Word = Asked
  BY <1>1
<1>3. g_ulCaptureMax = Asked % Word
  BY Zenon DEF g_ulCaptureMax, Asked
<1> QED
  BY <1>2, <1>3

(* The size of a file is a number; one entry more adds at most one.        *)
LEMMA CountedFinite ==
  ASSUME NEW s, NEW f, Len(s) \in Nat
  PROVE  IsFiniteSet(Counted(s, f)) /\ Cardinality(Counted(s, f)) \in Nat
<1>1. IsFiniteSet(1..Len(s)) /\ Counted(s, f) \in SUBSET (1..Len(s))
  BY FS_Interval DEF Counted
<1> QED
  BY <1>1, FS_Subset, FS_CardinalityType

LEMMA SizeAppended ==
  ASSUME JournalTypeOK, NEW e, Appended(e), NEW f
  PROVE  FileSize(f)' =
           IF e.file = f /\ e.k \in Data THEN FileSize(f) + 1 ELSE FileSize(f)
<1>1. Len(jrn) \in Nat
  BY DEF JournalTypeOK
<1>2. /\ IsFiniteSet(Counted(jrn, f))
      /\ Len(jrn) + 1 \notin Counted(jrn, f)
  <2>1. Len(jrn) + 1 \notin 1..Len(jrn)
    BY <1>1
  <2>2. Counted(jrn, f) \subseteq 1..Len(jrn)
    BY DEF Counted
  <2> QED
    BY <1>1, <2>1, <2>2, CountedFinite
<1>3. CASE e.file = f /\ e.k \in Data
  <2>1. Counted(jrn', f) = Counted(jrn, f) \cup {Len(jrn) + 1}
    BY <1>1, <1>3 DEF Counted, Appended
  <2> QED
    BY <1>2, <1>3, <2>1, FS_AddElement DEF FileSize
<1>4. CASE ~(e.file = f /\ e.k \in Data)
  <2>1. Counted(jrn', f) = Counted(jrn, f)
    BY <1>1, <1>4 DEF Counted, Appended
  <2> QED
    BY <1>4, <2>1 DEF FileSize
<1> QED
  BY <1>3, <1>4

LEMMA NotYetCounted ==
  ASSUME JournalInv, NEW f \in Nat, f \notin exist
  PROVE  FileSize(f) = 0
<1>1. Counted(jrn, f) = {}
  BY DEF JournalInv, NewestFile, Index, Counted
<1> QED
  BY <1>1, FS_EmptySet DEF FileSize

LEMMA SizeKilled ==
  ASSUME JournalTypeOK, Kill, NEW f
  PROVE  FileSize(f)' <= FileSize(f)
<1>1. Len(jrn) \in Nat /\ IsFiniteSet(Counted(jrn, f))
  BY CountedFinite DEF JournalTypeOK
<1>2. /\ Len(jrn') <= Len(jrn) /\ Len(jrn') \in Nat
      /\ \A i \in 1..Len(jrn') :
           /\ jrn'[i].file = jrn[i].file
           /\ \/ jrn'[i].k = jrn[i].k
              \/ jrn[i].k = "LINE" /\ jrn'[i].k = "PART"
  <2>1. jrn' \in Seq(Entry)
    BY KillEffect
  <2> QED
    BY <2>1, KillEffect
<1>3. Counted(jrn', f) \in SUBSET Counted(jrn, f)
  BY <1>1, <1>2 DEF Counted, Data
<1> QED
  BY <1>1, <1>3, FS_Subset DEF FileSize

-----------------------------------------------------------------------------

(* Every step that writes no entry keeps the sizes.                        *)
LEMMA QuietSizes ==
  ASSUME Fits, JournalInv, SizeKnown,
         OpenLast \/ OpenLastFails \/ MarkEofFails \/ CloseOld
         \/ CreateFails \/ MarkSofFails \/ CloseNew \/ Reopen \/ ReopenFails
         \/ ReturnOk \/ ReturnError \/ WriteFails \/ KeepFile
         \/ ChangeJournal \/ BufferFlush \/ Exit
  PROVE  SizeKnown'
<1> USE DEF SizeKnown, diskVars, callVars, Goto
<1>1. UNCHANGED <<exist, jrn>>
  BY DEF OpenLast, OpenLastFails, MarkEofFails, CloseOld, CreateFails, MarkSofFails, CloseNew, Reopen, ReopenFails, ReturnOk, ReturnError, WriteFails, KeepFile, ChangeJournal, BufferFlush, Exit, Ends
<1>2. \A f : FileSize(f)' = FileSize(f)
  BY <1>1 DEF FileSize
<1>3. Asked' = Asked /\ Asked \in Nat \ {0} /\ g_ulCaptureMax = Asked
  BY AskedPositive, LimitIsAsked DEF Asked
<1>4. g_ulCaptureSize \in Nat /\ g_ulCaptureNum \in Nat
  BY DEF JournalInv, JournalTypeOK
<1>5. CASE OpenLast
  BY <1>1, <1>2, <1>3, <1>4, <1>5 DEF OpenLast, Ends, TooLarge
<1>6. CASE OpenLastFails
  BY <1>1, <1>2, <1>3, <1>4, <1>6 DEF OpenLastFails, Ends, TooLarge
<1>7. CASE MarkEofFails
  BY <1>1, <1>2, <1>3, <1>4, <1>7 DEF MarkEofFails, Ends, TooLarge
<1>8. CASE CloseOld
  BY <1>1, <1>2, <1>3, <1>4, <1>8 DEF CloseOld, Ends, TooLarge
<1>9. CASE CreateFails
  <2>1. /\ pc = "create" /\ pc' = "return" /\ g_ulCaptureSize' = 0
        /\ UNCHANGED g_ulCaptureNum
    BY <1>9 DEF CreateFails
  <2>2. FileSize(g_ulCaptureNum) = 0
    BY <1>4, <2>1, NotYetCounted DEF JournalInv, FilesKnown
  <2> QED
    BY <1>1, <1>2, <1>3, <2>1, <2>2
<1>10. CASE MarkSofFails
  <2>1. /\ pc = "sof" /\ pc' = "closenew"
        /\ UNCHANGED <<g_ulCaptureNum, g_ulCaptureSize>>
    BY <1>10 DEF MarkSofFails
  <2>2. g_ulCaptureSize = 0 /\ FileSize(g_ulCaptureNum) = 0
    BY <2>1
  <2> QED
    BY <1>1, <1>2, <1>3, <2>1, <2>2
<1>11. CASE CloseNew
  BY <1>1, <1>2, <1>3, <1>4, <1>11 DEF CloseNew, Ends, TooLarge
<1>12. CASE Reopen
  BY <1>1, <1>2, <1>3, <1>4, <1>12 DEF Reopen, Ends, TooLarge
<1>13. CASE ReopenFails
  BY <1>1, <1>2, <1>3, <1>4, <1>13 DEF ReopenFails, Ends, TooLarge
<1>14. CASE ReturnOk
  BY <1>1, <1>2, <1>3, <1>4, <1>14 DEF ReturnOk, Ends, TooLarge
<1>15. CASE ReturnError
  BY <1>1, <1>2, <1>3, <1>4, <1>15 DEF ReturnError, Ends, TooLarge
<1>16. CASE WriteFails
  BY <1>1, <1>2, <1>3, <1>4, <1>16 DEF WriteFails, Ends, TooLarge
<1>17. CASE KeepFile
  BY <1>1, <1>2, <1>3, <1>4, <1>17 DEF KeepFile, Ends, TooLarge
<1>18. CASE ChangeJournal
  <2>1. /\ pc = "test" /\ pc' = "eof" /\ open' = open
        /\ g_ulCaptureSize > g_ulCaptureMax
    BY <1>18 DEF ChangeJournal, TooLarge
  <2>2. open = g_ulCaptureNum
    BY <2>1 DEF JournalInv, OpenKnown
  <2> QED
    BY <1>1, <1>2, <1>3, <2>1, <2>2
<1>19. CASE BufferFlush
  BY <1>1, <1>2, <1>3, <1>4, <1>19 DEF BufferFlush, Ends, TooLarge
<1>20. CASE Exit
  BY <1>1, <1>2, <1>3, <1>4, <1>20 DEF Exit, Ends, TooLarge
<1> QED
  BY <1>5, <1>6, <1>7, <1>8, <1>9, <1>10, <1>11, <1>12, <1>13, <1>14, <1>15, <1>16, <1>17, <1>18, <1>19, <1>20

(* A process starts, or creates its file.                                  *)
LEMMA StartSizes ==
  ASSUME JournalInv, SizeKnown, NEW flush, Start(flush)
  PROVE  SizeKnown'
<1>1. UNCHANGED <<exist, jrn>> /\ pc' \in {"create", "last"} /\ fChange' = FALSE
  BY Zenon DEF Start, Goto, diskVars
<1>2. \A f : FileSize(f)' = FileSize(f)
  BY <1>1 DEF FileSize
<1>3. Asked' = Asked
  BY DEF Asked
<1> QED
  BY <1>1, <1>2, <1>3 DEF SizeKnown

LEMMA CreateSizes ==
  ASSUME JournalInv, SizeKnown, Create
  PROVE  SizeKnown'
<1>1. /\ UNCHANGED <<jrn, g_ulCaptureNum>> /\ pc = "create" /\ pc' = "sof"
      /\ g_ulCaptureSize' = 0 /\ exist' = exist \cup {g_ulCaptureNum}
      /\ g_ulCaptureNum \in Nat
  BY DEF Create, Goto, JournalInv, JournalTypeOK
<1>2. \A f : FileSize(f)' = FileSize(f)
  BY <1>1 DEF FileSize
<1>3. FileSize(g_ulCaptureNum) = 0
  BY <1>1, NotYetCounted DEF JournalInv, FilesKnown
<1>4. Asked' = Asked /\ Asked \in Nat
  BY AskedPositive DEF Asked
<1> QED
  BY <1>1, <1>2, <1>3, <1>4 DEF SizeKnown

(* An entry is written.                                                    *)
LEMMA PutSizes ==
  ASSUME Fits, JournalInv, SizeKnown,
         MarkEof \/ MarkSof \/ WritePart \/ WriteLine
  PROVE  SizeKnown'
<1> DEFINE num == g_ulCaptureNum
<1>1. /\ handed \in Nat /\ num \in Nat /\ g_ulCaptureSize \in Nat
      /\ Len(jrn) \in Nat /\ JournalTypeOK /\ Word \in Nat \ {0}
  BY JournalAssumption DEF JournalInv, JournalTypeOK
<1>2. Asked' = Asked /\ Asked \in Nat \ {0} /\ Asked + 2 < Word
  BY AskedPositive DEF Asked, Fits
<1>3. UNCHANGED <<exist, open, g_ulCaptureNum, fChange>>
  BY DEF MarkEof, MarkSof, WritePart, WriteLine, callVars
<1>4. ASSUME NEW k \in EntryKinds, NEW n \in Nat, Put(k, n)
      PROVE  /\ \A f : FileSize(f)' = IF open = f /\ k \in Data
                                      THEN FileSize(f) + 1 ELSE FileSize(f)
             /\ jrn'[Len(jrn')].k = k
  <2>1. Appended(Written(k, n))
    BY <1>1, <1>4, PutEffect
  <2>2. Written(k, n).file = open /\ Written(k, n).k = k
    BY DEF Written
  <2>3. \A f : FileSize(f)' = IF open = f /\ k \in Data
                             THEN FileSize(f) + 1 ELSE FileSize(f)
    BY <1>1, <2>1, <2>2, SizeAppended
  <2> QED
    BY <2>1, <2>2, <2>3 DEF Appended
<1>5. CASE MarkEof
  <2>1. pc' = "closeold" /\ Put("EOF", num)
    BY <1>5 DEF MarkEof, Goto, EofNumber
  <2>2. \A f : FileSize(f)' = FileSize(f)
    BY <1>1, <1>4, <2>1 DEF EntryKinds, Data
  <2> QED
    BY <1>2, <1>3, <2>1, <2>2 DEF SizeKnown
<1>6. CASE MarkSof
  <2>1. /\ pc = "sof" /\ pc' = "closenew" /\ Put("SOF", num)
        /\ g_ulCaptureSize' = (g_ulCaptureSize + 1) % Word
    BY <1>6 DEF MarkSof, Goto, Grown
  <2>2. open = num /\ g_ulCaptureSize = 0 /\ FileSize(num) = 0
    BY <2>1 DEF JournalInv, OpenKnown, SizeKnown
  <2>3. g_ulCaptureSize' = 1
    BY <1>2, <1>1, <2>1, <2>2
  <2>4. \A f : FileSize(f)' = IF f = num THEN FileSize(f) + 1 ELSE FileSize(f)
    BY <1>1, <1>4, <2>1, <2>2 DEF EntryKinds, Data
  <2> QED
    BY <1>2, <1>3, <2>1, <2>2, <2>3, <2>4 DEF SizeKnown
<1>7. CASE WritePart \/ WriteLine
  <2>1. /\ pc = "run" /\ open = num /\ g_ulCaptureSize = FileSize(num)
        /\ g_ulCaptureSize <= Asked + 1
        /\ g_ulCaptureSize' = (g_ulCaptureSize + 1) % Word
    BY <1>7 DEF WritePart, WriteLine, Grown, JournalInv, OpenKnown, SizeKnown
  <2>2. g_ulCaptureSize' = g_ulCaptureSize + 1
    BY <1>1, <1>2, <2>1
  <2>3. PICK k \in {"PART", "LINE"} : Put(k, handed + 1)
          /\ (k = "PART" => WritePart) /\ (k = "LINE" => WriteLine)
    BY <1>7 DEF WritePart, WriteLine
  <2>4. /\ \A f : FileSize(f)' = IF f = num THEN FileSize(f) + 1 ELSE FileSize(f)
        /\ jrn'[Len(jrn')].k = k
    BY <1>1, <1>4, <2>1, <2>3 DEF EntryKinds, Data
  <2>5. CASE k = "PART"
    <3>1. jrn # <<>>
      BY <2>1 DEF JournalInv, OpenKnown, NewestFile, Index
    <3>2. pc' = "run" /\ jrn[Len(jrn)].k # "PART"
      BY <2>1, <2>3, <2>5, <3>1 DEF WritePart
    <3>3. g_ulCaptureSize <= Asked
      BY <2>1, <3>2 DEF SizeKnown
    <3> QED
      BY SMTT(30), <1>1, <1>2, <1>3, <2>1, <2>2, <2>4, <2>5, <3>2, <3>3 DEF SizeKnown
  <2>6. CASE k = "LINE"
    <3>1. pc' = "test"
      BY <2>3, <2>6 DEF WriteLine, Goto
    <3>2. FileSize(num)' = g_ulCaptureSize' /\ g_ulCaptureSize' <= Asked + 2
      BY SMTT(30), <1>1, <1>2, <1>3, <2>1, <2>2, <2>4
    <3>3. \A f \in exist' : FileSize(f)' <= (Asked + 2)'
      BY <1>1, <1>2, <1>3, <2>4, <3>2 DEF SizeKnown
    <3> QED
      BY <1>1, <1>2, <1>3, <3>1, <3>2, <3>3 DEF SizeKnown
  <2> QED
    BY <2>3, <2>5, <2>6
<1> QED
  BY <1>5, <1>6, <1>7

(* A kill makes no file larger.                                            *)
LEMMA KillSizes ==
  ASSUME JournalInv, JournalInv', SizeKnown, Kill
  PROVE  SizeKnown'
<1>1. pc' = "off" /\ UNCHANGED exist /\ Asked' = Asked /\ Asked \in Nat
  BY AskedPositive DEF Kill, Goto, Asked
<1>2. \A f : FileSize(f)' <= FileSize(f)
  BY SizeKilled DEF JournalInv
<1>3. \A f : FileSize(f) \in Nat /\ FileSize(f)' \in Nat
  BY CountedFinite DEF JournalInv, JournalTypeOK, FileSize
<1> QED
  BY <1>1, <1>2, <1>3 DEF SizeKnown

-----------------------------------------------------------------------------

LEMMA SizeKnownNext ==
  Fits /\ JournalInv /\ JournalInv' /\ SizeKnown /\ [Next]_vars => SizeKnown'
<1> SUFFICES ASSUME Fits, JournalInv, JournalInv', SizeKnown, [Next]_vars
             PROVE  SizeKnown'
  OBVIOUS
<1>1. CASE OpenCapture
  BY Zenon, <1>1, QuietSizes, CreateSizes, PutSizes DEF OpenCapture
<1>2. CASE ListenBinLog
  BY Zenon, <1>2, QuietSizes, PutSizes DEF ListenBinLog
<1>3. CASE Process
  BY Zenon, <1>3, QuietSizes, StartSizes, KillSizes DEF Process
<1>4. CASE UNCHANGED vars
  <2>1. UNCHANGED <<exist, jrn, open, g_ulCaptureNum, g_ulCaptureSize, fChange, pc>>
    BY <1>4 DEF vars, diskVars, callVars
  <2>2. \A f : FileSize(f)' = FileSize(f)
    BY <2>1 DEF FileSize
  <2>3. Asked' = Asked
    BY DEF Asked
  <2> QED
    BY <2>1, <2>2, <2>3 DEF SizeKnown
<1> QED
  BY <1>1, <1>2, <1>3, <1>4 DEF Next

(* A capture file exceeds the size the setting asks for by one line and    *)
(* its part at most, and is changed only when it exceeds it - as long as   *)
(* the limit fits an unsigned long.                                        *)
THEOREM SizesBounded == Fits => (Spec => []FileSizes)
<1> SUFFICES ASSUME Fits PROVE Spec => []FileSizes
  OBVIOUS
<1>1. Init => SizeKnown
  BY DEF Init, SizeKnown
<1>2. JournalInv /\ JournalInv' /\ SizeKnown /\ [Next]_vars => SizeKnown'
  BY SizeKnownNext
<1>3. SizeKnown => FileSizes
  <2>1. \A f : FileSize(f) = SizeOf(f, {"SOF", "PART", "LINE"})
    BY DEF FileSize, Counted, Data, SizeOf, Index
  <2> QED
    BY <2>1 DEF SizeKnown, FileSizes
<1> QED
  BY <1>1, <1>2, <1>3, JournalInOrder, PTL DEF Spec

=============================================================================
