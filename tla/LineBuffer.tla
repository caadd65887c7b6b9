----------------------------- MODULE LineBuffer -----------------------------
(***************************************************************************)
(* The line buffer of listenBinLogThread: how thread B cuts the bytes it   *)
(* reads from the redirected stdout into lines.                            *)
(*                                                                         *)
(* g_pszBufferStdOut is filled by reads of at most LenBufferOut bytes.     *)
(* Each line is written to the capture file and looked at by its first     *)
(* characters.  When the buffer is nearly full the line in progress is     *)
(* moved to the front.  A line too long for that is a LOB column, of which *)
(* the first part is written and its beginning kept in g_pszLine, or it is *)
(* ignored.                                                                *)
(*                                                                         *)
(* A byte is its number in the text the library prints, from 1; the text   *)
(* is a sequence of lines with a kind and the number of its new-line.      *)
(***************************************************************************)
EXTENDS Integers, Sequences

CONSTANTS
  MaxBufferLine,  (* g_iMaxBufferLine, the size of the buffer              *)
  LenBufferOut,   (* g_iLenBufferOut, the size of one read                 *)
  Texts           (* the texts the library may print                       *)

(* "set": ### SET or ### WHERE, opens the columns of a row.  "col": a line *)
(* ###   @n=... of a column.  "other": any other line.  end: the number of *)
(* the line's last byte, the new-line.                                     *)
LineShape == [kind : {"set", "col", "other"}, end : Nat \ {0}]

ASSUME BufferAssumption ==
  /\ LenBufferOut \in Nat \ {0}
  /\ MaxBufferLine \in Nat
  /\ LenBufferOut <= MaxBufferLine
  /\ \A t \in Texts :
       /\ t \in Seq(LineShape)
       /\ \A l, m \in 1..Len(t) : l < m => t[l].end < t[m].end

VARIABLES
  text,           (* what the library prints                               *)
  got,            (* number of bytes read from the pipe                    *)
  buf,            (* g_pszBufferStdOut                                     *)
  pszBufferStart, pszBufferWork, pszStartLine, (* offsets in it            *)
  fLob, bDataColumnInProgress,
  g_pszLine,      (* the beginning of the LOB line in progress             *)
  pc,             (* "read", "scan", or "end" when thread B has left       *)
  out,            (* history: the bytes written to the capture file        *)
  seen            (* history: the first byte of each line looked at        *)

vars == <<text, got, buf, pszBufferStart, pszBufferWork, pszStartLine, fLob,
          bDataColumnInProgress, g_pszLine, pc, out, seen>>

Nul == 0

(* The last byte of line l, and its length; what comes before line 1 ends  *)
(* at 0.                                                                   *)
End(l) == IF l = 0 THEN 0 ELSE text[l].end
LineLen(l) == End(l) - End(l - 1)
IsNewLine(b) == \E l \in 1..Len(text) : b = End(l)

Offsets == 0..MaxBufferLine

(* The bytes from offset i up to, but not including, offset j.             *)
Bytes(b, i, j) == [n \in 1..(j - i) |-> b[i + n - 1]]

(* strcpy of the string s to offset i, its terminator included; what lies  *)
(* behind keeps its old value.                                             *)
Strcpy(b, i, s) ==
  [n \in Offsets |-> IF n \in i..(i + Len(s) - 1) THEN s[n - i + 1]
                     ELSE IF n = i + Len(s) THEN Nul ELSE b[n]]

(* The end of the string that begins at offset i.                          *)
EndOfString(b, i) ==
  CHOOSE e \in i..MaxBufferLine : b[e] = Nul /\ \A n \in i..(e - 1) : b[n] # Nul

NewLines(b, i) == {n \in i..(EndOfString(b, i) - 1) : IsNewLine(b[n])}

-----------------------------------------------------------------------------

(* GetBuffer: the pipe delivers n bytes, and a terminator is added.        *)
Read(n) ==
  /\ pc = "read"
  /\ got + n <= End(Len(text))
  /\ buf' = Strcpy(buf, pszBufferStart, [m \in 1..n |-> got + m])
  /\ got' = got + n
  /\ pszBufferWork' = pszBufferStart
  /\ pc' = "scan"
  /\ UNCHANGED <<text, pszBufferStart, pszStartLine, fLob,
                 bDataColumnInProgress, g_pszLine, out, seen>>

(* The kind of the line that begins with byte b, by strncmp: what is not   *)
(* the beginning of a line matches none of the tags.                       *)
Begins(b) == {l \in 1..Len(text) : b = End(l - 1) + 1}
KindOf(b) == IF Begins(b) = {} THEN "other"
             ELSE text[CHOOSE l \in Begins(b) : TRUE].kind

(* The next new-line is at offset nl.                                      *)
AtNewLine(nl) ==
  /\ pc = "scan"
  /\ nl \in NewLines(buf, pszBufferWork)
  /\ \A n \in pszBufferWork..(nl - 1) : ~IsNewLine(buf[n])

(* The bytes behind the new-line at offset nl, saved in g_pszSavedLine.    *)
(* Mutant: from the new-line on.                                           *)
SavedFromNewLine(nl) == Bytes(buf, nl, EndOfString(buf, nl))
SavedLine(nl) == Bytes(buf, nl + 1, EndOfString(buf, nl + 1))

(* A complete line is written, and looked at.  Of a LOB line the beginning *)
(* is put back into the buffer first; once a column line has been treated  *)
(* the bytes behind the new-line, saved meanwhile, take its place.  Any    *)
(* other line leaves them out.                                             *)
ScanLine(nl) ==
  LET saved == SavedLine(nl)
      line  == IF fLob THEN Strcpy(buf, 0, g_pszLine)
                       ELSE [buf EXCEPT ![nl] = Nul]
      last  == IF fLob THEN Len(g_pszLine) ELSE nl
      first == IF fLob THEN line[pszStartLine] ELSE buf[pszStartLine]
      kind  == KindOf(first)
      column == kind = "col" /\ bDataColumnInProgress
  IN
  /\ AtNewLine(nl)
  /\ out' = out \o Bytes(buf, pszStartLine, nl + 1)
  /\ seen' = Append(seen, first)
  /\ bDataColumnInProgress' = (column \/ kind = "set")
  /\ fLob' = (fLob /\ ~column)
  /\ IF fLob /\ column
     THEN /\ buf' = Strcpy(line, 0, saved)
          /\ pszBufferWork' = 0 /\ pszStartLine' = 0
     ELSE /\ buf' = line
          /\ pszBufferWork' = last + 1 /\ pszStartLine' = last + 1
  /\ UNCHANGED <<text, got, pszBufferStart, g_pszLine, pc>>

(* The chunk is used up.                                                   *)
ChunkEnd == EndOfString(buf, pszBufferWork)
ChunkDone == pc = "scan" /\ NewLines(buf, pszBufferWork) = {}

(* No whole read fits behind offset e.                                     *)
BufferFull(e) == e + LenBufferOut > MaxBufferLine

(* Moving the line to the front would not make room for a read.            *)
(* Mutant: only when it already is at the front.                           *)
LineFillsAtFront == pszStartLine = 0
LineFills == pszStartLine = 0 \/ pszStartLine < LenBufferOut

GoOnReading ==
  /\ ChunkDone
  /\ ~BufferFull(ChunkEnd)
  /\ pszBufferStart' = ChunkEnd
  /\ pszBufferWork' = ChunkEnd
  /\ pc' = "read"
  /\ UNCHANGED <<text, got, buf, pszStartLine, fLob, bDataColumnInProgress,
                 g_pszLine, out, seen>>

MoveLine ==
  LET rest == Bytes(buf, pszStartLine, ChunkEnd) IN
  /\ ChunkDone
  /\ BufferFull(ChunkEnd)
  /\ ~LineFills
  /\ buf' = Strcpy(buf, 0, rest)
  /\ pszBufferStart' = Len(rest)
  /\ pszBufferWork' = Len(rest)
  /\ pszStartLine' = 0
  /\ pc' = "read"
  /\ UNCHANGED <<text, got, fLob, bDataColumnInProgress, g_pszLine, out, seen>>

(* What is kept of a LOB line: its beginning, by which it is recognised.   *)
(* Mutants: nothing; added to what was kept before.                        *)
KeepNothing(part) == <<>>
KeepMore(part) == g_pszLine \o part
KeepLine(part) == part

StorePart ==
  LET part == Bytes(buf, pszStartLine, ChunkEnd) IN
  /\ ChunkDone
  /\ BufferFull(ChunkEnd)
  /\ LineFills
  /\ bDataColumnInProgress
  /\ fLob' = TRUE
  /\ out' = out \o part
  /\ g_pszLine' = KeepLine(part)
  /\ pszBufferStart' = 0 /\ pszBufferWork' = 0 /\ pszStartLine' = 0
  /\ pc' = "read"
  /\ UNCHANGED <<text, got, buf, bDataColumnInProgress, seen>>

IgnoreData ==
  /\ ChunkDone
  /\ BufferFull(ChunkEnd)
  /\ LineFills
  /\ ~bDataColumnInProgress
  /\ pszBufferStart' = 0 /\ pszBufferWork' = 0 /\ pszStartLine' = 0
  /\ pc' = "read"
  /\ UNCHANGED <<text, got, buf, fLob, bDataColumnInProgress, g_pszLine, out,
                 seen>>

(* Thread B looks at g_fExitApp before it reads again.                     *)
ExitApp ==
  /\ pc = "read"
  /\ pc' = "end"
  /\ UNCHANGED <<text, got, buf, pszBufferStart, pszBufferWork, pszStartLine,
                 fLob, bDataColumnInProgress, g_pszLine, out, seen>>

Init ==
  /\ text \in Texts
  /\ got = 0
  /\ buf = [n \in Offsets |-> Nul]
  /\ pszBufferStart = 0 /\ pszBufferWork = 0 /\ pszStartLine = 0
  /\ fLob = FALSE /\ bDataColumnInProgress = FALSE /\ g_pszLine = <<>>
  /\ pc = "read" /\ out = <<>> /\ seen = <<>>

Next ==
  \/ \E n \in 1..LenBufferOut : Read(n)
  \/ \E nl \in Offsets : ScanLine(nl)
  \/ GoOnReading \/ MoveLine \/ StorePart \/ IgnoreData \/ ExitApp

Spec == Init /\ [][Next]_vars

-----------------------------------------------------------------------------
(* Properties *)

(* Type invariant of the buffer and the pointers into it.                  *)
BufferTypeOK ==
  /\ got \in 0..End(Len(text))
  /\ buf \in [Offsets -> 0..End(Len(text))]
  /\ {pszBufferStart, pszBufferWork, pszStartLine} \subseteq Offsets
  /\ g_pszLine \in Seq(Nat) /\ Len(g_pszLine) \in Offsets
  /\ out \in Seq(Nat) /\ seen \in Seq(Nat)
  /\ fLob \in BOOLEAN /\ bDataColumnInProgress \in BOOLEAN
  /\ pc \in {"read", "scan", "end"}

(* A read never goes past the end of the buffer, however the text is cut   *)
(* into reads: the tests after each chunk leave room for a whole read.     *)
RoomToRead == pc = "read" => pszBufferStart + LenBufferOut <= MaxBufferLine

(* What is saved behind a LOB line fits g_pszSavedLine, which is no longer *)
(* than one read: no more than the rest of one chunk is ever behind it.    *)
SavedFits ==
  \A nl \in Offsets : AtNewLine(nl) /\ fLob => Len(SavedLine(nl)) < LenBufferOut

(* A line that is no column and may fill the buffer from an offset below a *)
(* read to where no read fits any more.                                    *)
Fill == MaxBufferLine - 2 * LenBufferOut + 2
Long == {l \in 1..Len(text) : text[l].kind # "col" /\ LineLen(l) > Fill}
InLong(b) == \E l \in Long : b \in (End(l - 1) + 1)..End(l)

Pending == Bytes(buf, pszStartLine, pszBufferStart)

(* Every byte of every line but the long ones is written to the capture    *)
(* file once and in order, or is still in the buffer as part of the line   *)
(* in progress, however the text is cut into reads: moving a line, writing *)
(* a LOB in two parts, putting its beginning back and ignoring a line      *)
(* neither lose nor repeat anything else.                                  *)
Faithful ==
  LET kept == out \o Pending IN
  pc = "read" =>
    /\ \A i, j \in 1..Len(kept) : i < j => kept[i] < kept[j]
    /\ \A i \in 1..Len(kept) : kept[i] \in 1..got
    /\ \A b \in 1..got : InLong(b) \/ \E i \in 1..Len(kept) : kept[i] = b

(* Every line written is looked at, once, in order and, unless it is a     *)
(* long one, from its first character: thread B misses no tag and sees     *)
(* none in the middle of a line.                                           *)
EachLineSeen ==
  /\ Len(seen) <= Len(text)
  /\ \A n \in 1..Len(seen) :
       seen[n] \in (End(n - 1) + 1)..End(n) /\ (n \in Long \/ seen[n] = End(n - 1) + 1)

(* "Reload start line from backup": a LOB line is looked at from its first *)
(* character, by which thread B tells a column from the end of the row.    *)
StartReloaded ==
  \A n \in 1..Len(seen) : n \in 1..Len(text) /\ n \notin Long => seen[n] = End(n - 1) + 1

-----------------------------------------------------------------------------
(* The texts for which these hold *)

(* What the library prints: a column follows the line that opens its row,  *)
(* or another column; that line, and what follows a row, are short.        *)
Rows ==
  \A l \in 1..Len(text) :
    /\ text[l].kind = "col" => l > 1 /\ text[l - 1].kind \in {"set", "col"}
    /\ text[l].kind = "set" => l \notin Long
    /\ l > 1 /\ text[l - 1].kind \in {"set", "col"} => l \notin Long

(* A column is written in two parts at most: the first one is at least     *)
(* Fill bytes long, and the rest ends before the buffer is full again.     *)
ColumnsFit ==
  \A l \in 1..Len(text) :
    text[l].kind = "col" => LineLen(l) <= Fill + MaxBufferLine - LenBufferOut + 1

Regular == Rows /\ ColumnsFit

-----------------------------------------------------------------------------
(* The inductive invariant *)

(* The first byte of the line in progress, and the last one looked at for  *)
(* a new-line, when the chunk ends at offset e.                            *)
StartByte(e) == got - (e - pszStartLine) + 1
LastScanned(e) == IF pc = "scan" THEN got - (e - pszBufferWork) ELSE got

(* From the start of the line to offset e the buffer holds the last bytes  *)
(* that were read.                                                         *)
ChunkAt(e) ==
  /\ e - pszStartLine \in 0..got
  /\ \A n \in pszStartLine..(e - 1) : buf[n] = got - e + n + 1
  /\ IF pc = "scan"
     THEN /\ buf[e] = Nul
          /\ pszBufferWork \in pszStartLine..e
          /\ e - pszBufferWork <= LenBufferOut
     ELSE /\ e = pszBufferStart
          /\ e + LenBufferOut <= MaxBufferLine

(* g_pszLine is the beginning of a column, of which the rest is in the     *)
(* buffer from its front on.                                               *)
LobAt(e) ==
  /\ pszStartLine = 0
  /\ Len(seen) < Len(text) /\ text[Len(seen) + 1].kind = "col"
  /\ Len(g_pszLine) >= Fill
  /\ \A i \in 1..Len(g_pszLine) : g_pszLine[i] = End(Len(seen)) + i
  /\ StartByte(e) = End(Len(seen)) + Len(g_pszLine) + 1

(* The line in progress is the one behind those looked at: it begins where *)
(* the last one ended, or it is a LOB line, or one that is being ignored.  *)
LineAt(e) ==
  /\ End(Len(seen)) < StartByte(e)
  /\ Len(seen) < Len(text) => LastScanned(e) < End(Len(seen) + 1)
  /\ bDataColumnInProgress <=>
       Len(seen) > 0 /\ text[Len(seen)].kind \in {"set", "col"}
  /\ IF fLob THEN LobAt(e)
     ELSE StartByte(e) = End(Len(seen)) + 1 \/ Len(seen) + 1 \in Long

(* What comes before the line's start in the buffer is in the capture file.*)
WrittenAt(e) ==
  /\ \A i, j \in 1..Len(out) : i < j => out[i] < out[j]
  /\ \A i \in 1..Len(out) : out[i] \in 1..(StartByte(e) - 1)
  /\ \A b \in 1..(StartByte(e) - 1) :
       InLong(b) \/ \E i \in 1..Len(out) : out[i] = b

(* The buffer, the pointers and the capture file agree on how far thread B *)
(* has come in the text.                                                   *)
LineInv ==
  /\ Regular /\ BufferTypeOK /\ EachLineSeen
  /\ \E e \in Offsets : ChunkAt(e) /\ LineAt(e) /\ WrittenAt(e)

=============================================================================
