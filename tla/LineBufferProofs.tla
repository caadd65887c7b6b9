-------------------------- MODULE LineBufferProofs --------------------------
(***************************************************************************)
(* The line buffer neither loses nor repeats a byte, misses no line and    *)
(* never runs over its ends, for every text of rows whose columns fit, any *)
(* sizes of the buffer and of a read, and however the text is cut into     *)
(* reads.                                                                  *)
(***************************************************************************)
EXTENDS LineBuffer, TLAPS

(* The buffer holds two reads, or one byte less: with less, an empty part  *)
(* of a line could be taken for the beginning of a LOB.                    *)
Roomy == Fill >= 1

-----------------------------------------------------------------------------
(* The text: lines are not empty and follow each other *)

LEMMA Ends ==
  ASSUME text \in Texts
  PROVE  /\ Len(text) \in Nat
         /\ \A l \in 0..Len(text) : End(l) \in Nat
         /\ \A l, m \in 0..Len(text) : l < m => End(l) < End(m)
         /\ \A l \in 1..Len(text) : text[l].kind \in {"set", "col", "other"}
<1>1. /\ text \in Seq(LineShape)
      /\ \A l, m \in 1..Len(text) : l < m => text[l].end < text[m].end
  BY BufferAssumption
<1>2. /\ Len(text) \in Nat
      /\ \A l \in 1..Len(text) : text[l] \in LineShape
  BY <1>1
<1>3. \A l \in 1..Len(text) : /\ text[l].end \in Nat \ {0}
                              /\ text[l].kind \in {"set", "col", "other"}
  BY <1>2 DEF LineShape
<1> QED
  BY <1>1, <1>2, <1>3 DEF End

LEMMA EndsOrder ==
  ASSUME text \in Texts, NEW l \in 0..Len(text), NEW m \in 0..Len(text),
         End(l) < End(m)
  PROVE  l < m
<1>1. /\ Len(text) \in Nat /\ End(l) \in Nat /\ End(m) \in Nat
      /\ m < l => End(m) < End(l)
  BY Ends
<1> QED
  BY <1>1

(* The first new-line at or behind byte a of the line behind line k ends   *)
(* that line.                                                              *)
LEMMA NextNewLine ==
  ASSUME text \in Texts, NEW k \in 0..Len(text), NEW a \in Nat, NEW b \in Nat,
         End(k) < a, a <= b, IsNewLine(b),
         \A c \in a..(b - 1) : ~IsNewLine(c),
         k < Len(text) => a <= End(k + 1)
  PROVE  k < Len(text) /\ b = End(k + 1)
<1>1. PICK m \in 1..Len(text) : b = End(m)
  BY DEF IsNewLine
<1>2. k < m
  BY <1>1, Ends
<1>3. CASE m = k + 1
  BY <1>1, <1>2, <1>3, Ends
<1>4. CASE m # k + 1
  <2>1. k + 1 \in 1..Len(text) /\ End(k + 1) \in Nat /\ End(k + 1) < b
    BY <1>1, <1>2, <1>4, Ends
  <2>2. IsNewLine(End(k + 1))
    BY <2>1 DEF IsNewLine
  <2> QED
    BY <1>2, <2>1, <2>2, Ends
<1> QED
  BY <1>3, <1>4

(* A tag is recognised at the beginning of its line only.                  *)
LEMMA KindOfByte ==
  ASSUME text \in Texts, NEW l \in 1..Len(text),
         NEW b \in (End(l - 1) + 1)..End(l)
  PROVE  KindOf(b) = IF b = End(l - 1) + 1 THEN text[l].kind ELSE "other"
<1>1. ASSUME NEW m \in Begins(b) PROVE m = l /\ b = End(l - 1) + 1
  <2>1. m \in 1..Len(text) /\ b = End(m - 1) + 1
    BY DEF Begins
  <2>2. Len(text) \in Nat
    BY Ends
  <2>3. /\ l - 1 \in 0..Len(text) /\ l \in 0..Len(text)
        /\ m - 1 \in 0..Len(text) /\ m \in Nat /\ l \in Nat
    BY <2>1, <2>2
  <2>4. PICK x, y, z \in Nat : x = End(l - 1) /\ y = End(l) /\ z = End(m - 1)
    BY <2>3, Ends, SMTT(30)
  <2>5. x <= z /\ z < y
    <3>1. b = z + 1
      BY <2>1, <2>4
    <3>2. b \in (x + 1)..y
      BY <2>4
    <3> QED
      BY <3>1, <3>2
  <2>6. m - 1 < l
    BY <2>3, <2>4, <2>5, EndsOrder
  <2>7. m - 1 < l - 1 => z < x
    BY <2>3, <2>4, Ends
  <2>8. m = l
    BY <2>3, <2>4, <2>5, <2>6, <2>7
  <2> QED
    BY <2>1, <2>8
<1>2. b = End(l - 1) + 1 => l \in Begins(b)
  BY DEF Begins
<1>3. CASE b = End(l - 1) + 1
  <2>1. Begins(b) = {l}
    BY <1>1, <1>2, <1>3
  <2> QED
    BY <1>3, <2>1 DEF KindOf
<1>4. CASE b # End(l - 1) + 1
  <2>1. Begins(b) = {}
    BY <1>1, <1>4
  <2> QED
    BY <1>4, <2>1 DEF KindOf
<1> QED
  BY <1>3, <1>4

-----------------------------------------------------------------------------
(* Strings in the buffer *)

LEMMA EndOfStringIs ==
  ASSUME NEW b, NEW i \in Nat, NEW e \in i..MaxBufferLine,
         b[e] = Nul, \A n \in i..(e - 1) : b[n] # Nul
  PROVE  EndOfString(b, i) = e
<1> DEFINE Ends_(f) == b[f] = Nul /\ \A n \in i..(f - 1) : b[n] # Nul
           f == CHOOSE f \in i..MaxBufferLine : Ends_(f)
<1>1. MaxBufferLine \in Nat
  BY BufferAssumption
<1>2. f \in i..MaxBufferLine /\ Ends_(f)
  <2>1. Ends_(e)
    OBVIOUS
  <2> HIDE DEF Ends_
  <2> QED
    BY <2>1
<1> HIDE DEF f
<1>3. ~(f < e) /\ ~(e < f)
  BY <1>1, <1>2
<1>4. f = e
  BY <1>1, <1>2, <1>3
<1> QED
  BY <1>4 DEF f, EndOfString

(* s is what b holds from offset i up to, but not including, offset j.      *)
CutOf(s, b, i, j) ==
  /\ Len(s) = j - i
  /\ \A n \in 1..(j - i) : s[n] = b[i + n - 1]

LEMMA BytesAre ==
  ASSUME NEW b, NEW i \in Nat, NEW j \in Nat, i <= j
  PROVE  CutOf(Bytes(b, i, j), b, i, j)
  BY DEF Bytes, CutOf

LEMMA BytesType ==
  ASSUME NEW b, NEW i \in Nat, NEW j \in Nat, i <= j,
         \A n \in i..(j - 1) : b[n] \in Nat
  PROVE  Bytes(b, i, j) \in Seq(Nat)
  BY DEF Bytes

(* c is b with the string s and its terminator between offsets i and e.    *)
Copied(c, b, i, e, s) ==
  /\ \A n \in 0..MaxBufferLine : n < i \/ e < n => c[n] = b[n]
  /\ \A n \in i..(e - 1) : c[n] = s[n - i + 1]
  /\ c[e] = Nul

LEMMA StrcpyEffect ==
  ASSUME NEW b, NEW i \in Nat, NEW e \in Nat, NEW s,
         i <= e, e <= MaxBufferLine, Len(s) = e - i
  PROVE  Copied(Strcpy(b, i, s), b, i, e, s)
<1>1. MaxBufferLine \in Nat
  BY BufferAssumption
<1>2. i + Len(s) = e /\ i + Len(s) - 1 = e - 1
  OBVIOUS
<1>3. ASSUME NEW n \in 0..MaxBufferLine, n < i \/ e < n
      PROVE  Strcpy(b, i, s)[n] = b[n]
  BY <1>1, <1>2, <1>3 DEF Strcpy, Offsets
<1>4. ASSUME NEW n \in i..(e - 1)
      PROVE  Strcpy(b, i, s)[n] = s[n - i + 1]
  BY <1>1, <1>2 DEF Strcpy, Offsets
<1>5. Strcpy(b, i, s)[e] = Nul
  BY <1>1, <1>2 DEF Strcpy, Offsets
<1> QED
  BY <1>3, <1>4, <1>5 DEF Copied

LEMMA StrcpyType ==
  ASSUME NEW S, Nul \in S, NEW b \in [Offsets -> S], NEW i \in Offsets,
         NEW s, Len(s) \in Nat, \A m \in 1..Len(s) : s[m] \in S,
         i + Len(s) \in Offsets
  PROVE  Strcpy(b, i, s) \in [Offsets -> S]
<1>1. MaxBufferLine \in Nat
  BY BufferAssumption
<1>2. ASSUME NEW n \in Offsets, n \in i..(i + Len(s) - 1)
      PROVE  s[n - i + 1] \in S
  BY <1>1, <1>2 DEF Offsets
<1> QED
  BY <1>1, <1>2 DEF Strcpy

-----------------------------------------------------------------------------
(* What the steps have in common *)

NumbersOK ==
  /\ MaxBufferLine \in Nat /\ LenBufferOut \in Nat \ {0} /\ Fill \in Int
  /\ LenBufferOut <= MaxBufferLine
  /\ got \in Nat /\ got <= End(Len(text)) /\ End(Len(text)) \in Nat
  /\ pszBufferStart \in Nat /\ pszBufferWork \in Nat /\ pszStartLine \in Nat
  /\ Len(text) \in Nat /\ Len(seen) \in 0..Len(text)
  /\ Len(out) \in Nat /\ Len(g_pszLine) \in Nat
  /\ End(Len(seen)) \in Nat
  /\ Len(seen) < Len(text) => /\ End(Len(seen) + 1) \in Nat
                              /\ End(Len(seen)) < End(Len(seen) + 1)
                              /\ End(Len(seen) + 1) <= End(Len(text))

LEMMA Numbers ==
  ASSUME LineInv, text \in Texts
  PROVE  NumbersOK
<1>1. /\ MaxBufferLine \in Nat /\ LenBufferOut \in Nat \ {0}
      /\ LenBufferOut <= MaxBufferLine
  BY BufferAssumption
<1>2. /\ Len(text) \in Nat /\ End(Len(text)) \in Nat
      /\ \A l \in 0..Len(text) : End(l) \in Nat
  BY Ends
<1>3. /\ got \in 0..End(Len(text)) /\ Len(seen) <= Len(text)
      /\ {pszBufferStart, pszBufferWork, pszStartLine} \subseteq Offsets
      /\ g_pszLine \in Seq(Nat) /\ out \in Seq(Nat) /\ seen \in Seq(Nat)
  BY DEF LineInv, BufferTypeOK, EachLineSeen
<1>4. Len(out) \in Nat /\ Len(g_pszLine) \in Nat /\ Len(seen) \in 0..Len(text)
  BY <1>2, <1>3
<1>5. End(Len(seen)) \in Nat
  BY <1>2, <1>4
<1>6. ASSUME Len(seen) < Len(text)
      PROVE  /\ End(Len(seen) + 1) \in Nat
             /\ End(Len(seen)) < End(Len(seen) + 1)
             /\ End(Len(seen) + 1) <= End(Len(text))
  <2>1. /\ Len(seen) + 1 \in 0..Len(text) /\ Len(text) \in 0..Len(text)
        /\ Len(seen) < Len(seen) + 1
        /\ Len(seen) + 1 = Len(text) \/ Len(seen) + 1 < Len(text)
    BY <1>2, <1>4, <1>6
  <2>2. /\ End(Len(seen) + 1) \in Nat /\ End(Len(seen)) < End(Len(seen) + 1)
        /\ Len(seen) + 1 < Len(text) => End(Len(seen) + 1) < End(Len(text))
    BY <1>4, <2>1, Ends
  <2> QED
    BY <1>2, <2>1, <2>2
<1>7. Fill \in Int
  BY <1>1 DEF Fill
<1>8. pszBufferStart \in Nat /\ pszBufferWork \in Nat /\ pszStartLine \in Nat
  BY <1>1, <1>3 DEF Offsets
<1>9. got \in Nat /\ got <= End(Len(text))
  BY <1>2, <1>3
<1> QED
  BY <1>1, <1>2, <1>4, <1>5, <1>6, <1>7, <1>8, <1>9 DEF NumbersOK

(* While a chunk is scanned its end is the first terminator.               *)
LEMMA ChunkEndIs ==
  ASSUME LineInv, text \in Texts, pc = "scan", NEW e \in Offsets, ChunkAt(e)
  PROVE  ChunkEnd = e
<1>1. /\ pszBufferWork \in Nat /\ pszStartLine \in Nat /\ got \in Nat
      /\ MaxBufferLine \in Nat
  BY Numbers DEF NumbersOK
<1>2. /\ e \in pszBufferWork..MaxBufferLine /\ buf[e] = Nul
      /\ pszStartLine <= pszBufferWork /\ e - pszStartLine <= got
      /\ \A n \in pszStartLine..(e - 1) : buf[n] = got - e + n + 1
  BY <1>1 DEF ChunkAt, Offsets
<1>3. \A n \in pszBufferWork..(e - 1) : buf[n] # Nul
  BY <1>1, <1>2 DEF Nul, Offsets
<1> QED
  BY <1>1, <1>2, <1>3, EndOfStringIs DEF ChunkEnd

(* When no new-line is left in the chunk, the line in progress ends behind *)
(* everything that was read.                                               *)
LEMMA NoNewLine ==
  ASSUME LineInv, text \in Texts, ChunkDone,
         NEW e \in Offsets, ChunkAt(e), LineAt(e)
  PROVE  /\ pc = "scan" /\ ChunkEnd = e
         /\ Len(seen) < Len(text) => got < End(Len(seen) + 1)
<1>1. NumbersOK
  BY Numbers
<1>2. pc = "scan" /\ NewLines(buf, pszBufferWork) = {}
  BY DEF ChunkDone
<1>3. EndOfString(buf, pszBufferWork) = e
  BY <1>2, ChunkEndIs DEF ChunkEnd
<1>4. ASSUME Len(seen) < Len(text), End(Len(seen) + 1) <= got PROVE FALSE
  <2>1. /\ e \in Nat /\ End(Len(seen) + 1) \in Nat
        /\ got - (e - pszBufferWork) < End(Len(seen) + 1)
        /\ pszStartLine <= pszBufferWork /\ pszBufferWork <= e
    <3>1. e \in Nat /\ End(Len(seen) + 1) \in Nat
      BY <1>1, <1>4 DEF NumbersOK, Offsets
    <3>2. got - (e - pszBufferWork) < End(Len(seen) + 1)
      BY <1>2, <1>4 DEF LineAt, LastScanned
    <3>3. pszBufferWork \in pszStartLine..e
      BY <1>2 DEF ChunkAt
    <3> QED
      BY <1>1, <3>1, <3>2, <3>3 DEF NumbersOK
  <2>2. PICK b \in Nat : b = End(Len(seen) + 1)
    BY <2>1
  <2>3. PICK n \in Int : n = b - got + e - 1
    BY <1>1, <2>1, <2>2 DEF NumbersOK
  <2>4. n \in pszBufferWork..(e - 1) /\ n \in pszStartLine..(e - 1)
    <3>1. /\ got \in Nat /\ pszBufferWork \in Nat /\ pszStartLine \in Nat
          /\ e \in Nat /\ pszStartLine <= pszBufferWork
      BY <1>1, <2>1 DEF NumbersOK
    <3>2. got - (e - pszBufferWork) < b /\ b <= got
      BY <1>4, <2>1, <2>2
    <3> QED
      BY <2>3, <3>1, <3>2
  <2>5. buf[n] = got - e + n + 1
    BY <2>4 DEF ChunkAt
  <2>6. buf[n] = b
    BY <1>1, <2>1, <2>5, <2>3 DEF NumbersOK
  <2>7. IsNewLine(buf[n])
    BY <1>1, <1>4, <2>2, <2>6 DEF IsNewLine, NumbersOK
  <2>8. n \in NewLines(buf, pszBufferWork)
    BY <1>3, <2>4, <2>7 DEF NewLines
  <2> QED
    BY <1>2, <2>8
<1> QED
  BY <1>1, <1>2, <1>3, <1>4 DEF ChunkEnd, NumbersOK

(* No step changes the text.                                               *)
LEMMA TextStays ==
  ASSUME [Next]_vars
  PROVE  text' = text
  BY DEF Next, Read, ScanLine, GoOnReading, MoveLine, StorePart, IgnoreData,
     ExitApp, vars

LEMMA RegularStays ==
  ASSUME text' = text, Regular
  PROVE  Regular'
  BY DEF Regular, Rows, ColumnsFit, Long, LineLen, End, Fill

LEMMA SeenStays ==
  ASSUME text' = text, seen' = seen, EachLineSeen
  PROVE  EachLineSeen'
  BY DEF EachLineSeen, Long, LineLen, End, Fill

(* A step that leaves the line in progress alone.                          *)
LEMMA SameLine ==
  ASSUME UNCHANGED <<text, seen, out, fLob, bDataColumnInProgress, g_pszLine>>,
         NEW e, NEW f, LineAt(e), WrittenAt(e),
         StartByte(f)' = StartByte(e), LastScanned(f)' = LastScanned(e),
         fLob => pszStartLine' = pszStartLine
  PROVE  LineAt(f)' /\ WrittenAt(f)'
<1>1. WrittenAt(f)'
  BY DEF WrittenAt, InLong, Long, LineLen, End, Fill
<1>2. LineAt(f)'
  BY DEF LineAt, LobAt, Long, LineLen, End, Fill
<1> QED
  BY <1>1, <1>2

-----------------------------------------------------------------------------
(* What is written *)

(* o holds, in order, the bytes before byte s but those of long lines.     *)
Written(o, s) ==
  /\ \A i, j \in 1..Len(o) : i < j => o[i] < o[j]
  /\ \A i \in 1..Len(o) : o[i] \in 1..(s - 1)
  /\ \A b \in 1..(s - 1) : InLong(b) \/ \E i \in 1..Len(o) : o[i] = b

LEMMA ConcatType ==
  ASSUME NEW o \in Seq(Nat), NEW p \in Seq(Nat)
  PROVE  o \o p \in Seq(Nat)
  OBVIOUS

(* Writing the bytes from byte s on.                                       *)
LEMMA WriteMore ==
  ASSUME NEW o \in Seq(Nat), NEW part \in Seq(Nat), NEW s \in Nat, s > 0,
         Written(o, s), \A m \in 1..Len(part) : part[m] = s + m - 1
  PROVE  Written(o \o part, s + Len(part))
<1>1. PICK p, k \in Nat : p = Len(o) /\ k = Len(part)
  OBVIOUS
<1>2. PICK q : /\ q = o \o part /\ Len(q) = p + k
               /\ \A i \in 1..p : q[i] = o[i]
               /\ \A i \in (p + 1)..(p + k) : q[i] = part[i - p]
  <2> DEFINE c == o \o part
  <2>1. /\ Len(c) = p + k
        /\ \A i \in 1..p : c[i] = o[i]
        /\ \A i \in (p + 1)..(p + k) : c[i] = part[i - p]
    <3>1. Len(c) = Len(o) + Len(part)
      OBVIOUS
    <3>2. \A i \in 1..Len(o) : c[i] = o[i]
      OBVIOUS
    <3>3. \A i \in (Len(o) + 1)..(Len(o) + Len(part)) : c[i] = part[i - Len(o)]
      OBVIOUS
    <3> HIDE DEF c
    <3> QED
      BY <1>1, <3>1, <3>2, <3>3
  <2> HIDE DEF c
  <2>2. \E q : /\ q = c /\ Len(q) = p + k
               /\ \A i \in 1..p : q[i] = o[i]
               /\ \A i \in (p + 1)..(p + k) : q[i] = part[i - p]
    BY <2>1
  <2> QED
    BY <2>2 DEF c
<1>3. \A i \in 1..p : q[i] \in 1..(s - 1)
  BY <1>1, <1>2 DEF Written
<1>4. ASSUME NEW i \in (p + 1)..(p + k) PROVE q[i] = s + (i - p) - 1
  <2>1. PICK m \in 1..k : m = i - p
    <3>1. i - p \in 1..k
      OBVIOUS
    <3> QED
      BY <3>1
  <2>2. q[i] = part[m] /\ part[m] = s + m - 1
    BY <1>1, <1>2, <2>1
  <2> QED
    BY <2>1, <2>2
<1>5. ASSUME NEW i \in 1..(p + k), NEW j \in 1..(p + k), i < j
      PROVE  q[i] < q[j]
  <2>1. CASE j <= p
    <3>1. i \in 1..p /\ j \in 1..p
      BY <1>1, <1>5, <2>1
    <3> QED
      BY <1>1, <1>2, <1>5, <3>1 DEF Written
  <2>2. CASE i <= p /\ j > p
    <3>1. i \in 1..p /\ j \in (p + 1)..(p + k)
      BY <1>1, <2>2
    <3>2. q[i] \in 1..(s - 1) /\ q[j] = s + (j - p) - 1
      BY <1>3, <1>4, <3>1
    <3> QED
      BY <1>1, <3>1, <3>2, SMTT(30)
  <2>3. CASE i > p
    <3>1. i \in (p + 1)..(p + k) /\ j \in (p + 1)..(p + k)
      BY <1>1, <1>5, <2>3
    <3>2. q[i] = s + (i - p) - 1 /\ q[j] = s + (j - p) - 1
      BY <1>4, <3>1
    <3> QED
      BY <1>1, <1>5, <3>1, <3>2
  <2> QED
    BY <1>1, <2>1, <2>2, <2>3
<1>6. ASSUME NEW i \in 1..(p + k) PROVE q[i] \in 1..(s + k - 1)
  <2>1. CASE i <= p
    <3>1. q[i] \in 1..(s - 1)
      BY <1>1, <1>3, <2>1
    <3> QED
      BY <1>1, <3>1
  <2>2. CASE i > p
    <3>1. q[i] = s + (i - p) - 1
      BY <1>1, <1>4, <2>2
    <3> QED
      BY <1>1, <2>2, <3>1
  <2> QED
    BY <1>1, <2>1, <2>2
<1>7. ASSUME NEW b \in 1..(s + k - 1)
      PROVE  InLong(b) \/ \E i \in 1..(p + k) : q[i] = b
  <2>1. CASE b < s
    <3>1. InLong(b) \/ \E i \in 1..p : o[i] = b
      BY <1>1, <2>1 DEF Written
    <3>2. ASSUME NEW i \in 1..p, o[i] = b PROVE i \in 1..(p + k) /\ q[i] = b
      BY <1>1, <1>2, <3>2
    <3> QED
      BY <3>1, <3>2
  <2>2. CASE b >= s
    <3>1. PICK i \in (p + 1)..(p + k) : i = p + (b - s) + 1
      <4>1. PICK d \in Int : d = b - s
        OBVIOUS
      <4>2. d >= 0 /\ d + 1 <= k
        BY <2>2, <4>1
      <4>3. p + d + 1 \in (p + 1)..(p + k)
        BY <4>2, SMTT(30)
      <4> QED
        BY <4>1, <4>3
    <3>2. q[i] = s + (i - p) - 1 /\ i \in 1..(p + k)
      <4>1. q[i] = s + (i - p) - 1
        BY <1>4
      <4>2. i \in 1..(p + k)
        OBVIOUS
      <4> QED
        BY <4>1, <4>2
    <3>3. q[i] = b
      BY <3>1, <3>2
    <3> QED
      BY <3>2, <3>3
  <2> QED
    BY <1>1, <2>1, <2>2
<1>8. Written(q, s + k)
  <2>1. Len(q) = p + k
    BY <1>2
  <2> QED
    BY <2>1, <1>5, <1>6, <1>7 DEF Written
<1> QED
  BY <1>1, <1>2, <1>8

(* Leaving out bytes of a long line.                                       *)
LEMMA WriteNothing ==
  ASSUME NEW o, NEW s \in Nat, NEW t \in Nat, s <= t,
         Written(o, s), \A b \in s..(t - 1) : InLong(b)
  PROVE  Written(o, t)
<1>1. \A i, j \in 1..Len(o) : i < j => o[i] < o[j]
  BY DEF Written
<1>2. ASSUME NEW i \in 1..Len(o) PROVE o[i] \in 1..(t - 1)
  <2>1. o[i] \in 1..(s - 1)
    BY DEF Written
  <2> QED
    BY <2>1
<1>3. ASSUME NEW b \in 1..(t - 1)
      PROVE  InLong(b) \/ \E i \in 1..Len(o) : o[i] = b
  <2>1. CASE b < s
    <3>1. b \in 1..(s - 1)
      BY <2>1
    <3> QED
      BY <3>1 DEF Written
  <2>2. CASE ~(b < s)
    <3>1. b \in s..(t - 1)
      BY <2>2
    <3> QED
      BY <3>1
  <2> QED
    BY <2>1, <2>2
<1> QED
  BY <1>1, <1>2, <1>3 DEF Written

LEMMA WrittenThen ==
  ASSUME text' = text, NEW e, NEW s, StartByte(e)' = s, Written(out', s)
  PROVE  WrittenAt(e)'
BY DEF WrittenAt, Written, InLong, Long, LineLen, End, Fill

-----------------------------------------------------------------------------
(* The steps *)

(* A read puts the next bytes and a terminator behind those in the buffer. *)
LEMMA ReadStep ==
  ASSUME LineInv, text \in Texts, NEW n \in 1..LenBufferOut, Read(n)
  PROVE  LineInv'
<1>1. NumbersOK
  BY Numbers
<1>2. /\ UNCHANGED <<text, pszBufferStart, pszStartLine, fLob,
                     bDataColumnInProgress, g_pszLine, out, seen>>
      /\ pc = "read" /\ pc' = "scan" /\ got' = got + n /\ got + n <= End(Len(text))
      /\ pszBufferWork' = pszBufferStart
      /\ buf' = Strcpy(buf, pszBufferStart, [m \in 1..n |-> got + m])
  BY DEF Read
<1>3. PICK e \in Offsets : ChunkAt(e) /\ LineAt(e) /\ WrittenAt(e)
  BY DEF LineInv
<1>4. e = pszBufferStart /\ e + LenBufferOut <= MaxBufferLine /\ e \in Nat
  BY <1>1, <1>2, <1>3 DEF ChunkAt, NumbersOK
<1>5. n \in Nat /\ n >= 1 /\ n <= LenBufferOut
  BY <1>1 DEF NumbersOK
<1>6. PICK f \in Nat : f = e + n
  BY <1>4, <1>5
<1>7. f \in Offsets
  BY <1>1, <1>4, <1>5, <1>6 DEF NumbersOK, Offsets
<1>8. PICK chunk : /\ chunk = [m \in 1..n |-> got + m]
                   /\ Len(chunk) = n /\ \A m \in 1..n : chunk[m] = got + m
  <2> DEFINE c == [m \in 1..n |-> got + m]
  <2>1. Len(c) = n /\ \A m \in 1..n : c[m] = got + m
    BY <1>5
  <2> HIDE DEF c
  <2>2. \E chunk : chunk = c /\ Len(chunk) = n /\ \A m \in 1..n : chunk[m] = got + m
    BY <2>1
  <2> QED
    BY <2>2 DEF c
<1>9. buf' = Strcpy(buf, e, chunk)
  BY <1>2, <1>4, <1>8
<1>10. /\ \A m \in 0..MaxBufferLine : m < e => buf'[m] = buf[m]
       /\ \A m \in e..(f - 1) : buf'[m] = got + (m - e + 1)
       /\ buf'[f] = Nul
  <2>1. e \in Nat /\ e <= f /\ f <= MaxBufferLine /\ Len(chunk) = f - e
    BY <1>1, <1>4, <1>5, <1>6, <1>8 DEF NumbersOK
  <2>2. Copied(buf', buf, e, f, chunk)
    BY <1>9, <2>1, StrcpyEffect
  <2>3. ASSUME NEW m \in e..(f - 1) PROVE chunk[m - e + 1] = got + (m - e + 1)
    <3>1. PICK k \in 1..n : k = m - e + 1
      BY <1>4, <1>5, <1>6
    <3> QED
      BY <1>8, <3>1
  <2> QED
    BY <1>4, <1>6, <2>2, <2>3 DEF Copied
<1>11. buf' \in [Offsets -> 0..End(Len(text))]
  <2>1. \A m \in 1..n : chunk[m] \in 0..End(Len(text))
    BY <1>1, <1>2, <1>5, <1>8 DEF NumbersOK
  <2>2. Nul \in 0..End(Len(text)) /\ buf \in [Offsets -> 0..End(Len(text))]
    BY <1>1 DEF Nul, LineInv, BufferTypeOK, NumbersOK
  <2> QED
    BY <1>5, <1>6, <1>7, <1>8, <1>9, <2>1, <2>2, StrcpyType
<1>12. BufferTypeOK'
  <2>1. End(Len(text))' = End(Len(text))
    BY <1>2 DEF End
  <2>2. got' \in 0..End(Len(text))
    BY <1>1, <1>2, <1>5 DEF NumbersOK
  <2> QED
    BY <1>2, <1>11, <2>1, <2>2 DEF LineInv, BufferTypeOK
<1>13. ChunkAt(f)'
  <2>1. f - pszStartLine \in 0..got'
    BY <1>1, <1>2, <1>3, <1>4, <1>5, <1>6 DEF ChunkAt, NumbersOK
  <2>2. ASSUME NEW m \in pszStartLine..(f - 1)
        PROVE  buf'[m] = got' - f + m + 1
    <3>1. m \in Int /\ pszStartLine <= m /\ m < f /\ m \in Offsets
      BY <1>1, <1>6, <1>7 DEF NumbersOK, Offsets
    <3>2. CASE m < e
      <4>1. buf[m] = got - e + m + 1
        BY <1>1, <1>3, <1>4, <3>1, <3>2 DEF ChunkAt, NumbersOK
      <4>2. buf'[m] = buf[m]
        BY <1>10, <3>1, <3>2 DEF Offsets
      <4> QED
        BY <1>1, <1>2, <1>4, <1>5, <1>6, <3>1, <4>1, <4>2 DEF NumbersOK
    <3>3. CASE m >= e
      <4>1. buf'[m] = got + (m - e + 1)
        BY <1>4, <1>6, <1>10, <3>1, <3>3
      <4> QED
        BY <1>1, <1>2, <1>4, <1>5, <1>6, <3>1, <4>1 DEF NumbersOK
    <3> QED
      BY <1>4, <3>1, <3>2, <3>3
  <2>3. pszBufferWork' \in pszStartLine..f /\ f - pszBufferWork' <= LenBufferOut
    BY <1>1, <1>2, <1>3, <1>4, <1>5, <1>6 DEF ChunkAt, NumbersOK
  <2> QED
    BY <1>2, <1>10, <2>1, <2>2, <2>3 DEF ChunkAt
<1>14. LineAt(f)' /\ WrittenAt(f)'
  <2>1. StartByte(f)' = StartByte(e) /\ LastScanned(f)' = LastScanned(e)
    BY <1>1, <1>2, <1>4, <1>5, <1>6 DEF StartByte, LastScanned, NumbersOK
  <2> QED
    BY <1>2, <1>3, <2>1, SameLine
<1>15. Regular' /\ EachLineSeen'
  BY <1>2, RegularStays, SeenStays DEF LineInv
<1> QED
  BY <1>7, <1>12, <1>13, <1>14, <1>15 DEF LineInv

(* The chunk is used up, and there is room behind it.                      *)
LEMMA GoOnReadingStep ==
  ASSUME LineInv, text \in Texts, GoOnReading
  PROVE  LineInv'
<1>1. NumbersOK
  BY Numbers
<1>2. PICK e \in Offsets : ChunkAt(e) /\ LineAt(e) /\ WrittenAt(e)
  BY DEF LineInv
<1>3. /\ pc = "scan" /\ ChunkEnd = e
      /\ Len(seen) < Len(text) => got < End(Len(seen) + 1)
  BY <1>2, NoNewLine DEF GoOnReading
<1>4. /\ UNCHANGED <<text, got, buf, pszStartLine, fLob, bDataColumnInProgress,
                     g_pszLine, out, seen>>
      /\ pszBufferStart' = e /\ pszBufferWork' = e /\ pc' = "read"
      /\ e + LenBufferOut <= MaxBufferLine
  <2>1. e \in Int /\ MaxBufferLine \in Int /\ LenBufferOut \in Int
    BY <1>1 DEF NumbersOK, Offsets
  <2> QED
    BY <1>3, <2>1 DEF GoOnReading, BufferFull
<1>5. BufferTypeOK'
  BY <1>4 DEF LineInv, BufferTypeOK, End
<1>6. ChunkAt(e)'
  BY <1>2, <1>4 DEF ChunkAt
<1>7. StartByte(e)' = StartByte(e)
  BY <1>4 DEF StartByte
<1>8. WrittenAt(e)'
  BY <1>2, <1>4, <1>7 DEF WrittenAt, InLong, Long, LineLen, End, Fill
<1>9. LineAt(e)'
  <2>1. LastScanned(e)' = got
    BY <1>4 DEF LastScanned
  <2> QED
    BY <1>2, <1>3, <1>4, <1>7, <2>1 DEF LineAt, LobAt, Long, LineLen, End, Fill
<1>10. Regular' /\ EachLineSeen'
  BY <1>4, RegularStays, SeenStays DEF LineInv
<1> QED
  BY <1>5, <1>6, <1>8, <1>9, <1>10 DEF LineInv

(* The line in progress is moved to the front.                             *)
LEMMA MoveLineStep ==
  ASSUME LineInv, text \in Texts, MoveLine
  PROVE  LineInv'
<1>1. NumbersOK
  BY Numbers
<1>2. PICK e \in Offsets : ChunkAt(e) /\ LineAt(e) /\ WrittenAt(e)
  BY DEF LineInv
<1>3. /\ pc = "scan" /\ ChunkEnd = e
      /\ Len(seen) < Len(text) => got < End(Len(seen) + 1)
  BY <1>2, NoNewLine DEF MoveLine
<1>4. PICK rest : rest = Bytes(buf, pszStartLine, e)
  OBVIOUS
<1>5. /\ UNCHANGED <<text, got, fLob, bDataColumnInProgress, g_pszLine, out, seen>>
      /\ ~LineFills /\ pc' = "read"
      /\ pszBufferStart' = Len(rest) /\ pszBufferWork' = Len(rest)
      /\ pszStartLine' = 0 /\ buf' = Strcpy(buf, 0, rest)
  BY <1>3, <1>4 DEF MoveLine
<1>6. /\ e \in Nat /\ e <= MaxBufferLine /\ pszStartLine >= LenBufferOut
      /\ pszStartLine # 0 /\ pszStartLine <= e /\ e - pszStartLine <= got
  BY <1>1, <1>2, <1>3, <1>5 DEF ChunkAt, LineFills, NumbersOK, Offsets
<1>7. PICK f \in Nat : f = e - pszStartLine
  BY <1>1, <1>6 DEF NumbersOK
<1>8. /\ Len(rest) = f
      /\ \A m \in 1..f : rest[m] = buf[pszStartLine + m - 1]
  <2>1. pszStartLine \in Nat
    BY <1>1 DEF NumbersOK
  <2>2. CutOf(rest, buf, pszStartLine, e)
    BY <1>4, <1>6, <2>1, BytesAre
  <2> QED
    BY <1>7, <2>2 DEF CutOf
<1>9. \A m \in 1..f : rest[m] = got - f + m
  <2> SUFFICES ASSUME NEW m \in 1..f PROVE rest[m] = got - f + m
    OBVIOUS
  <2>1. PICK n \in pszStartLine..(e - 1) : n = pszStartLine + m - 1
    BY <1>1, <1>6, <1>7 DEF NumbersOK
  <2>2. rest[m] = got - e + n + 1
    BY <1>2, <1>8, <2>1 DEF ChunkAt
  <2> QED
    BY <1>1, <1>6, <1>7, <2>1, <2>2 DEF NumbersOK
<1>10. f \in Offsets /\ f + LenBufferOut <= MaxBufferLine /\ f <= got
  BY <1>1, <1>6, <1>7 DEF NumbersOK, Offsets
<1>11. Copied(buf', buf, 0, f, rest)
  <2>1. 0 <= f /\ f <= MaxBufferLine /\ Len(rest) = f - 0
    BY <1>1, <1>8, <1>10 DEF NumbersOK
  <2> QED
    BY <1>5, <2>1, StrcpyEffect
<1>12. buf' \in [Offsets -> 0..End(Len(text))]
  <2>1. \A m \in 1..Len(rest) : rest[m] \in 0..End(Len(text))
    <3> SUFFICES ASSUME NEW m \in 1..f PROVE rest[m] \in 0..End(Len(text))
      BY <1>8
    <3>1. rest[m] = got - f + m
      BY <1>9
    <3> QED
      BY <1>1, <1>7, <1>10, <3>1 DEF NumbersOK
  <2>2. Nul \in 0..End(Len(text)) /\ buf \in [Offsets -> 0..End(Len(text))]
    BY <1>1 DEF Nul, LineInv, BufferTypeOK, NumbersOK
  <2>3. 0 \in Offsets /\ Len(rest) \in Nat /\ 0 + Len(rest) \in Offsets
    BY <1>1, <1>8, <1>10 DEF NumbersOK, Offsets
  <2> QED
    BY <1>5, <2>1, <2>2, <2>3, StrcpyType
<1>13. BufferTypeOK'
  <2>1. 0 \in Offsets /\ End(Len(text))' = End(Len(text))
    BY <1>1, <1>5 DEF Offsets, End, NumbersOK
  <2> QED
    BY <1>5, <1>8, <1>10, <1>12, <2>1 DEF LineInv, BufferTypeOK
<1>14. ChunkAt(f)'
  <2>1. \A m \in 0..(f - 1) : buf'[m] = got - f + m + 1
    <3> SUFFICES ASSUME NEW m \in 0..(f - 1) PROVE buf'[m] = got - f + m + 1
      OBVIOUS
    <3>1. buf'[m] = rest[m - 0 + 1]
      BY <1>11 DEF Copied
    <3>2. PICK n \in 1..f : n = m + 1
      BY <1>7
    <3>3. rest[n] = got - f + n /\ m - 0 + 1 = n
      BY <1>9, <3>2
    <3> QED
      BY <1>1, <1>7, <3>1, <3>2, <3>3 DEF NumbersOK
  <2>2. f - 0 \in 0..got
    BY <1>1, <1>10 DEF NumbersOK
  <2> QED
    BY <1>5, <1>8, <1>10, <2>1, <2>2 DEF ChunkAt
<1>15. StartByte(f)' = StartByte(e)
  BY <1>1, <1>5, <1>6, <1>7 DEF StartByte, NumbersOK
<1>16. WrittenAt(f)'
  BY <1>2, <1>5, <1>15 DEF WrittenAt, InLong, Long, LineLen, End, Fill
<1>17. LineAt(f)'
  <2>1. LastScanned(f)' = got /\ ~fLob
    BY <1>2, <1>5, <1>6 DEF LastScanned, LineAt, LobAt
  <2> QED
    BY <1>2, <1>3, <1>5, <1>15, <2>1 DEF LineAt, Long, LineLen, End, Fill
<1>18. Regular' /\ EachLineSeen'
  BY <1>5, RegularStays, SeenStays DEF LineInv
<1> QED
  BY <1>10, <1>13, <1>14, <1>16, <1>17, <1>18 DEF LineInv

LEMMA LineLenIs ==
  ASSUME NEW k \in Nat
  PROVE  LineLen(k + 1) = End(k + 1) - End(k)
<1>1. k + 1 - 1 = k
  OBVIOUS
<1> QED
  BY <1>1 DEF LineLen

(* When the line in progress fills the buffer, at least Fill bytes of it   *)
(* have been read.                                                         *)
LEMMA FilledByLine ==
  ASSUME LineInv, text \in Texts, Roomy,
         ChunkDone, BufferFull(ChunkEnd), LineFills,
         NEW e \in Offsets, ChunkAt(e), LineAt(e)
  PROVE  /\ pc = "scan" /\ ChunkEnd = e /\ e \in Nat
         /\ pszStartLine <= e /\ e - pszStartLine <= got
         /\ e - pszStartLine >= Fill /\ e + LenBufferOut > MaxBufferLine
         /\ Len(seen) < Len(text) /\ got < End(Len(seen) + 1)
         /\ StartByte(e) \in Nat /\ StartByte(e) <= got
         /\ LineLen(Len(seen) + 1) = End(Len(seen) + 1) - End(Len(seen))
<1>1. NumbersOK
  BY Numbers
<1>2. /\ pc = "scan" /\ ChunkEnd = e
      /\ Len(seen) < Len(text) => got < End(Len(seen) + 1)
  BY NoNewLine
<1>3. /\ e \in Nat /\ pszStartLine <= e /\ e - pszStartLine <= got
      /\ End(Len(seen)) < StartByte(e)
  BY <1>1, <1>2 DEF ChunkAt, LineAt, NumbersOK, Offsets
<1>4. e + LenBufferOut > MaxBufferLine
  BY <1>1, <1>2, <1>3 DEF BufferFull, NumbersOK
<1>5. e - pszStartLine >= Fill
  BY <1>1, <1>3, <1>4 DEF LineFills, Fill, NumbersOK
<1>6. e - pszStartLine >= 1
  BY <1>1, <1>3, <1>5 DEF Roomy, NumbersOK
<1>7. StartByte(e) \in Nat /\ StartByte(e) <= got
  BY <1>1, <1>3, <1>6 DEF StartByte, NumbersOK
<1>8. Len(seen) < Len(text)
  <2>1. CASE Len(seen) = Len(text)
    <3>1. End(Len(text)) < StartByte(e)
      BY <1>3, <2>1
    <3> QED
      BY <1>1, <1>7, <3>1 DEF NumbersOK
  <2> QED
    BY <1>1, <2>1 DEF NumbersOK
<1>9. LineLen(Len(seen) + 1) = End(Len(seen) + 1) - End(Len(seen))
  BY <1>1, LineLenIs DEF NumbersOK
<1> QED
  BY <1>2, <1>3, <1>4, <1>5, <1>7, <1>8, <1>9

(* The line in progress is a column, of which the first part is written;   *)
(* what is left of it comes to the front of the buffer.                    *)
LEMMA StorePartStep ==
  ASSUME LineInv, text \in Texts, Roomy, StorePart
  PROVE  LineInv'
<1>1. NumbersOK
  BY Numbers
<1>2. PICK e \in Offsets : ChunkAt(e) /\ LineAt(e) /\ WrittenAt(e)
  BY DEF LineInv
<1>3. /\ pc = "scan" /\ ChunkEnd = e /\ e \in Nat
      /\ pszStartLine <= e /\ e - pszStartLine <= got
      /\ e - pszStartLine >= Fill /\ e + LenBufferOut > MaxBufferLine
      /\ Len(seen) < Len(text) /\ got < End(Len(seen) + 1)
      /\ StartByte(e) \in Nat /\ StartByte(e) <= got
      /\ LineLen(Len(seen) + 1) = End(Len(seen) + 1) - End(Len(seen))
  BY <1>2, FilledByLine DEF StorePart
<1>4. PICK part : part = Bytes(buf, pszStartLine, e)
  OBVIOUS
<1>5. /\ UNCHANGED <<text, got, buf, bDataColumnInProgress, seen>>
      /\ bDataColumnInProgress /\ fLob' = TRUE /\ out' = out \o part
      /\ g_pszLine' = part /\ pszBufferStart' = 0 /\ pszBufferWork' = 0
      /\ pszStartLine' = 0 /\ pc' = "read"
  BY <1>3, <1>4 DEF StorePart, KeepLine
<1>6. PICK k \in 1..Len(text) : k = Len(seen) + 1
  <2>1. Len(seen) + 1 \in 1..Len(text)
    BY <1>1, <1>3 DEF NumbersOK
  <2> QED
    BY <2>1
<1>7. /\ Rows /\ ColumnsFit
      /\ k \notin Long
  <2>1. Rows /\ ColumnsFit
    BY DEF LineInv, Regular
  <2>2. k > 1 /\ text[k - 1].kind \in {"set", "col"}
    <3>1. k - 1 = Len(seen)
      BY <1>1, <1>6 DEF NumbersOK
    <3>2. Len(seen) > 0 /\ text[Len(seen)].kind \in {"set", "col"}
      BY <1>2, <1>5 DEF LineAt
    <3> QED
      BY <1>1, <1>6, <3>1, <3>2 DEF NumbersOK
  <2> QED
    BY <2>1, <2>2 DEF Rows
<1>8. ~fLob
  <2> SUFFICES ASSUME fLob PROVE FALSE
    OBVIOUS
  <2>1. /\ pszStartLine = 0 /\ text[k].kind = "col" /\ Len(g_pszLine) >= Fill
        /\ StartByte(e) = End(Len(seen)) + Len(g_pszLine) + 1
    BY <1>2, <1>6 DEF LineAt, LobAt
  <2>2. LineLen(k) <= Fill + MaxBufferLine - LenBufferOut + 1
    BY <1>7, <2>1 DEF ColumnsFit
  <2>3. PICK x, y, g \in Nat : /\ x = End(Len(seen)) /\ y = End(Len(seen) + 1)
                              /\ g = Len(g_pszLine)
    BY <1>1, <1>3 DEF NumbersOK
  <2>4. got - e + 1 = x + g + 1
    BY <1>1, <1>3, <2>1, <2>3 DEF StartByte, NumbersOK
  <2>5. y - x <= Fill + MaxBufferLine - LenBufferOut + 1
    BY <1>3, <1>6, <2>2, <2>3
  <2>6. y > got /\ g >= Fill
    BY <1>3, <2>1, <2>3
  <2> QED
    BY <1>1, <1>3, <2>4, <2>5, <2>6 DEF NumbersOK
<1>9. StartByte(e) = End(Len(seen)) + 1
  BY <1>2, <1>6, <1>7, <1>8 DEF LineAt
<1>10. text[k].kind = "col"
  <2>1. LineLen(k) > Fill
    <3>1. got - (e - pszStartLine) = End(Len(seen))
      <4>1. PICK x \in Nat : x = End(Len(seen))
        BY <1>1 DEF NumbersOK
      <4>2. got - (e - pszStartLine) + 1 = x + 1
        BY <1>9, <4>1 DEF StartByte
      <4>3. got \in Nat /\ e \in Nat /\ pszStartLine \in Nat
        BY <1>1, <1>3 DEF NumbersOK
      <4> QED
        BY <4>1, <4>2, <4>3
    <3>2. LineLen(k) = End(Len(seen) + 1) - End(Len(seen))
      BY <1>3, <1>6
    <3>3. got \in Nat /\ e \in Nat /\ pszStartLine \in Nat /\ Fill \in Int
      BY <1>1, <1>3 DEF NumbersOK
    <3>4. PICK y \in Nat : y = End(Len(seen) + 1) /\ got < y
      BY <1>1, <1>3 DEF NumbersOK
    <3>5. LineLen(k) = y - (got - (e - pszStartLine))
      BY <3>1, <3>2, <3>4
    <3>6. e - pszStartLine >= Fill
      BY <1>3
    <3> QED
      BY <3>3, <3>4, <3>5, <3>6
  <2> QED
    BY <1>7, <2>1 DEF Long
<1>11. /\ Len(part) = e - pszStartLine /\ Len(part) \in Nat
       /\ \A m \in 1..Len(part) : part[m] = StartByte(e) + m - 1
  <2>1. pszStartLine \in Nat
    BY <1>1 DEF NumbersOK
  <2>2. CutOf(part, buf, pszStartLine, e)
    BY <1>3, <1>4, <2>1, BytesAre
  <2>3. Len(part) = e - pszStartLine /\ Len(part) \in Nat
    BY <1>3, <2>1, <2>2 DEF CutOf
  <2>4. ASSUME NEW m \in 1..Len(part) PROVE part[m] = StartByte(e) + m - 1
    <3>1. PICK n \in pszStartLine..(e - 1) : n = pszStartLine + m - 1
      <4>1. pszStartLine + m - 1 \in pszStartLine..(e - 1)
        BY <1>3, <2>1, <2>3
      <4> QED
        BY <4>1
    <3>2. part[m] = buf[n]
      BY <2>2, <2>3, <3>1 DEF CutOf
    <3>3. part[m] = got - e + n + 1
      BY <1>2, <3>2 DEF ChunkAt
    <3> QED
      BY <1>1, <1>3, <2>1, <2>3, <3>1, <3>3 DEF StartByte, NumbersOK
  <2> QED
    BY <2>3, <2>4
<1>12. part \in Seq(Nat)
  <2>1. \A n \in pszStartLine..(e - 1) : buf[n] \in Nat
    <3> SUFFICES ASSUME NEW n \in pszStartLine..(e - 1) PROVE buf[n] \in Nat
      OBVIOUS
    <3>1. buf[n] = got - e + n + 1
      BY <1>2 DEF ChunkAt
    <3> QED
      BY <1>1, <1>3, <3>1 DEF NumbersOK
  <2>2. pszStartLine \in Nat
    BY <1>1 DEF NumbersOK
  <2> QED
    BY <1>3, <1>4, <2>1, <2>2, BytesType
<1>13. out \in Seq(Nat) /\ out' \in Seq(Nat)
  BY <1>5, <1>12 DEF LineInv, BufferTypeOK
<1>14. Len(part) \in Offsets /\ 0 \in Offsets
  BY <1>1, <1>3, <1>11 DEF Offsets, NumbersOK
<1>15. BufferTypeOK'
  BY <1>5, <1>12, <1>13, <1>14 DEF LineInv, BufferTypeOK, End
<1>16. ChunkAt(0)'
  BY <1>1, <1>5 DEF ChunkAt, NumbersOK
<1>17. StartByte(0)' = got + 1 /\ LastScanned(0)' = got
  BY <1>1, <1>5 DEF StartByte, LastScanned, NumbersOK
<1>18. WrittenAt(0)'
  <2>1. StartByte(e) + Len(part) = got + 1
    BY <1>1, <1>3, <1>11 DEF StartByte, NumbersOK
  <2>2. Written(out, StartByte(e)) /\ StartByte(e) > 0
    BY <1>1, <1>2, <1>3, <1>9 DEF WrittenAt, Written, NumbersOK
  <2>3. Written(out', StartByte(e) + Len(part))
    BY <1>3, <1>5, <1>11, <1>12, <1>13, <2>2, WriteMore
  <2> QED
    BY <1>5, <1>17, <2>1, <2>3, WrittenThen
<1>19. LineAt(0)'
  <2>1. LobAt(0)'
    <3>1. got + 1 = End(Len(seen)) + Len(part) + 1
      <4>1. PICK x, p \in Nat : x = End(Len(seen)) /\ p = Len(part)
        BY <1>1, <1>11 DEF NumbersOK
      <4>2. got - (e - pszStartLine) + 1 = x + 1 /\ p = e - pszStartLine
        BY <1>9, <1>11, <4>1 DEF StartByte
      <4>3. got + 1 = x + p + 1
        BY <1>1, <1>3, <4>2 DEF NumbersOK
      <4> QED
        BY <4>1, <4>3
    <3>2. \A i \in 1..Len(part) : part[i] = End(Len(seen)) + i
      BY <1>1, <1>9, <1>11 DEF NumbersOK
    <3>3. Len(part) >= Fill
      BY <1>3, <1>11
    <3> QED
      BY <1>3, <1>5, <1>6, <1>10, <1>17, <3>1, <3>2, <3>3 DEF LobAt, End, Fill
  <2>2. End(Len(seen)) < got + 1
    BY <1>1, <1>3, <1>9 DEF NumbersOK
  <2> QED
    BY <1>2, <1>3, <1>5, <1>17, <2>1, <2>2 DEF LineAt, End
<1>20. Regular' /\ EachLineSeen'
  BY <1>5, RegularStays, SeenStays DEF LineInv
<1> QED
  BY <1>14, <1>15, <1>16, <1>18, <1>19, <1>20 DEF LineInv

(* The line in progress is no column, and what was read of it is left out. *)
LEMMA IgnoreDataStep ==
  ASSUME LineInv, text \in Texts, Roomy, IgnoreData
  PROVE  LineInv'
<1>1. NumbersOK
  BY Numbers
<1>2. PICK e \in Offsets : ChunkAt(e) /\ LineAt(e) /\ WrittenAt(e)
  BY DEF LineInv
<1>3. /\ pc = "scan" /\ ChunkEnd = e /\ e \in Nat
      /\ pszStartLine <= e /\ e - pszStartLine <= got
      /\ e - pszStartLine >= Fill /\ e + LenBufferOut > MaxBufferLine
      /\ Len(seen) < Len(text) /\ got < End(Len(seen) + 1)
      /\ StartByte(e) \in Nat /\ StartByte(e) <= got
      /\ LineLen(Len(seen) + 1) = End(Len(seen) + 1) - End(Len(seen))
  BY <1>2, FilledByLine DEF IgnoreData
<1>4. /\ UNCHANGED <<text, got, buf, fLob, bDataColumnInProgress, g_pszLine, out,
                     seen>>
      /\ ~bDataColumnInProgress /\ pszBufferStart' = 0 /\ pszBufferWork' = 0
      /\ pszStartLine' = 0 /\ pc' = "read"
  BY DEF IgnoreData
<1>5. PICK k \in 1..Len(text) : k = Len(seen) + 1 /\ k - 1 = Len(seen)
  <2>1. Len(seen) + 1 \in 1..Len(text) /\ Len(seen) + 1 - 1 = Len(seen)
    BY <1>1, <1>3 DEF NumbersOK
  <2> QED
    BY <2>1
<1>6. text[k].kind # "col"
  <2>1. Rows
    BY DEF LineInv, Regular
  <2>2. ~(Len(seen) > 0 /\ text[Len(seen)].kind \in {"set", "col"})
    BY <1>2, <1>4 DEF LineAt
  <2>3. k > 1 => Len(seen) > 0
    BY <1>1, <1>5 DEF NumbersOK
  <2> QED
    BY <1>5, <2>1, <2>2, <2>3 DEF Rows
<1>7. ~fLob
  BY <1>2, <1>5, <1>6 DEF LineAt, LobAt
<1>8. k \in Long
  <2>1. CASE StartByte(e) = End(Len(seen)) + 1
    <3>1. got - (e - pszStartLine) = End(Len(seen))
      <4>1. PICK x \in Nat : x = End(Len(seen))
        BY <1>1 DEF NumbersOK
      <4>2. got - (e - pszStartLine) + 1 = x + 1
        BY <2>1, <4>1 DEF StartByte
      <4>3. got \in Nat /\ e \in Nat /\ pszStartLine \in Nat
        BY <1>1, <1>3 DEF NumbersOK
      <4> QED
        BY <4>1, <4>2, <4>3
    <3>2. LineLen(k) = End(Len(seen) + 1) - End(Len(seen))
      BY <1>3, <1>5
    <3>3. LineLen(k) > Fill
      <4>1. got \in Nat /\ e \in Nat /\ pszStartLine \in Nat /\ Fill \in Int
        BY <1>1, <1>3 DEF NumbersOK
      <4>2. PICK y \in Nat : y = End(Len(seen) + 1) /\ got < y
        BY <1>1, <1>3 DEF NumbersOK
      <4>3. LineLen(k) = y - (got - (e - pszStartLine))
        BY <3>1, <3>2, <4>2
      <4>4. e - pszStartLine >= Fill
        BY <1>3
      <4> QED
        BY <4>1, <4>2, <4>3, <4>4
    <3> QED
      BY <1>6, <3>3 DEF Long
  <2> QED
    BY <1>2, <1>5, <1>7, <2>1 DEF LineAt
<1>9. 0 \in Offsets
  BY <1>1 DEF Offsets, NumbersOK
<1>10. BufferTypeOK'
  BY <1>4, <1>9 DEF LineInv, BufferTypeOK, End
<1>11. ChunkAt(0)'
  BY <1>1, <1>4 DEF ChunkAt, NumbersOK
<1>12. StartByte(0)' = got + 1 /\ LastScanned(0)' = got
  BY <1>1, <1>4 DEF StartByte, LastScanned, NumbersOK
<1>13. End(Len(seen)) < got + 1
  <2>1. End(Len(seen)) < StartByte(e)
    BY <1>2 DEF LineAt
  <2> QED
    BY <1>1, <1>3, <2>1 DEF NumbersOK
<1>14. LineAt(0)'
  BY <1>2, <1>3, <1>4, <1>5, <1>7, <1>8, <1>12, <1>13
     DEF LineAt, Long, LineLen, End, Fill
<1>15. WrittenAt(0)'
  <2>1. Written(out, StartByte(e))
    BY <1>2 DEF WrittenAt, Written
  <2>2. PICK s, t \in Nat : s = StartByte(e) /\ t = got + 1 /\ s <= t
    BY <1>1, <1>3 DEF NumbersOK
  <2>3. ASSUME NEW b \in s..(t - 1) PROVE InLong(b)
    <3>1. End(Len(seen)) < s
      BY <1>2, <2>2 DEF LineAt
    <3>2. PICK x, y \in Nat : x = End(k - 1) /\ y = End(k)
      BY <1>1, <1>3, <1>5 DEF NumbersOK
    <3>3. x < s /\ t = got + 1 /\ got < y /\ got \in Nat
      BY <1>1, <1>3, <1>5, <2>2, <3>1, <3>2 DEF NumbersOK
    <3>4. b \in (x + 1)..y
      BY <3>3
    <3> QED
      BY <1>8, <3>2, <3>4 DEF InLong
  <2>4. Written(out, t)
    BY <2>1, <2>2, <2>3, WriteNothing
  <2> QED
    BY <1>4, <1>12, <2>2, <2>4, WrittenThen
<1>16. Regular' /\ EachLineSeen'
  BY <1>4, RegularStays, SeenStays DEF LineInv
<1> QED
  BY <1>9, <1>10, <1>11, <1>14, <1>15, <1>16 DEF LineInv

(* Thread B leaves.                                                        *)
LEMMA ExitAppStep ==
  ASSUME LineInv, text \in Texts, ExitApp \/ UNCHANGED vars
  PROVE  LineInv'
<1>1. PICK e \in Offsets : ChunkAt(e) /\ LineAt(e) /\ WrittenAt(e)
  BY DEF LineInv
<1>2. /\ UNCHANGED <<text, got, buf, pszBufferStart, pszBufferWork, pszStartLine,
                     fLob, bDataColumnInProgress, g_pszLine, out, seen>>
      /\ \/ pc' = pc
         \/ pc = "read" /\ pc' = "end"
  <2>1. CASE ExitApp
    BY <2>1 DEF ExitApp
  <2>2. CASE UNCHANGED vars
    BY <2>2 DEF vars
  <2> QED
    BY <2>1, <2>2
<1>3. BufferTypeOK'
  BY <1>2 DEF LineInv, BufferTypeOK, End
<1>4. ChunkAt(e)'
  BY <1>1, <1>2 DEF ChunkAt
<1>5. StartByte(e)' = StartByte(e) /\ LastScanned(e)' = LastScanned(e)
  BY <1>2 DEF StartByte, LastScanned
<1>6. LineAt(e)' /\ WrittenAt(e)'
  BY <1>1, <1>2, <1>5, SameLine
<1>7. Regular' /\ EachLineSeen'
  BY <1>2, RegularStays, SeenStays DEF LineInv
<1> QED
  BY <1>3, <1>4, <1>6, <1>7 DEF LineInv

(* The next new-line ends the line in progress.                            *)
LEMMA LineEnds ==
  ASSUME LineInv, text \in Texts, NEW nl \in Offsets, AtNewLine(nl),
         NEW e \in Offsets, ChunkAt(e), LineAt(e)
  PROVE  /\ pc = "scan" /\ e \in Nat /\ nl \in Nat /\ e <= MaxBufferLine
         /\ pszStartLine <= pszBufferWork /\ pszBufferWork <= nl /\ nl < e
         /\ e - pszStartLine <= got /\ e - pszBufferWork <= LenBufferOut
         /\ Len(seen) < Len(text)
         /\ got - e + nl + 1 = End(Len(seen) + 1)
         /\ EndOfString(buf, nl + 1) = e
<1>1. NumbersOK
  BY Numbers
<1>2. /\ pc = "scan" /\ nl \in NewLines(buf, pszBufferWork)
      /\ \A n \in pszBufferWork..(nl - 1) : ~IsNewLine(buf[n])
  BY DEF AtNewLine
<1>3. EndOfString(buf, pszBufferWork) = e
  BY <1>2, ChunkEndIs DEF ChunkEnd
<1>4. /\ e \in Nat /\ nl \in Nat /\ e <= MaxBufferLine
      /\ pszStartLine <= pszBufferWork /\ pszBufferWork <= nl /\ nl < e
      /\ e - pszStartLine <= got /\ e - pszBufferWork <= LenBufferOut
      /\ buf[e] = Nul
  BY <1>1, <1>2, <1>3 DEF ChunkAt, NewLines, NumbersOK, Offsets
<1>5. \A n \in pszStartLine..(e - 1) : buf[n] = got - e + n + 1
  BY DEF ChunkAt
<1>6. PICK a, b \in Nat : a = got - e + pszBufferWork + 1 /\ b = got - e + nl + 1
  BY <1>1, <1>4 DEF NumbersOK
<1>7. a <= b
  BY <1>1, <1>4, <1>6 DEF NumbersOK
<1>8. IsNewLine(b)
  <2>1. nl \in pszStartLine..(e - 1) /\ IsNewLine(buf[nl])
    BY <1>1, <1>2, <1>4 DEF NewLines, NumbersOK
  <2> QED
    BY <1>5, <1>6, <2>1
<1>9. ASSUME NEW c \in a..(b - 1) PROVE ~IsNewLine(c)
  <2>1. PICK n \in pszBufferWork..(nl - 1) : n = c - (got - e + 1)
    <3>1. c - (got - e + 1) \in pszBufferWork..(nl - 1)
      BY <1>1, <1>4, <1>6 DEF NumbersOK
    <3> QED
      BY <3>1
  <2>2. n \in pszStartLine..(e - 1)
    BY <1>1, <1>4 DEF NumbersOK
  <2>3. buf[n] = c
    BY <1>1, <1>4, <1>5, <2>1, <2>2 DEF NumbersOK
  <2> QED
    BY <1>2, <2>3
<1>10. End(Len(seen)) < a
  <2>1. End(Len(seen)) < got - (e - pszStartLine) + 1
    BY DEF LineAt, StartByte
  <2> QED
    BY <1>1, <1>4, <1>6, <2>1 DEF NumbersOK
<1>11. Len(seen) < Len(text) => a <= End(Len(seen) + 1)
  <2> SUFFICES ASSUME Len(seen) < Len(text) PROVE a <= End(Len(seen) + 1)
    OBVIOUS
  <2>1. got - (e - pszBufferWork) < End(Len(seen) + 1)
    BY <1>2 DEF LineAt, LastScanned
  <2> QED
    BY <1>1, <1>4, <1>6, <2>1 DEF NumbersOK
<1>12. Len(seen) < Len(text) /\ b = End(Len(seen) + 1)
  <2>1. Len(seen) \in 0..Len(text)
    BY <1>1 DEF NumbersOK
  <2> QED
    BY <1>7, <1>8, <1>9, <1>10, <1>11, <2>1, NextNewLine
<1>13. EndOfString(buf, nl + 1) = e
  <2>1. nl + 1 \in Nat /\ e \in (nl + 1)..MaxBufferLine
    BY <1>1, <1>4 DEF NumbersOK
  <2>2. ASSUME NEW n \in (nl + 1)..(e - 1) PROVE buf[n] # Nul
    <3>1. n \in pszStartLine..(e - 1)
      BY <1>1, <1>4 DEF NumbersOK
    <3>2. buf[n] = got - e + n + 1
      BY <1>5, <3>1
    <3> QED
      BY <1>1, <1>4, <3>2 DEF Nul, NumbersOK
  <2> QED
    BY <1>4, <2>1, <2>2, EndOfStringIs
<1> QED
  BY <1>2, <1>4, <1>6, <1>12, <1>13

(* The rest of the line is written.                                        *)
LEMMA ScanWritten ==
  ASSUME LineInv, text \in Texts, NEW nl \in Offsets, AtNewLine(nl),
         NEW e \in Offsets, ChunkAt(e), LineAt(e), WrittenAt(e),
         out' = out \o Bytes(buf, pszStartLine, nl + 1)
  PROVE  out' \in Seq(Nat) /\ Written(out', End(Len(seen) + 1) + 1)
<1>1. NumbersOK
  BY Numbers
<1>2. /\ e \in Nat /\ nl \in Nat /\ e <= MaxBufferLine
      /\ pszStartLine <= pszBufferWork /\ pszBufferWork <= nl /\ nl < e
      /\ e - pszStartLine <= got
      /\ got - e + nl + 1 = End(Len(seen) + 1)
      /\ pszStartLine \in Nat
  BY <1>1, LineEnds DEF NumbersOK
<1>3. PICK part : part = Bytes(buf, pszStartLine, nl + 1)
  OBVIOUS
<1>4. PICK s, j \in Nat : /\ s = got - e + pszStartLine + 1 /\ j = nl + 1
                         /\ pszStartLine <= j
  BY <1>1, <1>2 DEF NumbersOK
<1>5. \A n \in pszStartLine..(e - 1) : buf[n] = got - e + n + 1
  BY DEF ChunkAt
<1>6. part \in Seq(Nat)
  <2>1. \A n \in pszStartLine..(j - 1) : buf[n] \in Nat
    <3> SUFFICES ASSUME NEW n \in pszStartLine..(j - 1) PROVE buf[n] \in Nat
      OBVIOUS
    <3>1. n \in pszStartLine..(e - 1)
      BY <1>2, <1>4
    <3>2. buf[n] = got - e + n + 1
      BY <1>5, <3>1
    <3> QED
      BY <1>1, <1>2, <3>2 DEF NumbersOK
  <2> QED
    BY <1>2, <1>3, <1>4, <2>1, BytesType
<1>7. CutOf(part, buf, pszStartLine, j)
  BY <1>2, <1>3, <1>4, BytesAre
<1>8. Len(part) = j - pszStartLine
  BY <1>7 DEF CutOf
<1>9. ASSUME NEW m \in 1..Len(part) PROVE part[m] = s + m - 1
  <2>1. PICK n \in pszStartLine..(e - 1) : n = pszStartLine + m - 1
    <3>1. pszStartLine + m - 1 \in pszStartLine..(e - 1)
      BY <1>2, <1>4, <1>8
    <3> QED
      BY <3>1
  <2>2. part[m] = buf[n]
    BY <1>7, <1>8, <2>1 DEF CutOf
  <2>3. buf[n] = got - e + n + 1
    BY <1>5
  <2> QED
    BY <1>1, <1>2, <1>4, <1>8, <2>1, <2>2, <2>3 DEF NumbersOK
<1>10. out \in Seq(Nat) /\ out' = out \o part
  BY <1>3 DEF LineInv, BufferTypeOK
<1>11. s > 0 /\ Written(out, s)
  <2>1. s = StartByte(e)
    BY <1>1, <1>2, <1>4 DEF StartByte, NumbersOK
  <2>2. s > 0
    BY <1>1, <1>2, <1>4 DEF NumbersOK
  <2> QED
    BY <2>1, <2>2 DEF WrittenAt, Written
<1>12. PICK t : t = s + Len(part) /\ Written(out', t)
  BY <1>6, <1>9, <1>10, <1>11, WriteMore
<1>13. t = End(Len(seen) + 1) + 1
  <2>1. PICK x, p \in Int : x = got - e + nl + 1 /\ p = j - pszStartLine
    BY <1>1, <1>2 DEF NumbersOK
  <2>2. s + p = x + 1
    BY <1>1, <1>2, <1>4, <2>1 DEF NumbersOK
  <2> QED
    BY <1>2, <1>8, <1>12, <2>1, <2>2
<1>14. out' \in Seq(Nat)
  BY <1>6, <1>10, ConcatType
<1> QED
  BY <1>12, <1>13, <1>14

(* One more line is looked at.                                             *)
LEMMA SeenMore ==
  ASSUME text \in Texts, text' = text, EachLineSeen, seen \in Seq(Nat),
         Len(seen) < Len(text), NEW first \in Nat, seen' = Append(seen, first),
         End(Len(seen)) < first, first <= End(Len(seen) + 1),
         first = End(Len(seen)) + 1 \/ Len(seen) + 1 \in Long
  PROVE  /\ EachLineSeen' /\ seen' \in Seq(Nat) /\ Len(seen') = Len(seen) + 1
         /\ Len(seen') \in 1..Len(text)
<1>1. PICK k \in Nat : k = Len(seen)
  OBVIOUS
<1>2. /\ Len(text) \in Nat /\ End(k) \in Nat /\ End(k + 1) \in Nat
      /\ k + 1 - 1 = k /\ k + 1 <= Len(text)
  <2>1. Len(text) \in Nat /\ k < Len(text)
    BY <1>1, Ends
  <2>2. k \in 0..Len(text) /\ k + 1 \in 0..Len(text)
    BY <2>1
  <2> QED
    BY <2>1, <2>2, Ends
<1>3. /\ Len(seen') = k + 1 /\ seen'[k + 1] = first /\ seen' \in Seq(Nat)
      /\ \A n \in 1..k : seen'[n] = seen[n]
  BY <1>1
<1>4. ASSUME NEW n \in 1..(k + 1)
      PROVE  /\ seen'[n] \in (End(n - 1) + 1)..End(n)
             /\ n \in Long \/ seen'[n] = End(n - 1) + 1
  <2>1. CASE n = k + 1
    <3>1. first \in (End(k) + 1)..End(k + 1)
      BY <1>1, <1>2
    <3>2. n - 1 = k
      BY <2>1
    <3> QED
      BY <1>1, <1>3, <2>1, <3>1, <3>2
  <2>2. CASE n # k + 1
    <3>1. n \in 1..Len(seen) /\ n \in 1..k
      BY <1>1, <2>2
    <3> QED
      BY <1>3, <3>1 DEF EachLineSeen
  <2> QED
    BY <2>1, <2>2
<1>5. EachLineSeen'
  BY <1>2, <1>3, <1>4 DEF EachLineSeen, Long, LineLen, End, Fill
<1> QED
  BY <1>1, <1>2, <1>3, <1>5

(* Behind a complete line the next one is in progress.                     *)
LEMMA NextLine ==
  ASSUME text \in Texts, text' = text, pc' = "scan", got' = got, got \in Nat,
         NEW k \in Nat, k = Len(seen), k < Len(text), Len(seen') = k + 1,
         NEW f \in Nat, pszStartLine' \in Nat, pszBufferWork' = pszStartLine',
         f - pszStartLine' = got - End(k + 1),
         ~fLob', bDataColumnInProgress' <=> text[k + 1].kind \in {"set", "col"}
  PROVE  LineAt(f)' /\ StartByte(f)' = End(k + 1) + 1
<1>1. /\ Len(text) \in Nat /\ k + 1 \in 0..Len(text) /\ End(k + 1) \in Nat
      /\ k + 1 < Len(text) => End(k + 1) < End(k + 1 + 1)
  <2>1. Len(text) \in Nat
    BY Ends
  <2>2. k + 1 \in 0..Len(text)
    BY <2>1
  <2>3. ASSUME k + 1 < Len(text) PROVE End(k + 1) < End(k + 1 + 1)
    <3>1. k + 1 + 1 \in 0..Len(text) /\ k + 1 < k + 1 + 1
      BY <2>1, <2>3
    <3> QED
      BY <2>2, <3>1, Ends
  <2> QED
    BY <2>1, <2>2, <2>3, Ends
<1>2. PICK b \in Nat : b = End(k + 1)
  BY <1>1
<1>3. StartByte(f)' = b + 1 /\ LastScanned(f)' = b
  BY <1>2 DEF StartByte, LastScanned
<1>4. b < b + 1
  OBVIOUS
<1>5. Len(seen') > 0
  OBVIOUS
<1>6. LineAt(f)'
  BY <1>1, <1>2, <1>3, <1>4, <1>5 DEF LineAt, End
<1> QED
  BY <1>2, <1>3, <1>6

(* A line that is in the buffer from its first byte on, or one of which    *)
(* the beginning was left out.                                             *)
LEMMA ScanPlainStep ==
  ASSUME LineInv, text \in Texts, NEW nl \in Offsets, ScanLine(nl), ~fLob
  PROVE  LineInv'
<1>1. NumbersOK
  BY Numbers
<1>2. PICK e \in Offsets : ChunkAt(e) /\ LineAt(e) /\ WrittenAt(e)
  BY DEF LineInv
<1>3. AtNewLine(nl)
  BY DEF ScanLine
<1>4. /\ pc = "scan" /\ e \in Nat /\ nl \in Nat /\ e <= MaxBufferLine
      /\ pszStartLine <= pszBufferWork /\ pszBufferWork <= nl /\ nl < e
      /\ e - pszStartLine <= got /\ e - pszBufferWork <= LenBufferOut
      /\ Len(seen) < Len(text)
      /\ got - e + nl + 1 = End(Len(seen) + 1)
  BY <1>2, <1>3, LineEnds
<1>5. PICK first : first = buf[pszStartLine]
  OBVIOUS
<1>6. /\ UNCHANGED <<text, got, pszBufferStart, g_pszLine, pc>>
      /\ out' = out \o Bytes(buf, pszStartLine, nl + 1)
      /\ seen' = Append(seen, first)
      /\ buf' = [buf EXCEPT ![nl] = Nul] /\ fLob' = FALSE
      /\ pszBufferWork' = nl + 1 /\ pszStartLine' = nl + 1
      /\ bDataColumnInProgress' =
           ((KindOf(first) = "col" /\ bDataColumnInProgress) \/ KindOf(first) = "set")
  BY <1>5 DEF ScanLine
<1>7. PICK k \in Nat : k = Len(seen)
  BY <1>1 DEF NumbersOK
<1>8. PICK l \in 1..Len(text) : l = k + 1 /\ l - 1 = k
  <2>1. k + 1 \in 1..Len(text) /\ k + 1 - 1 = k
    BY <1>1, <1>4, <1>7 DEF NumbersOK
  <2> QED
    BY <2>1
<1>9. PICK x, y \in Nat : x = End(k) /\ y = End(l) /\ got - e + nl + 1 = y
  BY <1>1, <1>4, <1>7, <1>8 DEF NumbersOK
<1>10. first = got - e + pszStartLine + 1 /\ first \in Nat /\ first = StartByte(e)
  <2>1. pszStartLine \in pszStartLine..(e - 1)
    BY <1>1, <1>4 DEF NumbersOK
  <2>2. first = got - e + pszStartLine + 1
    BY <1>2, <1>5, <2>1 DEF ChunkAt
  <2> QED
    BY <1>1, <1>4, <2>2 DEF StartByte, NumbersOK
<1>11. x < first /\ first <= y
  <2>1. x < first
    BY <1>2, <1>7, <1>9, <1>10 DEF LineAt
  <2>2. /\ got \in Nat /\ e \in Nat /\ nl \in Nat /\ pszStartLine \in Nat
        /\ pszStartLine <= nl
    BY <1>1, <1>4 DEF NumbersOK
  <2>3. first = got - e + pszStartLine + 1 /\ got - e + nl + 1 = y
    BY <1>9, <1>10
  <2> QED
    BY <2>1, <2>2, <2>3
<1>12. first = x + 1 \/ l \in Long
  BY <1>2, <1>7, <1>8, <1>9, <1>10 DEF LineAt
<1>13. KindOf(first) = IF first = x + 1 THEN text[l].kind ELSE "other"
  <2>1. first \in (End(l - 1) + 1)..End(l)
    BY <1>8, <1>9, <1>10, <1>11
  <2>2. KindOf(first) = IF first = End(l - 1) + 1 THEN text[l].kind ELSE "other"
    BY <2>1, KindOfByte
  <2> QED
    BY <1>8, <1>9, <2>2
<1>14. bDataColumnInProgress' <=> text[l].kind \in {"set", "col"}
  <2>1. Rows
    BY DEF LineInv, Regular
  <2>2. CASE first = x + 1
    <3>1. KindOf(first) = text[l].kind
      BY <1>13, <2>2
    <3>2. text[l].kind = "col" => bDataColumnInProgress
      <4> SUFFICES ASSUME text[l].kind = "col" PROVE bDataColumnInProgress
        OBVIOUS
      <4>1. l > 1 /\ text[l - 1].kind \in {"set", "col"}
        BY <2>1 DEF Rows
      <4>2. k > 0 /\ text[k].kind \in {"set", "col"}
        BY <1>8, <4>1
      <4> QED
        BY <1>2, <1>7, <4>2 DEF LineAt
    <3> QED
      BY <1>6, <3>1, <3>2
  <2>3. CASE first # x + 1
    <3>1. KindOf(first) = "other" /\ l \in Long
      BY <1>12, <1>13, <2>3
    <3>2. text[l].kind # "col" /\ text[l].kind # "set"
      BY <2>1, <3>1 DEF Rows, Long
    <3> QED
      BY <1>6, <3>1, <3>2
  <2> QED
    BY <2>2, <2>3
<1>15. EachLineSeen' /\ seen' \in Seq(Nat) /\ Len(seen') = k + 1
  <2>1. EachLineSeen /\ seen \in Seq(Nat)
    BY DEF LineInv, BufferTypeOK
  <2>2. End(Len(seen)) < first /\ first <= End(Len(seen) + 1)
    BY <1>7, <1>8, <1>9, <1>11
  <2>3. first = End(Len(seen)) + 1 \/ Len(seen) + 1 \in Long
    BY <1>7, <1>8, <1>9, <1>12
  <2>4. EachLineSeen' /\ seen' \in Seq(Nat) /\ Len(seen') = Len(seen) + 1
    BY <1>4, <1>6, <1>10, <2>1, <2>2, <2>3, SeenMore
  <2> QED
    BY <1>7, <2>4
<1>16. nl + 1 \in Offsets /\ nl + 1 \in Nat
  BY <1>1, <1>4 DEF Offsets, NumbersOK
<1>17. out' \in Seq(Nat) /\ Written(out', End(Len(seen) + 1) + 1)
  BY <1>2, <1>3, <1>6, ScanWritten
<1>18. BufferTypeOK'
  <2>1. buf' \in [Offsets -> 0..End(Len(text))]
    BY <1>1, <1>6 DEF Nul, LineInv, BufferTypeOK, NumbersOK
  <2>2. bDataColumnInProgress' \in BOOLEAN
    BY <1>6
  <2>3. End(Len(text))' = End(Len(text))
    BY <1>6 DEF End
  <2> QED
    BY <1>6, <1>15, <1>16, <1>17, <2>1, <2>2, <2>3 DEF LineInv, BufferTypeOK
<1>19. ChunkAt(e)'
  <2>1. e - (nl + 1) \in 0..got
    BY <1>1, <1>4 DEF NumbersOK
  <2>2. ASSUME NEW n \in (nl + 1)..(e - 1) PROVE buf'[n] = got - e + n + 1
    <3>1. n # nl /\ n \in pszStartLine..(e - 1)
      BY <1>1, <1>4 DEF NumbersOK
    <3>2. n \in Offsets
      BY <1>1, <1>4 DEF Offsets, NumbersOK
    <3>3. buf'[n] = buf[n]
      BY <1>6, <3>1, <3>2 DEF LineInv, BufferTypeOK
    <3> QED
      BY <1>2, <3>1, <3>3 DEF ChunkAt
  <2>3. buf'[e] = Nul
    <3>1. e # nl /\ buf[e] = Nul
      BY <1>1, <1>2, <1>4 DEF ChunkAt, NumbersOK
    <3> QED
      BY <1>6, <3>1 DEF LineInv, BufferTypeOK
  <2>4. nl + 1 \in (nl + 1)..e /\ e - (nl + 1) <= LenBufferOut
    BY <1>1, <1>4 DEF NumbersOK
  <2> QED
    BY <1>4, <1>6, <2>1, <2>2, <2>3, <2>4 DEF ChunkAt
<1>20. LineAt(e)' /\ StartByte(e)' = End(k + 1) + 1
  <2>1. e - (nl + 1) = got - End(k + 1)
    BY <1>1, <1>4, <1>8, <1>9 DEF NumbersOK
  <2>2. got \in Nat /\ k < Len(text)
    BY <1>1, <1>4, <1>7 DEF NumbersOK
  <2> QED
    BY <1>4, <1>6, <1>7, <1>8, <1>14, <1>15, <1>16, <2>1, <2>2, NextLine
<1>21. WrittenAt(e)'
  BY <1>6, <1>7, <1>17, <1>20, WrittenThen
<1>22. Regular'
  BY <1>6, RegularStays DEF LineInv
<1> QED
  BY <1>15, <1>18, <1>19, <1>20, <1>21, <1>22 DEF LineInv

(* The end of a LOB column: its beginning is put back to be looked at, and *)
(* what is behind the new-line comes to the front of the buffer.           *)
LEMMA ScanLobStep ==
  ASSUME LineInv, text \in Texts, Roomy, NEW nl \in Offsets, ScanLine(nl), fLob
  PROVE  LineInv'
<1>1. NumbersOK
  BY Numbers
<1>2. PICK e \in Offsets : ChunkAt(e) /\ LineAt(e) /\ WrittenAt(e)
  BY DEF LineInv
<1>3. AtNewLine(nl)
  BY DEF ScanLine
<1>4. /\ pc = "scan" /\ e \in Nat /\ nl \in Nat /\ e <= MaxBufferLine
      /\ pszStartLine <= pszBufferWork /\ pszBufferWork <= nl /\ nl < e
      /\ e - pszStartLine <= got /\ e - pszBufferWork <= LenBufferOut
      /\ Len(seen) < Len(text)
      /\ got - e + nl + 1 = End(Len(seen) + 1)
      /\ EndOfString(buf, nl + 1) = e
  BY <1>2, <1>3, LineEnds
<1>5. PICK k \in Nat : k = Len(seen)
  BY <1>1 DEF NumbersOK
<1>6. PICK l \in 1..Len(text) : l = k + 1 /\ l - 1 = k
  <2>1. k + 1 \in 1..Len(text) /\ k + 1 - 1 = k
    BY <1>1, <1>4, <1>5 DEF NumbersOK
  <2> QED
    BY <2>1
<1>7. PICK x, y, g \in Nat : /\ x = End(k) /\ y = End(l) /\ g = Len(g_pszLine)
                           /\ got - e + nl + 1 = y
  BY <1>1, <1>4, <1>5, <1>6 DEF NumbersOK
<1>8. /\ pszStartLine = 0 /\ text[l].kind = "col" /\ g >= Fill
      /\ \A i \in 1..g : g_pszLine[i] = x + i
      /\ StartByte(e) = x + g + 1
  BY <1>2, <1>5, <1>6, <1>7 DEF LineAt, LobAt
<1>9. g >= 1 /\ x + g <= got /\ x + g < y
  <2>1. pszStartLine = 0 /\ StartByte(e) = x + g + 1 /\ g >= Fill
    BY <1>8
  <2>2. got - (e - 0) + 1 = x + g + 1
    BY <2>1 DEF StartByte
  <2>3. g >= 1
    BY <1>1, <2>1 DEF Roomy, NumbersOK
  <2>4. got \in Nat /\ e \in Nat /\ nl \in Nat /\ got - e + nl + 1 = y
    BY <1>1, <1>4, <1>7 DEF NumbersOK
  <2> QED
    BY <2>2, <2>3, <2>4
<1>10. bDataColumnInProgress
  <2>1. l > 1 /\ text[l - 1].kind \in {"set", "col"}
    BY <1>8 DEF LineInv, Regular, Rows
  <2>2. k > 0 /\ text[k].kind \in {"set", "col"}
    BY <1>6, <2>1
  <2> QED
    BY <1>2, <1>5, <2>2 DEF LineAt
<1>11. PICK line : line = Strcpy(buf, 0, g_pszLine)
  OBVIOUS
<1>12. g <= MaxBufferLine /\ Copied(line, buf, 0, g, g_pszLine)
  <2>1. g <= MaxBufferLine
    BY <1>1, <1>7 DEF LineInv, BufferTypeOK, Offsets, NumbersOK
  <2>2. 0 <= g /\ Len(g_pszLine) = g - 0
    BY <1>7
  <2> QED
    BY <1>11, <2>1, <2>2, StrcpyEffect
<1>13. line[0] = x + 1
  <2>1. 0 \in 0..(g - 1)
    BY <1>9
  <2>2. line[0] = g_pszLine[0 - 0 + 1]
    BY <1>12, <2>1 DEF Copied
  <2>3. 0 - 0 + 1 = 1 /\ 1 \in 1..g
    BY <1>9
  <2> QED
    BY <1>8, <2>2, <2>3
<1>14. KindOf(x + 1) = "col"
  <2>1. x + 1 \in (End(l - 1) + 1)..End(l)
    BY <1>6, <1>7, <1>9
  <2>2. KindOf(x + 1) = IF x + 1 = End(l - 1) + 1 THEN text[l].kind ELSE "other"
    BY <2>1, KindOfByte
  <2> QED
    BY <1>6, <1>7, <1>8, <2>2
<1>15. PICK saved : saved = Bytes(buf, nl + 1, e)
  OBVIOUS
<1>16. /\ UNCHANGED <<text, got, pszBufferStart, g_pszLine, pc>>
       /\ out' = out \o Bytes(buf, pszStartLine, nl + 1)
       /\ seen' = Append(seen, x + 1)
       /\ buf' = Strcpy(line, 0, saved) /\ fLob' = FALSE
       /\ pszBufferWork' = 0 /\ pszStartLine' = 0
       /\ bDataColumnInProgress' = TRUE
  <2>1. SavedLine(nl) = saved
    BY <1>4, <1>15 DEF SavedLine
  <2>2. line[pszStartLine] = x + 1
    BY <1>8, <1>13
  <2> QED
    BY <1>10, <1>11, <1>14, <2>1, <2>2 DEF ScanLine
<1>17. PICK f \in Nat : f = e - (nl + 1)
  BY <1>4
<1>18. /\ f \in Offsets /\ f <= MaxBufferLine /\ f <= got /\ f <= LenBufferOut
       /\ 0 \in Offsets
  BY <1>1, <1>4, <1>17 DEF Offsets, NumbersOK
<1>19. Len(saved) = f /\ \A m \in 1..f : saved[m] = got - f + m
  <2>1. nl + 1 \in Nat /\ nl + 1 <= e
    BY <1>4
  <2>2. CutOf(saved, buf, nl + 1, e)
    BY <1>4, <1>15, <2>1, BytesAre
  <2>3. ASSUME NEW m \in 1..f PROVE saved[m] = got - f + m
    <3>1. PICK n \in pszStartLine..(e - 1) : n = nl + 1 + m - 1
      <4>1. nl + 1 + m - 1 \in 0..(e - 1)
        BY <1>4, <1>17
      <4>2. pszStartLine = 0
        BY <1>8
      <4> QED
        BY <4>1, <4>2
    <3>2. saved[m] = buf[n]
      BY <1>17, <2>2, <3>1 DEF CutOf
    <3>3. buf[n] = got - e + n + 1
      BY <1>2 DEF ChunkAt
    <3> QED
      BY <1>1, <1>4, <1>17, <3>1, <3>2, <3>3 DEF NumbersOK
  <2> QED
    BY <1>17, <2>2, <2>3 DEF CutOf
<1>20. Copied(buf', line, 0, f, saved)
  <2>1. 0 <= f /\ Len(saved) = f - 0
    BY <1>19
  <2> QED
    BY <1>16, <1>18, <2>1, StrcpyEffect
<1>21. buf' \in [Offsets -> 0..End(Len(text))]
  <2>1. Nul \in 0..End(Len(text)) /\ buf \in [Offsets -> 0..End(Len(text))]
    BY <1>1 DEF Nul, LineInv, BufferTypeOK, NumbersOK
  <2>2. ASSUME NEW m \in 1..g PROVE g_pszLine[m] \in 0..End(Len(text))
    <3>1. g_pszLine[m] = x + m
      BY <1>8
    <3> QED
      BY <1>1, <1>9, <3>1 DEF NumbersOK
  <2>3. line \in [Offsets -> 0..End(Len(text))]
    <3>1. g \in Offsets /\ 0 + g = g
      BY <1>1, <1>12 DEF Offsets, NumbersOK
    <3> QED
      BY <1>7, <1>11, <1>18, <2>1, <2>2, <3>1, StrcpyType
  <2>4. ASSUME NEW m \in 1..f PROVE saved[m] \in 0..End(Len(text))
    <3>1. saved[m] = got - f + m
      BY <1>19
    <3> QED
      BY <1>1, <1>18, <3>1 DEF NumbersOK
  <2>5. 0 + f = f
    OBVIOUS
  <2> QED
    BY <1>16, <1>18, <1>19, <2>1, <2>3, <2>4, <2>5, StrcpyType
<1>22. EachLineSeen' /\ seen' \in Seq(Nat) /\ Len(seen') = k + 1
  <2>1. EachLineSeen /\ seen \in Seq(Nat)
    BY DEF LineInv, BufferTypeOK
  <2>2. PICK first \in Nat : first = x + 1
    OBVIOUS
  <2>3. End(Len(seen)) < first /\ first <= End(Len(seen) + 1)
    BY <1>5, <1>6, <1>7, <1>9, <2>2
  <2>4. first = End(Len(seen)) + 1 /\ seen' = Append(seen, first)
    BY <1>5, <1>7, <1>16, <2>2
  <2>5. EachLineSeen' /\ seen' \in Seq(Nat) /\ Len(seen') = Len(seen) + 1
    BY <1>4, <1>16, <2>1, <2>3, <2>4, SeenMore
  <2> QED
    BY <1>5, <2>5
<1>23. out' \in Seq(Nat) /\ Written(out', End(Len(seen) + 1) + 1)
  BY <1>2, <1>3, <1>16, ScanWritten
<1>24. BufferTypeOK'
  <2>1. End(Len(text))' = End(Len(text))
    BY <1>16 DEF End
  <2> QED
    BY <1>16, <1>18, <1>21, <1>22, <1>23, <2>1 DEF LineInv, BufferTypeOK
<1>25. ChunkAt(f)'
  <2>1. f - 0 \in 0..got /\ 0 \in 0..f
    BY <1>1, <1>18 DEF NumbersOK
  <2>2. ASSUME NEW n \in 0..(f - 1) PROVE buf'[n] = got - f + n + 1
    <3>1. buf'[n] = saved[n - 0 + 1]
      BY <1>20 DEF Copied
    <3>2. PICK m \in 1..f : m = n + 1
      <4>1. n + 1 \in 1..f
        OBVIOUS
      <4> QED
        BY <4>1
    <3>3. saved[m] = got - f + m /\ n - 0 + 1 = m
      BY <1>19, <3>2
    <3> QED
      BY <1>1, <3>1, <3>2, <3>3 DEF NumbersOK
  <2>3. buf'[f] = Nul
    BY <1>20 DEF Copied
  <2>4. f - 0 <= LenBufferOut
    BY <1>18
  <2> QED
    BY <1>4, <1>16, <2>1, <2>2, <2>3, <2>4 DEF ChunkAt
<1>26. LineAt(f)' /\ StartByte(f)' = End(k + 1) + 1
  <2>1. f - 0 = got - End(k + 1)
    BY <1>1, <1>4, <1>6, <1>7, <1>17 DEF NumbersOK
  <2>2. got \in Nat /\ k < Len(text) /\ 0 \in Nat
    BY <1>1, <1>4, <1>5 DEF NumbersOK
  <2>3. bDataColumnInProgress' <=> text[k + 1].kind \in {"set", "col"}
    BY <1>6, <1>8, <1>16
  <2> QED
    BY <1>4, <1>5, <1>16, <1>22, <2>1, <2>2, <2>3, NextLine
<1>27. WrittenAt(f)'
  BY <1>5, <1>16, <1>23, <1>26, WrittenThen
<1>28. Regular'
  BY <1>16, RegularStays DEF LineInv
<1> QED
  BY <1>18, <1>22, <1>24, <1>25, <1>26, <1>27, <1>28 DEF LineInv

-----------------------------------------------------------------------------
(* The invariant *)

(* Before the first read the buffer is empty.                              *)
LEMMA InitLine ==
  ASSUME Init, Regular
  PROVE  LineInv
<1>1. /\ MaxBufferLine \in Nat /\ LenBufferOut \in Nat \ {0}
      /\ LenBufferOut <= MaxBufferLine
  BY BufferAssumption
<1>2. /\ text \in Texts /\ got = 0 /\ buf = [n \in Offsets |-> Nul]
      /\ pszBufferStart = 0 /\ pszBufferWork = 0 /\ pszStartLine = 0
      /\ fLob = FALSE /\ bDataColumnInProgress = FALSE /\ g_pszLine = <<>>
      /\ pc = "read" /\ out = <<>> /\ seen = <<>>
  BY DEF Init
<1>3. Len(text) \in Nat /\ End(Len(text)) \in Nat /\ 0 \in Offsets
  BY <1>1, <1>2, Ends DEF Offsets
<1>4. Len(seen) = 0 /\ Len(out) = 0 /\ Len(g_pszLine) = 0
  BY <1>2
<1>5. BufferTypeOK
  <2>1. buf \in [Offsets -> 0..End(Len(text))]
    BY <1>2, <1>3 DEF Nul
  <2>2. g_pszLine \in Seq(Nat) /\ out \in Seq(Nat) /\ seen \in Seq(Nat)
    BY <1>2
  <2>3. got \in 0..End(Len(text))
    BY <1>2, <1>3
  <2> QED
    BY <1>2, <1>3, <1>4, <2>1, <2>2, <2>3 DEF BufferTypeOK
<1>6. EachLineSeen
  BY <1>3, <1>4 DEF EachLineSeen
<1>7. ChunkAt(0)
  BY <1>1, <1>2 DEF ChunkAt
<1>8. StartByte(0) = 1 /\ LastScanned(0) = 0 /\ End(0) = 0
  BY <1>2 DEF StartByte, LastScanned, End
<1>9. LineAt(0)
  <2>1. Len(seen) < Len(text) => 0 < End(Len(seen) + 1)
    <3> SUFFICES ASSUME 0 < Len(text) PROVE 0 < End(0 + 1)
      BY <1>4
    <3>1. 0 \in 0..Len(text) /\ 0 + 1 \in 0..Len(text) /\ 0 < 0 + 1
      BY <1>3
    <3> QED
      BY <1>2, <1>8, <3>1, Ends
  <2> QED
    BY <1>2, <1>4, <1>8, <2>1 DEF LineAt
<1>10. WrittenAt(0)
  BY <1>4, <1>8 DEF WrittenAt
<1> QED
  BY <1>3, <1>5, <1>6, <1>7, <1>9, <1>10 DEF LineInv

LEMMA StepLine ==
  ASSUME Roomy, LineInv, text \in Texts, [Next]_vars
  PROVE  LineInv'
<1>1. ASSUME NEW n \in 1..LenBufferOut, Read(n) PROVE LineInv'
  BY <1>1, ReadStep
<1>2. ASSUME NEW nl \in Offsets, ScanLine(nl) PROVE LineInv'
  BY <1>2, ScanPlainStep, ScanLobStep
<1>3. CASE GoOnReading
  BY <1>3, GoOnReadingStep
<1>4. CASE MoveLine
  BY <1>4, MoveLineStep
<1>5. CASE StorePart
  BY <1>5, StorePartStep
<1>6. CASE IgnoreData
  BY <1>6, IgnoreDataStep
<1>7. CASE ExitApp \/ UNCHANGED vars
  BY <1>7, ExitAppStep
<1> QED
  BY <1>1, <1>2, <1>3, <1>4, <1>5, <1>6, <1>7 DEF Next

(* The buffer, its pointers and the capture file always agree on how far   *)
(* thread B has come: the loop of listenBinLogThread, whichever way the    *)
(* pipe cuts the text into reads.                                          *)
THEOREM LineBufferInvariant ==
  ASSUME Roomy
  PROVE  Spec /\ Regular => []LineInv
<1>1. Init /\ Regular => LineInv /\ text \in Texts
  BY InitLine DEF Init
<1>2. LineInv /\ text \in Texts /\ [Next]_vars => (LineInv /\ text \in Texts)'
  BY StepLine, TextStays
<1> QED
  BY <1>1, <1>2, PTL DEF Spec

(* The pointers stay inside g_pszBufferStdOut, and g_pszLine holds what is *)
(* kept of a LOB line.                                                     *)
THEOREM BufferTypeCorrect ==
  ASSUME Roomy
  PROVE  Spec /\ Regular => []BufferTypeOK
<1>1. LineInv => BufferTypeOK
  BY DEF LineInv
<1> QED
  BY <1>1, LineBufferInvariant, PTL

(* GetBuffer never writes behind the end of the buffer, however many bytes *)
(* the pipe delivers.                                                      *)
THEOREM ReadsFit ==
  ASSUME Roomy
  PROVE  Spec /\ Regular => []RoomToRead
<1>1. LineInv => RoomToRead
  BY DEF LineInv, ChunkAt, RoomToRead
<1> QED
  BY <1>1, LineBufferInvariant, PTL

(* The bytes behind the new-line of a LOB column fit g_pszSavedLine.       *)
THEOREM SavedLineFits ==
  ASSUME Roomy
  PROVE  Spec /\ Regular => []SavedFits
<1>1. LineInv /\ text \in Texts => SavedFits
  <2> SUFFICES ASSUME LineInv, text \in Texts,
                      NEW nl \in Offsets, AtNewLine(nl)
               PROVE  Len(SavedLine(nl)) < LenBufferOut
    BY DEF SavedFits
  <2>1. NumbersOK
    BY Numbers
  <2>2. PICK e \in Offsets : ChunkAt(e) /\ LineAt(e)
    BY DEF LineInv
  <2>3. /\ e \in Nat /\ nl \in Nat /\ pszBufferWork <= nl /\ nl < e
        /\ e - pszBufferWork <= LenBufferOut /\ EndOfString(buf, nl + 1) = e
    BY <2>2, LineEnds
  <2>4. CutOf(SavedLine(nl), buf, nl + 1, e)
    <3>1. nl + 1 \in Nat /\ nl + 1 <= e
      BY <2>3
    <3> QED
      BY <2>3, <3>1, BytesAre DEF SavedLine
  <2>5. Len(SavedLine(nl)) = e - (nl + 1)
    BY <2>4 DEF CutOf
  <2> QED
    BY <2>1, <2>3, <2>5 DEF NumbersOK
<1>2. Init => text \in Texts
  BY DEF Init
<1>3. text \in Texts /\ [Next]_vars => (text \in Texts)'
  BY TextStays
<1> QED
  BY <1>1, <1>2, <1>3, LineBufferInvariant, PTL DEF Spec

(* Thread B looks at each line once, in order, and at its first character. *)
THEOREM EveryLineSeen ==
  ASSUME Roomy
  PROVE  Spec /\ Regular => []EachLineSeen
<1>1. LineInv => EachLineSeen
  BY DEF LineInv
<1> QED
  BY <1>1, LineBufferInvariant, PTL

(* A LOB column is looked at from its first character, by which thread B   *)
(* tells it from the end of the row: so long as it is written in two parts *)
(* at most (ColumnsFit), the beginning kept in g_pszLine is that of the    *)
(* line.                                                                   *)
THEOREM LobReloaded ==
  ASSUME Roomy
  PROVE  Spec /\ Regular => []StartReloaded
<1>1. EachLineSeen => StartReloaded
  BY DEF EachLineSeen, StartReloaded
<1> QED
  BY <1>1, EveryLineSeen, PTL

(* Between two reads, what is written and what waits in the buffer are,    *)
(* together and in order, the bytes that were read.                        *)
LEMMA KeptIs ==
  ASSUME LineInv, text \in Texts, pc = "read"
  PROVE  Written(out \o Pending, got + 1)
<1>1. NumbersOK
  BY Numbers
<1>2. PICK e \in Offsets : ChunkAt(e) /\ LineAt(e) /\ WrittenAt(e)
  BY DEF LineInv
<1>3. /\ e = pszBufferStart /\ e \in Nat /\ pszStartLine \in Nat
      /\ pszStartLine <= e /\ e - pszStartLine <= got
      /\ \A n \in pszStartLine..(e - 1) : buf[n] = got - e + n + 1
  BY <1>1, <1>2 DEF ChunkAt, NumbersOK
<1>4. PICK part : part = Pending
  OBVIOUS
<1>5. CutOf(part, buf, pszStartLine, e)
  BY <1>3, <1>4, BytesAre DEF Pending
<1>6. PICK s, p \in Nat : /\ s = got - (e - pszStartLine) + 1
                         /\ p = e - pszStartLine /\ s > 0
  BY <1>1, <1>3 DEF NumbersOK
<1>7. Len(part) = p
  BY <1>5, <1>6 DEF CutOf
<1>8. \A m \in 1..Len(part) : part[m] = s + m - 1
  <2> SUFFICES ASSUME NEW m \in 1..p PROVE part[m] = s + m - 1
    BY <1>7
  <2>1. PICK n \in pszStartLine..(e - 1) : n = pszStartLine + m - 1
    <3>1. pszStartLine + m - 1 \in pszStartLine..(e - 1)
      BY <1>3, <1>6
    <3> QED
      BY <3>1
  <2>2. part[m] = buf[n]
    BY <1>5, <1>6, <2>1 DEF CutOf
  <2>3. buf[n] = got - e + n + 1
    BY <1>3
  <2> QED
    BY <1>1, <1>3, <1>6, <2>1, <2>2, <2>3 DEF NumbersOK
<1>9. part \in Seq(Nat)
  <2>1. \A n \in pszStartLine..(e - 1) : buf[n] \in Nat
    <3> SUFFICES ASSUME NEW n \in pszStartLine..(e - 1) PROVE buf[n] \in Nat
      OBVIOUS
    <3>1. buf[n] = got - e + n + 1
      BY <1>3
    <3> QED
      BY <1>1, <1>3, <3>1 DEF NumbersOK
  <2> QED
    BY <1>3, <1>4, <2>1, BytesType DEF Pending
<1>10. out \in Seq(Nat) /\ Written(out, s)
  <2>1. s = StartByte(e)
    BY <1>6 DEF StartByte
  <2> QED
    BY <1>2, <2>1 DEF WrittenAt, Written, LineInv, BufferTypeOK
<1>11. PICK t : t = s + Len(part) /\ Written(out \o part, t)
  BY <1>6, <1>8, <1>9, <1>10, WriteMore
<1>12. t = got + 1
  <2>1. s + p = got + 1
    BY <1>1, <1>3, <1>6 DEF NumbersOK
  <2> QED
    BY <1>7, <1>11, <2>1
<1> QED
  BY <1>4, <1>11, <1>12

(* Every byte of every line but the long ones reaches the capture file     *)
(* once and in order, whether its line was moved, written in two parts or  *)
(* put back to be looked at.                                               *)
THEOREM LinesFaithful ==
  ASSUME Roomy
  PROVE  Spec /\ Regular => []Faithful
<1>1. LineInv /\ text \in Texts => Faithful
  <2> SUFFICES ASSUME LineInv, text \in Texts, pc = "read"
               PROVE  Faithful
    BY DEF Faithful
  <2>1. PICK kept, t : kept = out \o Pending /\ t = got + 1 /\ Written(kept, t)
    BY KeptIs
  <2>2. 1..(t - 1) = 1..got
    <3>1. got \in Nat
      BY Numbers DEF NumbersOK
    <3>2. t - 1 = got
      BY <2>1, <3>1
    <3> QED
      BY <3>2
  <2>3. /\ \A i, j \in 1..Len(kept) : i < j => kept[i] < kept[j]
        /\ \A i \in 1..Len(kept) : kept[i] \in 1..(t - 1)
        /\ \A b \in 1..(t - 1) :
             InLong(b) \/ \E i \in 1..Len(kept) : kept[i] = b
    BY <2>1 DEF Written
  <2>4. /\ \A i \in 1..Len(kept) : kept[i] \in 1..got
        /\ \A b \in 1..got : InLong(b) \/ \E i \in 1..Len(kept) : kept[i] = b
    BY <2>2, <2>3
  <2> QED
    BY <2>1, <2>3, <2>4 DEF Faithful
<1>2. Init => text \in Texts
  BY DEF Init
<1>3. text \in Texts /\ [Next]_vars => (text \in Texts)'
  BY TextStays
<1> QED
  BY <1>1, <1>2, <1>3, LineBufferInvariant, PTL DEF Spec

=============================================================================
