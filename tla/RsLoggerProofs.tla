--------------------------- MODULE RsLoggerProofs ---------------------------
(***************************************************************************)
(* Theorems about RsLogger and the buffer and files it is built on, for    *)
(* every number of threads, lines, directories and names, and all sizes.   *)
(***************************************************************************)
EXTENDS RsLogger, TLAPS, FiniteSetTheorems

-----------------------------------------------------------------------------
(* The buffer.                                                             *)

\* What append and formatInteger keep: beyond WithinBounds, the whole rest of
\* the buffer is zero, as memset leaves it.
BufferOK(b) == b \in Buffer /\ WithinBounds(b) /\ b.zeroed = b.alloc

\* The buffer the constructor makes (floatingbuffer.cpp:13-36).
LEMMA NewBufferOK == BufferOK(NewBuffer)
BY BufferAssumption DEF BufferOK, Buffer, WithinBounds, NewBuffer

\* append keeps the bounds and the zero, takes at most what it is given, and
\* takes less only when it leaves the buffer full (floatingbuffer.cpp:52-105).
LEMMA AppendOK ==
  ASSUME NEW b, BufferOK(b), NEW n \in Nat
  PROVE  /\ BufferOK(AppendText(b, n))
         /\ AppendText(b, n).fill - b.fill \in 0..n
         /\ AppendText(b, n).fill - b.fill < n => Full(AppendText(b, n))
         /\ Full(b) => Full(AppendText(b, n))
<1> USE BufferAssumption
<1>1. b \in Buffer /\ WithinBounds(b) /\ b.zeroed = b.alloc
  BY DEF BufferOK
<1>2. CASE Avail(b) > n
  <2>1. AppendText(b, n) = [b EXCEPT !.fill = b.fill + n]
    BY <1>2 DEF AppendText, Put
  <2> QED  BY <1>1, <1>2, <2>1 DEF BufferOK, Buffer, WithinBounds, Avail, Full
<1>3. CASE ~(Avail(b) > n) /\ b.alloc < Large
  <2> DEFINE g == Grown(b, n)
             m == AtMost(n, Avail(g))
  <2>1. AppendText(b, n) = [g EXCEPT !.fill = g.fill + m]
    BY <1>3 DEF AppendText, Put
  <2>2. /\ g = [b EXCEPT !.alloc = GrownSize(b, n), !.zeroed = GrownSize(b, n)]
        /\ GrownSize(b, n) \in Nat /\ GrownSize(b, n) <= Large
        /\ GrownSize(b, n) < Large => GrownSize(b, n) > b.fill + n
        /\ GrownSize(b, n) >= b.alloc
    BY <1>1, <1>3
       DEF Grown, GrownSize, GrowthStep, AtMost, Buffer, WithinBounds
  <2>3. g \in Buffer /\ g.fill = b.fill /\ g.alloc = GrownSize(b, n)
        /\ g.zeroed = g.alloc
    BY <1>1, <2>2 DEF Buffer
  <2>4. m \in 0..n /\ g.fill + m <= g.alloc
        /\ (m < n => g.fill + m = g.alloc)
    BY <1>1, <2>2, <2>3 DEF AtMost, Avail, Buffer, WithinBounds
  <2> HIDE DEF g, m
  <2>5. m < n => g.alloc = Large
    BY <1>1, <2>2, <2>3, <2>4 DEF Buffer
  <2>6. AppendText(b, n).fill = g.fill + m /\ AppendText(b, n).alloc = g.alloc
        /\ AppendText(b, n).zeroed = g.alloc /\ AppendText(b, n) \in Buffer
    BY <2>1, <2>3, <2>4 DEF Buffer
  <2>7. g.alloc < Large => m = n /\ g.fill + n < g.alloc
    BY <1>1, <2>2, <2>3, <2>4, <2>5 DEF Buffer
  <2>8. BufferOK(AppendText(b, n))
    BY <1>1, <2>2, <2>3, <2>4, <2>6, <2>7 DEF BufferOK, Buffer, WithinBounds
  <2>9. ~Full(b)
    BY <1>3 DEF Full
  <2> QED
    BY <1>1, <2>3, <2>4, <2>5, <2>6, <2>8, <2>9 DEF Buffer, Full
<1>4. CASE ~(Avail(b) > n) /\ ~(b.alloc < Large)
  <2>1. AppendText(b, n) = [b EXCEPT !.fill = b.fill + Avail(b)]
    BY <1>4 DEF AppendText, Put
  <2> QED  BY <1>1, <1>4, <2>1 DEF BufferOK, Buffer, WithinBounds, Avail, Full
<1> QED  BY <1>2, <1>3, <1>4

\* A number is put in only with room for it and its zero
\* (logstream.cpp:65-73), and none is put into a full buffer.
LEMMA NumberOK ==
  ASSUME NEW b, BufferOK(b), NEW n \in Nat, n < Numeric
  PROVE  BufferOK(AppendNumber(b, n)) /\ (Full(b) => Full(AppendNumber(b, n)))
BY BufferAssumption
   DEF BufferOK, Buffer, WithinBounds, AppendNumber, HasPlace, Put, Avail, Full

-----------------------------------------------------------------------------
(* The lines.                                                              *)

LineOK(ln) ==
  /\ ln \in [buf : Buffer, lost : Nat]
  /\ BufferOK(ln.buf)
  /\ ln.lost > 0 => Full(ln.buf)

\* A new line, and the three ways to put something into it.
LEMMA LineSteps ==
  /\ LineOK(NewLine)
  /\ \A ln : LineOK(ln) =>
       /\ \A n \in Nat : LineOK(WithText(ln, n))
       /\ LineOK(WithNumber(ln))
       /\ LineOK(Finished(ln))
<1>1. LineOK(NewLine)
  BY NewBufferOK DEF LineOK, NewLine, BufferOK
<1>2. ASSUME NEW ln, LineOK(ln), NEW n \in Nat PROVE LineOK(WithText(ln, n))
  <2> DEFINE b == AppendText(ln.buf, n)
  <2>1. /\ ln \in [buf : Buffer, lost : Nat]
        /\ BufferOK(ln.buf) /\ (ln.lost > 0 => Full(ln.buf))
    BY <1>2 DEF LineOK
  <2>2. /\ BufferOK(b) /\ b.fill - ln.buf.fill \in 0..n
        /\ (b.fill - ln.buf.fill < n => Full(b)) /\ (Full(ln.buf) => Full(b))
    BY <2>1, AppendOK
  <2>3. WithText(ln, n) =
          [ln EXCEPT !.buf = b, !.lost = ln.lost + n - (b.fill - ln.buf.fill)]
    BY DEF WithText
  <2>4. b \in Buffer /\ b.fill \in Nat /\ ln.buf.fill \in Nat /\ ln.lost \in Nat
    BY <2>1, <2>2 DEF BufferOK, Buffer
  <2> HIDE DEF b
  <2>5. ln.lost + n - (b.fill - ln.buf.fill) \in Nat
    BY <2>2, <2>4
  <2>6. ln.lost + n - (b.fill - ln.buf.fill) > 0 => Full(b)
    BY <2>1, <2>2, <2>4
  <2> QED  BY <2>1, <2>2, <2>3, <2>4, <2>5, <2>6 DEF LineOK
<1>3. ASSUME NEW ln, LineOK(ln) PROVE LineOK(WithNumber(ln))
  <2>1. /\ ln \in [buf : Buffer, lost : Nat]
        /\ BufferOK(ln.buf) /\ (ln.lost > 0 => Full(ln.buf))
    BY <1>3 DEF LineOK
  <2>2. /\ BufferOK(AppendNumber(ln.buf, Digits))
        /\ Full(ln.buf) => Full(AppendNumber(ln.buf, Digits))
    BY <2>1, NumberOK, LengthsAssumption
  <2>3. AppendNumber(ln.buf, Digits) \in Buffer
    BY <2>2 DEF BufferOK
  <2> QED  BY <2>1, <2>2, <2>3 DEF LineOK, WithNumber
<1>4. ASSUME NEW ln, LineOK(ln) PROVE LineOK(Finished(ln))
  BY <1>2, <1>3, <1>4, LengthsAssumption DEF Finished
<1> QED  BY <1>1, <1>2, <1>3, <1>4

LinesInv ==
  /\ line \in [Threads -> [buf : Buffer, lost : Nat]]
  /\ \A t \in Threads : LineOK(line[t])

\* Only the steps of a statement change a line, and they keep it as LineOK says.
LEMMA LinesInvariant == Spec => []LinesInv
<1>1. Init => LinesInv
  <2>1. LineOK(NewLine)  BY LineSteps
  <2> QED  BY <2>1 DEF Init, LinesInv, LineOK
<1>2. LinesInv /\ [Next]_vars => LinesInv'
  <2> SUFFICES ASSUME LinesInv, [Next]_vars PROVE LinesInv'
    OBVIOUS
  <2>1. ASSUME NEW t \in Threads, NEW ln, LineOK(ln),
               line' = [line EXCEPT ![t] = ln]
        PROVE  LinesInv'
    BY <2>1 DEF LinesInv, LineOK
  <2>2. ASSUME UNCHANGED line PROVE LinesInv'
    BY <2>2 DEF LinesInv, LineOK
  <2>3. ASSUME NEW t \in Threads, Statement(t) PROVE LinesInv'
    <3>0. LineOK(line[t])  BY <2>3 DEF LinesInv
    <3>1. ASSUME NEW lv \in Levels, BeginLine(t, lv) PROVE LinesInv'
      <4>1. LineOK(Headed)
        BY LineSteps, LengthsAssumption DEF Headed
      <4>2. LineOK(WithErrno(Headed))
        BY <4>1, LineSteps, LengthsAssumption DEF WithErrno
      <4> QED  BY <3>1, <4>1, <4>2, <2>1 DEF BeginLine, Begun
    <3>2. ASSUME NEW n \in Pieces, PutText(t, n) PROVE LinesInv'
      <4>1. LineOK(WithText(line[t], n))
        BY <3>0, LineSteps, LengthsAssumption
      <4> QED  BY <3>2, <4>1, <2>1 DEF PutText, PutPiece
    <3>3. ASSUME PutNumber(t) PROVE LinesInv'
      BY <3>0, <3>3, LineSteps, <2>1 DEF PutNumber, PutPiece
    <3>4. ASSUME Finish(t) PROVE LinesInv'
      BY <3>0, <3>4, LineSteps, <2>1 DEF Finish
    <3>5. ASSUME Output(t) PROVE LinesInv'
      BY <3>5, LineSteps, <2>1 DEF Output
    <3> QED  BY <2>3, <3>1, <3>2, <3>3, <3>4, <3>5 DEF Statement
  <2>4. ASSUME NEW t \in Threads, NEW lv \in Levels, LogNow(t, lv)
        PROVE  LinesInv'
    BY <2>4, <2>2 DEF LogNow, lineVars
  <2>5. ASSUME NEW t \in Threads, Setting(t) PROVE LinesInv'
    BY <2>5, <2>2
       DEF Setting, SetLogLevel, SetBaseLogName, AskLogPath, SetLogPath, lineVars
  <2>6. ASSUME Tick, UNCHANGED threadVars PROVE LinesInv'
    BY <2>6, <2>2 DEF threadVars, lineVars
  <2>7. ASSUME UNCHANGED vars PROVE LinesInv'
    BY <2>7, <2>2 DEF vars, threadVars, lineVars
  <2> QED  BY <2>3, <2>4, <2>5, <2>6, <2>7 DEF Next
<1> QED  BY <1>1, <1>2, PTL DEF Spec

\* A line's buffer is never written past its end, and what output prints with
\* %s ends with its zero unless the buffer has its last size.
THEOREM LinesPrintableHold == Spec => []LinesPrintable
<1>1. LinesInv => LinesPrintable
  BY DEF LinesInv, LinesPrintable, LineOK, BufferOK
<1> QED  BY <1>1, LinesInvariant, PTL

\* append loses text only in a buffer of the last size that is full.
THEOREM TextKeptHolds == Spec => []TextKept
<1>1. LinesInv => TextKept
  BY DEF LinesInv, TextKept, LineOK
<1> QED  BY <1>1, LinesInvariant, PTL

-----------------------------------------------------------------------------
(* Types.                                                                  *)

\* reset makes or empties one file, and lines stay in files that exist.
FilesOK(there, lines) ==
  /\ there \subseteq Files /\ lines \in [Files -> SUBSET Lines]
  /\ \A k \in Files \ there : lines[k] = {}

\* Opening a file with "w+" keeps the files well formed (rslog.cpp:297-313).
LEMMA ResetOK ==
  ASSUME NEW d \in Dirs, NEW f \in Names, NEW there, NEW lines,
         FilesOK(there, lines), Reset(d, f, there, lines)
  PROVE  FilesOK(exists, content)'
BY LogAssumption DEF FilesOK, Reset, Files

\* Appending to a file keeps them well formed, in the set with that file.
LEMMA AddedOK ==
  ASSUME NEW there, NEW lines, FilesOK(there, lines),
         NEW k \in Files, NEW l \in Lines
  PROVE  FilesOK(there \cup {k}, [lines EXCEPT ![k] = @ \cup {l}])
BY DEF FilesOK

\* Renaming moves the lines together with the names (rslog.cpp:499-509).
LEMMA RenamedOK ==
  ASSUME NEW lines, dir \in Dirs, file \in Names, NEW i \in 1..MaxId, IsFree(i),
         exists \subseteq Files, FilesOK(exists \cup {Current(0)}, lines)
  PROVE  FilesOK(Renamed(i), Rolled(lines, i))
<1>1. /\ Current(i) \in Files /\ Current(i - 1) \in Files
      /\ Current(0) \in Files /\ Current(1) \in Files
  BY LogAssumption DEF Current, Files
<1>2. \A j, m \in 0..MaxId : Current(j) = Current(m) => j = m
  BY DEF Current
<1>3. Renamed(i) \subseteq Files
  BY <1>1 DEF Renamed, FilesOK
<1>4. Rolled(lines, i) \in [Files -> SUBSET Lines]
  BY <1>1 DEF Rolled, FilesOK
<1>5. i # 1 => Current(1) \in exists
  BY DEF IsFree
<1>6. Current(1) \in Renamed(i) /\ Current(i) \in Renamed(i)
  <2>1. i > 2 => Current(i - 1) # Current(1)  BY <1>2, LogAssumption
  <2>2. i > 2 => Current(i - 1) # Current(i)  BY <1>2, LogAssumption
  <2> QED  BY <1>5, <2>1, <2>2 DEF Renamed
<1>7. ASSUME NEW k \in Files \ Renamed(i) PROVE Rolled(lines, i)[k] = {}
  <2>1. k # Current(1) /\ k # Current(i)
    BY <1>6
  <2>2. k \notin exists \/ k = Current(i - 1)
    BY <2>1 DEF Renamed
  <2>3. Rolled(lines, i)[k] = {} \/ Rolled(lines, i)[k] = lines[k]
    BY <2>1 DEF Rolled
  <2>4. k = Current(0) \/ k = Current(i - 1) => Rolled(lines, i)[k] = {}
    BY <2>1 DEF Rolled
  <2> QED  BY <2>2, <2>3, <2>4 DEF FilesOK
<1> QED  BY <1>3, <1>4, <1>7 DEF FilesOK

FileTypes ==
  /\ dir \in Dirs /\ base \in Bases /\ file \in Names /\ now \in 0..MaxNow
  /\ FilesOK(exists, content)

\* Every write keeps the files well formed (rslog.cpp:387-402, 410-518).
LEMMA WriteTypes ==
  ASSUME FileTypes, NEW l \in Lines, Write(l)
  PROVE  FileTypes'
<1> USE DEF FileTypes
<1>1. dir' = dir /\ base' = base /\ now' = now
  BY DEF Write
<1>2. CASE dir \notin Writable
  BY <1>1, <1>2 DEF Write, fileVars, FilesOK
<1>3. CASE dir \in Writable
  <2> DEFINE lines == [content EXCEPT ![Current(0)] = @ \cup {l}]
  <2>1. RollFile(lines)
    BY <1>3 DEF Write
  <2>2. Current(0) \in Files /\ NameNow(base) \in Names
    BY LogAssumption DEF Current, Files, NameNow, Names
  <2>3. FilesOK(exists \cup {Current(0)}, lines)
    BY <2>2, AddedOK
  <2>4. exists \subseteq Files
    BY DEF FilesOK
  <2> HIDE DEF lines
  <2>5. CASE ~TooBig(lines)
    BY <1>1, <2>1, <2>3, <2>5 DEF RollFile, FilesOK
  <2>6. CASE TooBig(lines) /\ file = NameNow(base)
    <3>1. PICK i \in 1..MaxId :
            IsFree(i) /\ Reset(dir, file, Renamed(i), Rolled(lines, i))
      BY <2>1, <2>6 DEF RollFile
    <3>2. FilesOK(Renamed(i), Rolled(lines, i))
      BY <2>3, <2>4, <3>1, RenamedOK
    <3>3. FilesOK(exists, content)'
      BY <3>1, <3>2, ResetOK
    <3> QED  BY <1>1, <2>1, <2>2, <2>6, <3>3 DEF RollFile
  <2>7. CASE TooBig(lines) /\ file # NameNow(base)
    <3>1. Reset(dir, NameNow(base), exists \cup {Current(0)}, lines)
      BY <2>1, <2>7 DEF RollFile
    <3>2. FilesOK(exists, content)'
      BY <2>2, <2>3, <3>1, ResetOK
    <3> QED  BY <1>1, <2>1, <2>2, <2>7, <3>2 DEF RollFile
  <2> QED  BY <2>5, <2>6, <2>7
<1> QED  BY <1>2, <1>3

\* The other variables, the line apart.
CallTypes ==
  /\ level \in Levels /\ settings \in Nat
  /\ pc \in [Threads -> {"idle", "building", "built", "setPath"}]
  /\ written \in [Threads -> 0..LinesEach]
  /\ pieces \in [Threads -> 0..MaxPieces]
  /\ want \in [Threads -> Dirs \cup {NoDir}]
  /\ \A t \in Threads : pc[t] = "setPath" => want[t] \in Dirs
  /\ \A t \in Threads : pc[t] \in {"building", "built"} => written[t] # 0

TypeInv == FileTypes /\ CallTypes

\* The types hold at the start.
LEMMA TypeInit == Init => TypeInv
<1> SUFFICES ASSUME Init PROVE TypeInv
  OBVIOUS
<1>1. dir \in Dirs /\ base \in Bases /\ file \in Names /\ now \in 0..MaxNow
  BY LogAssumption DEF Init, InitLog, NameNow, Names
<1>2. exists \subseteq Files /\ content = [k \in Files |-> {}]
  BY <1>1, LogAssumption DEF Init, InitLog, Current, Files
<1>3. CallTypes
  BY LevelsAssumption, BoundsAssumption DEF Init, CallTypes
<1> QED  BY <1>1, <1>2, <1>3 DEF TypeInv, FileTypes, FilesOK

\* A new path or base name keeps the files well formed (rslog.cpp:271-284).
LEMMA SetterTypes ==
  ASSUME FileTypes
  PROVE  /\ \A d \in Dirs : ChangeLogPath(d) => FileTypes'
         /\ \A b \in Bases : ChangeBaseLogName(b) => FileTypes'
<1> USE DEF FileTypes
<1>1. ASSUME NEW d \in Dirs, ChangeLogPath(d) PROVE FileTypes'
  <2>1. FilesOK(exists, content)'
    BY <1>1, ResetOK DEF ChangeLogPath
  <2> QED  BY <1>1, <2>1 DEF ChangeLogPath
<1>2. ASSUME NEW b \in Bases, ChangeBaseLogName(b) PROVE FileTypes'
  <2>1. NameNow(b) \in Names
    BY DEF NameNow, Names
  <2>2. FilesOK(exists, content)'
    BY <1>2, <2>1, ResetOK DEF ChangeBaseLogName
  <2> QED  BY <1>2, <2>1, <2>2 DEF ChangeBaseLogName
<1> QED  BY <1>1, <1>2

\* Every step keeps the types.
LEMMA TypeStep == TypeInv /\ [Next]_vars => TypeInv'
<1> SUFFICES ASSUME TypeInv, [Next]_vars PROVE TypeInv'
  OBVIOUS
<1>0. FileTypes /\ CallTypes
  BY DEF TypeInv
<1>1. ASSUME UNCHANGED logVars PROVE FileTypes'
  BY <1>0, <1>1 DEF FileTypes, FilesOK, logVars, fileVars
<1> USE DEF CallTypes, Goto
<1>2. ASSUME NEW t \in Threads, Statement(t) PROVE TypeInv'
  <2>1. ASSUME NEW lv \in Levels, BeginLine(t, lv) PROVE TypeInv'
    <3>1. CallTypes'
      BY <1>0, <2>1, BoundsAssumption DEF BeginLine
    <3> QED  BY <1>1, <2>1, <3>1 DEF BeginLine, TypeInv
  <2>2. ASSUME NEW ln, PutPiece(t, ln) PROVE TypeInv'
    <3>1. CallTypes'
      BY <1>0, <2>2, BoundsAssumption DEF PutPiece
    <3> QED  BY <1>1, <2>2, <3>1 DEF PutPiece, TypeInv
  <2>3. ASSUME Finish(t) PROVE TypeInv'
    <3>1. CallTypes'
      BY <1>0, <2>3 DEF Finish
    <3> QED  BY <1>1, <2>3, <3>1 DEF Finish, TypeInv
  <2>4. ASSUME Output(t) PROVE TypeInv'
    <3>1. CallTypes'
      BY <1>0, <2>4, BoundsAssumption DEF Output
    <3>2. Line(t) \in Lines
      BY <1>0, <2>4, ThreadsAssumption, BoundsAssumption DEF Output, Line
    <3>3. FileTypes'
      BY <1>0, <2>4, <3>2, WriteTypes DEF Output
    <3> QED  BY <3>1, <3>3 DEF TypeInv
  <2> QED  BY <1>2, <2>1, <2>2, <2>3, <2>4 DEF Statement, PutText, PutNumber
<1>3. ASSUME NEW t \in Threads, NEW lv \in Levels, LogNow(t, lv)
      PROVE  TypeInv'
  <2>1. CallTypes'
    BY <1>0, <1>3, BoundsAssumption DEF LogNow, lineVars
  <2>2. <<t, written[t] + 1>> \in Lines
    BY <1>0, <1>3, ThreadsAssumption, BoundsAssumption DEF LogNow
  <2>3. FileTypes'
    BY <1>0, <1>3, <2>2, WriteTypes DEF LogNow
  <2> QED  BY <2>1, <2>3 DEF TypeInv
<1>4. ASSUME NEW t \in Threads, Setting(t) PROVE TypeInv'
  <2>1. ASSUME NEW lv \in Levels, SetLogLevel(t, lv) PROVE TypeInv'
    <3>1. CallTypes'
      BY <1>0, <2>1 DEF SetLogLevel, MaySet, lineVars
    <3> QED  BY <1>1, <2>1, <3>1 DEF SetLogLevel, TypeInv
  <2>2. ASSUME NEW b \in Bases, SetBaseLogName(t, b) PROVE TypeInv'
    <3>1. CallTypes'
      BY <1>0, <2>2 DEF SetBaseLogName, MaySet, lineVars
    <3>2. FileTypes'
      BY <1>0, <2>2, SetterTypes DEF SetBaseLogName
    <3> QED  BY <3>1, <3>2 DEF TypeInv
  <2>3. ASSUME NEW p \in Paths, AskLogPath(t, p) PROVE TypeInv'
    <3>1. CallTypes'
      <4>1. PICK got \in Tokenized(t, p.dir) :
              want' = [u \in Threads |->
                         IF u \in Overlapping(t) THEN got[u] ELSE want[u]]
        BY <2>3 DEF AskLogPath
      <4>2. p.dir \in Dirs
        BY <2>3 DEF Paths
      <4>3. \A u \in Overlapping(t) : got[u] \in Dirs
        BY <4>1, <4>2 DEF Tokenized
      <4>4. /\ want' \in [Threads -> Dirs \cup {NoDir}]
            /\ \A u \in Threads : pc'[u] = "setPath" => want'[u] \in Dirs
        BY <1>0, <2>3, <4>1, <4>3 DEF AskLogPath, Overlapping
      <4> QED  BY <1>0, <2>3, <4>4 DEF AskLogPath, MaySet, lineVars
    <3> QED  BY <1>1, <2>3, <3>1 DEF AskLogPath, TypeInv
  <2>4. ASSUME SetLogPath(t) PROVE TypeInv'
    <3>1. CallTypes'
      BY <1>0, <2>4 DEF SetLogPath, lineVars
    <3>2. want[t] \in Dirs
      BY <1>0, <2>4 DEF SetLogPath
    <3>3. FileTypes'
      BY <1>0, <2>4, <3>2, SetterTypes DEF SetLogPath
    <3> QED  BY <3>1, <3>3 DEF TypeInv
  <2> QED  BY <1>4, <2>1, <2>2, <2>3, <2>4 DEF Setting
<1>5. ASSUME Tick, UNCHANGED threadVars PROVE TypeInv'
  <2>1. FileTypes'
    BY <1>0, <1>5, LogAssumption DEF FileTypes, FilesOK, Tick, fileVars
  <2>2. CallTypes'
    BY <1>0, <1>5 DEF threadVars, lineVars
  <2> QED  BY <2>1, <2>2 DEF TypeInv
<1>6. ASSUME UNCHANGED vars PROVE TypeInv'
  <2>1. CallTypes'
    BY <1>0, <1>6 DEF vars, threadVars, lineVars
  <2> QED  BY <1>1, <1>6, <2>1 DEF vars, TypeInv
<1> QED  BY <1>2, <1>3, <1>4, <1>5, <1>6 DEF Next

\* Every variable keeps a value the code can give it, and lines are only in
\* files that exist.
THEOREM TypesHold == Spec => []TypeOK
<1>1. TypeInv /\ LinesInv => TypeOK
  BY DEF TypeInv, FileTypes, CallTypes, FilesOK, LinesInv, TypeOK
<1> QED  BY <1>1, TypeInit, TypeStep, LinesInvariant, PTL DEF Spec

-----------------------------------------------------------------------------
(* Names and sizes of the files.                                           *)

\* What the log of RsLog is called follows its base name and an earlier or
\* present second, and a file made in the present second comes with a log
\* named in that second.
NamesInv ==
  /\ file = <<base, file[2]>> /\ file[2] <= now
  /\ \A k \in exists : k[2][2] <= now /\ (k[2][2] = now => file[2] = now)

\* The log is below its limit, and files that cannot be opened hold nothing.
SizeInv ==
  /\ LogBelowLimit
  /\ \A k \in Files : k[1] \notin Writable => content[k] = {}

\* Any set of lines has a size.
LEMMA LinesCount ==
  ASSUME NEW S \in SUBSET Lines
  PROVE  IsFiniteSet(S) /\ Cardinality(S) \in Nat
BY LinesAssumption, FS_Subset, FS_CardinalityType

\* Opening a file of this second keeps NamesInv (rslog.cpp:297-313).
LEMMA ResetNames ==
  ASSUME FileTypes, NamesInv, NEW d \in Dirs, NEW f \in Names, NEW there, NEW lines,
         Reset(d, f, there, lines), f[2] = file'[2], f[2] <= now, now' = now,
         \A k \in there : k \in exists \/ k[2] = file,
         file'[2] = file[2] \/ file'[2] = now
  PROVE  \A k \in exists' : k[2][2] <= now' /\ (k[2][2] = now' => file'[2] = now')
<1>1. exists' \subseteq there \cup {<<d, f, 0>>}
  BY DEF Reset
<1>2. \A k \in there : k[2][2] <= now /\ (k[2][2] = now => file[2] = now)
  BY DEF NamesInv
<1> QED  BY <1>1, <1>2

\* A file that was opened with "w+" is empty.
LEMMA ResetSize ==
  ASSUME FileTypes, NEW d \in Dirs, NEW f \in Names, NEW there, NEW lines,
         Reset(d, f, there, lines), lines \in [Files -> SUBSET Lines],
         \A k \in Files : k[1] \notin Writable => lines[k] = {},
         dir' = d, file' = f
  PROVE  SizeInv'
<1>1. <<d, f, 0>> \in Files
  BY LogAssumption DEF Files
<1>2. content'[<<d, f, 0>>] = {}
  BY <1>1 DEF Reset
<1>3. LogBelowLimit'
  BY <1>2, FS_EmptySet, LogAssumption DEF LogBelowLimit, Current
<1>4. \A k \in Files : k[1] \notin Writable => content'[k] = {}
  BY DEF Reset
<1> QED  BY <1>3, <1>4 DEF SizeInv

LogInv == TypeInv /\ NamesInv /\ SizeInv

\* Writing a line, with the roll that may follow, keeps names and sizes.
LEMMA WriteLog ==
  ASSUME LogInv, NEW l \in Lines, Write(l)
  PROVE  NamesInv' /\ SizeInv'
<1>0. FileTypes /\ NamesInv /\ SizeInv
  BY DEF LogInv, TypeInv
<1>1. dir' = dir /\ base' = base /\ now' = now
  BY DEF Write
<1>2. CASE dir \notin Writable
  <2>1. UNCHANGED <<file, exists, content>>
    BY <1>2 DEF Write, fileVars
  <2> QED  BY <1>0, <1>1, <2>1 DEF NamesInv, SizeInv, LogBelowLimit, Current
<1>3. CASE dir \in Writable
  <2> DEFINE lines == [content EXCEPT ![Current(0)] = @ \cup {l}]
  <2>1. RollFile(lines)
    BY <1>3 DEF Write
  <2>2. Current(0) \in Files /\ NameNow(base) \in Names
    BY <1>0, LogAssumption DEF FileTypes, Current, Files, NameNow, Names
  <2>3. lines \in [Files -> SUBSET Lines]
    BY <1>0, <2>2 DEF FileTypes, FilesOK
  <2>4. \A k \in Files : k[1] \notin Writable => lines[k] = {}
    BY <1>0, <1>3, <2>2 DEF SizeInv, FileTypes, FilesOK, Current
  <2> HIDE DEF lines
  <2>5. CASE ~TooBig(lines)
    <3>1. exists' = exists \cup {Current(0)} /\ content' = lines /\ file' = file
      BY <2>1, <2>5 DEF RollFile
    <3>2. NamesInv'
      BY <1>0, <1>1, <3>1 DEF NamesInv, Current
    <3>3. Cardinality(lines[Current(0)]) \in Nat
      BY <2>2, <2>3, LinesCount
    <3>4. LogBelowLimit'
      BY <1>1, <2>5, <3>1, <3>3, LogAssumption DEF TooBig, LogBelowLimit, Current
    <3> QED  BY <2>4, <3>1, <3>2, <3>4 DEF SizeInv
  <2>6. CASE TooBig(lines) /\ file = NameNow(base)
    <3>1. PICK i \in 1..MaxId :
            IsFree(i) /\ Reset(dir, file, Renamed(i), Rolled(lines, i))
      BY <2>1, <2>6 DEF RollFile
    <3>2. file' = file
      BY <2>1, <2>6 DEF RollFile
    <3>3. /\ Rolled(lines, i) \in [Files -> SUBSET Lines]
          /\ \A k \in Files : k[1] \notin Writable => Rolled(lines, i)[k] = {}
      <4>1. Current(i) \in Files /\ Current(i - 1) \in Files
        BY <1>0, LogAssumption DEF FileTypes, Current, Files
      <4> QED  BY <1>3, <2>2, <2>3, <2>4, <4>1 DEF Rolled, Current
    <3>4. SizeInv'
      BY <1>0, <1>1, <3>1, <3>2, <3>3, ResetSize DEF FileTypes
    <3>5. \A k \in Renamed(i) : k \in exists \/ k[2] = file
      BY DEF Renamed, Current
    <3>6. NamesInv'
      BY <1>0, <1>1, <3>1, <3>2, <3>5, ResetNames DEF NamesInv, FileTypes
    <3> QED  BY <3>4, <3>6
  <2>7. CASE TooBig(lines) /\ file # NameNow(base)
    <3>1. file' = NameNow(base) /\
          Reset(dir, NameNow(base), exists \cup {Current(0)}, lines)
      BY <2>1, <2>7 DEF RollFile
    <3>2. SizeInv'
      BY <1>0, <1>1, <2>2, <2>3, <2>4, <3>1, ResetSize DEF FileTypes
    <3>3. \A k \in exists \cup {Current(0)} : k \in exists \/ k[2] = file
      BY DEF Current
    <3>4. file'[2] = now /\ file'[1] = base /\ now \in Int
      BY <1>0, <3>1 DEF NameNow, FileTypes
    <3>5. NamesInv'
      BY <1>0, <1>1, <2>2, <3>1, <3>3, <3>4, ResetNames
         DEF NamesInv, FileTypes, NameNow
    <3> QED  BY <3>2, <3>5
  <2> QED  BY <2>5, <2>6, <2>7
<1> QED  BY <1>2, <1>3

\* The setters keep names and sizes.
LEMMA SetterLog ==
  ASSUME LogInv
  PROVE  /\ \A d \in Dirs : ChangeLogPath(d) => NamesInv' /\ SizeInv'
         /\ \A b \in Bases : ChangeBaseLogName(b) => NamesInv' /\ SizeInv'
<1>0. FileTypes /\ NamesInv /\ SizeInv
  BY DEF LogInv, TypeInv
<1>1. /\ content \in [Files -> SUBSET Lines]
      /\ \A k \in Files : k[1] \notin Writable => content[k] = {}
  BY <1>0 DEF SizeInv, FileTypes, FilesOK
<1>2. ASSUME NEW d \in Dirs, ChangeLogPath(d) PROVE NamesInv' /\ SizeInv'
  <2>1. SizeInv'
    BY <1>0, <1>1, <1>2, ResetSize DEF ChangeLogPath, FileTypes
  <2>2. NamesInv'
    BY <1>0, <1>2, ResetNames DEF ChangeLogPath, NamesInv, FileTypes
  <2> QED  BY <2>1, <2>2
<1>3. ASSUME NEW b \in Bases, ChangeBaseLogName(b) PROVE NamesInv' /\ SizeInv'
  <2>1. NameNow(b) \in Names
    BY <1>0 DEF NameNow, Names, FileTypes
  <2>2. SizeInv'
    BY <1>0, <1>1, <1>3, <2>1, ResetSize DEF ChangeBaseLogName, FileTypes
  <2>3. file' = <<b, now>> /\ base' = b /\ now' = now /\ now \in Int
    BY <1>0, <1>3 DEF ChangeBaseLogName, NameNow, FileTypes
  <2>4. Reset(dir, NameNow(b), exists, content) /\ NameNow(b)[2] = now
    BY <1>3 DEF ChangeBaseLogName, NameNow
  <2>5. \A k \in exists' : k[2][2] <= now' /\ (k[2][2] = now' => file'[2] = now')
    BY <1>0, <2>1, <2>3, <2>4, ResetNames DEF FileTypes
  <2> QED  BY <2>2, <2>3, <2>5 DEF NamesInv
<1> QED  BY <1>2, <1>3

\* Names and sizes stay as LogInv says.
LEMMA LogInvariant == Spec => []LogInv
<1>1. Init => LogInv
  <2> SUFFICES ASSUME Init PROVE LogInv
    OBVIOUS
  <2>1. TypeInv
    BY TypeInit
  <2>2. NamesInv
    BY DEF Init, InitLog, NamesInv, NameNow, Current
  <2>3. content = [k \in Files |-> {}] /\ Current(0) \in Files
    BY <2>1, LogAssumption DEF Init, InitLog, Current, Files, TypeInv, FileTypes
  <2>4. SizeInv
    BY <2>3, FS_EmptySet, LogAssumption DEF SizeInv, LogBelowLimit
  <2> QED  BY <2>1, <2>2, <2>4 DEF LogInv
<1>2. LogInv /\ [Next]_vars => LogInv'
  <2> SUFFICES ASSUME LogInv, [Next]_vars PROVE LogInv'
    OBVIOUS
  <2>0. TypeInv /\ NamesInv /\ SizeInv /\ TypeInv'
    BY TypeStep DEF LogInv
  <2>1. SUFFICES NamesInv' /\ SizeInv'
    BY <2>0 DEF LogInv
  <2>2. ASSUME UNCHANGED logVars PROVE NamesInv' /\ SizeInv'
    BY <2>0, <2>2
       DEF logVars, fileVars, NamesInv, SizeInv, LogBelowLimit, Current
  <2>3. ASSUME NEW t \in Threads, Statement(t) PROVE NamesInv' /\ SizeInv'
    <3>1. CASE Output(t)
      <4>1. Line(t) \in Lines
        BY <2>0, <3>1, ThreadsAssumption, BoundsAssumption
           DEF Output, Line, TypeInv, CallTypes
      <4> QED  BY <3>1, <4>1, WriteLog DEF Output
    <3>2. CASE ~Output(t)
      BY <2>2, <2>3, <3>2
         DEF Statement, BeginLine, PutText, PutNumber, PutPiece, Finish
    <3> QED  BY <3>1, <3>2
  <2>4. ASSUME NEW t \in Threads, NEW lv \in Levels, LogNow(t, lv)
        PROVE  NamesInv' /\ SizeInv'
    <3>1. <<t, written[t] + 1>> \in Lines
      BY <2>0, <2>4, ThreadsAssumption, BoundsAssumption
         DEF LogNow, TypeInv, CallTypes
    <3> QED  BY <2>4, <3>1, WriteLog DEF LogNow
  <2>5. ASSUME NEW t \in Threads, Setting(t) PROVE NamesInv' /\ SizeInv'
    <3>1. CASE SetLogPath(t)
      <4>1. want[t] \in Dirs
        BY <2>0, <3>1 DEF SetLogPath, TypeInv, CallTypes
      <4> QED  BY <3>1, <4>1, SetterLog DEF SetLogPath
    <3>2. ASSUME NEW b \in Bases, SetBaseLogName(t, b)
          PROVE  NamesInv' /\ SizeInv'
      BY <3>2, SetterLog DEF SetBaseLogName
    <3>3. ASSUME UNCHANGED logVars PROVE NamesInv' /\ SizeInv'
      BY <3>3, <2>2
    <3> QED
      BY <2>5, <3>1, <3>2, <3>3 DEF Setting, SetLogLevel, AskLogPath
  <2>6. ASSUME Tick PROVE NamesInv' /\ SizeInv'
    <3>1. now' = now + 1 /\ UNCHANGED <<dir, base, file, exists, content>>
      BY <2>6 DEF Tick, fileVars
    <3>2. /\ now \in Int /\ \A k \in exists : k[2][2] \in Int
          /\ file[2] \in Int
      BY <2>0 DEF TypeInv, FileTypes, FilesOK, Files, Names
    <3>3. NamesInv'
      BY <2>0, <3>1, <3>2 DEF NamesInv
    <3> QED  BY <2>0, <3>1, <3>3 DEF SizeInv, LogBelowLimit, Current
  <2>7. ASSUME UNCHANGED vars PROVE NamesInv' /\ SizeInv'
    BY <2>2, <2>7 DEF vars
  <2> QED  BY <2>3, <2>4, <2>5, <2>6, <2>7 DEF Next
<1> QED  BY <1>1, <1>2, PTL DEF Spec

\* Between two writes the log is below the size at which it rolls.
THEOREM LogBelowLimitHolds == Spec => []LogBelowLimit
<1>1. LogInv => LogBelowLimit
  BY DEF LogInv, SizeInv
<1> QED  BY <1>1, LogInvariant, PTL

\* A roll into a new name never empties a file: none has that name.
THEOREM RollOpensNewFileHolds == Spec => RollOpensNewFile
<1>1. ASSUME LogInv, NEW t \in Threads, Writes(t), file' # file
      PROVE  <<dir, file', 0>> \notin exists
  <2>1. file' = NameNow(base)
    BY <1>1 DEF Writes, Output, LogNow, Write, RollFile, fileVars
  <2>2. file' = <<base, now>> /\ file = <<base, file[2]>>
    BY <1>1, <2>1 DEF NameNow, LogInv, NamesInv
  <2>3. file[2] # now
    BY <1>1, <2>2
  <2> QED  BY <1>1, <2>2, <2>3 DEF LogInv, NamesInv
<1>2. LogInv /\ [Next]_vars =>
        [\A t \in Threads :
           Writes(t) /\ file' # file => <<dir, file', 0>> \notin exists]_vars
  BY <1>1
<1> QED  BY <1>2, LogInvariant, PTL DEF Spec, RollOpensNewFile

-----------------------------------------------------------------------------
(* What becomes of the lines in the files.                                 *)

\* A roll moves the lines of the log to name.1 and, if there was a name.1 but
\* no name.2, those of name.1 to name.2; it drops those of name.1 if there
\* was a name.2, and leaves all others in some file (rslog.cpp:499-509).
LEMMA RolledKeeps ==
  ASSUME FileTypes, NEW lines \in [Files -> SUBSET Lines],
         NEW i \in 1..MaxId, IsFree(i), lines[Current(i)] = {},
         NEW l, KeptIn(lines, l)
  PROVE  \/ KeptIn([Rolled(lines, i) EXCEPT ![Current(0)] = {}], l)
         \/ {Current(1), Current(2)} \subseteq exists /\ l \in lines[Current(1)]
<1> DEFINE rolled == [Rolled(lines, i) EXCEPT ![Current(0)] = {}]
<1>1. /\ Current(i) \in Files /\ Current(i - 1) \in Files
      /\ Current(0) \in Files /\ Current(1) \in Files
  BY LogAssumption DEF FileTypes, Current, Files
<1>2. \A j, m \in 0..MaxId : Current(j) = Current(m) => j = m
  BY DEF Current
<1>3. \A k \in Files : k # Current(0) => rolled[k] = Rolled(lines, i)[k]
  BY DEF Rolled
<1>4. PICK k \in Files : l \in lines[k]
  BY DEF KeptIn
<1>5. k # Current(i)
  BY <1>4
<1>6. Current(1) # Current(0) /\ (i # 1 => Current(i) # Current(0)
        /\ Current(i) # Current(1))
  BY <1>2, LogAssumption
<1> HIDE DEF rolled
<1>7. CASE k = Current(0)
  <2>1. l \in rolled[Current(1)]
    BY <1>1, <1>3, <1>4, <1>6, <1>7 DEF Rolled
  <2> QED  BY <1>1, <2>1 DEF KeptIn, rolled
<1>8. CASE k # Current(0) /\ k = Current(i - 1)
  <2>1. i # 1
    BY <1>8
  <2>2. l \in rolled[Current(i)]
    BY <1>1, <1>3, <1>4, <1>6, <1>8, <2>1 DEF Rolled
  <2> QED  BY <1>1, <2>2 DEF KeptIn, rolled
<1>9. CASE k # Current(0) /\ k # Current(i - 1) /\ k = Current(1)
  <2>1. i > 2
    BY <1>5, <1>9
  <2>2. Current(1) \in exists /\ Current(2) \in exists
    BY <2>1 DEF IsFree
  <2> QED  BY <1>4, <1>9, <2>2
<1>10. CASE k # Current(0) /\ k # Current(i - 1) /\ k # Current(1)
  <2>1. l \in rolled[k]
    BY <1>3, <1>4, <1>5, <1>10 DEF Rolled
  <2> QED  BY <2>1 DEF KeptIn, rolled
<1> QED  BY <1>7, <1>8, <1>9, <1>10

\* Opening a file loses the lines of that file only.
LEMMA ResetKeeps ==
  ASSUME NEW d, NEW f, NEW there, NEW lines \in [Files -> SUBSET Lines],
         Reset(d, f, there, lines), NEW l, KeptIn(lines, l)
  PROVE  KeptIn(content', l) \/ l \in lines[<<d, f, 0>>]
BY DEF KeptIn, Reset

\* Writing a line loses none but those of name.1 when there is a name.2.
LEMMA WriteKeeps ==
  ASSUME LogInv, NEW new \in Lines, Write(new), NEW l, KeptIn(content, l)
  PROVE  \/ KeptIn(content', l)
         \/ {Current(1), Current(2)} \subseteq exists /\ l \in content[Current(1)]
<1>0. FileTypes /\ NamesInv /\ SizeInv
  BY DEF LogInv, TypeInv
<1>1. CASE dir \notin Writable
  BY <1>1 DEF Write, fileVars
<1>2. CASE dir \in Writable
  <2> DEFINE lines == [content EXCEPT ![Current(0)] = @ \cup {new}]
  <2>1. RollFile(lines)
    BY <1>2 DEF Write
  <2>2. Current(0) \in Files /\ content \in [Files -> SUBSET Lines]
    BY <1>0, LogAssumption DEF FileTypes, FilesOK, Current, Files
  <2>3. lines \in [Files -> SUBSET Lines] /\ KeptIn(lines, l)
    BY <2>2 DEF KeptIn
  <2>4. \A k \in Files : k # Current(0) => lines[k] = content[k]
    BY <2>2
  <2> HIDE DEF lines
  <2>5. CASE ~TooBig(lines)
    BY <2>1, <2>3, <2>5 DEF RollFile
  <2>6. CASE TooBig(lines) /\ file = NameNow(base)
    <3>1. PICK i \in 1..MaxId :
            IsFree(i) /\ Reset(dir, file, Renamed(i), Rolled(lines, i))
      BY <2>1, <2>6 DEF RollFile
    <3>2. content' = [Rolled(lines, i) EXCEPT ![Current(0)] = {}]
      BY <1>2, <3>1 DEF Reset, Current
    <3>3. /\ Current(i) \in Files /\ Current(i) # Current(0)
          /\ Current(1) \in Files /\ Current(1) # Current(0)
      BY <1>0, LogAssumption DEF FileTypes, Current, Files
    <3>4. lines[Current(i)] = {}
      BY <1>0, <2>4, <3>1, <3>3 DEF IsFree, FileTypes, FilesOK
    <3> QED  BY <1>0, <2>3, <2>4, <3>1, <3>2, <3>3, <3>4, RolledKeeps
  <2>7. CASE TooBig(lines) /\ file # NameNow(base)
    <3>1. Reset(dir, NameNow(base), exists \cup {Current(0)}, lines)
      BY <2>1, <2>7 DEF RollFile
    <3>2. <<dir, NameNow(base), 0>> \in Files \ exists
      <4>1. <<dir, NameNow(base), 0>> \in Files
        BY <1>0, LogAssumption DEF FileTypes, Files, Names, NameNow
      <4>2. file[2] # now
        BY <1>0, <2>7 DEF NamesInv, NameNow
      <4> QED  BY <1>0, <4>1, <4>2 DEF NamesInv, NameNow
    <3>3. lines[<<dir, NameNow(base), 0>>] = {}
      BY <1>0, <2>4, <2>7, <3>2 DEF FileTypes, FilesOK, Current
    <3> QED  BY <2>3, <3>1, <3>3, ResetKeeps
  <2> QED  BY <2>5, <2>6, <2>7
<1> QED  BY <1>1, <1>2

\* A line that is in a file stays in a file, but for what the setters empty
\* and for name.1 when a roll finds name.1 and name.2.
THEOREM KeepsLinesHolds == Spec => KeepsLines
<1>1. ASSUME LogInv, [Next]_vars PROVE [LinesStay]_vars
  <2> SUFFICES ASSUME NEW l \in Lines, KeptIn(content, l), ~UNCHANGED vars
               PROVE  \/ KeptIn(content', l)
                      \/ /\ \E t \in Threads : Reopens(t)
                         /\ l \in content[<<dir', file', 0>>]
                      \/ /\ {Current(1), Current(2)} \subseteq exists
                         /\ l \in content[Current(1)]
    BY DEF LinesStay
  <2>0. TypeInv
    BY <1>1 DEF LogInv
  <2>1. content \in [Files -> SUBSET Lines]
    BY <2>0 DEF TypeInv, FileTypes, FilesOK
  <2>2. ASSUME NEW t \in Threads, Output(t)
        PROVE  \/ KeptIn(content', l)
               \/ /\ {Current(1), Current(2)} \subseteq exists
                  /\ l \in content[Current(1)]
    <3>1. Line(t) \in Lines
      BY <2>0, <2>2, ThreadsAssumption, BoundsAssumption
         DEF Output, Line, TypeInv, CallTypes
    <3> QED  BY <1>1, <2>2, <3>1, WriteKeeps DEF Output
  <2>3. ASSUME NEW t \in Threads, NEW lv \in Levels, LogNow(t, lv)
        PROVE  \/ KeptIn(content', l)
               \/ /\ {Current(1), Current(2)} \subseteq exists
                  /\ l \in content[Current(1)]
    <3>1. <<t, written[t] + 1>> \in Lines
      BY <2>0, <2>3, ThreadsAssumption, BoundsAssumption
         DEF LogNow, TypeInv, CallTypes
    <3> QED  BY <1>1, <2>3, <3>1, WriteKeeps DEF LogNow
  <2>4. ASSUME NEW t \in Threads, Reopens(t)
        PROVE  KeptIn(content', l) \/ l \in content[<<dir', file', 0>>]
    <3>1. CASE SetLogPath(t)
      <4>1. Reset(dir', file', exists, content)
        BY <3>1 DEF SetLogPath, ChangeLogPath
      <4> QED  BY <2>1, <4>1, ResetKeeps
    <3>2. CASE \E b \in Bases : SetBaseLogName(t, b)
      <4>1. Reset(dir', file', exists, content)
        BY <3>2 DEF SetBaseLogName, ChangeBaseLogName
      <4> QED  BY <2>1, <4>1, ResetKeeps
    <3> QED  BY <2>4, <3>1, <3>2 DEF Reopens
  <2>5. ASSUME UNCHANGED content PROVE KeptIn(content', l)
    BY <2>5
  <2>6. \/ UNCHANGED content
        \/ \E t \in Threads :
             Output(t) \/ Reopens(t) \/ \E lv \in Levels : LogNow(t, lv)
    BY <1>1
       DEF Next, Statement, BeginLine, PutText, PutNumber, PutPiece, Finish,
           Setting, SetLogLevel, AskLogPath, Reopens, Tick, logVars, fileVars
  <2> QED  BY <2>2, <2>3, <2>4, <2>5, <2>6
<1> QED  BY <1>1, LogInvariant, PTL DEF Spec, KeepsLines
=============================================================================
