------------------------------ MODULE RsLogger ------------------------------
(***************************************************************************)
(* Threads that log: with a macro such as RSLOG_DEBUG, whose RsLogger      *)
(* builds a line in a buffer of its own and writes it when it is           *)
(* destroyed, or with a function such as RsLog::debug, which writes at     *)
(* once; and that change the level, the path and the base name meanwhile.  *)
(***************************************************************************)
EXTENDS RsLog, FloatingBuffer

CONSTANTS
  Threads,      \* threads that log
  LinesEach,    \* bound on the lines of a thread
  Levels,       \* log levels, a set of integers
  Warn, Error,  \* two of them: macros from WARN on test no level
  Pieces,       \* lengths of the texts a statement puts into its line
  Header, Trailer, \* lengths of what RsLogger puts before and behind them
  ErrText,      \* length of the text for errno and of " (errno=" behind it
  Digits,       \* length of the line number
  MaxPieces,    \* bound on the pieces of a line
  MaxSettings   \* bound on the calls of the setters

ASSUME ThreadsAssumption == Lines = Threads \X (1..LinesEach)
ASSUME LevelsAssumption == Levels \subseteq Int /\ {Warn, Error} \subseteq Levels
ASSUME BoundsAssumption == LinesEach \in Nat /\ MaxPieces \in Nat
ASSUME LengthsAssumption ==
  /\ Pieces \subseteq Nat /\ Header \in Nat /\ Trailer \in Nat /\ ErrText \in Nat
  /\ Digits \in Nat /\ Digits < Numeric

VARIABLES
  level,     \* log_level_
  pc,        \* what each thread is doing
  written,   \* lines each thread has begun
  line,      \* the line it builds
  pieces,    \* pieces put into that line
  want,      \* the directory setLogPath is about to assign
  settings   \* calls of the setters so far

lineVars == <<line, pieces>>
threadVars == <<level, pc, written, lineVars, want, settings>>
vars == <<logVars, threadVars>>

\* a path as the caller writes it: a directory, with a slash at its end or not
Paths == [dir : Dirs, slash : BOOLEAN]
NoDir == "none"

Line(t) == <<t, written[t]>>

\* a line: its buffer, and as history the bytes of text that append has not taken
NewLine == [buf |-> NewBuffer, lost |-> 0]
WithText(ln, n) ==
  LET b == AppendText(ln.buf, n) IN
  [ln EXCEPT !.buf = b, !.lost = ln.lost + n - (b.fill - ln.buf.fill)]
WithNumber(ln) ==
  [ln EXCEPT !.buf = AppendNumber(ln.buf, Digits)]

\* finish: where the statement stands, its line number, the end of the line
Finished(ln) == WithText(WithNumber(WithText(ln, Trailer)), 1)

Init ==
  /\ InitLog
  /\ level = Warn
  /\ pc = [t \in Threads |-> "idle"] /\ written = [t \in Threads |-> 0]
  /\ line = [t \in Threads |-> NewLine] /\ pieces = [t \in Threads |-> 0]
  /\ want = [t \in Threads |-> NoDir]
  /\ settings = 0

Goto(t, label) == pc' = [pc EXCEPT ![t] = label]

-----------------------------------------------------------------------------
(* The macros.                                                             *)

\* the macros below WARN test the level first, without the mutex
MacroLogs(lv) == lv >= Warn \/ level <= lv

\* the constructor puts in time, level and thread; with RSLOG_SYSERR or RSLOG_SYSFATAL
\* errno as well, if it is set: its text, its number and ") "
Headed == WithText(NewLine, Header)
WithErrno(ln) == WithText(WithNumber(WithText(ln, ErrText)), 2)
Begun(lv) == IF lv >= Error THEN {Headed, WithErrno(Headed)} ELSE {Headed}

BeginLine(t, lv) ==
  /\ pc[t] = "idle" /\ written[t] < LinesEach /\ MacroLogs(lv)
  /\ Goto(t, "building")
  /\ written' = [written EXCEPT ![t] = written[t] + 1]
  /\ \E ln \in Begun(lv) : line' = [line EXCEPT ![t] = ln]
  /\ UNCHANGED <<logVars, level, pieces, want, settings>>

PutPiece(t, ln) ==
  /\ pc[t] = "building" /\ pieces[t] < MaxPieces
  /\ pieces' = [pieces EXCEPT ![t] = pieces[t] + 1]
  /\ line' = [line EXCEPT ![t] = ln]
  /\ UNCHANGED <<logVars, level, pc, written, want, settings>>

PutText(t, n) == PutPiece(t, WithText(line[t], n))
PutNumber(t) == PutPiece(t, WithNumber(line[t]))

\* the destructor: finish, and then output
Finish(t) ==
  /\ pc[t] = "building"
  /\ Goto(t, "built")
  /\ line' = [line EXCEPT ![t] = Finished(line[t])]
  /\ UNCHANGED <<logVars, level, pieces, written, want, settings>>

Output(t) ==
  /\ pc[t] = "built"
  /\ Write(Line(t))
  /\ Goto(t, "idle")
  /\ line' = [line EXCEPT ![t] = NewLine]
  /\ pieces' = [pieces EXCEPT ![t] = 0]
  /\ UNCHANGED <<level, written, want, settings>>

-----------------------------------------------------------------------------
(* The functions of RsLog.                                                 *)

\* trace, debug, info, warn, error, fatal: they test the level under the mutex
LogNow(t, lv) ==
  /\ pc[t] = "idle" /\ written[t] < LinesEach /\ level <= lv
  /\ written' = [written EXCEPT ![t] = written[t] + 1]
  /\ Write(<<t, written[t] + 1>>)
  /\ UNCHANGED <<level, pc, lineVars, want, settings>>

MaySet(t) ==
  /\ pc[t] = "idle" /\ settings < MaxSettings
  /\ settings' = settings + 1

SetLogLevel(t, lv) ==
  /\ MaySet(t) /\ level' = lv
  /\ UNCHANGED <<logVars, pc, written, lineVars, want>>

SetBaseLogName(t, b) ==
  /\ MaySet(t) /\ ChangeBaseLogName(b)
  /\ UNCHANGED <<level, pc, written, lineVars, want>>

\* m_log_path_ holds no slash at its end, and is read without the mutex: the
\* comparison may go either way while another thread is about to assign it
SamePath(p) == p = [dir |-> dir, slash |-> FALSE]
Assigning(t) == \E u \in Threads \ {t} : pc[u] = "setPath"

\* strtok keeps its place in a static variable, under no lock (256-264): the paths of
\* calls that overlap may come out as any others
Overlapping(t) == {t} \cup {u \in Threads : pc[u] = "setPath"}
Tokenized(t, d) == [Overlapping(t) -> IF Assigning(t) THEN Dirs ELSE {d}]

AskLogPath(t, p) ==
  /\ MaySet(t)
  /\ ~SamePath(p) \/ Assigning(t)
  /\ \E got \in Tokenized(t, p.dir) :
       want' = [u \in Threads |-> IF u \in Overlapping(t) THEN got[u] ELSE want[u]]
  /\ Goto(t, "setPath")
  /\ UNCHANGED <<logVars, level, written, lineVars>>

SetLogPath(t) ==
  /\ pc[t] = "setPath"
  /\ ChangeLogPath(want[t])
  /\ Goto(t, "idle")
  /\ want' = [want EXCEPT ![t] = NoDir]
  /\ UNCHANGED <<level, written, lineVars, settings>>

-----------------------------------------------------------------------------
Statement(t) ==
  \/ \E lv \in Levels : BeginLine(t, lv)
  \/ \E n \in Pieces : PutText(t, n)
  \/ PutNumber(t) \/ Finish(t) \/ Output(t)

Setting(t) ==
  \/ \E lv \in Levels : SetLogLevel(t, lv)
  \/ \E b \in Bases : SetBaseLogName(t, b)
  \/ \E p \in Paths : AskLogPath(t, p)
  \/ SetLogPath(t)

Next ==
  \/ \E t \in Threads :
       Statement(t) \/ (\E lv \in Levels : LogNow(t, lv)) \/ Setting(t)
  \/ Tick /\ UNCHANGED threadVars

Spec == Init /\ [][Next]_vars

-----------------------------------------------------------------------------
(* Properties.                                                             *)

\* Types; and a line is only in a file that exists (rslog.cpp:297-313, 394,
\* 500-512): renaming moves the lines together with the name.
TypeOK ==
  /\ dir \in Dirs /\ base \in Bases /\ file \in Names /\ now \in 0..MaxNow
  /\ exists \subseteq Files
  /\ content \in [Files -> SUBSET Lines]
  /\ \A k \in Files \ exists : content[k] = {}
  /\ level \in Levels /\ settings \in Nat
  /\ pc \in [Threads -> {"idle", "building", "built", "setPath"}]
  /\ written \in [Threads -> 0..LinesEach]
  /\ line \in [Threads -> [buf : Buffer, lost : Nat]]
  /\ pieces \in [Threads -> 0..MaxPieces]
  /\ want \in [Threads -> Dirs \cup {NoDir}]
  /\ \A t \in Threads : pc[t] = "setPath" => want[t] \in Dirs

\* A buffer is never written past its end, grows no further than its last
\* size, and until then data() ends with a zero, so that output prints the
\* line and nothing else (floatingbuffer.cpp:52-105, logstream.cpp:68-77).
LinesPrintable == \A t \in Threads : WithinBounds(line[t].buf)

\* append drops bytes only when the buffer has its last size and is full
\* (floatingbuffer.cpp:60-74): growing once always makes room enough.
TextKept == \A t \in Threads : line[t].lost > 0 => Full(line[t].buf)

\* A line that is in some file stays in a file, but for two mistakes: opening
\* a file that is there with "w+" empties it (rslog.cpp:305, from the setters),
\* and a roll that finds name.1 and name.2 removes name.1 (rslog.cpp:499-508).
\* Rolling never loses the lines of the log itself.
KeptIn(c, l) == \E k \in Files : l \in c[k]
Reopens(t) == SetLogPath(t) \/ \E b \in Bases : SetBaseLogName(t, b)
LinesStay ==
  \A l \in Lines : KeptIn(content, l) =>
    \/ KeptIn(content', l)
    \/ (\E t \in Threads : Reopens(t)) /\ l \in content[<<dir', file', 0>>]
    \/ {Current(1), Current(2)} \subseteq exists /\ l \in content[Current(1)]
KeepsLines == [][LinesStay]_vars

\* When the log rolls into a new name there is no file of that name yet: what
\* reset opens with "w+" holds nothing (rslog.cpp:474, 511-512).
Writes(t) == Output(t) \/ \E lv \in Levels : LogNow(t, lv)
RollOpensNewFile ==
  [][\A t \in Threads :
       Writes(t) /\ file' # file => <<dir, file', 0>> \notin exists]_vars

\* Between two writes the log is below the size at which it rolls
\* (rslog.cpp:472): every write that reaches the size rolls.
LogBelowLimit == Cardinality(content[Current(0)]) < MaxLog
=============================================================================
