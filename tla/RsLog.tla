-------------------------------- MODULE RsLog --------------------------------
(***************************************************************************)
(* The log files of RsLog: which exist, which lines each holds, and how    *)
(* writing, rolling and the setters move them.  mutex_ is held throughout  *)
(* each of the operations below, so each is one step of its caller.        *)
(*                                                                         *)
(* A file name is <<base name, second>>: host and process do not change.   *)
(* A file is <<directory, name, i>>, i = 0 for the name itself and i > 0   *)
(* for name.i; the line that reset writes at its top is not counted.       *)
(***************************************************************************)
EXTENDS Integers, FiniteSets

CONSTANTS
  Lines,     \* the lines threads may write, each written once
  Dirs,      \* directories a log path may name
  Writable,  \* those in which fopen succeeds
  Bases,     \* base file names
  MaxLog,    \* MAX_LOG_SIZE, in lines
  MaxNow,    \* bound on the clock
  MaxId      \* bound on the suffix of a rolled file

ASSUME LinesAssumption == IsFiniteSet(Lines)
ASSUME DirsAssumption == Writable \subseteq Dirs
ASSUME LogAssumption ==
  MaxLog \in Nat \ {0} /\ MaxNow \in Nat /\ MaxId \in Nat \ {0}

Names == Bases \X (0..MaxNow)
Files == Dirs \X Names \X (0..MaxId)

VARIABLES
  dir,      \* m_log_path_
  base,     \* m_base_file_name_
  file,     \* m_file_name_
  now,      \* the clock, in seconds; it never goes back
  exists,   \* the files there are
  content   \* the lines in each file, {} where there is none

fileVars == <<exists, content>>
logVars == <<dir, base, file, now, fileVars>>

\* getLogFileName
NameNow(b) == <<b, now>>
Current(i) == <<dir, file, i>>

\* reset: open with "w+", which creates or empties the file, if it can be opened
Reset(d, f, there, lines) ==
  IF d \in Writable
  THEN /\ exists' = there \cup {<<d, f, 0>>}
       /\ content' = [lines EXCEPT ![<<d, f, 0>>] = {}]
  ELSE exists' = there /\ content' = lines

InitLog ==
  /\ dir \in Dirs /\ base \in Bases /\ now = 0 /\ file = NameNow(base)
  /\ exists = IF dir \in Writable THEN {Current(0)} ELSE {}
  /\ content = [k \in Files |-> {}]

-----------------------------------------------------------------------------
(* rollFile, after the line was appended: lines is what the files hold.    *)

TooBigLate(lines) ==                  \* mutant: > instead of >=
  Cardinality(lines[Current(0)]) > MaxLog
TooBig(lines) == Cardinality(lines[Current(0)]) >= MaxLog

\* the next available name
IsFree(i) ==
  Current(i) \notin exists /\ \A j \in 1..(i-1) : Current(j) \in exists

RolledOver(lines, i) ==               \* mutant: name.1 is not moved away
  [lines EXCEPT ![Current(1)] = lines[Current(0)], ![Current(0)] = {}]

\* The loop renames the last file only, again and again: name.(i-1) becomes
\* name.i once and is then gone.  name.1 is removed, and the log becomes it.
Rolled(lines, i) ==
  [k \in Files |->
     IF k = Current(0) THEN {}
     ELSE IF k = Current(1) THEN lines[Current(0)]
     ELSE IF k = Current(i) THEN lines[Current(i - 1)]
     ELSE IF k = Current(i - 1) THEN {}
     ELSE lines[k]]

\* the files there are after the renaming; mutant: name.1 is removed last
RemovedLast(i) == (exists \cup {Current(i)}) \ {Current(1)}
Renamed(i) ==
  (exists \cup {Current(i)}) \ (IF i > 2 THEN {Current(i - 1)} ELSE {})

RollFile(lines) ==
  LET there == exists \cup {Current(0)} IN
  IF ~TooBig(lines)
  THEN exists' = there /\ content' = lines /\ UNCHANGED file
  ELSE /\ file' = NameNow(base)
       /\ \/ /\ file = NameNow(base)
             /\ \E i \in 1..MaxId :
                  /\ IsFree(i)
                  /\ Reset(dir, file, Renamed(i), Rolled(lines, i))
          \/ /\ file # NameNow(base)
             /\ Reset(dir, NameNow(base), there, lines)

\* output and sprintf: append the line to the file, if it can be opened; roll
Write(l) ==
  /\ IF dir \in Writable
     THEN RollFile([content EXCEPT ![Current(0)] = @ \cup {l}])
     ELSE UNCHANGED <<file, fileVars>>
  /\ UNCHANGED <<dir, base, now>>

-----------------------------------------------------------------------------
(* The setters; d is a path whose directories have been made.              *)

ChangeLogPath(d) ==
  /\ dir' = d
  /\ Reset(d, file, exists, content)
  /\ UNCHANGED <<base, file, now>>

ForgetBaseLogName(b) ==               \* mutant: m_base_file_name_ is not set
  /\ file' = NameNow(b)
  /\ Reset(dir, NameNow(b), exists, content)
  /\ UNCHANGED <<dir, base, now>>
ChangeBaseLogName(b) ==
  /\ base' = b /\ file' = NameNow(b)
  /\ Reset(dir, NameNow(b), exists, content)
  /\ UNCHANGED <<dir, now>>

Tick == now < MaxNow /\ now' = now + 1 /\ UNCHANGED <<dir, base, file, fileVars>>
=============================================================================
