---------------------------- MODULE Logger_proofs ----------------------------
(***************************************************************************)
(* Proofs about Logger, for any number of instances of the program and of  *)
(* cycles.                                                                 *)
(***************************************************************************)
EXTENDS Logger, TLAPS

Places == {"not logged", "console", "buffer", "file", "truncated", "lost"}

Labels == {"check", "create", "open", "run", "broken", "ended", "failed", "terminated",
           "killed"}

\* Where the lines are that a death could cost, and those that one has cost.  LossBounded
\* is not inductive without it: Die turns the one into the other.
AtRisk ==
  \A i \in Instances, l \in Lines :
    /\ lines[i][l] = "buffer" =>
         l = Line(i, "info") /\ default_logger[i] = "rtek" /\ pc[i] = "run"
    /\ lines[i][l] = "lost" =>
         l = Line(i, "info") /\ default_logger[i] = "rtek" /\ pc[i] = "killed"

IInv == TypeOK /\ InitializedHasLogger /\ AtRisk

LEMMA LineTyped ==
  ASSUME TypeOK, NEW i \in Instances, NEW level \in {"info", "err"}
  PROVE  Line(i, level) \in Lines /\ Line(i, level).level = level
BY DEF TypeOK, Line, Lines

\* Moving lines from one place to another adds none to any third place.
LEMMA MovedFacts ==
  ASSUME NEW of \in [Lines -> Places], NEW from, NEW to \in Places
  PROVE  /\ Moved(of, from, to) \in [Lines -> Places]
         /\ \A l \in Lines : Moved(of, from, to)[l] = IF of[l] = from THEN to ELSE of[l]
BY DEF Moved

\* A line that is logged joins the buffer only if it is no error and there is a logger; an
\* error empties the buffer; and no line is lost by logging.
LEMMA LoggedFacts ==
  ASSUME TypeOK, InitializedHasLogger, NEW i \in Instances, NEW l \in Lines
  PROVE  /\ Logged(i, l) \in [Lines -> Places]
         /\ \A k \in Lines :
              /\ Logged(i, l)[k] = "lost" => lines[i][k] = "lost"
              /\ Logged(i, l)[k] = "buffer" =>
                   \/ lines[i][k] = "buffer"
                   \/ k = l /\ s_initialized[i]
              /\ Logged(i, l)[k] = "buffer" /\ s_initialized[i] => l.level # "err"
<1>1. lines[i] \in [Lines -> Places] /\ "console" \in Places /\ "buffer" \in Places
      /\ "file" \in Places
  BY DEF TypeOK, Places
<1>2. CASE ~s_initialized[i]
  BY <1>1, <1>2 DEF Logged
<1>3. CASE s_initialized[i]
  <2>1. default_logger[i] # "none"
    BY <1>3 DEF InitializedHasLogger
  <2>2. CASE l.level = "err"
    <3> DEFINE moved == Moved(lines[i], "buffer", "file")
    <3>1. /\ moved \in [Lines -> Places]
          /\ \A k \in Lines : moved[k] = IF lines[i][k] = "buffer" THEN "file" ELSE lines[i][k]
      BY <1>1, MovedFacts
    <3>2. Logged(i, l) = [moved EXCEPT ![l] = "file"]
      BY <1>3, <2>1, <2>2 DEF Logged
    <3> HIDE DEF moved
    <3>3. QED
      BY <1>1, <3>1, <3>2
  <2>3. CASE l.level # "err"
    <3>1. Logged(i, l) = [lines[i] EXCEPT ![l] = "buffer"]
      BY <1>3, <2>1, <2>3 DEF Logged
    <3>2. QED
      BY <1>1, <1>3, <2>3, <3>1
  <2>4. QED
    BY <2>2, <2>3
<1>4. QED
  BY <1>2, <1>3

\* What an action has to show of the one instance it is an action of.
LEMMA OneInstance ==
  ASSUME IInv, NEW i \in Instances, TypeOK', InitializedHasLogger',
         \A j \in Instances \ {i} :
           /\ pc'[j] = pc[j] /\ default_logger'[j] = default_logger[j]
           /\ cycle'[j] = cycle[j]
           /\ lines'[j] = lines[j] \/ lines'[j] = Moved(lines[j], "file", "truncated"),
         \A l \in Lines :
           /\ lines'[i][l] = "buffer" =>
                l = Line(i, "info")' /\ default_logger'[i] = "rtek" /\ pc'[i] = "run"
           /\ lines'[i][l] = "lost" =>
                l = Line(i, "info")' /\ default_logger'[i] = "rtek" /\ pc'[i] = "killed"
  PROVE  IInv'
<1>1. ASSUME NEW j \in Instances \ {i}, NEW l \in Lines
      PROVE  /\ lines'[j][l] = "buffer" => lines[j][l] = "buffer"
             /\ lines'[j][l] = "lost" => lines[j][l] = "lost"
  <2>1. lines[j] \in [Lines -> Places] /\ "truncated" \in Places
    BY DEF IInv, TypeOK, Places
  <2>2. QED
    BY <2>1, MovedFacts
<1>2. \A j \in Instances \ {i} : Line(j, "info")' = Line(j, "info")
  BY DEF Line
<1>3. QED
  BY <1>1, <1>2 DEF IInv, AtRisk

\* An instance that is not running has nothing in its buffer, and one that has not died has
\* lost nothing.
LEMMA NothingAtRisk ==
  ASSUME IInv, NEW i \in Instances, NEW l \in Lines
  PROVE  /\ pc[i] # "run" => lines[i][l] # "buffer"
         /\ pc[i] # "killed" => lines[i][l] # "lost"
         /\ ~s_initialized[i] => lines[i][l] # "buffer"
BY DEF IInv, AtRisk, InitializedHasLogger

LEMMA InitIInv == Init => IInv
<1> SUFFICES ASSUME Init
             PROVE  IInv
  OBVIOUS
<1>1. TypeOK
  <2>1. 0 \in 0..MaxCycles
    BY MaxCyclesAssumption
  <2>2. QED
    BY <2>1 DEF Init, TypeOK
<1>2. InitializedHasLogger
  BY DEF Init, InitializedHasLogger
<1>3. AtRisk
  BY DEF Init, AtRisk
<1>4. QED
  BY <1>1, <1>2, <1>3 DEF IInv

\* LogExit is a line with the level of an error.
LEMMA LogExitFacts ==
  ASSUME IInv, NEW i \in Instances, LogExit(i)
  PROVE  /\ lines' \in [Instances -> [Lines -> Places]]
         /\ \A j \in Instances \ {i} : lines'[j] = lines[j]
         /\ \A l \in Lines :
              lines'[i][l] # "buffer" /\ (lines'[i][l] = "lost" => lines[i][l] = "lost")
<1>1. Line(i, "err") \in Lines /\ Line(i, "err").level = "err"
  BY LineTyped DEF IInv
<1>2. lines \in [Instances -> [Lines -> Places]]
  BY DEF IInv, TypeOK, Places
<1>3. lines' = [lines EXCEPT ![i] = Logged(i, Line(i, "err"))]
  BY DEF LogExit
<1>4. /\ Logged(i, Line(i, "err")) \in [Lines -> Places]
      /\ \A k \in Lines :
           /\ Logged(i, Line(i, "err"))[k] = "lost" => lines[i][k] = "lost"
           /\ Logged(i, Line(i, "err"))[k] = "buffer" =>
                lines[i][k] = "buffer" \/ (k = Line(i, "err") /\ s_initialized[i])
           /\ ~(Logged(i, Line(i, "err"))[k] = "buffer" /\ s_initialized[i])
  BY <1>1, LoggedFacts DEF IInv
<1>5. \A k \in Lines : Logged(i, Line(i, "err"))[k] # "buffer"
  BY <1>4, NothingAtRisk
<1>6. QED
  BY <1>2, <1>3, <1>4, <1>5

LEMMA GotoFacts ==
  ASSUME IInv, NEW i \in Instances, NEW label \in Labels, Goto(i, label)
  PROVE  /\ pc' \in [Instances -> Labels]
         /\ pc'[i] = label
         /\ \A j \in Instances \ {i} : pc'[j] = pc[j]
BY DEF Goto, IInv, TypeOK, Labels

\* A step of the start logs an error or nothing.
LEMMA StartLogs ==
  ASSUME IInv, NEW i \in Instances, pc[i] \notin {"run", "killed"},
         LogExit(i) \/ UNCHANGED lines
  PROVE  /\ lines' \in [Instances -> [Lines -> Places]]
         /\ \A j \in Instances \ {i} : lines'[j] = lines[j]
         /\ \A l \in Lines : lines'[i][l] # "buffer" /\ lines'[i][l] # "lost"
<1>1. CASE LogExit(i)
  BY <1>1, LogExitFacts, NothingAtRisk
<1>2. CASE UNCHANGED lines
  BY <1>2, NothingAtRisk DEF IInv, TypeOK, Places
<1>3. QED
  BY <1>1, <1>2

-----------------------------------------------------------------------------

LEMMA CheckDirectoryStep ==
  ASSUME IInv, NEW i \in Instances, CheckDirectory(i)
  PROVE  IInv'
<1>1. PICK label \in Labels : Goto(i, label) /\ label \in {"failed", "open", "create"}
  BY DEF CheckDirectory, Labels
<1>2. pc[i] = "check" /\ (LogExit(i) \/ UNCHANGED lines)
      /\ UNCHANGED <<dir, writable, s_initialized, default_logger, cycle>>
  BY DEF CheckDirectory
<1>3. /\ pc' \in [Instances -> Labels]
      /\ \A j \in Instances \ {i} : pc'[j] = pc[j]
  BY <1>1, GotoFacts
<1>4. /\ lines' \in [Instances -> [Lines -> Places]]
      /\ \A j \in Instances \ {i} : lines'[j] = lines[j]
      /\ \A l \in Lines : lines'[i][l] # "buffer" /\ lines'[i][l] # "lost"
  BY <1>2, StartLogs
<1>5. TypeOK' /\ InitializedHasLogger'
  BY <1>2, <1>3, <1>4 DEF IInv, TypeOK, InitializedHasLogger, Places, Labels
<1>6. QED
  BY <1>2, <1>3, <1>4, <1>5, OneInstance

LEMMA CreateDirectoryStep ==
  ASSUME IInv, NEW i \in Instances, CreateDirectory(i)
  PROVE  IInv'
<1>1. PICK label \in Labels : Goto(i, label) /\ label \in {"failed", "open"}
  BY DEF CreateDirectory, Labels
<1>2. pc[i] = "create" /\ (LogExit(i) \/ UNCHANGED lines)
      /\ UNCHANGED <<writable, s_initialized, default_logger, cycle>>
      /\ dir' \in {"absent", "directory", "file"}
  BY DEF CreateDirectory, create_directory, IInv, TypeOK
<1>3. /\ pc' \in [Instances -> Labels]
      /\ \A j \in Instances \ {i} : pc'[j] = pc[j]
  BY <1>1, GotoFacts
<1>4. /\ lines' \in [Instances -> [Lines -> Places]]
      /\ \A j \in Instances \ {i} : lines'[j] = lines[j]
      /\ \A l \in Lines : lines'[i][l] # "buffer" /\ lines'[i][l] # "lost"
  BY <1>2, StartLogs
<1>5. TypeOK' /\ InitializedHasLogger'
  BY <1>2, <1>3, <1>4 DEF IInv, TypeOK, InitializedHasLogger, Places, Labels
<1>6. QED
  BY <1>2, <1>3, <1>4, <1>5, OneInstance

LEMMA OpenFileStep ==
  ASSUME IInv, NEW i \in Instances, OpenFile(i)
  PROVE  IInv'
<1>1. PICK label \in Labels : Goto(i, label) /\ label \in {"run", "terminated"}
  BY DEF OpenFile, Labels
<1>2. pc[i] = "open" /\ UNCHANGED <<dir, writable, cycle>>
  BY DEF OpenFile
<1>3. /\ pc' \in [Instances -> Labels]
      /\ \A j \in Instances \ {i} : pc'[j] = pc[j]
  BY <1>1, GotoFacts
<1>4. CASE /\ default_logger' = [default_logger EXCEPT ![i] = "rtek"]
           /\ s_initialized' = [s_initialized EXCEPT ![i] = TRUE]
           /\ lines' = [j \in Instances |-> Moved(lines[j], "file", "truncated")]
  <2>1. \A j \in Instances :
          /\ lines'[j] \in [Lines -> Places]
          /\ \A l \in Lines :
               lines'[j][l] = IF lines[j][l] = "file" THEN "truncated" ELSE lines[j][l]
    <3>1. \A j \in Instances : lines[j] \in [Lines -> Places]
      BY DEF IInv, TypeOK, Places
    <3>2. "truncated" \in Places
      BY DEF Places
    <3>3. QED
      BY <1>4, <3>1, <3>2, MovedFacts
  <2>2. lines' \in [Instances -> [Lines -> Places]]
    BY <1>4, <2>1
  <2>3. TypeOK' /\ InitializedHasLogger'
    BY <1>2, <1>3, <1>4, <2>2 DEF IInv, TypeOK, InitializedHasLogger, Places, Labels
  <2>4. \A l \in Lines : lines'[i][l] # "buffer" /\ lines'[i][l] # "lost"
    BY <1>2, <2>1, NothingAtRisk
  <2>5. \A j \in Instances \ {i} : default_logger'[j] = default_logger[j]
    BY <1>4 DEF IInv, TypeOK
  <2>6. \A j \in Instances \ {i} : lines'[j] = Moved(lines[j], "file", "truncated")
    BY <1>4
  <2>7. QED
    BY <1>2, <1>3, <2>3, <2>4, <2>5, <2>6, OneInstance
<1>5. CASE UNCHANGED <<default_logger, s_initialized, lines>>
  <2>1. TypeOK' /\ InitializedHasLogger'
    BY <1>2, <1>3, <1>5 DEF IInv, TypeOK, InitializedHasLogger, Labels
  <2>2. \A l \in Lines : lines'[i][l] # "buffer" /\ lines'[i][l] # "lost"
    BY <1>2, <1>5, NothingAtRisk
  <2>3. QED
    BY <1>2, <1>3, <1>5, <2>1, <2>2, OneInstance
<1>6. QED
  BY <1>4, <1>5 DEF OpenFile

LEMMA LogStep ==
  ASSUME IInv, NEW i \in Instances, Log(i)
  PROVE  IInv'
<1>1. PICK level \in {"info", "err"} :
        lines' = [lines EXCEPT ![i] = Logged(i, Line(i, level))]
  BY DEF Log
<1>2. pc[i] = "run" /\ UNCHANGED <<dir, writable, pc, s_initialized, default_logger, cycle>>
  BY DEF Log
<1>3. Line(i, level) \in Lines /\ Line(i, level).level = level
  BY LineTyped DEF IInv
<1>4. /\ Logged(i, Line(i, level)) \in [Lines -> Places]
      /\ \A k \in Lines :
           /\ Logged(i, Line(i, level))[k] = "lost" => lines[i][k] = "lost"
           /\ Logged(i, Line(i, level))[k] = "buffer" =>
                lines[i][k] = "buffer" \/ (k = Line(i, level) /\ s_initialized[i])
           /\ Logged(i, Line(i, level))[k] = "buffer" /\ s_initialized[i] => level # "err"
  BY <1>3, LoggedFacts DEF IInv
<1>5. /\ lines' \in [Instances -> [Lines -> Places]]
      /\ lines'[i] = Logged(i, Line(i, level))
      /\ \A j \in Instances \ {i} : lines'[j] = lines[j]
  BY <1>1, <1>4 DEF IInv, TypeOK, Places
<1>6. TypeOK' /\ InitializedHasLogger'
  BY <1>2, <1>5 DEF IInv, TypeOK, InitializedHasLogger, Places
<1>7. ASSUME NEW l \in Lines, lines'[i][l] = "buffer"
      PROVE  l = Line(i, "info") /\ default_logger[i] = "rtek"
  <2>1. CASE lines[i][l] = "buffer"
    BY <2>1 DEF IInv, AtRisk
  <2>2. CASE lines[i][l] # "buffer"
    <3>1. l = Line(i, level) /\ s_initialized[i] /\ level # "err"
      BY <1>4, <1>5, <1>7, <2>2
    <3>2. QED
      BY <3>1 DEF IInv, InitializedHasLogger
  <2>3. QED
    BY <2>1, <2>2
<1>8. \A l \in Lines : lines'[i][l] # "lost"
  BY <1>2, <1>4, <1>5, NothingAtRisk
<1>9. Line(i, "info")' = Line(i, "info")
  BY <1>2 DEF Line
<1>10. QED
  BY <1>2, <1>5, <1>6, <1>7, <1>8, <1>9, OneInstance

\* What a step does that moves the lines of one instance out of the buffer.
LEMMA EmptyBuffer ==
  ASSUME IInv, NEW i \in Instances, NEW to \in Places \ {"buffer"},
         lines' = [lines EXCEPT ![i] = Moved(lines[i], "buffer", to)]
  PROVE  /\ lines' \in [Instances -> [Lines -> Places]]
         /\ \A j \in Instances \ {i} : lines'[j] = lines[j]
         /\ \A l \in Lines :
              lines'[i][l] = IF lines[i][l] = "buffer" THEN to ELSE lines[i][l]
<1>1. lines \in [Instances -> [Lines -> Places]]
  BY DEF IInv, TypeOK, Places
<1>2. /\ Moved(lines[i], "buffer", to) \in [Lines -> Places]
      /\ \A l \in Lines : Moved(lines[i], "buffer", to)[l]
                              = IF lines[i][l] = "buffer" THEN to ELSE lines[i][l]
  BY <1>1, MovedFacts
<1>3. QED
  BY <1>1, <1>2

\* A flush of an instance that has not died leaves nothing at risk.
LEMMA FlushFacts ==
  ASSUME IInv, NEW i \in Instances, pc[i] # "killed",
         lines' = [lines EXCEPT ![i] = Moved(lines[i], "buffer", "file")]
  PROVE  /\ lines' \in [Instances -> [Lines -> Places]]
         /\ \A j \in Instances \ {i} : lines'[j] = lines[j]
         /\ \A l \in Lines : lines'[i][l] # "buffer" /\ lines'[i][l] # "lost"
<1>1. "file" \in Places \ {"buffer"}
  BY DEF Places
<1>2. /\ lines' \in [Instances -> [Lines -> Places]]
      /\ \A j \in Instances \ {i} : lines'[j] = lines[j]
      /\ \A l \in Lines :
           lines'[i][l] = IF lines[i][l] = "buffer" THEN "file" ELSE lines[i][l]
  BY <1>1, EmptyBuffer
<1>3. QED
  BY <1>2, NothingAtRisk

LEMMA SpillStep ==
  ASSUME IInv, NEW i \in Instances, Spill(i)
  PROVE  IInv'
<1>1. pc[i] = "run" /\ UNCHANGED <<dir, writable, pc, s_initialized, default_logger, cycle>>
  BY DEF Spill
<1>2. /\ lines' \in [Instances -> [Lines -> Places]]
      /\ \A j \in Instances \ {i} : lines'[j] = lines[j]
      /\ \A l \in Lines : lines'[i][l] # "buffer" /\ lines'[i][l] # "lost"
  BY <1>1, FlushFacts DEF Spill
<1>3. TypeOK' /\ InitializedHasLogger'
  BY <1>1, <1>2 DEF IInv, TypeOK, InitializedHasLogger, Places
<1>4. QED
  BY <1>1, <1>2, <1>3, OneInstance

LEMMA FinishCycleStep ==
  ASSUME IInv, NEW i \in Instances, FinishCycle(i)
  PROVE  IInv'
<1>1. /\ pc[i] = "run" /\ cycle[i] < MaxCycles
      /\ cycle' = [cycle EXCEPT ![i] = cycle[i] + 1]
      /\ UNCHANGED <<dir, writable, pc, s_initialized, default_logger>>
  BY DEF FinishCycle
<1>2. /\ lines' \in [Instances -> [Lines -> Places]]
      /\ \A j \in Instances \ {i} : lines'[j] = lines[j]
      /\ \A l \in Lines : lines'[i][l] # "buffer" /\ lines'[i][l] # "lost"
  <2>1. CASE s_initialized[i]
    <3>1. lines' = [lines EXCEPT ![i] = Moved(lines[i], "buffer", "file")]
      BY <2>1 DEF FinishCycle, Flushed
    <3>2. QED
      BY <1>1, <3>1, FlushFacts
  <2>2. CASE ~s_initialized[i]
    <3>1. lines' = lines
      BY <2>2 DEF FinishCycle, Flushed, IInv, TypeOK
    <3>2. QED
      BY <1>1, <2>2, <3>1, NothingAtRisk DEF IInv, TypeOK, Places
  <2>3. QED
    BY <2>1, <2>2
<1>3. cycle' \in [Instances -> 0..MaxCycles] /\ \A j \in Instances \ {i} : cycle'[j] = cycle[j]
  <2>1. cycle \in [Instances -> 0..MaxCycles]
    BY DEF IInv, TypeOK
  <2>2. cycle[i] + 1 \in 0..MaxCycles
    BY <1>1, <2>1, MaxCyclesAssumption
  <2>3. QED
    BY <1>1, <2>1, <2>2
<1>4. TypeOK' /\ InitializedHasLogger'
  BY <1>1, <1>2, <1>3 DEF IInv, TypeOK, InitializedHasLogger, Places
<1>5. QED
  BY <1>1, <1>2, <1>3, <1>4, OneInstance

LEMMA ExitStep ==
  ASSUME IInv, NEW i \in Instances, Exit(i)
  PROVE  IInv'
<1>1. pc[i] = "run" /\ UNCHANGED <<dir, writable, s_initialized, default_logger, cycle>>
  BY DEF Exit
<1>2. pc' \in [Instances -> Labels] /\ \A j \in Instances \ {i} : pc'[j] = pc[j]
  BY GotoFacts DEF Exit, Labels
<1>3. /\ lines' \in [Instances -> [Lines -> Places]]
      /\ \A j \in Instances \ {i} : lines'[j] = lines[j]
      /\ \A l \in Lines : lines'[i][l] # "buffer" /\ lines'[i][l] # "lost"
  <2>1. CASE lines' = [lines EXCEPT ![i] = Moved(lines[i], "buffer", "file")]
    BY <1>1, <2>1, FlushFacts
  <2>2. CASE LogExit(i)
    BY <1>1, <2>2, LogExitFacts, NothingAtRisk
  <2>3. QED
    BY <2>1, <2>2 DEF Exit
<1>4. TypeOK' /\ InitializedHasLogger'
  BY <1>1, <1>2, <1>3 DEF IInv, TypeOK, InitializedHasLogger, Places, Labels
<1>5. QED
  BY <1>1, <1>2, <1>3, <1>4, OneInstance

LEMMA AssertionFailsStep ==
  ASSUME IInv, NEW i \in Instances, AssertionFails(i)
  PROVE  IInv'
<1> DEFINE logged == Logged(i, Line(i, "err"))
<1>1. /\ pc[i] = "run" /\ UNCHANGED <<dir, writable, cycle>>
      /\ lines' = [lines EXCEPT ![i] = Moved(logged, "buffer", "file")]
      /\ default_logger' = [default_logger EXCEPT ![i] = "none"]
      /\ s_initialized' = [s_initialized EXCEPT ![i] = FALSE]
  BY DEF AssertionFails
<1>2. pc' \in [Instances -> Labels] /\ \A j \in Instances \ {i} : pc'[j] = pc[j]
  BY GotoFacts DEF AssertionFails, Labels
<1>3. logged \in [Lines -> Places] /\ \A l \in Lines : logged[l] = "lost" => lines[i][l] = "lost"
  BY LineTyped, LoggedFacts DEF IInv
<1>4. "file" \in Places
  BY DEF Places
<1>5. /\ Moved(logged, "buffer", "file") \in [Lines -> Places]
      /\ \A l \in Lines : Moved(logged, "buffer", "file")[l]
                              = IF logged[l] = "buffer" THEN "file" ELSE logged[l]
  BY <1>3, <1>4, MovedFacts
<1> HIDE DEF logged
<1>6. lines \in [Instances -> [Lines -> Places]]
  BY DEF IInv, TypeOK, Places
<1>7. /\ lines' \in [Instances -> [Lines -> Places]]
      /\ lines'[i] = Moved(logged, "buffer", "file")
      /\ \A j \in Instances \ {i} : lines'[j] = lines[j]
  BY <1>1, <1>5, <1>6
<1>8. \A l \in Lines : lines'[i][l] # "buffer" /\ lines'[i][l] # "lost"
  BY <1>1, <1>3, <1>5, <1>7, NothingAtRisk
<1>9. TypeOK' /\ InitializedHasLogger'
  BY <1>1, <1>2, <1>7 DEF IInv, TypeOK, InitializedHasLogger, Places, Labels
<1>10. \A j \in Instances \ {i} : default_logger'[j] = default_logger[j]
  BY <1>1 DEF IInv, TypeOK
<1>11. QED
  BY <1>1, <1>2, <1>7, <1>8, <1>9, <1>10, OneInstance

LEMMA ContinueStep ==
  ASSUME IInv, NEW i \in Instances, Continue(i)
  PROVE  IInv'
<1>1. pc[i] = "broken" /\ UNCHANGED <<dir, writable, s_initialized, default_logger, cycle, lines>>
  BY DEF Continue
<1>2. pc' \in [Instances -> Labels] /\ \A j \in Instances \ {i} : pc'[j] = pc[j]
  BY GotoFacts DEF Continue, Labels
<1>3. TypeOK' /\ InitializedHasLogger'
  BY <1>1, <1>2 DEF IInv, TypeOK, InitializedHasLogger, Labels
<1>4. \A l \in Lines : lines'[i][l] # "buffer" /\ lines'[i][l] # "lost"
  BY <1>1, NothingAtRisk
<1>5. QED
  BY <1>1, <1>2, <1>3, <1>4, OneInstance

LEMMA DieStep ==
  ASSUME IInv, NEW i \in Instances, Die(i)
  PROVE  IInv'
<1>1. /\ pc[i] \in {"run", "broken"}
      /\ lines' = [lines EXCEPT ![i] = Moved(lines[i], "buffer", "lost")]
      /\ UNCHANGED <<dir, writable, s_initialized, default_logger, cycle>>
  BY DEF Die
<1>2. /\ pc' \in [Instances -> Labels] /\ pc'[i] = "killed"
      /\ \A j \in Instances \ {i} : pc'[j] = pc[j]
  BY GotoFacts DEF Die, Labels
<1>3. "lost" \in Places \ {"buffer"}
  BY DEF Places
<1>4. /\ lines' \in [Instances -> [Lines -> Places]]
      /\ \A j \in Instances \ {i} : lines'[j] = lines[j]
      /\ \A l \in Lines :
           lines'[i][l] = IF lines[i][l] = "buffer" THEN "lost" ELSE lines[i][l]
  BY <1>1, <1>3, EmptyBuffer
<1>5. TypeOK' /\ InitializedHasLogger'
  BY <1>1, <1>2, <1>4 DEF IInv, TypeOK, InitializedHasLogger, Places, Labels
<1>6. ASSUME NEW l \in Lines
      PROVE  /\ lines'[i][l] # "buffer"
             /\ lines'[i][l] = "lost" => l = Line(i, "info") /\ default_logger[i] = "rtek"
  <2>1. lines[i][l] # "lost"
    BY <1>1, NothingAtRisk
  <2>2. lines[i][l] = "buffer" => l = Line(i, "info") /\ default_logger[i] = "rtek"
    BY DEF IInv, AtRisk
  <2>3. QED
    BY <1>4, <2>1, <2>2
<1>7. Line(i, "info")' = Line(i, "info")
  BY <1>1 DEF Line
<1>8. QED
  BY <1>1, <1>2, <1>4, <1>5, <1>6, <1>7, OneInstance

LEMMA NextIInv == IInv /\ [Next]_vars => IInv'
<1> SUFFICES ASSUME IInv, [Next]_vars
             PROVE  IInv'
  OBVIOUS
<1>1. CASE Next
  BY <1>1, CheckDirectoryStep, CreateDirectoryStep, OpenFileStep, LogStep, SpillStep,
     FinishCycleStep, ExitStep, AssertionFailsStep, ContinueStep, DieStep DEF Next
<1>2. CASE UNCHANGED vars
  BY <1>2 DEF vars, IInv, TypeOK, InitializedHasLogger, AtRisk, Line
<1>3. QED
  BY <1>1, <1>2

LEMMA SpecIInv == Spec => []IInv
BY InitIInv, NextIInv, PTL DEF Spec

\* Every instance is somewhere in its program and every line in one place, for any number
\* of instances.
THEOREM LoggerTypeCorrect == Spec => []TypeOK
BY SpecIInv, PTL DEF IInv

\* s_initialized is set exactly while the program's own logger is in place, through every
\* start, failed assertion and exit.
THEOREM InitializedMeansLogger == Spec => []InitializedHasLogger
BY SpecIInv, PTL DEF IInv

\* What a death costs: no error, no line of a finished cycle, and nothing after a failed
\* assertion.
THEOREM LossIsBounded == Spec => []LossBounded
<1>1. IInv => LossBounded
  BY DEF IInv, AtRisk, LossBounded
<1>2. QED
  BY <1>1, SpecIInv, PTL

-----------------------------------------------------------------------------
(***************************************************************************)
(* The race for the directory, on Windows                                  *)
(***************************************************************************)

\* Where an instance is that has come through the race.
Through == {"open", "run", "broken", "ended", "killed"}

\* RaceHasWinner speaks of instances that have failed; one at "create" may be about to, and
\* the directory tells that somebody has made it.
WinnerExists ==
  /\ \A i \in Instances : pc[i] = "terminated" => dir = "file" \/ ~writable
  /\ writable /\ dir = "absent" => \A i \in Instances : pc[i] \in {"check", "create"}
  /\ writable /\ dir = "directory" =>
       \A i \in Instances : pc[i] \in {"create", "failed"} =>
         \E j \in Instances \ {i} : pc[j] \in Through

\* A step of an instance that leaves the directory alone keeps the winner, if the instance
\* gets through the race or does not come to where it needs one.
LEMMA WinnerStays ==
  ASSUME TypeOK, WinnerExists, NEW i \in Instances, NEW label \in Labels, Goto(i, label),
         UNCHANGED <<dir, writable>>,
         pc[i] \in Through => label \in Through \union {"terminated"},
         label = "terminated" => dir = "file" \/ ~writable,
         writable /\ dir = "absent" => label \in {"check", "create"},
         writable /\ dir = "directory" /\ label \in {"create", "failed"} =>
           pc[i] \in {"create", "failed"}
  PROVE  WinnerExists'
<1>1. /\ pc'[i] = label
      /\ \A j \in Instances \ {i} : pc'[j] = pc[j]
  BY DEF Goto, TypeOK
<1>2. \A j \in Instances : pc'[j] = "terminated" => dir = "file" \/ ~writable
  BY <1>1 DEF WinnerExists
<1>3. writable /\ dir = "absent" => \A j \in Instances : pc'[j] \in {"check", "create"}
  BY <1>1 DEF WinnerExists
<1>4. ASSUME writable, dir = "directory", NEW j \in Instances,
             pc'[j] \in {"create", "failed"}
      PROVE  \E k \in Instances \ {j} : pc'[k] \in Through
  <2>1. pc[j] \in {"create", "failed"}
    BY <1>1, <1>4
  <2>2. PICK k \in Instances \ {j} : pc[k] \in Through
    BY <1>4, <2>1 DEF WinnerExists
  <2>3. pc'[k] \in Through
    BY <1>1, <1>4, <2>2
  <2>4. QED
    BY <2>3
<1>5. QED
  BY <1>2, <1>3, <1>4 DEF WinnerExists

LEMMA NextWinner ==
  ASSUME System = "windows", TypeOK, WinnerExists, [Next]_vars
  PROVE  WinnerExists'
<1> USE DEF Labels, Through
<1>1. ASSUME NEW i \in Instances, CheckDirectory(i)
      PROVE  WinnerExists'
  <2>1. /\ pc[i] = "check" /\ UNCHANGED <<dir, writable>>
        /\ Goto(i, IF dir = "directory" THEN "open" ELSE "create")
    BY <1>1 DEF CheckDirectory, directory_exists
  <2>2. CASE dir = "directory"
    <3>1. Goto(i, "open")
      BY <2>1, <2>2
    <3>2. QED
      BY <2>1, <2>2, <3>1, WinnerStays
  <2>3. CASE dir # "directory"
    <3>1. Goto(i, "create")
      BY <2>1, <2>3
    <3>2. QED
      BY <2>1, <2>3, <3>1, WinnerStays
  <2>4. QED
    BY <2>2, <2>3
<1>2. ASSUME NEW i \in Instances, CreateDirectory(i)
      PROVE  WinnerExists'
  <2>1. pc[i] = "create" /\ UNCHANGED writable
    BY <1>2 DEF CreateDirectory
  <2>2. CASE dir = "absent" /\ writable
    <3>1. dir' = "directory" /\ Goto(i, "open")
      BY <1>2, <2>2 DEF CreateDirectory, create_directory, directory_exists
    <3>2. pc'[i] = "open" /\ \A j \in Instances \ {i} : pc'[j] = pc[j]
      BY <3>1 DEF Goto, TypeOK
    <3>3. \A j \in Instances : pc'[j] \in {"check", "create", "open"}
      BY <2>2, <3>2 DEF WinnerExists
    <3>4. QED
      BY <3>1, <3>2, <3>3 DEF WinnerExists
  <2>3. CASE ~(dir = "absent" /\ writable)
    <3>1. dir' = dir /\ Goto(i, "failed")
      BY <1>2, <2>3 DEF CreateDirectory, create_directory, directory_exists
    <3>2. QED
      BY <2>1, <2>3, <3>1, WinnerStays
  <2>4. QED
    BY <2>2, <2>3
<1>3. ASSUME NEW i \in Instances, OpenFile(i)
      PROVE  WinnerExists'
  <2>1. pc[i] = "open" /\ UNCHANGED <<dir, writable>>
    BY <1>3 DEF OpenFile
  <2>2. CASE Goto(i, "run") /\ dir = "directory"
    BY <2>1, <2>2, WinnerStays
  <2>3. CASE Goto(i, "terminated") /\ (dir = "file" \/ ~writable)
    BY <2>1, <2>3, WinnerStays
  <2>4. QED
    BY <1>3, <2>2, <2>3 DEF OpenFile
<1>4. ASSUME NEW i \in Instances,
             Exit(i) \/ AssertionFails(i) \/ Continue(i) \/ Die(i)
      PROVE  WinnerExists'
  <2>1. UNCHANGED <<dir, writable>> /\ pc[i] \in {"run", "broken"}
    BY <1>4 DEF Exit, AssertionFails, Continue, Die
  <2>2. writable => dir # "absent"
    BY <2>1 DEF WinnerExists
  <2>3. PICK label \in {"ended", "broken", "run", "killed"} : Goto(i, label)
    BY <1>4 DEF Exit, AssertionFails, Continue, Die
  <2>4. QED
    BY <2>1, <2>2, <2>3, WinnerStays
<1>5. ASSUME UNCHANGED <<dir, writable, pc>>
      PROVE  WinnerExists'
  BY <1>5 DEF WinnerExists
<1>6. QED
  BY <1>1, <1>2, <1>3, <1>4, <1>5 DEF Next, vars, Log, Spill, FinishCycle

\* On Windows, whatever the number of instances and their steps, a start that finds nothing
\* in its way fails only if another has got its logger or is about to.
THEOREM RaceIsWon == Spec /\ System = "windows" => []RaceHasWinner
<1>1. Init => WinnerExists
  BY DEF Init, WinnerExists
<1>2. WinnerExists /\ TypeOK => RaceHasWinner
  BY DEF WinnerExists, TypeOK, RaceHasWinner, Through
<1>3. CASE System = "windows"
  <2>1. WinnerExists /\ TypeOK /\ [Next]_vars => WinnerExists'
    BY <1>3, NextWinner
  <2>2. QED
    BY <1>1, <1>2, <2>1, LoggerTypeCorrect, PTL DEF Spec
<1>4. CASE System # "windows"
  BY <1>4
<1>5. QED
  BY <1>3, <1>4

\* On Windows a directory that is not there is made: the check of it does not fail.
THEOREM MissingDirectoryIsCreated == Spec /\ System = "windows" => MissingIsCreated
<1>1. ASSUME System = "windows", TypeOK, [Next]_vars, NEW i \in Instances, pc[i] = "check",
             pc'[i] # "check", dir = "absent"
      PROVE  pc'[i] = "create"
  <2>1. ASSUME NEW j \in Instances, CheckDirectory(j)
        PROVE  pc'[i] = "create"
    <3>1. Goto(j, "create")
      BY <1>1, <2>1 DEF CheckDirectory, directory_exists
    <3>2. QED
      BY <1>1, <3>1 DEF Goto, TypeOK
  <2>2. ASSUME NEW j \in Instances, pc[j] # "check", NEW label, Goto(j, label)
        PROVE  pc'[i] = "create"
    BY <1>1, <2>2 DEF Goto, TypeOK
  <2>3. UNCHANGED pc => pc'[i] = "create"
    BY <1>1
  <2>4. QED
    BY <1>1, <2>1, <2>2, <2>3 DEF Next, vars, CreateDirectory, OpenFile, Log, Spill,
       FinishCycle, Exit, AssertionFails, Continue, Die
<1>2. CASE System = "windows"
  <2>1. TypeOK /\ [Next]_vars =>
          [\A i \in Instances :
             pc[i] = "check" /\ pc'[i] # "check" /\ dir = "absent" => pc'[i] = "create"]_vars
    BY <1>1, <1>2
  <2>2. QED
    BY <2>1, LoggerTypeCorrect, PTL DEF Spec, MissingIsCreated
<1>3. CASE System # "windows"
  BY <1>3
<1>4. QED
  BY <1>2, <1>3

=============================================================================
