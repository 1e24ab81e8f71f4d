------------------------------- MODULE Logger -------------------------------
(***************************************************************************)
(* Logger (core/logging): how it starts, where a line goes, and what of    *)
(* it is left when the program dies.  Several instances of the program run *)
(* in one working directory, together or one after the other, and share    *)
(* its "log" directory and the file in it, which each start truncates.     *)
(*                                                                         *)
(* spdlog (version 1.8.2, CMakeLists.txt:253) and the file systems are     *)
(* external.  A line is told by the cycle of the main loop it is logged in *)
(* and by its level: "info" for those below the one that flushes, "err"    *)
(* for those from warn on.                                                 *)
(***************************************************************************)
EXTENDS Naturals

CONSTANTS
  Instances,   \* the runs of the program
  System,      \* the operating system it is built for
  MaxCycles    \* the cycles of the main loop, for TLC

ASSUME SystemAssumption == System \in {"windows", "linux"}

ASSUME MaxCyclesAssumption == MaxCycles \in Nat

VARIABLES
  dir,             \* what "log" is: "absent", "directory" or "file"
  writable,        \* the working directory lets "log" be made
  pc,              \* where each instance is
  s_initialized,   \* Logger::s_initialized
  default_logger,  \* spdlog's default logger: "console", its own, "rtek" or "none"
  cycle,           \* the cycle of the main loop, the set-up counting to the first
  lines            \* history: where each line is

vars == <<dir, writable, pc, s_initialized, default_logger, cycle, lines>>

Lines == [cycle : 0..MaxCycles, level : {"info", "err"}]

TypeOK ==
  /\ dir \in {"absent", "directory", "file"}
  /\ writable \in BOOLEAN
  /\ pc \in [Instances -> {"check", "create", "open", "run", "broken", "ended", "failed",
                           "terminated", "killed"}]
  /\ s_initialized \in [Instances -> BOOLEAN]
  /\ default_logger \in [Instances -> {"console", "rtek", "none"}]
  /\ cycle \in [Instances -> 0..MaxCycles]
  /\ lines \in [Instances ->
                  [Lines -> {"not logged", "console", "buffer", "file", "truncated", "lost"}]]

Init ==
  /\ dir \in {"absent", "directory", "file"}
  /\ writable \in BOOLEAN
  /\ pc = [i \in Instances |-> "check"]
  /\ s_initialized = [i \in Instances |-> FALSE]
  /\ default_logger = [i \in Instances |-> "console"]
  /\ cycle = [i \in Instances |-> 0]
  /\ lines = [i \in Instances |-> [l \in Lines |-> "not logged"]]

-----------------------------------------------------------------------------
(***************************************************************************)
(* Lines                                                                   *)
(***************************************************************************)

Goto(i, label) == pc' = [pc EXCEPT ![i] = label]

\* The lines of a run, those at one place having gone to another.
Moved(of, from, to) == [l \in Lines |-> IF of[l] = from THEN to ELSE of[l]]

\* The lines of instance i once it has logged l.  `log' takes s_initialized to say that
\* there is a logger; flush_on(warn) flushes what is buffered along with an error.  What the
\* fallback prints counts as on the console, stdio's buffer left out.
Logged(i, l) ==
  IF ~s_initialized[i] THEN [lines[i] EXCEPT ![l] = "console"]
  ELSE IF default_logger[i] = "none" THEN [lines[i] EXCEPT ![l] = "null logger"]
  ELSE IF l.level = "err" THEN [Moved(lines[i], "buffer", "file") EXCEPT ![l] = "file"]
  ELSE [lines[i] EXCEPT ![l] = "buffer"]

Line(i, level) == [cycle |-> cycle[i], level |-> level]

\* The main function's "exited with status".
LogExit(i) == lines' = [lines EXCEPT ![i] = Logged(i, Line(i, "err"))]

-----------------------------------------------------------------------------
(***************************************************************************)
(* Logger::initialize                                                      *)
(***************************************************************************)

\* Fault: an error of GetFileAttributesW or stat is not told from the directory's absence.
DirectoryNeverExists ==
  [status |-> "ok", exists |-> FALSE]

\* directory_exists.  On Linux it looks for ENOENT in what stat returned, which is -1.
directory_exists ==
  IF System = "windows"
  THEN [status |-> "ok", exists |-> dir = "directory"]
  ELSE [status |-> IF dir = "absent" THEN "platform_error" ELSE "ok",
        exists |-> dir # "absent"]

\* create_directory: CreateDirectoryW does not make what is there, and the Linux function
\* asks again before it calls mkdir.
create_directory ==
  IF dir = "absent" /\ writable /\ directory_exists.status = "ok"
  THEN [status |-> "ok", dir |-> "directory"]
  ELSE [status |-> IF System = "linux" /\ directory_exists.exists THEN "ok" ELSE "error",
        dir |-> dir]

CheckDirectory(i) ==
  /\ pc[i] = "check"
  /\ IF directory_exists.status # "ok"
     THEN Goto(i, "failed") /\ LogExit(i)
     ELSE Goto(i, IF directory_exists.exists THEN "open" ELSE "create") /\ UNCHANGED lines
  /\ UNCHANGED <<dir, writable, s_initialized, default_logger, cycle>>

CreateDirectory(i) ==
  /\ pc[i] = "create"
  /\ dir' = create_directory.dir
  /\ IF create_directory.status # "ok"
     THEN Goto(i, "failed") /\ LogExit(i)
     ELSE Goto(i, "open") /\ UNCHANGED lines
  /\ UNCHANGED <<writable, s_initialized, default_logger, cycle>>

\* Fault of OpenFile: an exception leaves the logger initialised.
OpenFileRegardless(i) ==
  /\ pc[i] = "open"
  /\ Goto(i, "run")
  /\ s_initialized' = [s_initialized EXCEPT ![i] = TRUE]
  /\ \/ /\ default_logger' = [default_logger EXCEPT ![i] = "rtek"]
        /\ lines' = [j \in Instances |-> Moved(lines[j], "file", "truncated")]
     \/ UNCHANGED <<default_logger, lines>>
  /\ UNCHANGED <<dir, writable, cycle>>

\* The sinks are made, the file's by opening "log/rtek.log" truncated, and with them the
\* default logger.  An exception leaves s_initialized, set last, as it was, and ends the
\* program in std::terminate.
OpenFile(i) ==
  /\ pc[i] = "open"
  /\ \/ /\ dir = "directory"
        /\ Goto(i, "run")
        /\ default_logger' = [default_logger EXCEPT ![i] = "rtek"]
        /\ s_initialized' = [s_initialized EXCEPT ![i] = TRUE]
        /\ lines' = [j \in Instances |-> Moved(lines[j], "file", "truncated")]
     \/ /\ dir = "file" \/ ~writable
        /\ Goto(i, "terminated")
        /\ UNCHANGED <<default_logger, s_initialized, lines>>
  /\ UNCHANGED <<dir, writable, cycle>>

-----------------------------------------------------------------------------
(***************************************************************************)
(* The logger at work                                                      *)
(***************************************************************************)

Log(i) ==
  /\ pc[i] = "run"
  /\ \E level \in {"info", "err"} : lines' = [lines EXCEPT ![i] = Logged(i, Line(i, level))]
  /\ UNCHANGED <<dir, writable, pc, s_initialized, default_logger, cycle>>

\* The file's own buffer is full.
Spill(i) ==
  /\ pc[i] = "run"
  /\ lines' = [lines EXCEPT ![i] = Moved(@, "buffer", "file")]
  /\ UNCHANGED <<dir, writable, pc, s_initialized, default_logger, cycle>>

\* Logger::flush.
Flushed(i) == IF s_initialized[i] THEN Moved(lines[i], "buffer", "file") ELSE lines[i]

\* Fault of FinishCycle: the cycle ends without a flush.
FinishCycleUnflushed(i) ==
  /\ pc[i] = "run"
  /\ cycle[i] < MaxCycles
  /\ cycle' = [cycle EXCEPT ![i] = @ + 1]
  /\ UNCHANGED <<dir, writable, pc, s_initialized, default_logger, lines>>

\* A cycle of the main loop ends with a flush.
FinishCycle(i) ==
  /\ pc[i] = "run"
  /\ cycle[i] < MaxCycles
  /\ lines' = [lines EXCEPT ![i] = Flushed(i)]
  /\ cycle' = [cycle EXCEPT ![i] = @ + 1]
  /\ UNCHANGED <<dir, writable, pc, s_initialized, default_logger>>

\* The program returns from main, with status ok after the engine's destroy or with an
\* error that it logs; the logger is closed with its file.
Exit(i) ==
  /\ pc[i] = "run"
  /\ Goto(i, "ended")
  /\ \/ lines' = [lines EXCEPT ![i] = Moved(@, "buffer", "file")]
     \/ LogExit(i)
  /\ UNCHANGED <<dir, writable, s_initialized, default_logger, cycle>>

\* report_assertion_failure: it logs the assertion and shuts spdlog down, which closes the
\* file.
AssertionFails(i) ==
  /\ pc[i] = "run"
  /\ Goto(i, "broken")
  /\ lines' = [lines EXCEPT ![i] = Moved(Logged(i, Line(i, "err")), "buffer", "file")]
  /\ default_logger' = [default_logger EXCEPT ![i] = "none"]
  /\ s_initialized' = [s_initialized EXCEPT ![i] = FALSE]
  /\ UNCHANGED <<dir, writable, cycle>>

\* debug_break: a debugger lets the program go on.
Continue(i) ==
  /\ pc[i] = "broken"
  /\ Goto(i, "run")
  /\ UNCHANGED <<dir, writable, s_initialized, default_logger, cycle, lines>>

\* The program dies, of a crash, of debug_break without a debugger or by a signal.
Die(i) ==
  /\ pc[i] \in {"run", "broken"}
  /\ Goto(i, "killed")
  /\ lines' = [lines EXCEPT ![i] = Moved(@, "buffer", "lost")]
  /\ UNCHANGED <<dir, writable, s_initialized, default_logger, cycle>>

Next ==
  \E i \in Instances :
    \/ CheckDirectory(i)
    \/ CreateDirectory(i)
    \/ OpenFile(i)
    \/ Log(i)
    \/ Spill(i)
    \/ FinishCycle(i)
    \/ Exit(i)
    \/ AssertionFails(i)
    \/ Continue(i)
    \/ Die(i)

Spec == Init /\ [][Next]_vars

-----------------------------------------------------------------------------
(***************************************************************************)
(* Properties                                                              *)
(***************************************************************************)

\* With nothing in its way, a start of the program fails only when another instance has made
\* the directory between its check and its own attempt, and that one gets its logger.
RaceHasWinner ==
  \A i \in Instances : pc[i] \in {"failed", "terminated"} /\ writable /\ dir # "file" =>
    \E j \in Instances \ {i} : pc[j] \notin {"check", "create", "failed", "terminated"}

\* A program that dies, wherever it does, loses no error and no line of a cycle it has
\* finished; and nothing at all after an assertion has failed.
LossBounded ==
  \A i \in Instances, l \in Lines : lines[i][l] = "lost" =>
    /\ l = Line(i, "info")
    /\ default_logger[i] = "rtek"

\* s_initialized stands for a default logger with the program's sinks: it is never set
\* while spdlog's own logger or none is in place.
InitializedHasLogger ==
  \A i \in Instances : s_initialized[i] <=> default_logger[i] = "rtek"

\* A directory that is not there is no error: the check says so and it is made.
\* (test_filesystem.cpp:107-111.)
MissingIsCreated ==
  [][\A i \in Instances :
       pc[i] = "check" /\ pc'[i] # "check" /\ dir = "absent" => pc'[i] = "create"]_vars

=============================================================================
