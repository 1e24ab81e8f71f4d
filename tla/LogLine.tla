------------------------------- MODULE LogLine -------------------------------
(***************************************************************************)
(* Which lines a build logs and where they go (logging.h): the macros of   *)
(* the levels, log, fallback_log, and the lines of ogl_debug_callback.     *)
(* Logger has what becomes of a line that is logged.                       *)
(*                                                                         *)
(* spdlog (version 1.8.2) and fmt are external: spdlog's loggers drop what *)
(* is below "info" unless they are told otherwise.  The build has          *)
(* RK_OGL_DEBUG.                                                           *)
(***************************************************************************)
EXTENDS Integers

TRACE == 0
DEBUG == 1
INFO == 2
WARN == 3
ERROR == 4
CRITICAL == 5
OFF == 6

Levels == TRACE..CRITICAL

VARIABLES
  defines,         \* what the build defines: RK_LOG_LEVEL or -1, and the two switches
  s_initialized,   \* Logger::s_initialized
  line,            \* the last line: its level, who logs it, whether to the logger, whether
                   \* logging it threw, and where it has gone
  terminated       \* spdlog_exception_boundary has called std::terminate

vars == <<defines, s_initialized, line, terminated>>

Builds == [RK_LOG_LEVEL : -1..OFF, RK_LOGGING_OFF : BOOLEAN, RK_LOGGING_PERF : BOOLEAN]

\* The head of a fallback line and its text are printed apart; of an exception its own text.
Places == {"stderr", "file", "stdout head", "stderr head", "stdout text", "stderr exception"}

TypeOK ==
  /\ defines \in Builds
  /\ {s_initialized, terminated} \subseteq BOOLEAN
  /\ line \in [level : Levels, by : {"program", "opengl", "none"}, up : BOOLEAN,
               thrown : BOOLEAN, to : SUBSET Places]

\* Both switches at once do not compile.
Init ==
  /\ defines \in {b \in Builds : ~(b.RK_LOGGING_OFF /\ b.RK_LOGGING_PERF)}
  /\ s_initialized = FALSE
  /\ line = [level |-> CRITICAL, by |-> "none", up |-> FALSE, thrown |-> FALSE, to |-> {}]
  /\ terminated = FALSE

\* SPDLOG_ACTIVE_LEVEL.
ActiveLevel ==
  IF defines.RK_LOGGING_OFF THEN OFF
  ELSE IF defines.RK_LOGGING_PERF THEN WARN
  ELSE IF defines.RK_LOG_LEVEL >= 0 THEN defines.RK_LOG_LEVEL
  ELSE INFO

\* The macro of the level is a call of log.
CompiledIn(level) == ActiveLevel <= level

\* The logger's sinks, the logger itself taking nothing below "info".
Sinks(level) ==
  IF level < INFO THEN {}
  ELSE (IF level >= ERROR THEN {"stderr"} ELSE {}) \union {"file"}

\* Fault: the text of a warning or an error follows no head.
FallbackHeadOnly(level) ==
  IF level < WARN THEN {"stdout head", "stdout text"} ELSE {"stderr head"}

Head(level) == IF level < WARN THEN "stdout head" ELSE "stderr head"

\* fallback_log prints every level: the head where the level says, the text, with what the
\* buffer holds behind it up to some zero, to stdout.
Fallback(level) == {Head(level), "stdout text"}

\* Where Logger::log sends a line.
Destinations(level) ==
  IF ~CompiledIn(level) THEN {}
  ELSE IF s_initialized THEN Sinks(level)
  ELSE Fallback(level)

\* What may be printed of a line whose formatting or printing throws.  spdlog catches that, of
\* each sink by itself, and prints the exception at most once a second; without the logger the
\* head may be out, and spdlog_exception_boundary prints the exception.
PrintedAtThrow(level) ==
  IF ~CompiledIn(level) THEN {}
  ELSE IF s_initialized
  THEN {to \in SUBSET (Sinks(level) \union {"stderr exception"}) : ~(Sinks(level) \subseteq to)}
  ELSE {{"stderr exception"}, {Head(level), "stderr exception"}}

\* The program logs a line, or ogl_debug_callback an error or another message.  An exception
\* in the fallback ends the program.
Log(level, by) ==
  /\ ~terminated
  /\ by = "opengl" => level \in {DEBUG, ERROR}
  /\ \E thrown \in BOOLEAN :
       \E to \in IF thrown THEN PrintedAtThrow(level) ELSE {Destinations(level)} :
         /\ line' = [level |-> level, by |-> by, up |-> s_initialized, thrown |-> thrown,
                     to |-> to]
         /\ terminated' = (thrown /\ ~s_initialized)
  /\ UNCHANGED <<defines, s_initialized>>

\* Logger::initialize, and emergency_shutdown.
SwitchLogger ==
  /\ ~terminated
  /\ s_initialized' = ~s_initialized
  /\ UNCHANGED <<defines, line, terminated>>

Next ==
  \/ \E level \in Levels, by \in {"program", "opengl"} : Log(level, by)
  \/ SwitchLogger

Spec == Init /\ [][Next]_vars

-----------------------------------------------------------------------------
(***************************************************************************)
(* Properties                                                              *)
(***************************************************************************)

\* An error that is compiled in is on stderr and in the file with the logger up, and without
\* it its head is on stderr and its text on stdout.  If logging it throws without the logger
\* the exception is on stderr and the program ends; with the logger nothing is promised then.
ErrorsAreSeen ==
  line.by # "none" /\ line.level >= ERROR /\ CompiledIn(line.level) =>
    /\ line.up /\ ~line.thrown => {"stderr", "file"} \subseteq line.to
    /\ ~line.up /\ ~line.thrown => {"stderr head", "stdout text"} \subseteq line.to
    /\ ~line.up /\ line.thrown => "stderr exception" \in line.to /\ terminated

=============================================================================
