------------------------------ MODULE LeafCalls ------------------------------
(***************************************************************************)
(* The functions at the leaves of the call graph, which keep no state from *)
(* one call to the next and share none: ascii_cmp, the wrappers of         *)
(* Windows' functions, the lines of the log, the exception boundary, the   *)
(* lookup of an errno and the operators of Vector3.  A behaviour runs one  *)
(* of them; the variables of the others rest.                              *)
(***************************************************************************)
EXTENDS AsciiCmp

CONSTANTS
  Errnos,               \* what errno may be
  Coordinates, Bound    \* of the vectors

VARIABLES
  running,   \* the leaf that runs
  fn, path_in, more, pc, widened, buf, path, status,   \* of WindowsCalls
  defines, s_initialized, line, terminated,            \* of LogLine
  functor, thrown, handler, ret, exit,                 \* of ExceptionBoundary
  err, entry, desc, idx, warned, logged,               \* of LinuxErrno
  vecs, last, unit                                     \* of Vector

Windows  == INSTANCE WindowsCalls
Lines    == INSTANCE LogLine
Boundary == INSTANCE ExceptionBoundary
Lookup   == INSTANCE LinuxErrno
Vectors  == INSTANCE Vector

windowsVars  == <<fn, path_in, more, pc, widened, buf, path, status>>
linesVars    == <<defines, s_initialized, line, terminated>>
boundaryVars == <<functor, thrown, handler, ret, exit>>
lookupVars   == <<err, entry, desc, idx, warned, logged>>
vectorsVars  == <<vecs, last, unit>>

\* A leaf that does not run rests in one of its own initial states.
Resting(leaf) ==
  CASE leaf = "ascii_cmp" -> Init /\ s = <<>>
    [] leaf = "windows"   -> Windows!Init /\ fn = "file_exists" /\ path_in = "name"
    [] leaf = "lines"     -> /\ Lines!Init
                             /\ defines = [RK_LOG_LEVEL |-> -1, RK_LOGGING_OFF |-> FALSE,
                                           RK_LOGGING_PERF |-> FALSE]
    [] leaf = "boundary"  -> Boundary!Init
    [] leaf = "lookup"    -> Lookup!Init /\ err = 0
    [] leaf = "vectors"   -> Vectors!Init /\ \A x \in Vectors!Objects : vecs[x] = Vectors!Zero

Starting(leaf) ==
  CASE leaf = "ascii_cmp" -> Init
    [] leaf = "windows"   -> Windows!Init
    [] leaf = "lines"     -> Lines!Init
    [] leaf = "boundary"  -> Boundary!Init
    [] leaf = "lookup"    -> Lookup!Init
    [] leaf = "vectors"   -> Vectors!Init

Leaves == {"ascii_cmp", "windows", "lines", "boundary", "lookup", "vectors"}

LeafInit ==
  /\ running \in Leaves
  /\ \A leaf \in Leaves : IF leaf = running THEN Starting(leaf) ELSE Resting(leaf)

Rests(leaf) ==
  CASE leaf = "ascii_cmp" -> UNCHANGED vars
    [] leaf = "windows"   -> UNCHANGED windowsVars
    [] leaf = "lines"     -> UNCHANGED linesVars
    [] leaf = "boundary"  -> UNCHANGED boundaryVars
    [] leaf = "lookup"    -> UNCHANGED lookupVars
    [] leaf = "vectors"   -> UNCHANGED vectorsVars

Runs(leaf) ==
  /\ running = leaf
  /\ \A other \in Leaves \ {leaf} : Rests(other)
  /\ UNCHANGED running

LeafNext ==
  \/ Runs("ascii_cmp") /\ Next
  \/ Runs("windows") /\ Windows!Next
  \/ Runs("lines") /\ Lines!Next
  \/ Runs("boundary") /\ Boundary!Next
  \/ Runs("lookup") /\ Lookup!Next
  \/ Runs("vectors") /\ Vectors!Next

leafVars ==
  <<running, vars, windowsVars, linesVars, boundaryVars, lookupVars, vectorsVars>>

LeafSpec == LeafInit /\ [][LeafNext]_leafVars

-----------------------------------------------------------------------------
(***************************************************************************)
(* Properties                                                              *)
(***************************************************************************)

\* A wrapper of Windows other than path_combine leaves Windows' answer to its own arguments in
\* its path, unless the current directory is too long, or, if it fails, the path it was given.
PathIsAnswer == Windows!PathIsAnswer

\* An error is on stderr with the logger and, its text on stdout, without it; or the program
\* ends and says why.
ErrorsAreSeen == Lines!ErrorsAreSeen

\* main exits under the status of the nearest handler of what was thrown.
NearestReported == Boundary!NearestReported

\* A failing call of Linux is logged with its number's first name in front.
FirstNameLeads == Lookup!FirstNameLeads

\* An operator of Vector3 computes from what its operands were, also where they alias.
ReadsWhatWas == Vectors!ReadsWhatWas

=============================================================================
