---------------------------- MODULE WindowsCalls ----------------------------
(***************************************************************************)
(* The functions of filesystem_win32.cpp, call by call: each widens its    *)
(* arguments into buffers on its stack, lets Windows read them, and        *)
(* narrows what Windows has written into a Path.  Path has each of them as *)
(* one step.                                                               *)
(*                                                                         *)
(* Windows and nowide are external.  Of a text only who it comes from      *)
(* matters here, and of the path's own its end.  The build is one without  *)
(* assertions.                                                             *)
(***************************************************************************)
EXTENDS Naturals, Sequences

VARIABLES
  fn,        \* the function that runs
  path_in,   \* its first argument, or the path it changes: how the text ends, or "null"
  more,      \* its second argument, or "null"
  pc,        \* the statement that comes next
  widened,   \* how many arguments are widened
  buf,       \* the buffers on the stack
  path,      \* the text of the Path that gets the result
  status     \* the Status returned, or "none"

vars == <<fn, path_in, more, pc, widened, buf, path, status>>

\* The function's arguments in the order they are widened in, each with its buffer; the
\* buffers Windows reads, and the one it writes, or 0.
Script ==
  [get_current_directory |-> [args |-> <<>>, into |-> <<>>, reads |-> <<>>, writes |-> 1],
   create_directory   |-> [args |-> <<"path_in">>, into |-> <<1>>, reads |-> <<1>>, writes |-> 0],
   directory_exists   |-> [args |-> <<"path_in">>, into |-> <<1>>, reads |-> <<1>>, writes |-> 0],
   file_exists        |-> [args |-> <<"path_in">>, into |-> <<1>>, reads |-> <<1>>, writes |-> 0],
   path_add_extension |-> [args |-> <<"path_in", "more">>, into |-> <<1, 2>>,
                           reads |-> <<1, 2>>, writes |-> 1],
   path_append        |-> [args |-> <<"path_in", "more">>, into |-> <<1, 2>>,
                           reads |-> <<1, 2>>, writes |-> 1],
   path_canonicalize  |-> [args |-> <<"path_in">>, into |-> <<1>>, reads |-> <<1>>, writes |-> 2],
   path_combine       |-> [args |-> <<"path_in", "more">>, into |-> <<1, 1>>,
                           reads |-> <<1, 2>>, writes |-> 3],
   path_compact       |-> [args |-> <<"path_in">>, into |-> <<1>>, reads |-> <<1>>, writes |-> 2]]

InPlace == {"path_add_extension", "path_append"}

\* What a call of Windows may fail with, and the Status returned for it: PathCchAddExtension
\* says S_FALSE of a path that has an extension.
Failures(f) ==
  CASE f = "path_add_extension" -> {"invalid_value", "generic_error"}
    [] f \in {"path_append", "path_canonicalize", "path_combine", "create_directory"} ->
         {"generic_error"}
    [] f = "get_current_directory" -> {"platform_error"}
    [] f = "path_compact" -> {"buffer_length_error"}
    [] f \in {"directory_exists", "file_exists"} -> {}

\* A text: one of the caller's, the old one of the Path, or what Windows makes of others.
Given == {"empty", "slash", "backslash", "name", "more", "null"}

TypeOK ==
  /\ fn \in DOMAIN Script /\ {path_in, more} \subseteq Given
  /\ pc \in {"start", "widen", "call", "narrow", "crashed", "returned"}
  /\ widened \in 0..2
  /\ DOMAIN buf = 1..3
  /\ status \in {"none", "ok", "unicode_error"} \union Failures(fn)
  /\ (status = "none") = (pc # "returned")

\* Only path_combine takes null pointers (filesystem.h:301-304), one at a time.
Init ==
  /\ fn \in DOMAIN Script
  /\ path_in \in {"empty", "slash", "backslash", "name"}
                 \union (IF fn = "path_combine" THEN {"null"} ELSE {})
  /\ more \in {"more"} \union (IF fn = "path_combine" /\ path_in # "null" THEN {"null"} ELSE {})
  /\ pc = "start"
  /\ widened = 0
  /\ buf = [i \in 1..3 |-> [uninitialised |-> i]]
  /\ path = [old |-> IF fn \in InPlace THEN path_in ELSE "name"]
  /\ status = "none"

Return(st) == pc' = "returned" /\ status' = st

Goes(next) == pc' = next /\ UNCHANGED status

\* What is widened comes from the path itself where the function changes it.
Source(arg) ==
  IF arg = "more" THEN more ELSE IF fn \in InPlace THEN path.old ELSE path_in

\* What the function does before it widens: path_append turns a '/' at the end into '\' (of
\* an empty path it looks at the byte before the buffer), path_canonicalize copies "".
Start ==
  /\ pc = "start"
  /\ IF fn = "path_canonicalize" /\ path_in = "empty"
     THEN path' = [old |-> "empty"] /\ Return("ok")
     ELSE /\ path' = IF fn = "path_append" /\ path.old = "slash" THEN [old |-> "backslash"]
                     ELSE path
          /\ Goes(IF Script[fn].args = <<>> THEN "call" ELSE "widen")
  /\ UNCHANGED <<fn, path_in, more, widened, buf>>

\* `widen' reads its source, fits it into the buffer or fails.
Widen ==
  /\ pc = "widen"
  /\ LET k == widened + 1
         source == Source(Script[fn].args[k])
     IN IF source = "null"
        THEN Goes("crashed") /\ UNCHANGED <<buf, widened>>
        ELSE \/ /\ buf' = [buf EXCEPT ![Script[fn].into[k]] = [text |-> source]]
                /\ widened' = k
                /\ Goes(IF k = Len(Script[fn].args) THEN "call" ELSE "widen")
             \/ Return("unicode_error") /\ UNCHANGED <<buf, widened>>
  /\ UNCHANGED <<fn, path_in, more, path>>

Read == [i \in DOMAIN Script[fn].reads |-> buf[Script[fn].reads[i]]]

\* Fault: an error of Windows is logged and not returned.
CallUnchecked ==
  /\ pc = "call"
  /\ \/ buf' = [i \in 1..3 |-> IF i = Script[fn].writes THEN [by |-> fn, of |-> Read] ELSE buf[i]]
     \/ (fn = "get_current_directory" \/ Failures(fn) # {}) /\ UNCHANGED buf
  /\ IF Script[fn].writes = 0 THEN Return("ok") ELSE Goes("narrow")
  /\ UNCHANGED <<fn, path_in, more, widened, path>>

\* Windows reads the buffers, and writes or fails.  Of a current directory that is longer than
\* the buffer it says the length and writes nothing, which the function takes for success.
Call ==
  /\ pc = "call"
  /\ \/ /\ buf' = [i \in 1..3 |-> IF i = Script[fn].writes THEN [by |-> fn, of |-> Read] ELSE buf[i]]
        /\ IF Script[fn].writes = 0 THEN Return("ok") ELSE Goes("narrow")
     \/ fn = "get_current_directory" /\ Goes("narrow") /\ UNCHANGED buf
     \/ /\ \E st \in Failures(fn) : Return(st)
        /\ UNCHANGED buf
  /\ UNCHANGED <<fn, path_in, more, widened, path>>

\* `narrow' fits what is in the buffer into the Path, or fills it and fails.
Narrow ==
  /\ pc = "narrow"
  /\ LET answer == buf[Script[fn].writes]
     IN \/ path' = answer /\ Return("ok")
        \/ path' = [cut |-> answer] /\ Return("unicode_error")
  /\ UNCHANGED <<fn, path_in, more, widened, buf>>

Next == Start \/ Widen \/ Call \/ Narrow

Spec == Init /\ [][Next]_vars

-----------------------------------------------------------------------------
(***************************************************************************)
(* Properties                                                              *)
(***************************************************************************)

\* The function's own arguments in their order, of path_append the path with its '/' at the
\* end as '\'.
Promised ==
  LET own == IF fn = "path_append" /\ path_in = "slash" THEN "backslash" ELSE path_in
  IN [i \in DOMAIN Script[fn].args |-> [text |-> IF i = 1 THEN own ELSE more]]

Answer == [by |-> fn, of |-> Promised]

\* A function other than path_combine that returns ok has left in its Path what Windows
\* answers for the function's own arguments, of path_canonicalize "" for ""; or, of a current
\* directory too long for the buffer, what happened to be in the buffer.  One that fails has
\* left the path it was given, but for path_append's separator, or, where the answer does not
\* fit, the part of it that does.
PathIsAnswer ==
  LET kept == [old |-> IF fn \in InPlace THEN path_in ELSE "name"]
      lost == IF fn = "get_current_directory" THEN {[uninitialised |-> 1]} ELSE {}
  IN fn # "path_combine" =>
       /\ status = "ok" =>
            \/ Script[fn].writes = 0 /\ path = kept
            \/ Script[fn].writes # 0 /\ path \in {Answer} \union lost
            \/ fn = "path_canonicalize" /\ path_in = "empty" /\ path.old = "empty"
       /\ status \notin {"none", "ok"} =>
            \/ path \in {kept} \union {[cut |-> text] : text \in {Answer} \union lost}
            \/ fn = "path_append" /\ path_in = "slash" /\ path.old = "backslash"

=============================================================================
