-------------------------- MODULE ExceptionBoundary --------------------------
(***************************************************************************)
(* exception_boundary and RK_CHECK_EXB (no_exception.h), Status and        *)
(* to_string (status.h, status.cpp), from the functors the engine runs     *)
(* behind a boundary to the exit of main.                                  *)
(*                                                                         *)
(* The exceptions and their hierarchy are the standard library's.          *)
(***************************************************************************)
EXTENDS Integers, Sequences

VARIABLES
  functor,   \* which of the functors runs
  thrown,    \* the exception that is being handled, or "none"
  handler,   \* the handler that is tried next
  ret,       \* what the boundary has returned, or "none"
  exit       \* main's exit code, or -1, and the name it has logged

vars == <<functor, thrown, handler, ret, exit>>

Statuses ==
  <<"ok", "generic_error", "api_error", "unsupported_function", "logic_error",
    "runtime_error", "bad_alloc", "exception_error", "logger_error", "renderer_error",
    "platform_error", "window_error", "io_error", "invalid_value", "unicode_error",
    "buffer_length_error">>

Status == {Statuses[i] : i \in DOMAIN Statuses}

\* The base of each class that may be thrown, a value of no class among them.
Base ==
  [invalid_argument |-> "logic_error", length_error |-> "logic_error",
   ios_base_failure |-> "system_error", system_error |-> "runtime_error",
   format_error |-> "runtime_error", bad_array_new_length |-> "bad_alloc",
   bad_variant_access |-> "exception", logic_error |-> "exception",
   runtime_error |-> "exception", bad_alloc |-> "exception",
   bad_exception |-> "exception", exception |-> "none", an_int |-> "none"]

Ancestors[c \in DOMAIN Base] == {c} \union IF Base[c] = "none" THEN {} ELSE Ancestors[Base[c]]

\* Fault: the handler of std::exception comes first.
HandlersGenericFirst ==
  <<<<"exception", "generic_error">>, <<"logic_error", "logic_error">>,
    <<"runtime_error", "runtime_error">>, <<"bad_alloc", "bad_alloc">>,
    <<"bad_exception", "exception_error">>, <<"...", "generic_error">>>>

\* RK_EXCEPTION_BOUNDARY_CATCH.
Handlers ==
  <<<<"logic_error", "logic_error">>, <<"runtime_error", "runtime_error">>,
    <<"bad_alloc", "bad_alloc">>, <<"bad_exception", "exception_error">>,
    <<"exception", "generic_error">>, <<"...", "generic_error">>>>

\* The managers of initialize, and the two shaders of each program of run.
Functors == <<"window_manager", "input_manager", "renderer", "identity.vert", "identity.frag",
              "font_glyphs.vert", "font_glyphs.frag">>

to_string(status) ==
  IF status \in {"unicode_error", "buffer_length_error"} THEN "unknown" ELSE status

NoExit == [code |-> -1, name |-> "none"]

TypeOK ==
  /\ functor \in DOMAIN Functors
  /\ thrown \in {"none"} \union DOMAIN Base
  /\ handler \in 1..Len(Handlers) + 1
  /\ ret \in {"none"} \union Status
  /\ exit.code \in -1..1 /\ exit.name \in {"none", "unknown"} \union Status

Init ==
  /\ functor = 1
  /\ thrown = "none" /\ handler = 1
  /\ ret = "none"
  /\ exit = NoExit

\* The functor makes its object, or reads its shader, or throws.
Run ==
  /\ ret = "none" /\ thrown = "none"
  /\ \/ /\ ret' \in IF functor <= 3 THEN {"ok"} ELSE {"ok", "io_error"}
        /\ UNCHANGED <<thrown, handler>>
     \/ thrown' \in DOMAIN Base /\ handler' = 1 /\ UNCHANGED ret
  /\ UNCHANGED <<functor, exit>>

\* The next handler catches what is thrown or passes it on.
Catch ==
  /\ thrown # "none" /\ ret = "none"
  /\ handler <= Len(Handlers)
  /\ IF Handlers[handler][1] \in Ancestors[thrown] \union {"..."}
     THEN ret' = Handlers[handler][2] /\ UNCHANGED handler
     ELSE handler' = handler + 1 /\ UNCHANGED ret
  /\ UNCHANGED <<functor, thrown, exit>>

\* RK_CHECK_EXB, or compile_shader and RK_CHECK: what is not ok goes up to main, which logs
\* its name.
Check ==
  /\ ret # "none" /\ exit = NoExit
  /\ IF ret = "ok" /\ functor < Len(Functors)
     THEN /\ functor' = functor + 1
          /\ ret' = "none" /\ thrown' = "none"
          /\ UNCHANGED exit
     ELSE /\ exit' = IF ret = "ok" THEN [code |-> 0, name |-> "none"]
                     ELSE [code |-> 1, name |-> to_string(ret)]
          /\ UNCHANGED <<functor, ret, thrown>>
  /\ UNCHANGED handler

\* The program may also fail outside of these functors, with any status.
FailElsewhere ==
  /\ ret = "none" /\ thrown = "none"
  /\ ret' \in Status \ {"ok"}
  /\ UNCHANGED <<functor, thrown, handler, exit>>

Next == Run \/ Catch \/ Check \/ FailElsewhere

Spec == Init /\ [][Next]_vars

-----------------------------------------------------------------------------
(***************************************************************************)
(* Properties                                                              *)
(***************************************************************************)

\* Nothing that is thrown in a functor is lost: main exits with 1 under the status of the
\* exception's nearest ancestor that has a handler, however the handlers are ordered, and with
\* 0 only after the last functor.
NearestReported ==
  /\ exit.code = 0 => thrown = "none" /\ functor = Len(Functors)
  /\ exit.code = 1 /\ thrown # "none" =>
       LET listed == {i \in DOMAIN Handlers : Handlers[i][1] \in Ancestors[thrown]}
       IN \/ listed = {} /\ exit.name = "generic_error"
          \/ \E i \in listed :
               /\ exit.name = Handlers[i][2]
               /\ \A j \in listed : Handlers[j][1] \in Ancestors[Handlers[i][1]]

=============================================================================
