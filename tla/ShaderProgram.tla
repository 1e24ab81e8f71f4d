--------------------------- MODULE ShaderProgram ---------------------------
(***************************************************************************)
(* Shader_Program (core/renderer/opengl/shader_program.cpp): objects that  *)
(* own a program of OpenGL by its name, and the callers' use of them.      *)
(*                                                                         *)
(* OpenGL is external.  It hands out names, may use a name again once its  *)
(* program is gone, and keeps a deleted program that is in use until       *)
(* another one is.  It knows no location in a program that is not linked,  *)
(* and ignores a value for none.  The callers compile and destroy at any   *)
(* time, use an object that compile has told them is ok, and set uniforms  *)
(* through the object they have used last.                                 *)
(***************************************************************************)

CONSTANTS
  ShaderPrograms,    \* the objects
  Names,             \* the names OpenGL gives to programs
  invalid_handle,    \* Shader_Program::invalid_handle, no program
  NoObject           \* no object

ASSUME InvalidHandleAssumption == invalid_handle \notin Names

ASSUME NoObjectAssumption == NoObject \notin ShaderPrograms

VARIABLES
  m_id,        \* Shader_Program::m_id of each object
  program,     \* the program of each name: "none", "unlinked", "linked", or "flagged"
               \* when it is deleted but in use
  current,     \* GL_CURRENT_PROGRAM
  uniforms,    \* the objects through which each program's uniforms were set
  client,      \* what compile last told the caller of each object: "new" for nothing, "failed",
               \* "ok", or "skipped" for an ok that came after a failure and did nothing
  active       \* the object the callers have used last

vars == <<m_id, program, current, uniforms, client, active>>

TypeOK ==
  /\ m_id \in [ShaderPrograms -> Names \union {invalid_handle}]
  /\ program \in [Names -> {"none", "unlinked", "linked", "flagged"}]
  /\ current \in Names \union {invalid_handle}
  /\ uniforms \in [Names -> SUBSET ShaderPrograms]
  /\ client \in [ShaderPrograms -> {"new", "ok", "failed", "skipped"}]
  /\ active \in ShaderPrograms \union {NoObject}

Init ==
  /\ m_id = [p \in ShaderPrograms |-> invalid_handle]
  /\ program = [n \in Names |-> "none"]
  /\ current = invalid_handle
  /\ uniforms = [n \in Names |-> {}]
  /\ client = [p \in ShaderPrograms |-> "new"]
  /\ active = NoObject

-----------------------------------------------------------------------------

\* `if (m_id != invalid_handle)': a second compile is skipped and ok, also where the first
\* one failed and left the handle of a program that is not linked.
CompileAgain(p) ==
  /\ m_id[p] # invalid_handle
  /\ client' = [client EXCEPT ![p] = IF @ = "ok" THEN "ok" ELSE "skipped"]
  /\ UNCHANGED <<m_id, program, current, uniforms, active>>

\* Fault of compile: the program is left in use.
CompilesAndUses(p, n) ==
  /\ m_id' = [m_id EXCEPT ![p] = n]
  /\ program' = [program EXCEPT ![n] = "linked"]
  /\ uniforms' = [uniforms EXCEPT ![n] = {}]
  /\ client' = [client EXCEPT ![p] = "ok"]
  /\ current' = n
  /\ UNCHANGED active

\* The sources are read and the program links.
Compiles(p, n) ==
  /\ m_id' = [m_id EXCEPT ![p] = n]
  /\ program' = [program EXCEPT ![n] = "linked"]
  /\ uniforms' = [uniforms EXCEPT ![n] = {}]
  /\ client' = [client EXCEPT ![p] = "ok"]
  /\ UNCHANGED <<current, active>>

\* Fault of compile: the link status is only logged, as the shaders' is.
CompileFailsUnseen(p, n) ==
  /\ m_id' = [m_id EXCEPT ![p] = n]
  /\ program' = [program EXCEPT ![n] = "unlinked"]
  /\ uniforms' = [uniforms EXCEPT ![n] = {}]
  /\ client' = [client EXCEPT ![p] = "ok"]
  /\ UNCHANGED <<current, active>>

\* A source cannot be read, or the link fails, the first sign of a shader that does not
\* compile.  The object keeps the handle.
CompileFails(p, n) ==
  /\ m_id' = [m_id EXCEPT ![p] = n]
  /\ program' = [program EXCEPT ![n] = "unlinked"]
  /\ uniforms' = [uniforms EXCEPT ![n] = {}]
  /\ client' = [client EXCEPT ![p] = "failed"]
  /\ UNCHANGED <<current, active>>

\* glCreateProgram returns 0: nothing can be attached or linked.
CompileWithoutProgram(p) ==
  /\ client' = [client EXCEPT ![p] = "failed"]
  /\ UNCHANGED <<m_id, program, current, uniforms, active>>

Compile(p) ==
  /\ m_id[p] = invalid_handle
  /\ \/ \E n \in Names : program[n] = "none" /\ (Compiles(p, n) \/ CompileFails(p, n))
     \/ CompileWithoutProgram(p)

\* glDeleteProgram
Deleted(n) == [program EXCEPT ![n] = IF n = current THEN "flagged" ELSE "none"]

\* Fault of destroy: m_id is not reset.
DestroyKeepingHandle(p) ==
  /\ program' = IF m_id[p] = invalid_handle THEN program ELSE Deleted(m_id[p])
  /\ client' = [client EXCEPT ![p] = "new"]
  /\ active' = IF active = p THEN NoObject ELSE active
  /\ UNCHANGED <<m_id, current, uniforms>>

\* Fault of destroy: the program of a failed compile is taken for none.
DestroyForgetting(p) ==
  /\ program' = IF client[p] = "failed" \/ m_id[p] = invalid_handle THEN program
                ELSE Deleted(m_id[p])
  /\ m_id' = [m_id EXCEPT ![p] = invalid_handle]
  /\ client' = [client EXCEPT ![p] = "new"]
  /\ active' = IF active = p THEN NoObject ELSE active
  /\ UNCHANGED <<current, uniforms>>

\* destroy, and the destructor, at any time.
Destroy(p) ==
  /\ program' = IF m_id[p] = invalid_handle THEN program ELSE Deleted(m_id[p])
  /\ m_id' = [m_id EXCEPT ![p] = invalid_handle]
  /\ client' = [client EXCEPT ![p] = "new"]
  /\ active' = IF active = p THEN NoObject ELSE active
  /\ UNCHANGED <<current, uniforms>>

\* glUseProgram of a linked program: the one in use before it goes if it was deleted.
Used(n) ==
  /\ current' = n
  /\ program' = IF current = n \/ current = invalid_handle THEN program
                ELSE [program EXCEPT ![current] = IF @ = "flagged" THEN "none" ELSE @]

Use(p) ==
  /\ client[p] \in {"ok", "skipped"}
  /\ IF m_id[p] \in Names /\ program[m_id[p]] = "linked"
     THEN Used(m_id[p])
     ELSE UNCHANGED <<current, program>>    \* GL_INVALID_OPERATION
  /\ active' = p
  /\ UNCHANGED <<m_id, uniforms, client>>

\* The setters.  The location is looked up in the object's program, the value goes to the
\* program in use.
Set(p) ==
  /\ active = p
  /\ uniforms' = IF current # invalid_handle /\ m_id[p] \in Names /\ program[m_id[p]] = "linked"
                 THEN [uniforms EXCEPT ![current] = @ \union {p}]
                 ELSE uniforms
  /\ UNCHANGED <<m_id, program, current, client, active>>

Next ==
  \E p \in ShaderPrograms :
    CompileAgain(p) \/ Compile(p) \/ Destroy(p) \/ Use(p) \/ Set(p)

Spec == Init /\ [][Next]_vars

-----------------------------------------------------------------------------
(***************************************************************************)
(* Properties                                                              *)
(***************************************************************************)

Live(n) == program[n] \in {"unlinked", "linked"}

\* A handle is of a program that is not deleted, and of no other object: however names are
\* used again, no object deletes, uses or sets the program of another.
HandlesOwned ==
  \A p \in ShaderPrograms : m_id[p] # invalid_handle =>
    /\ Live(m_id[p])
    /\ \A q \in ShaderPrograms \ {p} : m_id[q] # m_id[p]

\* No program is lost: one that is not deleted has its object, whichever way its compile
\* went, and one that is deleted goes as soon as it is not in use.
NoOrphans ==
  \A n \in Names :
    /\ Live(n) => \E p \in ShaderPrograms : m_id[p] = n
    /\ program[n] = "flagged" => n = current

\* A compile that says ok has linked the program, and the program stays so until destroy.
\* The one ok that does not say this is that of a compile which finds the handle a failed
\* one has left: there is a program, and it is not linked.
OkMeansLinked ==
  \A p \in ShaderPrograms :
    /\ client[p] = "ok" => m_id[p] # invalid_handle /\ program[m_id[p]] = "linked"
    /\ client[p] = "skipped" => m_id[p] # invalid_handle /\ program[m_id[p]] = "unlinked"

\* The assertion of every setter, RK_ASSERT(is_active()), which release builds leave out:
\* it can only fail for an object whose compile was skipped after a failure.
SetterAsserted ==
  active # NoObject /\ client[active] # "skipped" => m_id[active] = current

\* The object used last is one that compile has called ok and that is not destroyed.
ActiveCompiled == active # NoObject => client[active] \in {"ok", "skipped"}

\* A uniform set through an object is one of its own program.
UniformsLandHome ==
  \A n \in Names, p \in ShaderPrograms : Live(n) /\ p \in uniforms[n] => m_id[p] = n

\* An object that has a handle has been told something, and where it was told of a failure
\* the program is not linked.
UnlinkedUntilOk ==
  \A p \in ShaderPrograms : m_id[p] # invalid_handle =>
    /\ client[p] # "new"
    /\ client[p] = "failed" => program[m_id[p]] = "unlinked"

\* The inductive invariant.
ShaderInv ==
  /\ TypeOK
  /\ HandlesOwned
  /\ NoOrphans
  /\ OkMeansLinked
  /\ UnlinkedUntilOk
  /\ SetterAsserted
  /\ ActiveCompiled
  /\ UniformsLandHome

=============================================================================
