------------------------ MODULE ShaderProgram_proofs ------------------------
(***************************************************************************)
(* Proofs about ShaderProgram for every set of objects and of names.       *)
(***************************************************************************)
EXTENDS ShaderProgram, TLAPS

\* Nothing is compiled, used or set in the beginning.
LEMMA ShaderInit == Init => ShaderInv
  BY InvalidHandleAssumption
  DEF Init, ShaderInv, TypeOK, HandlesOwned, NoOrphans, OkMeansLinked, UnlinkedUntilOk,
      SetterAsserted, ActiveCompiled, UniformsLandHome, Live

\* A program that OpenGL makes is nobody's yet, for every handle is of a live program; its
\* uniforms start anew.
LEMMA NewProgramStep ==
  ASSUME ShaderInv, NEW p \in ShaderPrograms, NEW n \in Names,
         m_id[p] = invalid_handle, program[n] = "none",
         Compiles(p, n) \/ CompileFails(p, n)
  PROVE  ShaderInv'
<1> USE InvalidHandleAssumption, NoObjectAssumption DEF ShaderInv, TypeOK
<1>1. /\ m_id' = [m_id EXCEPT ![p] = n]
      /\ uniforms' = [uniforms EXCEPT ![n] = {}]
      /\ UNCHANGED <<current, active>>
  BY DEF Compiles, CompileFails
<1>2. \/ program' = [program EXCEPT ![n] = "linked"] /\ client' = [client EXCEPT ![p] = "ok"]
      \/ program' = [program EXCEPT ![n] = "unlinked"]
         /\ client' = [client EXCEPT ![p] = "failed"]
  BY DEF Compiles, CompileFails
<1>3. \A q \in ShaderPrograms : m_id[q] # n
  BY DEF HandlesOwned, Live
<1>4. TypeOK'
  BY <1>1, <1>2
<1>5. HandlesOwned'
  BY <1>1, <1>2, <1>3 DEF HandlesOwned, Live
<1>6. NoOrphans'
  BY <1>1, <1>2 DEF NoOrphans, Live
<1>7. OkMeansLinked' /\ UnlinkedUntilOk'
  BY <1>1, <1>2, <1>3 DEF OkMeansLinked, UnlinkedUntilOk
<1>8. SetterAsserted' /\ ActiveCompiled'
  <2>1. active # NoObject => active # p
    BY DEF ActiveCompiled, OkMeansLinked
  <2> QED
    BY <1>1, <1>2, <2>1 DEF SetterAsserted, ActiveCompiled
<1>9. UniformsLandHome'
  BY <1>1, <1>2 DEF UniformsLandHome, Live
<1> QED
  BY <1>4, <1>5, <1>6, <1>7, <1>8, <1>9

\* A compile without a program changes only what the caller knows.
LEMMA NoProgramStep ==
  ASSUME ShaderInv, NEW p \in ShaderPrograms, m_id[p] = invalid_handle,
         CompileWithoutProgram(p)
  PROVE  ShaderInv'
  BY DEF CompileWithoutProgram, ShaderInv, TypeOK, HandlesOwned, NoOrphans, OkMeansLinked,
         UnlinkedUntilOk, SetterAsserted, ActiveCompiled, UniformsLandHome, Live

\* The program that is deleted is the object's own, and its handle goes with it.
LEMMA DestroyStep ==
  ASSUME ShaderInv, NEW p \in ShaderPrograms, Destroy(p)
  PROVE  ShaderInv'
<1> USE InvalidHandleAssumption, NoObjectAssumption DEF ShaderInv, TypeOK
<1>1. /\ m_id' = [m_id EXCEPT ![p] = invalid_handle]
      /\ client' = [client EXCEPT ![p] = "new"]
      /\ active' = IF active = p THEN NoObject ELSE active
      /\ UNCHANGED <<current, uniforms>>
  BY DEF Destroy
<1>2. program' \in [Names -> {"none", "unlinked", "linked", "flagged"}]
  BY DEF Destroy, Deleted
<1>3. \A n \in Names : n # m_id[p] => program'[n] = program[n]
  BY DEF Destroy, Deleted
<1>4. m_id[p] # invalid_handle =>
        program'[m_id[p]] = IF m_id[p] = current THEN "flagged" ELSE "none"
  BY DEF Destroy, Deleted
<1>5. \A q \in ShaderPrograms \ {p} : m_id[q] # invalid_handle => m_id[q] # m_id[p]
  BY DEF HandlesOwned
<1>6. TypeOK'
  BY <1>1, <1>2
<1>7. HandlesOwned'
  BY <1>1, <1>3, <1>5 DEF HandlesOwned, Live
<1>8. NoOrphans'
  BY <1>1, <1>3, <1>4 DEF NoOrphans, Live
<1>9. OkMeansLinked' /\ UnlinkedUntilOk'
  BY <1>1, <1>3, <1>5 DEF OkMeansLinked, UnlinkedUntilOk
<1>10. SetterAsserted' /\ ActiveCompiled'
  BY <1>1 DEF SetterAsserted, ActiveCompiled
<1>11. UniformsLandHome'
  BY <1>1, <1>3, <1>4 DEF UniformsLandHome, Live
<1> QED
  BY <1>6, <1>7, <1>8, <1>9, <1>10, <1>11

\* A second compile changes what the caller knows, and that only where the first one has
\* failed.
LEMMA CompileAgainStep ==
  ASSUME ShaderInv, NEW p \in ShaderPrograms, CompileAgain(p)
  PROVE  ShaderInv'
<1> USE InvalidHandleAssumption, NoObjectAssumption DEF ShaderInv, TypeOK
<1>1. /\ m_id[p] # invalid_handle
      /\ client' = [client EXCEPT ![p] = IF @ = "ok" THEN "ok" ELSE "skipped"]
      /\ UNCHANGED <<m_id, program, current, uniforms, active>>
  BY DEF CompileAgain
<1>2. TypeOK' /\ HandlesOwned' /\ NoOrphans' /\ UniformsLandHome'
  BY <1>1 DEF HandlesOwned, NoOrphans, UniformsLandHome, Live
<1>3. client[p] # "ok" => program[m_id[p]] = "unlinked"
  BY <1>1 DEF OkMeansLinked, UnlinkedUntilOk, HandlesOwned, Live
<1>4. OkMeansLinked' /\ UnlinkedUntilOk'
  BY <1>1, <1>3 DEF OkMeansLinked, UnlinkedUntilOk
<1>5. SetterAsserted' /\ ActiveCompiled'
  BY <1>1 DEF SetterAsserted, ActiveCompiled
<1> QED
  BY <1>2, <1>4, <1>5

\* An object that is used has a program; if that is linked it becomes the current one, and
\* the one that was current goes only if it was deleted.
LEMMA UseStep ==
  ASSUME ShaderInv, NEW p \in ShaderPrograms, Use(p)
  PROVE  ShaderInv'
<1> USE InvalidHandleAssumption, NoObjectAssumption DEF ShaderInv, TypeOK
<1>1. /\ client[p] \in {"ok", "skipped"}
      /\ active' = p
      /\ UNCHANGED <<m_id, uniforms, client>>
  BY DEF Use
<1>2. CASE client[p] = "skipped"
  <2>1. UNCHANGED <<current, program>>
    BY <1>2 DEF Use, OkMeansLinked
  <2> QED
    BY <1>1, <1>2, <2>1 DEF HandlesOwned, NoOrphans, OkMeansLinked, UnlinkedUntilOk,
                            SetterAsserted, ActiveCompiled, UniformsLandHome, Live
<1>3. CASE client[p] = "ok"
  <2>1. m_id[p] \in Names /\ program[m_id[p]] = "linked"
    BY <1>3 DEF OkMeansLinked
  <2>2. Used(m_id[p])
    BY <2>1 DEF Use
  <2>3. current' = m_id[p]
    BY <2>2 DEF Used
  <2>4. program' \in [Names -> {"none", "unlinked", "linked", "flagged"}]
    BY <2>2 DEF Used
  <2>5. \A n \in Names : Live(n) => program'[n] = program[n]
    BY <2>2 DEF Used, Live
  <2>6. \A n \in Names : program'[n] \in {program[n], "none"}
    BY <2>2 DEF Used
  <2>7. \A n \in Names : program'[n] = "flagged" => n = m_id[p]
    BY <2>1, <2>2 DEF Used, NoOrphans
  <2>8. TypeOK'
    BY <1>1, <2>3, <2>4
  <2>9. HandlesOwned'
    BY <1>1, <2>5 DEF HandlesOwned, Live
  <2>10. NoOrphans'
    BY <1>1, <2>3, <2>6, <2>7 DEF NoOrphans, Live
  <2>11. OkMeansLinked' /\ UnlinkedUntilOk'
    BY <1>1, <2>5, <2>6 DEF OkMeansLinked, UnlinkedUntilOk, HandlesOwned, Live
  <2>12. SetterAsserted' /\ ActiveCompiled'
    BY <1>1, <2>1, <2>3 DEF SetterAsserted, ActiveCompiled
  <2>13. UniformsLandHome'
    BY <1>1, <2>6 DEF UniformsLandHome, Live
  <2> QED
    BY <2>8, <2>9, <2>10, <2>11, <2>12, <2>13
<1> QED
  BY <1>1, <1>2, <1>3

\* A setter is called on the object used last.  If its program is linked it is the current
\* one; if not, nothing is set.
LEMMA SetStep ==
  ASSUME ShaderInv, NEW p \in ShaderPrograms, Set(p)
  PROVE  ShaderInv'
<1> USE InvalidHandleAssumption, NoObjectAssumption DEF ShaderInv, TypeOK
<1>1. m_id[p] \in Names /\ program[m_id[p]] = "linked" => m_id[p] = current
  BY DEF Set, SetterAsserted, ActiveCompiled, OkMeansLinked
<1>2. UniformsLandHome'
  BY <1>1 DEF Set, UniformsLandHome, Live
<1> QED
  BY <1>2 DEF Set, HandlesOwned, NoOrphans, OkMeansLinked, UnlinkedUntilOk, SetterAsserted,
              ActiveCompiled, Live

\* Every step keeps the invariant.
LEMMA ShaderStep == ShaderInv /\ [Next]_vars => ShaderInv'
<1> SUFFICES ASSUME ShaderInv, [Next]_vars PROVE ShaderInv'
  OBVIOUS
<1>1. CASE UNCHANGED vars
  BY <1>1 DEF vars, ShaderInv, TypeOK, HandlesOwned, NoOrphans, OkMeansLinked,
              UnlinkedUntilOk, SetterAsserted, ActiveCompiled, UniformsLandHome, Live
<1>2. ASSUME NEW p \in ShaderPrograms,
             CompileAgain(p) \/ Compile(p) \/ Destroy(p) \/ Use(p) \/ Set(p)
      PROVE  ShaderInv'
  <2>1. CASE Compile(p)
    BY <2>1, NewProgramStep, NoProgramStep DEF Compile
  <2> QED
    BY <1>2, <2>1, CompileAgainStep, DestroyStep, UseStep, SetStep
<1> QED
  BY <1>1, <1>2 DEF Next

\* The invariant holds in every state.
LEMMA ShaderInductive == Spec => []ShaderInv
  BY ShaderInit, ShaderStep, PTL DEF Spec

\* Every variable keeps its type.
THEOREM ShaderTypeCorrect == Spec => []TypeOK
  BY ShaderInductive, PTL DEF ShaderInv

\* However OpenGL uses names again, no two objects have one program and no handle is of a
\* program that is gone.
THEOREM HandlesAreOwned == Spec => []HandlesOwned
  BY ShaderInductive, PTL DEF ShaderInv

\* Every program that is not deleted is some object's, and none outlives its deletion but
\* the one in use.
THEOREM NothingIsOrphaned == Spec => []NoOrphans
  BY ShaderInductive, PTL DEF ShaderInv

\* An ok from compile stands for a program that can be used, but for that of a compile
\* which found the handle of a failed one and skipped its work.
THEOREM OkIsLinked == Spec => []OkMeansLinked
  BY ShaderInductive, PTL DEF ShaderInv

\* The assertion of the setters cannot fail, so that leaving it out changes nothing, for any
\* object whose ok did not follow a failure.
THEOREM SettersAreActive == Spec => []SetterAsserted
  BY ShaderInductive, PTL DEF ShaderInv

\* A value set through an object reaches the object's own program and no other.
THEOREM UniformsStayHome == Spec => []UniformsLandHome
  BY ShaderInductive, PTL DEF ShaderInv

=============================================================================
