-------------------------- MODULE LeafCalls_proofs --------------------------
(***************************************************************************)
(* Proofs about LeafCalls: what each leaf promises, for every set of       *)
(* strings, of calls, of numbers and of coordinates, and that a behaviour  *)
(* of LeafCalls is one of every leaf.                                      *)
(***************************************************************************)
EXTENDS LeafCalls, SequenceTheorems, TLAPS

-----------------------------------------------------------------------------
(***************************************************************************)
(* AsciiCmp                                                                *)
(***************************************************************************)

\* The pointers are where the count says, inside both strings or at a terminator, and what is
\* behind them is the same.
Lockstep ==
  call # "none" =>
    /\ p1 = n + 1 /\ p2 = n + 1
    /\ SharesPrefix(s, Tests[call].ascii, n)
    /\ n <= Tests[call].len

CompareInv == TypeOK /\ Lockstep /\ AnswersAreRight

\* What the running call compares with.
LEMMA RunningCall ==
  ASSUME TypeOK, call # "none"
  PROVE  /\ call \in DOMAIN Tests
         /\ Tests[call].ascii \in Text /\ Tests[call].len \in Nat \ {0}
         /\ s \in Text
  BY StringsAssumption, TestsAssumption DEF TypeOK

\* A string of n characters that are the same ends, or differs in the next, exactly if Differs.
LEMMA NextCharacter ==
  ASSUME CompareInv, call # "none"
  PROVE  ~Differs <=> SharesPrefix(s, Tests[call].ascii, n + 1)
<1> DEFINE ascii == Tests[call].ascii
<1>1. /\ s \in Seq(Char \ {NUL}) /\ ascii \in Seq(Char \ {NUL})
      /\ p1 = n + 1 /\ p2 = n + 1 /\ n \in Nat
      /\ SharesPrefix(s, ascii, n)
  BY RunningCall DEF CompareInv, TypeOK, Lockstep, Text
<1>2. CASE n + 1 <= Len(s) /\ n + 1 <= Len(ascii)
  <2>1. s[n + 1] # NUL /\ ascii[n + 1] # NUL
    <3>1. n + 1 \in 1..Len(s) /\ n + 1 \in 1..Len(ascii)
      BY <1>1, <1>2
    <3>2. s[n + 1] \in Char \ {NUL} /\ ascii[n + 1] \in Char \ {NUL}
      BY <1>1, <3>1
    <3> QED BY <3>2
  <2>2. ~Differs <=> s[n + 1] = ascii[n + 1]
    BY <1>1, <1>2, <2>1 DEF Differs, At
  <2>3. SharesPrefix(s, ascii, n + 1) <=> s[n + 1] = ascii[n + 1]
    BY <1>1, <1>2 DEF SharesPrefix
  <2> QED BY <2>2, <2>3
<1>3. CASE ~(n + 1 <= Len(s) /\ n + 1 <= Len(ascii))
  <2>1. Differs
    BY <1>1, <1>3 DEF Differs, At
  <2>2. ~SharesPrefix(s, ascii, n + 1)
    BY <1>3 DEF SharesPrefix
  <2> QED BY <2>1, <2>2
<1> QED BY <1>2, <1>3

\* A prefix that is shared has shared prefixes.
LEMMA ShorterPrefix ==
  ASSUME NEW text \in Text, NEW ascii \in Text, NEW k \in Nat, NEW len \in Nat, k <= len,
         SharesPrefix(text, ascii, len)
  PROVE  SharesPrefix(text, ascii, k)
  BY DEF SharesPrefix

LEMMA CompareInit == Init => CompareInv
  BY DEF Init, CompareInv, TypeOK, Lockstep, AnswersAreRight

\* A call starts with both pointers at the start.
LEMMA CallKeeps ==
  ASSUME CompareInv, NEW t \in DOMAIN Tests, Call(t)
  PROVE  CompareInv'
<1> USE DEF Call
<1>1. Tests[t].ascii \in Text /\ Tests[t].len \in Nat \ {0} /\ s \in Text
  BY StringsAssumption, TestsAssumption DEF CompareInv, TypeOK
<1>2. TypeOK'
  BY DEF CompareInv, TypeOK
<1>3. SharesPrefix(s, Tests[t].ascii, 0)
  BY <1>1 DEF SharesPrefix, Text
<1>4. Lockstep'
  BY <1>1, <1>3 DEF Lockstep, SharesPrefix
<1>5. AnswersAreRight'
  BY DEF CompareInv, AnswersAreRight, SharesPrefix
<1> QED BY <1>2, <1>4, <1>5 DEF CompareInv

\* A right answer keeps the answers right.
LEMMA ReturnKeeps ==
  ASSUME CompareInv, call # "none", NEW answer \in {"false", "true"}, Return(answer),
         answer = "true" <=> SharesPrefix(s, Tests[call].ascii, Tests[call].len)
  PROVE  CompareInv'
<1>1. call \in DOMAIN Tests
  BY RunningCall DEF CompareInv
<1>2. TypeOK'
  BY <1>1 DEF Return, CompareInv, TypeOK
<1>3. Lockstep'
  BY DEF Return, Lockstep
<1>4. AnswersAreRight'
  <2> SUFFICES ASSUME NEW t \in DOMAIN Tests, answers'[t] # "none"
               PROVE  answers'[t] = "true" <=> SharesPrefix(s, Tests[t].ascii, Tests[t].len)
    BY DEF AnswersAreRight, Return, SharesPrefix
  <2>1. CASE t = call
    BY <1>1, <2>1 DEF Return, CompareInv, TypeOK
  <2>2. CASE t # call
    BY <2>2 DEF Return, CompareInv, TypeOK, AnswersAreRight
  <2> QED BY <2>1, <2>2
<1> QED BY <1>2, <1>3, <1>4 DEF CompareInv

\* Each round of the loop returns the right answer or goes on in lockstep.
LEMMA CompareKeeps ==
  ASSUME CompareInv, Compare
  PROVE  CompareInv'
<1>1. call # "none"
  BY DEF Compare
<1>2. /\ s \in Text /\ Tests[call].ascii \in Text /\ Tests[call].len \in Nat \ {0}
      /\ n \in Nat /\ n <= Tests[call].len /\ SharesPrefix(s, Tests[call].ascii, n)
  BY <1>1, RunningCall DEF CompareInv, TypeOK, Lockstep
<1>3. CASE n >= Tests[call].len
  <2>1. Return("true") /\ n = Tests[call].len
    BY <1>1, <1>2, <1>3 DEF Compare
  <2> QED BY <1>1, <1>2, <2>1, ReturnKeeps
<1>4. CASE n < Tests[call].len /\ Differs
  <2>1. Return("false")
    BY <1>1, <1>2, <1>4 DEF Compare
  <2>2. ~SharesPrefix(s, Tests[call].ascii, n + 1)
    BY <1>1, <1>4, NextCharacter
  <2>3. ~SharesPrefix(s, Tests[call].ascii, Tests[call].len)
    BY <1>2, <1>4, <2>2, ShorterPrefix
  <2> QED BY <1>1, <2>1, <2>3, ReturnKeeps
<1>5. CASE n < Tests[call].len /\ ~Differs
  <2>1. Advance
    BY <1>1, <1>2, <1>5 DEF Compare
  <2>2. SharesPrefix(s, Tests[call].ascii, n + 1)
    BY <1>1, <1>5, NextCharacter
  <2>3. TypeOK'
    BY <2>1 DEF Advance, CompareInv, TypeOK
  <2>4. Lockstep'
    BY <1>1, <1>2, <1>5, <2>1, <2>2 DEF Advance, CompareInv, Lockstep, SharesPrefix
  <2>5. AnswersAreRight'
    BY <2>1 DEF Advance, CompareInv, AnswersAreRight, SharesPrefix
  <2> QED BY <2>3, <2>4, <2>5 DEF CompareInv
<1> QED BY <1>2, <1>3, <1>4, <1>5

LEMMA CompareStep ==
  ASSUME CompareInv, [Next]_vars
  PROVE  CompareInv'
<1>1. CASE Compare
  BY <1>1, CompareKeeps
<1>2. CASE \E t \in DOMAIN Tests : Call(t)
  BY <1>2, CallKeeps
<1>3. CASE UNCHANGED vars
  BY <1>3 DEF vars, CompareInv, TypeOK, Lockstep, AnswersAreRight, SharesPrefix
<1> QED BY <1>1, <1>2, <1>3 DEF Next

\* The inductive invariant.
THEOREM AsciiCmpInvariant == Spec => []CompareInv
<1>1. CompareInv /\ [Next]_vars => CompareInv'
  BY CompareStep
<1> QED BY CompareInit, <1>1, PTL DEF Spec

\* Type correctness of ascii_cmp's loop.
THEOREM AsciiCmpTypeCorrect == Spec => []TypeOK
  BY AsciiCmpInvariant, PTL DEF CompareInv

\* ascii_cmp never reads behind a terminator, whatever the strings and the length.
THEOREM ReadsStayInBounds == Spec => []ReadsInBounds
<1>1. CompareInv => ReadsInBounds
  <2> SUFFICES ASSUME CompareInv, call # "none", n < Tests[call].len
               PROVE  p1 <= Len(s) + 1 /\ p2 <= Len(Tests[call].ascii) + 1
    BY DEF ReadsInBounds
  <2>1. s \in Text /\ Tests[call].ascii \in Text
    BY RunningCall DEF CompareInv
  <2> QED BY <2>1 DEF CompareInv, TypeOK, Lockstep, SharesPrefix, Text
<1> QED BY AsciiCmpInvariant, <1>1, PTL

\* ascii_cmp says "true" exactly of strings that share a prefix of len characters.
THEOREM AsciiCmpIsRight == Spec => []AnswersAreRight
  BY AsciiCmpInvariant, PTL DEF CompareInv

\* The answers the program gets never contradict each other: a UNC path is an extended one,
\* which starts with two separators and not with two slashes.
THEOREM PrefixAnswersNest ==
  ASSUME Tests = PrefixTests
  PROVE  Spec => []PrefixesNest
<1>1. CompareInv => PrefixesNest
  <2> SUFFICES ASSUME CompareInv
               PROVE  PrefixesNest
    OBVIOUS
  <2> DEFINE Shares(t) == SharesPrefix(s, Tests[t].ascii, Tests[t].len)
  <2>1. s \in Seq(Char \ {NUL})
    BY StringsAssumption DEF CompareInv, TypeOK, Text
  <2>2. \A t \in {"extended", "unc", "two_separators", "two_slashes"} :
          /\ answers[t] \in {"none", "false", "true"}
          /\ answers[t] # "none" => (answers[t] = "true" <=> Shares(t))
    BY DEF CompareInv, TypeOK, AnswersAreRight, PrefixTests
  <2>3. /\ Shares("extended") <=> SharesPrefix(s, <<92, 92, 63, 92>>, 4)
        /\ Shares("unc") <=> SharesPrefix(s, <<92, 92, 63, 92, 85, 78, 67, 92>>, 8)
        /\ Shares("two_separators") <=> SharesPrefix(s, <<92, 92>>, 2)
        /\ Shares("two_slashes") <=> SharesPrefix(s, <<47, 47>>, 2)
    BY DEF PrefixTests
  <2>4. SharesPrefix(s, <<92, 92, 63, 92, 85, 78, 67, 92>>, 8)
          => SharesPrefix(s, <<92, 92, 63, 92>>, 4)
    <3> DEFINE unc == <<92, 92, 63, 92, 85, 78, 67, 92>>
               extended == <<92, 92, 63, 92>>
    <3>1. \A i \in 1..4 : i \in 1..8 /\ unc[i] = extended[i]
      OBVIOUS
    <3>2. Len(extended) = 4 /\ Len(s) \in Nat
      BY <2>1
    <3> HIDE DEF unc, extended
    <3> QED BY <3>1, <3>2 DEF SharesPrefix
  <2>5. SharesPrefix(s, <<92, 92, 63, 92>>, 4) => SharesPrefix(s, <<92, 92>>, 2)
    <3> DEFINE extended == <<92, 92, 63, 92>>
               two == <<92, 92>>
    <3>1. \A i \in 1..2 : i \in 1..4 /\ extended[i] = two[i]
      OBVIOUS
    <3>2. Len(two) = 2 /\ Len(s) \in Nat
      BY <2>1
    <3> HIDE DEF extended, two
    <3> QED BY <3>1, <3>2 DEF SharesPrefix
  <2>6. ~(SharesPrefix(s, <<92, 92>>, 2) /\ SharesPrefix(s, <<47, 47>>, 2))
    BY DEF SharesPrefix
  <2>7. /\ Shares("unc") => Shares("extended")
        /\ Shares("extended") => Shares("two_separators")
        /\ Shares("two_separators") => ~Shares("two_slashes")
    BY <2>3, <2>4, <2>5, <2>6
  <2> HIDE DEF Shares
  <2> QED BY <2>2, <2>7 DEF PrefixesNest
<1> QED BY AsciiCmpInvariant, <1>1, PTL

-----------------------------------------------------------------------------
(***************************************************************************)
(* Vector                                                                  *)
(***************************************************************************)

Typed == [Vectors!Objects -> [Vectors!Axes -> Vectors!Numbers]]

\* An assignment to one coordinate of x gives it a number and leaves the other objects alone.
LEMMA WrittenTyped ==
  ASSUME NEW m \in Typed, NEW op, NEW x \in Vectors!Objects, NEW i \in Vectors!Axes, NEW b,
         NEW w \in Vectors!Written(m, op, x, i, b)
  PROVE  w \in Typed /\ \A o \in Vectors!Objects \ {x} : w[o] = m[o]
<1>1. PICK k \in Vectors!Results(op, m[x][i], b) : w = [m EXCEPT ![x][i] = k]
  BY DEF Vectors!Written
<1>2. k \in Vectors!Numbers
  BY DEF Vectors!Results
<1>3. QED
  BY <1>1, <1>2 DEF Typed

\* So does an assignment of a whole vector to x.
LEMMA AssignedVectorTyped ==
  ASSUME NEW m \in Typed, NEW op, NEW x \in Vectors!Objects, NEW y,
         NEW w \in Vectors!AssignedVector(m, op, x, y)
  PROVE  w \in Typed /\ \A o \in Vectors!Objects \ {x} : w[o] = m[o]
<1>0. 1 \in Vectors!Axes /\ 2 \in Vectors!Axes /\ 3 \in Vectors!Axes
  BY DEF Vectors!Axes
<1>1. PICK m1 \in Vectors!Written(m, op, x, 1, m[y][1]) :
        \E m2 \in Vectors!Written(m1, op, x, 2, m1[y][2]) :
          w \in Vectors!Written(m2, op, x, 3, m2[y][3])
  BY DEF Vectors!AssignedVector
<1>2. PICK m2 \in Vectors!Written(m1, op, x, 2, m1[y][2]) :
          w \in Vectors!Written(m2, op, x, 3, m2[y][3])
  BY <1>1
<1>3. m1 \in Typed /\ \A o \in Vectors!Objects \ {x} : m1[o] = m[o]
  BY <1>0, <1>1, WrittenTyped
<1>4. m2 \in Typed /\ \A o \in Vectors!Objects \ {x} : m2[o] = m1[o]
  BY <1>0, <1>2, <1>3, WrittenTyped
<1>5. w \in Typed /\ \A o \in Vectors!Objects \ {x} : w[o] = m2[o]
  BY <1>0, <1>2, <1>4, WrittenTyped
<1>6. QED
  BY <1>3, <1>4, <1>5

\* And an assignment of a scalar.
LEMMA AssignedScalarTyped ==
  ASSUME NEW m \in Typed, NEW op, NEW x \in Vectors!Objects, NEW y, NEW j,
         NEW w \in Vectors!AssignedScalar(m, op, x, y, j)
  PROVE  w \in Typed /\ \A o \in Vectors!Objects \ {x} : w[o] = m[o]
<1>0. 1 \in Vectors!Axes /\ 2 \in Vectors!Axes /\ 3 \in Vectors!Axes
  BY DEF Vectors!Axes
<1>1. PICK m1 \in Vectors!Written(m, op, x, 1, m[y][j]) :
        \E m2 \in Vectors!Written(m1, op, x, 2, m[y][j]) :
          w \in Vectors!Written(m2, op, x, 3, m[y][j])
  BY DEF Vectors!AssignedScalar
<1>2. PICK m2 \in Vectors!Written(m1, op, x, 2, m[y][j]) :
          w \in Vectors!Written(m2, op, x, 3, m[y][j])
  BY <1>1
<1>3. m1 \in Typed /\ \A o \in Vectors!Objects \ {x} : m1[o] = m[o]
  BY <1>0, <1>1, WrittenTyped
<1>4. m2 \in Typed /\ \A o \in Vectors!Objects \ {x} : m2[o] = m1[o]
  BY <1>0, <1>2, <1>3, WrittenTyped
<1>5. w \in Typed /\ \A o \in Vectors!Objects \ {x} : w[o] = m2[o]
  BY <1>0, <1>2, <1>4, WrittenTyped
<1>6. QED
  BY <1>3, <1>4, <1>5

\* The vectors hold numbers of the model and the copy none between two operators: Results has
\* no others, so that this says nothing of overflow.
LEMMA VectorTypeCorrect ==
  ASSUME Vectors!Bounded
  PROVE  Vectors!Spec => []Vectors!TypeOK
<1>1. Vectors!Init => Vectors!TypeOK
  <2>1. Coordinates \union {0} \subseteq Vectors!Numbers
    BY DEF Vectors!Bounded, Vectors!Numbers
  <2>2. QED
    BY <2>1 DEF Vectors!Init, Vectors!TypeOK
<1>2. Vectors!TypeOK /\ [Vectors!Next]_Vectors!vars => Vectors!TypeOK'
  <2> SUFFICES ASSUME Vectors!TypeOK, [Vectors!Next]_Vectors!vars
               PROVE  Vectors!TypeOK'
    OBVIOUS
  <2>1. vecs \in Typed /\ vecs["copy"] = Vectors!Zero
    BY DEF Vectors!TypeOK, Typed
  <2>2. ASSUME NEW x \in Vectors!Vectors, NEW y \in Vectors!Vectors, Vectors!Assign(x, y)
        PROVE  Vectors!TypeOK'
    <3>1. x \in Vectors!Objects /\ x # "copy" /\ "copy" \in Vectors!Objects
      BY DEF Vectors!Objects, Vectors!Vectors
    <3>2. PICK op \in Vectors!Operators : vecs' \in Vectors!AssignedVector(vecs, op, x, y)
      BY <2>2 DEF Vectors!Assign
    <3>3. vecs' \in Typed /\ \A o \in Vectors!Objects \ {x} : vecs'[o] = vecs[o]
      BY <2>1, <3>1, <3>2, AssignedVectorTyped
    <3>4. QED
      BY <2>1, <3>1, <3>3 DEF Vectors!TypeOK, Typed, Vectors!Zero
  <2>3. ASSUME NEW x \in Vectors!Vectors, NEW y \in Vectors!Vectors, Vectors!Scale(x, y)
        PROVE  Vectors!TypeOK'
    <3>1. x \in Vectors!Objects /\ x # "copy" /\ "copy" \in Vectors!Objects
      BY DEF Vectors!Objects, Vectors!Vectors
    <3>2. PICK op \in {"*", "/"}, j \in Vectors!Axes :
            vecs' \in Vectors!AssignedScalar(vecs, op, x, y, j)
      BY <2>3 DEF Vectors!Scale
    <3>3. vecs' \in Typed /\ \A o \in Vectors!Objects \ {x} : vecs'[o] = vecs[o]
      BY <2>1, <3>1, <3>2, AssignedScalarTyped
    <3>4. QED
      BY <2>1, <3>1, <3>3 DEF Vectors!TypeOK, Typed, Vectors!Zero
  <2>4. ASSUME NEW x \in Vectors!Vectors, NEW y \in Vectors!Vectors, Vectors!Combine(x, y)
        PROVE  Vectors!TypeOK'
    <3> DEFINE start == [vecs EXCEPT !["copy"] = vecs[x]]
    <3>1. {x, "copy", "u"} \subseteq Vectors!Objects /\ "u" # "copy"
      BY DEF Vectors!Objects, Vectors!Vectors
    <3>2. PICK op \in Vectors!Operators :
            \E m \in Vectors!AssignedVector(start, op, "copy", y) :
               vecs' = [m EXCEPT !["u"] = m["copy"], !["copy"] = Vectors!Zero]
      BY <2>4 DEF Vectors!Combine
    <3>7. PICK m \in Vectors!AssignedVector(start, op, "copy", y) :
            vecs' = [m EXCEPT !["u"] = m["copy"], !["copy"] = Vectors!Zero]
      BY <3>2
    <3>3. start \in Typed
      BY <2>1, <3>1 DEF Typed
    <3>4. m \in Typed
      BY <3>1, <3>2, <3>3, AssignedVectorTyped
    <3>5. Vectors!Zero \in [Vectors!Axes -> Vectors!Numbers]
      BY DEF Vectors!Bounded, Vectors!Zero, Vectors!Numbers
    <3>6. QED
      BY <3>1, <3>7, <3>4, <3>5 DEF Vectors!TypeOK, Typed
  <2>5. QED
    BY <2>2, <2>3, <2>4 DEF Vectors!Next, Vectors!TypeOK, Vectors!vars,
                            Vectors!UnitVector, Vectors!MakeUnitVector
<1>3. QED
  BY <1>1, <1>2, PTL DEF Vectors!Spec

\* What CrossSpans says of two vectors.
Spanned(a, b) ==
  /\ Vectors!dot(a, Vectors!cross(a, b)) = 0 /\ Vectors!dot(b, Vectors!cross(a, b)) = 0
  /\ Vectors!squared_length(Vectors!cross(a, b)) + Vectors!dot(a, b) * Vectors!dot(a, b)
       = Vectors!squared_length(a) * Vectors!squared_length(b)

\* The identity behind CrossSpans: `cross' is orthogonal to its operands, and Lagrange's
\* identity gives its length.
LEMMA CrossIdentity ==
  ASSUME NEW a \in [Vectors!Axes -> Int], NEW b \in [Vectors!Axes -> Int]
  PROVE  Spanned(a, b)
<1>1. \A a1, a2, a3, b1, b2, b3 \in Int :
        /\ a1 * (a2 * b3 - a3 * b2) + a2 * (-(a1 * b3 - a3 * b1)) + a3 * (a1 * b2 - a2 * b1) = 0
        /\ b1 * (a2 * b3 - a3 * b2) + b2 * (-(a1 * b3 - a3 * b1)) + b3 * (a1 * b2 - a2 * b1) = 0
  OBVIOUS
<1>2. \A a1, a2, a3, b1, b2, b3 \in Int :
        (a2 * b3 - a3 * b2) * (a2 * b3 - a3 * b2)
          + (-(a1 * b3 - a3 * b1)) * (-(a1 * b3 - a3 * b1))
          + (a1 * b2 - a2 * b1) * (a1 * b2 - a2 * b1)
          + (a1 * b1 + a2 * b2 + a3 * b3) * (a1 * b1 + a2 * b2 + a3 * b3)
        = (a1 * a1 + a2 * a2 + a3 * a3) * (b1 * b1 + b2 * b2 + b3 * b3)
  OBVIOUS
<1>3. a[1] \in Int /\ a[2] \in Int /\ a[3] \in Int /\ b[1] \in Int /\ b[2] \in Int
      /\ b[3] \in Int
  BY DEF Vectors!Axes
<1>4. QED
  BY <1>1, <1>2, <1>3 DEF Vectors!dot, Vectors!cross, Vectors!squared_length, Spanned

\* In every state of the two vectors the cross product spans what it should, for all
\* integer coordinates.
THEOREM CrossIsRight ==
  ASSUME Vectors!Bounded
  PROVE  Vectors!Spec => []Vectors!CrossSpans
<1>1. Vectors!TypeOK => Vectors!CrossSpans
  <2> SUFFICES ASSUME Vectors!TypeOK, NEW x \in Vectors!Vectors, NEW y \in Vectors!Vectors
               PROVE  Spanned(vecs[x], vecs[y])
    BY DEF Vectors!CrossSpans, Spanned
  <2>1. vecs[x] \in [Vectors!Axes -> Int] /\ vecs[y] \in [Vectors!Axes -> Int]
    BY DEF Vectors!Bounded, Vectors!TypeOK, Vectors!Objects, Vectors!Numbers
  <2>2. QED
    BY <2>1, CrossIdentity DEF Spanned
<1>2. QED
  BY <1>1, VectorTypeCorrect, PTL

\* An assignment to one coordinate computes it from what it was, and leaves the others alone.
LEMMA WrittenReads ==
  ASSUME NEW m \in Typed, NEW op, NEW x \in Vectors!Objects, NEW i \in Vectors!Axes, NEW b,
         NEW w \in Vectors!Written(m, op, x, i, b)
  PROVE  /\ w[x][i] \in Vectors!Results(op, m[x][i], b)
         /\ \A o \in Vectors!Objects, k \in Vectors!Axes : o # x \/ k # i => w[o][k] = m[o][k]
<1>1. PICK k \in Vectors!Results(op, m[x][i], b) : w = [m EXCEPT ![x][i] = k]
  BY DEF Vectors!Written
<1>2. QED
  BY <1>1 DEF Typed

\* An assignment of a vector computes each coordinate from what both objects were, also where
\* they are one.
LEMMA AssignedVectorReads ==
  ASSUME NEW m \in Typed, NEW op, NEW x \in Vectors!Objects, NEW y \in Vectors!Objects,
         NEW w \in Vectors!AssignedVector(m, op, x, y), NEW i \in Vectors!Axes
  PROVE  w[x][i] \in Vectors!Results(op, m[x][i], m[y][i])
<1>0. 1 \in Vectors!Axes /\ 2 \in Vectors!Axes /\ 3 \in Vectors!Axes /\ i \in {1, 2, 3}
  BY DEF Vectors!Axes
<1>1. PICK m1 \in Vectors!Written(m, op, x, 1, m[y][1]) :
        \E m2 \in Vectors!Written(m1, op, x, 2, m1[y][2]) :
          w \in Vectors!Written(m2, op, x, 3, m2[y][3])
  BY DEF Vectors!AssignedVector
<1>2. PICK m2 \in Vectors!Written(m1, op, x, 2, m1[y][2]) :
          w \in Vectors!Written(m2, op, x, 3, m2[y][3])
  BY <1>1
<1>3. m1 \in Typed /\ m2 \in Typed
  BY <1>0, <1>1, <1>2, WrittenTyped
<1>4. /\ m1[x][1] \in Vectors!Results(op, m[x][1], m[y][1])
      /\ \A o \in Vectors!Objects, k \in Vectors!Axes : o # x \/ k # 1 => m1[o][k] = m[o][k]
  BY <1>0, <1>1, WrittenReads
<1>5. /\ m2[x][2] \in Vectors!Results(op, m1[x][2], m1[y][2])
      /\ \A o \in Vectors!Objects, k \in Vectors!Axes : o # x \/ k # 2 => m2[o][k] = m1[o][k]
  BY <1>0, <1>2, <1>3, WrittenReads
<1>6. /\ w[x][3] \in Vectors!Results(op, m2[x][3], m2[y][3])
      /\ \A o \in Vectors!Objects, k \in Vectors!Axes : o # x \/ k # 3 => w[o][k] = m2[o][k]
  BY <1>0, <1>2, <1>3, WrittenReads
<1>7. m1[x][2] = m[x][2] /\ m1[y][2] = m[y][2] /\ m2[x][3] = m[x][3] /\ m2[y][3] = m[y][3]
  BY <1>0, <1>4, <1>5
<1>8. w[x][1] = m1[x][1] /\ w[x][2] = m2[x][2]
  BY <1>0, <1>5, <1>6
<1>9. QED
  BY <1>0, <1>4, <1>5, <1>6, <1>7, <1>8

\* An assignment of a scalar computes each coordinate from what it and the scalar were, also
\* where the scalar is a coordinate of the target.
LEMMA AssignedScalarReads ==
  ASSUME NEW m \in Typed, NEW op, NEW x \in Vectors!Objects, NEW y, NEW j,
         NEW w \in Vectors!AssignedScalar(m, op, x, y, j), NEW i \in Vectors!Axes
  PROVE  w[x][i] \in Vectors!Results(op, m[x][i], m[y][j])
<1>0. 1 \in Vectors!Axes /\ 2 \in Vectors!Axes /\ 3 \in Vectors!Axes /\ i \in {1, 2, 3}
  BY DEF Vectors!Axes
<1>1. PICK m1 \in Vectors!Written(m, op, x, 1, m[y][j]) :
        \E m2 \in Vectors!Written(m1, op, x, 2, m[y][j]) :
          w \in Vectors!Written(m2, op, x, 3, m[y][j])
  BY DEF Vectors!AssignedScalar
<1>2. PICK m2 \in Vectors!Written(m1, op, x, 2, m[y][j]) :
          w \in Vectors!Written(m2, op, x, 3, m[y][j])
  BY <1>1
<1>3. m1 \in Typed /\ m2 \in Typed
  BY <1>0, <1>1, <1>2, WrittenTyped
<1>4. /\ m1[x][1] \in Vectors!Results(op, m[x][1], m[y][j])
      /\ \A o \in Vectors!Objects, k \in Vectors!Axes : o # x \/ k # 1 => m1[o][k] = m[o][k]
  BY <1>0, <1>1, WrittenReads
<1>5. /\ m2[x][2] \in Vectors!Results(op, m1[x][2], m[y][j])
      /\ \A o \in Vectors!Objects, k \in Vectors!Axes : o # x \/ k # 2 => m2[o][k] = m1[o][k]
  BY <1>0, <1>2, <1>3, WrittenReads
<1>6. /\ w[x][3] \in Vectors!Results(op, m2[x][3], m[y][j])
      /\ \A o \in Vectors!Objects, k \in Vectors!Axes : o # x \/ k # 3 => w[o][k] = m2[o][k]
  BY <1>0, <1>2, <1>3, WrittenReads
<1>7. /\ m1[x][2] = m[x][2] /\ m2[x][3] = m[x][3]
      /\ w[x][1] = m1[x][1] /\ w[x][2] = m2[x][2]
  BY <1>0, <1>4, <1>5, <1>6
<1>8. QED
  BY <1>0, <1>4, <1>5, <1>6, <1>7

\* What ReadsWhatWas says of a step with target `target' and operands `left' and by[i].
Reads(target, op, left, by) ==
  /\ \A i \in Vectors!Axes : vecs'[target][i] \in Vectors!Results(op, left[i], by[i])
  /\ \A x \in Vectors!Objects \ {target} : vecs'[x] = vecs[x]

\* Every step of the vectors computes from what its operands were.
LEMMA StepReads ==
  ASSUME Vectors!TypeOK, Vectors!Next, ~UNCHANGED <<vecs, last>>
  PROVE  Reads(IF last'.kind = "combine" THEN "u" ELSE last'.of, last'.op, vecs[last'.of],
               [i \in Vectors!Axes |-> vecs[last'.by][IF last'.kind = "scale" THEN last'.axis
                                                      ELSE i]])
<1>0. vecs \in Typed /\ vecs["copy"] = Vectors!Zero
  BY DEF Vectors!TypeOK, Typed
<1>1. PICK x \in Vectors!Vectors, y \in Vectors!Vectors :
        Vectors!Assign(x, y) \/ Vectors!Scale(x, y) \/ Vectors!Combine(x, y)
  BY DEF Vectors!Next
<1>2. {x, y, "u", "copy"} \subseteq Vectors!Objects /\ x # "copy" /\ y # "copy"
  BY DEF Vectors!Objects, Vectors!Vectors
<1>3. CASE Vectors!Assign(x, y)
  <2>1. PICK op \in Vectors!Operators :
          /\ vecs' \in Vectors!AssignedVector(vecs, op, x, y)
          /\ last' = [kind |-> "assign", op |-> op, of |-> x, by |-> y]
    BY <1>3 DEF Vectors!Assign
  <2>2. \A i \in Vectors!Axes : vecs'[x][i] \in Vectors!Results(op, vecs[x][i], vecs[y][i])
    BY <1>0, <1>2, <2>1, AssignedVectorReads
  <2>3. \A o \in Vectors!Objects \ {x} : vecs'[o] = vecs[o]
    BY <1>0, <1>2, <2>1, AssignedVectorTyped
  <2>4. QED
    BY <2>1, <2>2, <2>3 DEF Reads
<1>4. CASE Vectors!Scale(x, y)
  <2>1. PICK op \in {"*", "/"}, j \in Vectors!Axes :
          /\ vecs' \in Vectors!AssignedScalar(vecs, op, x, y, j)
          /\ last' = [kind |-> "scale", op |-> op, of |-> x, by |-> y, axis |-> j]
    BY <1>4 DEF Vectors!Scale
  <2>2. \A i \in Vectors!Axes : vecs'[x][i] \in Vectors!Results(op, vecs[x][i], vecs[y][j])
    BY <1>0, <1>2, <2>1, AssignedScalarReads
  <2>3. \A o \in Vectors!Objects \ {x} : vecs'[o] = vecs[o]
    BY <1>0, <1>2, <2>1, AssignedScalarTyped
  <2>4. QED
    BY <2>1, <2>2, <2>3 DEF Reads
<1>5. CASE Vectors!Combine(x, y)
  <2> DEFINE start == [vecs EXCEPT !["copy"] = vecs[x]]
  <2>1. PICK op \in Vectors!Operators :
          /\ vecs' \in {[m EXCEPT !["u"] = m["copy"], !["copy"] = Vectors!Zero] :
                          m \in Vectors!AssignedVector(start, op, "copy", y)}
          /\ last' = [kind |-> "combine", op |-> op, of |-> x, by |-> y]
    BY <1>5 DEF Vectors!Combine
  <2>2. PICK m \in Vectors!AssignedVector(start, op, "copy", y) :
          vecs' = [m EXCEPT !["u"] = m["copy"], !["copy"] = Vectors!Zero]
    BY <2>1
  <2>3. start \in Typed /\ start["copy"] = vecs[x] /\ start[y] = vecs[y]
    BY <1>0, <1>2 DEF Typed
  <2>4. \A o \in Vectors!Objects \ {"copy"} : start[o] = vecs[o]
    BY <1>0 DEF Typed
  <2> HIDE DEF start
  <2>5. m \in Typed /\ \A o \in Vectors!Objects \ {"copy"} : m[o] = start[o]
    BY <1>2, <2>3, AssignedVectorTyped
  <2>6. \A i \in Vectors!Axes : m["copy"][i] \in Vectors!Results(op, vecs[x][i], vecs[y][i])
    BY <1>2, <2>3, AssignedVectorReads
  <2>7. /\ vecs'["u"] = m["copy"] /\ vecs'["copy"] = vecs["copy"]
        /\ \A o \in Vectors!Objects \ {"u", "copy"} : vecs'[o] = vecs[o]
    BY <1>0, <1>2, <2>2, <2>4, <2>5 DEF Typed
  <2>8. QED
    BY <2>1, <2>6, <2>7 DEF Reads
<1>6. QED
  BY <1>1, <1>3, <1>4, <1>5

\* An operator of Vector3 computes from what its operands were and writes to nothing but its
\* target, for all coordinates and whichever of its operands are one object.
THEOREM OperandsMayAlias ==
  ASSUME Vectors!Bounded
  PROVE  Vectors!Spec => Vectors!ReadsWhatWas
<1>1. Vectors!TypeOK /\ [Vectors!Next]_Vectors!vars =>
        [vecs' # vecs \/ last' # last =>
           LET target == IF last'.kind = "combine" THEN "u" ELSE last'.of
               by(i)  == vecs[last'.by][IF last'.kind = "scale" THEN last'.axis ELSE i]
           IN  /\ \A i \in Vectors!Axes :
                    vecs'[target][i] \in Vectors!Results(last'.op, vecs[last'.of][i], by(i))
               /\ \A x \in Vectors!Objects \ {target} : vecs'[x] = vecs[x]]_Vectors!vars
  BY StepReads DEF Vectors!vars, Reads
<1>2. QED
  BY <1>1, VectorTypeCorrect, PTL DEF Vectors!Spec, Vectors!ReadsWhatWas

-----------------------------------------------------------------------------
(***************************************************************************)
(* A behaviour of LeafCalls is one of every leaf                           *)
(***************************************************************************)

\* The variables of a leaf that does not run rest.
LEMMA OneRuns ==
  ASSUME NEW leaf \in Leaves, Runs(leaf)
  PROVE  \A other \in Leaves : other # leaf => Rests(other)
  BY DEF Runs

LEMMA AllStart ==
  ASSUME LeafInit
  PROVE  /\ Init
         /\ Windows!Init /\ Lines!Init /\ Boundary!Init /\ Lookup!Init /\ Vectors!Init
<1>1. \A leaf \in Leaves : Starting(leaf) \/ Resting(leaf)
  BY DEF LeafInit
<1>2. Init
  <2>1. "ascii_cmp" \in Leaves
    BY DEF Leaves
  <2>2. QED
    BY <1>1, <2>1 DEF Starting, Resting
<1>3. Windows!Init
  <2>1. "windows" \in Leaves
    BY DEF Leaves
  <2>2. QED
    BY <1>1, <2>1 DEF Starting, Resting
<1>4. Lines!Init
  <2>1. "lines" \in Leaves
    BY DEF Leaves
  <2>2. QED
    BY <1>1, <2>1 DEF Starting, Resting
<1>5. Boundary!Init
  <2>1. "boundary" \in Leaves
    BY DEF Leaves
  <2>2. QED
    BY <1>1, <2>1 DEF Starting, Resting
<1>6. Lookup!Init
  <2>1. "lookup" \in Leaves
    BY DEF Leaves
  <2>2. QED
    BY <1>1, <2>1 DEF Starting, Resting
<1>7. Vectors!Init
  <2>1. "vectors" \in Leaves
    BY DEF Leaves
  <2>2. QED
    BY <1>1, <2>1 DEF Starting, Resting
<1>8. QED
  BY <1>2, <1>3, <1>4, <1>5, <1>6, <1>7

\* A step is one of the leaf that runs, and none of any other.
LEMMA EachSteps ==
  ASSUME [LeafNext]_leafVars
  PROVE  /\ [Next]_vars /\ [Windows!Next]_Windows!vars /\ [Lines!Next]_Lines!vars
         /\ [Boundary!Next]_Boundary!vars /\ [Lookup!Next]_Lookup!vars
         /\ [Vectors!Next]_Vectors!vars
<1>0. /\ Rests("ascii_cmp") <=> UNCHANGED vars
      /\ Rests("windows") <=> UNCHANGED Windows!vars
      /\ Rests("lines") <=> UNCHANGED Lines!vars
      /\ Rests("boundary") <=> UNCHANGED Boundary!vars
      /\ Rests("lookup") <=> UNCHANGED Lookup!vars
      /\ Rests("vectors") <=> UNCHANGED Vectors!vars
  BY DEF Rests, windowsVars, linesVars, boundaryVars, lookupVars, vectorsVars, Windows!vars,
         Lines!vars, Boundary!vars, Lookup!vars, Vectors!vars
<1>1. \A leaf, other \in Leaves : Runs(leaf) /\ other # leaf => Rests(other)
  BY OneRuns
<1>2. "ascii_cmp" \in Leaves /\ "windows" \in Leaves /\ "lines" \in Leaves
      /\ "boundary" \in Leaves /\ "lookup" \in Leaves /\ "vectors" \in Leaves
  BY DEF Leaves
<1>3. CASE UNCHANGED leafVars
  <2>1. \A leaf \in Leaves : Rests(leaf)
    BY <1>3 DEF leafVars, Leaves, Rests
  <2>2. QED
    BY <1>0, <1>2, <2>1
<1>4. CASE Runs("ascii_cmp") /\ Next
  BY <1>0, <1>1, <1>2, <1>4
<1>5. CASE Runs("windows") /\ Windows!Next
  BY <1>0, <1>1, <1>2, <1>5
<1>6. CASE Runs("lines") /\ Lines!Next
  BY <1>0, <1>1, <1>2, <1>6
<1>7. CASE Runs("boundary") /\ Boundary!Next
  BY <1>0, <1>1, <1>2, <1>7
<1>8. CASE Runs("lookup") /\ Lookup!Next
  BY <1>0, <1>1, <1>2, <1>8
<1>9. CASE Runs("vectors") /\ Vectors!Next
  BY <1>0, <1>1, <1>2, <1>9
<1>10. QED
  BY <1>3, <1>4, <1>5, <1>6, <1>7, <1>8, <1>9 DEF LeafNext

\* What is shown of a leaf alone holds where LeafCalls runs it: every behaviour of LeafCalls
\* is one of each leaf.
THEOREM LeavesAreAlone ==
  LeafSpec => /\ Spec /\ Windows!Spec /\ Lines!Spec
              /\ Boundary!Spec /\ Lookup!Spec /\ Vectors!Spec
  BY AllStart, EachSteps, PTL
     DEF LeafSpec, Spec, Windows!Spec, Lines!Spec, Boundary!Spec, Lookup!Spec, Vectors!Spec

-----------------------------------------------------------------------------
(***************************************************************************)
(* LinuxErrno                                                              *)
(***************************************************************************)

\* No number has three names.
LEMMA TwoNamesAtMost ==
  ASSUME NEW i \in Lookup!Entries, NEW j \in Lookup!Entries, NEW k \in Lookup!Entries,
         i < j, j < k, Lookup!Number(i) = Lookup!Number(j)
  PROVE  Lookup!Number(k) # Lookup!Number(i)
  BY DEF Lookup!Entries, Lookup!Number

\* desc holds the names of the entries that have been looked at, in their order, then none.
Collected ==
  /\ entry \in 1..135 /\ idx \in 0..2 /\ desc \in [1..3 -> Nat]
  /\ \A k \in 1..idx : desc[k] \in 1..(entry - 1) /\ Lookup!Number(desc[k]) = err
  /\ \A j, k \in 1..idx : j < k => desc[j] < desc[k]
  /\ \A i \in 1..(entry - 1) : Lookup!Number(i) = err => \E k \in 1..idx : desc[k] = i
  /\ \A k \in (idx + 1)..3 : desc[k] = 0

\* The warning is of a number without a name, once all entries have been looked at.
WarnedOfNone ==
  /\ warned \in {"none", "unknown"}
  /\ warned = "unknown" => entry = 135 /\ idx = 0

\* What is logged are the names collected.
LogsCollected ==
  logged # <<0>> =>
    /\ entry = 135
    /\ idx = 0 => warned = "unknown"
    /\ logged = SubSeq(desc, 1, idx)

LookupInv == Collected /\ WarnedOfNone /\ LogsCollected

LEMMA LookupInit == Lookup!Init => LookupInv
  BY DEF Lookup!Init, LookupInv, Collected, WarnedOfNone, LogsCollected, Lookup!MaxSize,
         Lookup!Null

\* A third name is never found, and the search goes through the whole list.
LEMMA LookKeeps ==
  ASSUME LookupInv, Lookup!Look
  PROVE  LookupInv'
<1>1. Collected /\ entry \in 1..134 /\ warned \in {"none", "unknown"} /\ warned # "unknown"
  BY DEF LookupInv, Lookup!Look, Lookup!Searching, WarnedOfNone, Lookup!Entries
<1>2. CASE Lookup!Number(entry) = err
  <2>1. idx < 2
    <3> SUFFICES ASSUME idx = 2 PROVE FALSE
      BY <1>1 DEF Collected
    <3>1. /\ desc[1] \in 1..(entry - 1) /\ desc[2] \in 1..(entry - 1) /\ desc[1] < desc[2]
          /\ Lookup!Number(desc[1]) = err /\ Lookup!Number(desc[2]) = err
      BY <1>1 DEF Collected
    <3>2. {desc[1], desc[2], entry} \subseteq Lookup!Entries /\ desc[2] < entry
      BY <1>1, <3>1 DEF Lookup!Entries
    <3>3. QED
      BY <1>2, <3>1, <3>2, TwoNamesAtMost
  <2>2. /\ desc' = [desc EXCEPT ![idx + 1] = entry] /\ idx' = idx + 1 /\ warned' = warned
        /\ entry' = entry + 1 /\ UNCHANGED <<err, logged>>
    BY <1>1, <1>2, <2>1 DEF Lookup!Look, Lookup!MaxSize, Collected
  <2>3. Collected'
    <3>1. desc' \in [1..3 -> Nat] /\ idx' \in 0..2 /\ entry' \in 1..135
      BY <1>1, <2>1, <2>2 DEF Collected
    <3>2. \A k \in 1..idx : desc'[k] = desc[k]
      BY <1>1, <2>1, <2>2 DEF Collected
    <3>3. desc'[idx + 1] = entry
      BY <1>1, <2>1, <2>2 DEF Collected
    <3>4. \A k \in 1..idx' : k \in 1..idx \/ k = idx + 1
      BY <1>1, <2>1, <2>2 DEF Collected
    <3>5. \A k \in 1..idx' : desc'[k] \in 1..(entry' - 1) /\ Lookup!Number(desc'[k]) = err'
      BY <1>1, <1>2, <2>2, <3>2, <3>3, <3>4 DEF Collected
    <3>6. \A j, k \in 1..idx' : j < k => desc'[j] < desc'[k]
      BY <1>1, <2>1, <2>2, <3>2, <3>3, <3>4 DEF Collected
    <3>7. \A i \in 1..(entry' - 1) : Lookup!Number(i) = err' => \E k \in 1..idx' : desc'[k] = i
      <4> SUFFICES ASSUME NEW i \in 1..(entry' - 1), Lookup!Number(i) = err'
                   PROVE  \E k \in 1..idx' : desc'[k] = i
        OBVIOUS
      <4>1. CASE i = entry
        BY <1>1, <2>1, <2>2, <3>3, <4>1 DEF Collected
      <4>2. CASE i # entry
        <5>1. i \in 1..(entry - 1) /\ Lookup!Number(i) = err
          BY <1>1, <2>2, <4>2
        <5>2. PICK k \in 1..idx : desc[k] = i
          BY <1>1, <5>1 DEF Collected
        <5>3. k \in 1..idx'
          BY <1>1, <2>2 DEF Collected
        <5>4. QED
          BY <3>2, <5>2, <5>3
      <4>3. QED
        BY <4>1, <4>2
    <3>8. \A k \in (idx' + 1)..3 : desc'[k] = 0
      BY <1>1, <2>1, <2>2 DEF Collected
    <3>9. QED
      BY <3>1, <3>5, <3>6, <3>7, <3>8 DEF Collected
  <2>4. QED
    BY <1>1, <2>2, <2>3 DEF LookupInv, WarnedOfNone, LogsCollected
<1>3. CASE Lookup!Number(entry) # err
  <2>1. entry' = entry + 1 /\ UNCHANGED <<err, logged, desc, idx, warned>>
    BY <1>3 DEF Lookup!Look
  <2>2. Collected'
    BY <1>1, <1>3, <2>1 DEF Collected, Lookup!Number
  <2>3. QED
    BY <1>1, <2>1, <2>2 DEF LookupInv, WarnedOfNone, LogsCollected
<1>4. QED
  BY <1>2, <1>3

\* The names that are joined are those up to idx.
LEMMA LogNamesKeeps ==
  ASSUME LookupInv, Lookup!LogNames
  PROVE  LookupInv'
<1> DEFINE Cut(k) == /\ \A i \in 1..k : desc[i] # 0
                     /\ k < 3 => desc[k + 1] = 0
<1>1. entry = 135 /\ (idx = 0 => warned = "unknown")
  BY DEF LookupInv, Lookup!LogNames, Lookup!Searching, Lookup!Entries, Collected, WarnedOfNone
<1>2. idx \in 0..3 /\ Cut(idx)
  BY DEF LookupInv, Collected
<1>3. ASSUME NEW k \in 0..3, Cut(k) PROVE k = idx
  <2>1. ~(k < idx)
    <3> SUFFICES ASSUME k < idx PROVE FALSE
      OBVIOUS
    <3>1. k + 1 \in 1..idx /\ k < 3
      BY DEF LookupInv, Collected
    <3>2. QED
      BY <1>3, <3>1 DEF LookupInv, Collected
  <2>2. ~(idx < k)
    <3> SUFFICES ASSUME idx < k PROVE FALSE
      OBVIOUS
    <3>1. idx + 1 \in 1..k /\ idx + 1 \in (idx + 1)..3
      BY DEF LookupInv, Collected
    <3>2. QED
      BY <1>3, <3>1 DEF LookupInv, Collected
  <2>3. QED
    BY <1>2, <2>1, <2>2
<1>4. logged' = SubSeq(desc, 1, CHOOSE k \in 0..3 : Cut(k))
  BY DEF Lookup!LogNames, Lookup!MaxSize, Lookup!Null
<1> HIDE DEF Cut
<1>5. (CHOOSE k \in 0..3 : Cut(k)) = idx
  BY <1>2, <1>3
<1>6. LogsCollected'
  BY <1>1, <1>4, <1>5 DEF Lookup!LogNames, LogsCollected
<1>7. QED
  BY <1>6 DEF LookupInv, Lookup!LogNames, Collected, WarnedOfNone

\* The inductive invariant of the lookup.
THEOREM LookupInvariant == Lookup!Spec => []LookupInv
<1>1. LookupInv /\ [Lookup!Next]_Lookup!vars => LookupInv'
  <2> SUFFICES ASSUME LookupInv, [Lookup!Next]_Lookup!vars
               PROVE  LookupInv'
    OBVIOUS
  <2>1. CASE Lookup!Unknown
    BY <2>1 DEF Lookup!Unknown, LookupInv, Collected, WarnedOfNone, LogsCollected,
                Lookup!Entries
  <2>2. CASE UNCHANGED Lookup!vars
    BY <2>2 DEF Lookup!vars, LookupInv, Collected, WarnedOfNone, LogsCollected
  <2>3. QED
    BY <2>1, <2>2, LookKeeps, LogNamesKeeps DEF Lookup!Next
<1>2. QED
  BY <1>1, LookupInit, PTL DEF Lookup!Spec

\* A failing call of Linux is logged with the first name of its number in front, behind it
\* only other names of it, and with none exactly if the lookup has warned.
THEOREM FirstNameIsLogged == Lookup!Spec => []Lookup!FirstNameLeads
<1>1. LookupInv => Lookup!FirstNameLeads
  <2> SUFFICES ASSUME LookupInv, logged # << 0 >>
               PROVE  /\ \A i \in DOMAIN logged : Lookup!Number(logged[i]) = err
                      /\ \A e \in Lookup!Entries : Lookup!Number(e) = err =>
                           logged # <<>> /\ logged[1] <= e
                      /\ logged = <<>> <=> warned = "unknown"
    BY DEF Lookup!FirstNameLeads, Lookup!Null
  <2>0. Collected /\ WarnedOfNone /\ entry = 135 /\ (idx = 0 => warned = "unknown")
    BY DEF LookupInv, LogsCollected
  <2>1. logged = SubSeq(desc, 1, idx)
    BY DEF LookupInv, LogsCollected
  <2>2. idx \in 0..2 /\ \A i \in 1..idx : desc[i] \in Nat
    BY <2>0 DEF Collected
  <2>3. logged \in Seq(Nat) /\ Len(logged) = idx /\ \A i \in 1..idx : logged[i] = desc[i]
    <3>1. /\ SubSeq(desc, 1, idx) \in Seq(Nat)
          /\ Len(SubSeq(desc, 1, idx)) = IF 1 <= idx THEN idx - 1 + 1 ELSE 0
          /\ \A i \in 1..(idx - 1 + 1) : SubSeq(desc, 1, idx)[i] = desc[1 + i - 1]
      BY <2>2, SubSeqProperties
    <3>2. (IF 1 <= idx THEN idx - 1 + 1 ELSE 0) = idx /\ idx - 1 + 1 = idx
      BY <2>2
    <3>3. \A i \in 1..idx : 1 + i - 1 = i
      BY <2>2
    <3>4. QED
      BY <2>1, <3>1, <3>2, <3>3
  <2>4. DOMAIN logged = 1..idx
    BY <2>3, LenProperties
  <2>5. \A i \in 1..idx : logged[i] \in {k \in Lookup!Entries : Lookup!Number(k) = err}
    <3>1. \A i \in 1..idx : desc[i] \in Lookup!Entries /\ Lookup!Number(desc[i]) = err
      BY <2>0 DEF Collected, Lookup!Entries
    <3>2. QED
      BY <2>3, <3>1
  <2>6. \A i \in Lookup!Entries : Lookup!Number(i) = err => \E k \in 1..idx : logged[k] = i
    <3>1. Lookup!Entries = 1..(entry - 1)
      BY <2>0 DEF Lookup!Entries
    <3>2. \A i \in Lookup!Entries : Lookup!Number(i) = err => \E k \in 1..idx : desc[k] = i
      BY <2>0, <3>1 DEF Collected
    <3>3. QED
      BY <2>3, <3>2
  <2>7. \A i, j \in 1..idx : i < j => logged[i] < logged[j]
    BY <2>0, <2>3 DEF Collected
  <2>8. logged = <<>> <=> idx = 0
    <3>1. Len(<<>>) = 0 /\ (logged # <<>> => Len(logged) \in Nat \ {0})
      BY <2>3, EmptySeq
    <3>2. QED
      BY <2>3, <3>1
  <2>9. idx = 0 <=> warned = "unknown"
    BY <2>0 DEF WarnedOfNone
  <2>10. ASSUME NEW e \in Lookup!Entries, Lookup!Number(e) = err
         PROVE  logged # <<>> /\ logged[1] <= e
    <3>1. PICK k \in 1..idx : logged[k] = e
      BY <2>6, <2>10
    <3>2. 1 \in 1..idx /\ (k = 1 \/ 1 < k) /\ logged[1] \in Nat /\ e \in Nat
      BY <2>2, <2>3, <3>1
    <3>3. k = 1 \/ logged[1] < logged[k]
      BY <2>7, <3>1, <3>2
    <3>4. idx # 0
      BY <2>2, <3>2
    <3>5. QED
      BY <2>8, <3>1, <3>2, <3>3, <3>4
  <2>11. \A i \in DOMAIN logged : Lookup!Number(logged[i]) = err
    BY <2>4, <2>5
  <2>12. QED
    BY <2>8, <2>9, <2>10, <2>11
<1>2. QED
  BY <1>1, LookupInvariant, PTL

-----------------------------------------------------------------------------
(***************************************************************************)
(* LogLine                                                                 *)
(***************************************************************************)

\* An error that is compiled in goes where ErrorsAreSeen says with the logger and without it.
LEMMA ErrorsGoToConsole ==
  ASSUME NEW level \in Lines!Levels, level >= Lines!ERROR, Lines!CompiledIn(level)
  PROVE  /\ s_initialized => {"stderr", "file"} \subseteq Lines!Destinations(level)
         /\ ~s_initialized => {"stderr head", "stdout text"} \subseteq Lines!Destinations(level)
<1>1. {"stderr", "file"} \subseteq Lines!Sinks(level)
  BY DEF Lines!Sinks, Lines!Levels, Lines!TRACE, Lines!INFO, Lines!ERROR, Lines!CRITICAL
<1>2. {"stderr head", "stdout text"} \subseteq Lines!Fallback(level)
  BY DEF Lines!Fallback, Lines!Head, Lines!Levels, Lines!TRACE, Lines!WARN, Lines!ERROR,
         Lines!CRITICAL
<1>3. Lines!Destinations(level) = IF s_initialized THEN Lines!Sinks(level) ELSE Lines!Fallback(level)
  BY DEF Lines!Destinations
<1>4. QED
  BY <1>1, <1>2, <1>3

\* The places a line may go to.
LEMMA DestinationsArePlaces ==
  ASSUME NEW level
  PROVE  /\ Lines!Destinations(level) \in SUBSET Lines!Places
         /\ Lines!PrintedAtThrow(level) \subseteq SUBSET Lines!Places
<1>1. Lines!Sinks(level) \subseteq Lines!Places
  BY DEF Lines!Sinks, Lines!Places
<1>2. Lines!Fallback(level) \subseteq Lines!Places /\ Lines!Head(level) \in Lines!Places
  BY DEF Lines!Fallback, Lines!Head, Lines!Places
<1>3. "stderr exception" \in Lines!Places
  BY DEF Lines!Places
<1>4. QED
  BY <1>1, <1>2, <1>3 DEF Lines!Destinations, Lines!PrintedAtThrow

\* What Log makes of the line.
LEMMA LogWrites ==
  ASSUME NEW level \in Lines!Levels, NEW by \in {"program", "opengl"}, Lines!Log(level, by)
  PROVE  \E thrown_ \in BOOLEAN :
           \E to \in IF thrown_ THEN Lines!PrintedAtThrow(level) ELSE {Lines!Destinations(level)} :
             /\ line' = [level |-> level, by |-> by, up |-> s_initialized,
                         thrown |-> thrown_, to |-> to]
             /\ terminated' = (thrown_ /\ ~s_initialized)
  BY Zenon DEF Lines!Log

\* What a build defines does not change, and each line has the record's type.
LEMMA LinesTyped ==
  ASSUME Lines!TypeOK, [Lines!Next]_Lines!vars
  PROVE  Lines!TypeOK'
<1>1. ASSUME NEW level \in Lines!Levels, NEW by \in {"program", "opengl"},
             Lines!Log(level, by)
      PROVE  Lines!TypeOK'
  <2>1. /\ Lines!Destinations(level) \in SUBSET Lines!Places
        /\ Lines!PrintedAtThrow(level) \subseteq SUBSET Lines!Places
    BY DestinationsArePlaces
  <2>2. PICK thrown_ \in BOOLEAN :
          \E to \in IF thrown_ THEN Lines!PrintedAtThrow(level) ELSE {Lines!Destinations(level)} :
            /\ line' = [level |-> level, by |-> by, up |-> s_initialized,
                        thrown |-> thrown_, to |-> to]
            /\ terminated' = (thrown_ /\ ~s_initialized)
    BY <1>1, LogWrites, Zenon
  <2>3. PICK to \in SUBSET Lines!Places :
          line' = [level |-> level, by |-> by, up |-> s_initialized, thrown |-> thrown_,
                   to |-> to]
    BY <2>1, <2>2
  <2>4. s_initialized \in BOOLEAN /\ terminated' \in BOOLEAN
    BY <2>2, Zenon DEF Lines!TypeOK
  <2>5. line' \in [level : Lines!Levels, by : {"program", "opengl", "none"}, up : BOOLEAN,
                   thrown : BOOLEAN, to : SUBSET Lines!Places]
    BY <2>3, <2>4
  <2>6. defines' = defines /\ s_initialized' = s_initialized
    BY <1>1 DEF Lines!Log
  <2>7. QED
    BY <2>4, <2>5, <2>6 DEF Lines!TypeOK
<1>2. CASE Lines!SwitchLogger
  BY <1>2 DEF Lines!SwitchLogger, Lines!TypeOK
<1>3. CASE UNCHANGED Lines!vars
  BY <1>3 DEF Lines!vars, Lines!TypeOK
<1>4. QED
  BY <1>1, <1>2, <1>3 DEF Lines!Next

\* A step logs a line where ErrorsAreSeen says, or no line.
LEMMA LinesSeen ==
  ASSUME Lines!TypeOK, Lines!ErrorsAreSeen, [Lines!Next]_Lines!vars
  PROVE  Lines!ErrorsAreSeen'
<1>0. defines' = defines
  BY DEF Lines!Next, Lines!Log, Lines!SwitchLogger, Lines!vars
<1>1. \A level : Lines!CompiledIn(level)' <=> Lines!CompiledIn(level)
  BY <1>0 DEF Lines!CompiledIn, Lines!ActiveLevel
<1>2. CASE line' = line /\ terminated' = terminated
  BY <1>0, <1>2 DEF Lines!ErrorsAreSeen, Lines!CompiledIn, Lines!ActiveLevel
<1>3. ASSUME NEW level \in Lines!Levels, NEW by \in {"program", "opengl"},
             Lines!Log(level, by)
      PROVE  Lines!ErrorsAreSeen'
  <2>1. PICK thrown_ \in BOOLEAN :
          \E to \in IF thrown_ THEN Lines!PrintedAtThrow(level) ELSE {Lines!Destinations(level)} :
            /\ line' = [level |-> level, by |-> by, up |-> s_initialized,
                        thrown |-> thrown_, to |-> to]
            /\ terminated' = (thrown_ /\ ~s_initialized)
    BY <1>3, LogWrites, Zenon
  <2>2. PICK to \in IF thrown_ THEN Lines!PrintedAtThrow(level) ELSE {Lines!Destinations(level)} :
          /\ line' = [level |-> level, by |-> by, up |-> s_initialized, thrown |-> thrown_,
                      to |-> to]
          /\ terminated' = (thrown_ /\ ~s_initialized)
    BY <2>1
  <2>3. /\ line'.level = level /\ line'.up = s_initialized /\ line'.thrown = thrown_
        /\ line'.to = to
    BY <2>2
  <2>4. ASSUME level >= Lines!ERROR, Lines!CompiledIn(level)
        PROVE  /\ s_initialized /\ ~thrown_ => {"stderr", "file"} \subseteq to
               /\ ~s_initialized /\ ~thrown_ => {"stderr head", "stdout text"} \subseteq to
               /\ ~s_initialized /\ thrown_ => "stderr exception" \in to /\ terminated'
    <3>1. CASE ~thrown_
      BY <2>2, <2>4, <3>1, ErrorsGoToConsole
    <3>2. CASE thrown_
      BY <2>2, <2>4, <3>2 DEF Lines!PrintedAtThrow
    <3>3. QED
      BY <3>1, <3>2
  <2>5. Lines!CompiledIn(level)' <=> Lines!CompiledIn(level)
    BY <1>1
  <2>6. Lines!CompiledIn(line.level)' <=> Lines!CompiledIn(level)
    BY <1>0, <2>3 DEF Lines!CompiledIn, Lines!ActiveLevel
  <2>7. QED
    BY <2>3, <2>4, <2>6 DEF Lines!ErrorsAreSeen
<1>4. QED
  BY <1>2, <1>3 DEF Lines!Next, Lines!SwitchLogger, Lines!vars

\* Every error that is compiled in is seen where ErrorsAreSeen says, whatever the build defines.
THEOREM ErrorsReachConsole == Lines!Spec => [](Lines!TypeOK /\ Lines!ErrorsAreSeen)
<1>1. Lines!Init => Lines!TypeOK /\ Lines!ErrorsAreSeen
  <2> SUFFICES ASSUME Lines!Init PROVE Lines!TypeOK /\ Lines!ErrorsAreSeen
    OBVIOUS
  <2>1. line.by = "none" /\ defines \in Lines!Builds
    BY DEF Lines!Init
  <2>2. line \in [level : Lines!Levels, by : {"program", "opengl", "none"}, up : BOOLEAN,
                  thrown : BOOLEAN, to : SUBSET Lines!Places]
    BY DEF Lines!Init, Lines!Levels, Lines!TRACE, Lines!CRITICAL
  <2>3. {s_initialized, terminated} \subseteq BOOLEAN
    BY DEF Lines!Init
  <2>4. QED
    BY <2>1, <2>2, <2>3 DEF Lines!TypeOK, Lines!ErrorsAreSeen
<1>2. QED
  BY <1>1, LinesTyped, LinesSeen, PTL DEF Lines!Spec

-----------------------------------------------------------------------------
(***************************************************************************)
(* ExceptionBoundary                                                       *)
(***************************************************************************)

Classes ==
  {"invalid_argument", "length_error", "ios_base_failure", "system_error", "format_error",
   "bad_array_new_length", "bad_variant_access", "logic_error", "runtime_error", "bad_alloc",
   "bad_exception", "exception", "an_int"}

\* The ancestors of each class.
Lineage(c) ==
  CASE c \in {"exception", "an_int"} -> {c}
    [] c \in {"bad_variant_access", "logic_error", "runtime_error", "bad_alloc",
              "bad_exception"} -> {c, "exception"}
    [] c \in {"invalid_argument", "length_error"} -> {c, "logic_error", "exception"}
    [] c \in {"system_error", "format_error"} -> {c, "runtime_error", "exception"}
    [] c = "bad_array_new_length" -> {c, "bad_alloc", "exception"}
    [] c = "ios_base_failure" -> {c, "system_error", "runtime_error", "exception"}

LEMMA Hierarchy ==
  /\ DOMAIN Boundary!Base = Classes
  /\ Boundary!Base["exception"] = "none" /\ Boundary!Base["an_int"] = "none"
  /\ \A c \in {"bad_variant_access", "logic_error", "runtime_error", "bad_alloc",
               "bad_exception"} : Boundary!Base[c] = "exception"
  /\ \A c \in {"invalid_argument", "length_error"} : Boundary!Base[c] = "logic_error"
  /\ \A c \in {"system_error", "format_error"} : Boundary!Base[c] = "runtime_error"
  /\ Boundary!Base["bad_array_new_length"] = "bad_alloc"
  /\ Boundary!Base["ios_base_failure"] = "system_error"
  BY DEF Boundary!Base, Classes

\* The ancestors of a class are its own, its base's, and so on.
LEMMA AncestorsAre ==
  \A c \in Classes : Boundary!Ancestors[c] = Lineage(c)
<1> DEFINE F(f) == [c \in DOMAIN Boundary!Base |->
                      {c} \union IF Boundary!Base[c] = "none" THEN {}
                                 ELSE f[Boundary!Base[c]]]
           table == [c \in Classes |-> Lineage(c)]
<1>1. table = F(table)
  <2>1. ASSUME NEW c \in Classes
        PROVE  Lineage(c) = {c} \union IF Boundary!Base[c] = "none" THEN {}
                                       ELSE table[Boundary!Base[c]]
    <3>1. CASE c \in {"exception", "an_int"}
      BY <3>1, Hierarchy DEF Lineage
    <3>2. CASE c \in {"bad_variant_access", "logic_error", "runtime_error", "bad_alloc",
                      "bad_exception"}
      <4>1. Boundary!Base[c] = "exception" /\ table["exception"] = {"exception"}
        BY <3>2, Hierarchy DEF Lineage, Classes
      <4>2. Lineage(c) = {c, "exception"}
        BY <3>2 DEF Lineage
      <4>3. QED
        BY <4>1, <4>2
    <3>3. CASE c \in {"invalid_argument", "length_error"}
      <4>1. /\ Boundary!Base[c] = "logic_error"
            /\ table["logic_error"] = {"logic_error", "exception"}
        BY <3>3, Hierarchy DEF Lineage, Classes
      <4>2. Lineage(c) = {c, "logic_error", "exception"}
        BY <3>3 DEF Lineage
      <4>3. QED
        BY <4>1, <4>2
    <3>4. CASE c \in {"system_error", "format_error"}
      <4>1. /\ Boundary!Base[c] = "runtime_error"
            /\ table["runtime_error"] = {"runtime_error", "exception"}
        BY <3>4, Hierarchy DEF Lineage, Classes
      <4>2. Lineage(c) = {c, "runtime_error", "exception"}
        BY <3>4 DEF Lineage
      <4>3. QED
        BY <4>1, <4>2
    <3>5. CASE c = "bad_array_new_length"
      <4>1. Boundary!Base[c] = "bad_alloc" /\ table["bad_alloc"] = {"bad_alloc", "exception"}
        BY <3>5, Hierarchy DEF Lineage, Classes
      <4>2. Lineage(c) = {c, "bad_alloc", "exception"}
        BY <3>5 DEF Lineage
      <4>3. QED
        BY <4>1, <4>2
    <3>6. CASE c = "ios_base_failure"
      <4>1. /\ Boundary!Base[c] = "system_error"
            /\ table["system_error"] = {"system_error", "runtime_error", "exception"}
        BY <3>6, Hierarchy DEF Lineage, Classes
      <4>2. Lineage(c) = {c, "system_error", "runtime_error", "exception"}
        BY <3>6 DEF Lineage
      <4>3. QED
        BY <4>1, <4>2
    <3>7. QED
      BY <3>1, <3>2, <3>3, <3>4, <3>5, <3>6 DEF Classes
  <2>2. QED
    BY <2>1, Hierarchy
<1>2. Boundary!Ancestors = CHOOSE f : f = F(f)
  BY Zenon DEF Boundary!Ancestors
<1>3. Boundary!Ancestors = F(Boundary!Ancestors)
  <2> HIDE DEF F, table
  <2> QED BY <1>1, <1>2, Zenon
<1> DEFINE g == Boundary!Ancestors
<1>4. ASSUME NEW c \in Classes
      PROVE  g[c] = {c} \union IF Boundary!Base[c] = "none" THEN {} ELSE g[Boundary!Base[c]]
  BY <1>3, Hierarchy
<1> HIDE DEF F, table, g
<1>5. g["exception"] = {"exception"} /\ g["an_int"] = {"an_int"}
  BY <1>4, Hierarchy DEF Classes
<1>6. \A c \in {"bad_variant_access", "logic_error", "runtime_error", "bad_alloc",
                "bad_exception"} : g[c] = {c, "exception"}
  BY <1>4, <1>5, Hierarchy DEF Classes
<1>7. \A c \in {"invalid_argument", "length_error"} : g[c] = {c, "logic_error", "exception"}
  BY <1>4, <1>6, Hierarchy DEF Classes
<1>8. \A c \in {"system_error", "format_error"} : g[c] = {c, "runtime_error", "exception"}
  BY <1>4, <1>6, Hierarchy DEF Classes
<1>9. g["bad_array_new_length"] = {"bad_array_new_length", "bad_alloc", "exception"}
  BY <1>4, <1>6, Hierarchy DEF Classes
<1>10. g["ios_base_failure"]
         = {"ios_base_failure", "system_error", "runtime_error", "exception"}
  BY <1>4, <1>8, Hierarchy DEF Classes
<1>11. \A c \in Classes : g[c] = Lineage(c)
  BY <1>5, <1>6, <1>7, <1>8, <1>9, <1>10 DEF Lineage, Classes
<1>12. QED
  BY <1>11 DEF g

\* What each handler catches, and the status it returns.
Catches(h) == Boundary!Handlers[h][1]
Gives(h) == Boundary!Handlers[h][2]

LEMMA HandlersAre ==
  /\ Len(Boundary!Handlers) = 6 /\ DOMAIN Boundary!Handlers = 1..6
  /\ Catches(1) = "logic_error" /\ Catches(2) = "runtime_error" /\ Catches(3) = "bad_alloc"
  /\ Catches(4) = "bad_exception" /\ Catches(5) = "exception" /\ Catches(6) = "..."
  /\ Gives(1) = "logic_error" /\ Gives(2) = "runtime_error" /\ Gives(3) = "bad_alloc"
  /\ Gives(4) = "exception_error" /\ Gives(5) = "generic_error" /\ Gives(6) = "generic_error"
  BY DEF Boundary!Handlers, Catches, Gives

\* Of two ancestors of a class one is the other's.
LEMMA AncestorsAreChain ==
  ASSUME NEW c \in Classes, NEW a \in Lineage(c), NEW b \in Lineage(c)
  PROVE  a \in Lineage(b) \/ b \in Lineage(a)
<1>1. CASE c \in {"exception", "an_int"}
  BY <1>1 DEF Lineage
<1>2. CASE c \in {"bad_variant_access", "logic_error", "runtime_error", "bad_alloc",
                  "bad_exception"}
  <2>1. a \in {c, "exception"} /\ b \in {c, "exception"} /\ c \in Lineage(c)
        /\ "exception" \in Lineage(c) /\ "exception" \in Lineage("exception")
    BY <1>2 DEF Lineage
  <2>2. QED
    BY <2>1
<1>3. CASE c \in {"invalid_argument", "length_error"}
  <2>1. /\ a \in {c, "logic_error", "exception"} /\ b \in {c, "logic_error", "exception"}
        /\ {c, "logic_error", "exception"} \subseteq Lineage(c)
        /\ {"logic_error", "exception"} \subseteq Lineage("logic_error")
        /\ "exception" \in Lineage("exception")
    BY <1>3 DEF Lineage
  <2>2. QED
    BY <2>1
<1>4. CASE c \in {"system_error", "format_error"}
  <2>1. /\ a \in {c, "runtime_error", "exception"} /\ b \in {c, "runtime_error", "exception"}
        /\ {c, "runtime_error", "exception"} \subseteq Lineage(c)
        /\ {"runtime_error", "exception"} \subseteq Lineage("runtime_error")
        /\ "exception" \in Lineage("exception")
    BY <1>4 DEF Lineage
  <2>2. QED
    BY <2>1
<1>5. CASE c = "bad_array_new_length"
  <2>1. /\ a \in {c, "bad_alloc", "exception"} /\ b \in {c, "bad_alloc", "exception"}
        /\ {c, "bad_alloc", "exception"} \subseteq Lineage(c)
        /\ {"bad_alloc", "exception"} \subseteq Lineage("bad_alloc")
        /\ "exception" \in Lineage("exception")
    BY <1>5 DEF Lineage
  <2>2. QED
    BY <2>1
<1>6. CASE c = "ios_base_failure"
  <2>1. /\ a \in {c, "system_error", "runtime_error", "exception"}
        /\ b \in {c, "system_error", "runtime_error", "exception"}
        /\ {c, "system_error", "runtime_error", "exception"} \subseteq Lineage(c)
        /\ {"system_error", "runtime_error", "exception"} \subseteq Lineage("system_error")
        /\ {"runtime_error", "exception"} \subseteq Lineage("runtime_error")
        /\ "exception" \in Lineage("exception")
    BY <1>6 DEF Lineage
  <2>2. QED
    BY <2>1
<1>7. QED
  BY <1>1, <1>2, <1>3, <1>4, <1>5, <1>6 DEF Classes

\* No handler comes behind one that catches more: the order of the catch clauses matters.
LEMMA HandlersAreOrdered ==
  ASSUME NEW i \in 1..6, NEW j \in 1..5, i < j
  PROVE  Catches(i) \notin Lineage(Catches(j))
<1>1. j \in {2, 3, 4, 5} /\ i \in {1, 2, 3, 4}
  OBVIOUS
<1>2. /\ Lineage("runtime_error") = {"runtime_error", "exception"}
      /\ Lineage("bad_alloc") = {"bad_alloc", "exception"}
      /\ Lineage("bad_exception") = {"bad_exception", "exception"}
      /\ Lineage("exception") = {"exception"}
  BY DEF Lineage
<1>3. QED
  BY <1>1, <1>2, HandlersAre

\* A handler that catches c is the first, if no earlier one does, in c's line of ancestors.
LEMMA FirstIsNearest ==
  ASSUME NEW c \in Classes, NEW h \in 1..5, Catches(h) \in Lineage(c),
         \A i \in 1..(h - 1) : Catches(i) \notin Lineage(c),
         NEW j \in 1..6, Catches(j) \in Lineage(c)
  PROVE  Catches(j) \in Lineage(Catches(h))
<1>1. h <= j
  OBVIOUS
<1>2. CASE j = h
  <2>1. Catches(h) \in Lineage(Catches(h))
    BY AncestorsAreChain
  <2>2. QED
    BY <1>2, <2>1
<1>3. CASE h < j
  <2>1. j # 6
    <3>1. "..." \notin Lineage(c)
      BY DEF Lineage, Classes
    <3>2. QED
      BY <3>1, HandlersAre
  <2>2. Catches(h) \notin Lineage(Catches(j))
    BY <1>3, <2>1, HandlersAreOrdered
  <2>3. QED
    BY <2>2, AncestorsAreChain
<1>4. QED
  BY <1>1, <1>2, <1>3

LEMMA FunctorsAre == Len(Boundary!Functors) = 7
  BY DEF Boundary!Functors

Catching(c, h) == Catches(h) \in Lineage(c) \union {"..."}

\* The handlers before the one that is tried have passed the exception on, and what the
\* boundary has returned for an exception is the status of the handler that caught it.
Handling ==
  /\ handler \in 1..7
  /\ thrown \in {"none"} \union Classes
  /\ thrown # "none" => \A i \in 1..(handler - 1) : ~Catching(thrown, i)
  /\ thrown # "none" /\ ret # "none" =>
       handler # 7 /\ Catching(thrown, handler) /\ ret = Gives(handler)

\* main has exited only with what the last boundary has returned.
Exited ==
  /\ exit.code \in -1..1
  /\ exit.code = -1 <=> exit = Boundary!NoExit
  /\ exit.code = 0 => ret = "ok" /\ functor = 7
  /\ exit.code = 1 => ret # "ok" /\ ret # "none" /\ exit.name = Boundary!to_string(ret)

BoundaryInv == functor \in 1..7 /\ Handling /\ Exited

LEMMA BoundaryInit == Boundary!Init => BoundaryInv
  BY DEF Boundary!Init, BoundaryInv, Handling, Exited, Boundary!NoExit

\* Before main exits nothing has been lost; a step of a functor throws or returns.
LEMMA RunKeeps ==
  ASSUME BoundaryInv, Boundary!Run \/ Boundary!FailElsewhere
  PROVE  BoundaryInv'
<1>1. ret = "none" /\ thrown = "none" /\ UNCHANGED <<functor, exit>> /\ exit = Boundary!NoExit
  BY DEF Boundary!Run, Boundary!FailElsewhere, BoundaryInv, Exited
<1>2. exit.code = -1
  BY <1>1 DEF Boundary!NoExit
<1>3. \/ thrown' = "none" /\ handler' = handler
      \/ thrown' \in Classes /\ handler' = 1 /\ ret' = "none"
  BY <1>1, Hierarchy DEF Boundary!Run, Boundary!FailElsewhere
<1>4. Handling'
  BY <1>3 DEF BoundaryInv, Handling
<1>5. Exited'
  BY <1>1, <1>2 DEF BoundaryInv, Exited
<1>6. QED
  BY <1>1, <1>4, <1>5 DEF BoundaryInv

\* A handler catches what has passed all those before it.
LEMMA CatchKeeps ==
  ASSUME BoundaryInv, Boundary!Catch
  PROVE  BoundaryInv'
<1>1. /\ thrown \in Classes /\ thrown # "none" /\ ret = "none" /\ handler \in 1..6
      /\ UNCHANGED <<functor, thrown, exit>>
  BY HandlersAre DEF Boundary!Catch, BoundaryInv, Handling
<1>2. Boundary!Handlers[handler][1] \in Boundary!Ancestors[thrown] \union {"..."}
        <=> Catching(thrown, handler)
  BY <1>1, AncestorsAre DEF Catching, Catches
<1>3. exit = Boundary!NoExit /\ exit.code = -1
  BY <1>1 DEF BoundaryInv, Exited, Boundary!NoExit
<1>4. Exited'
  BY <1>1, <1>3 DEF BoundaryInv, Exited
<1>5. Handling'
  <2>1. CASE Catching(thrown, handler)
    <3>1. ret' = Gives(handler) /\ handler' = handler
      BY <1>2, <2>1 DEF Boundary!Catch, Gives
    <3>2. QED
      BY <1>1, <2>1, <3>1 DEF BoundaryInv, Handling
  <2>2. CASE ~Catching(thrown, handler)
    <3>1. ret' = "none" /\ handler' = handler + 1
      BY <1>1, <1>2, <2>2 DEF Boundary!Catch
    <3>2. \A i \in 1..(handler' - 1) : i \in 1..(handler - 1) \/ i = handler
      BY <1>1, <3>1
    <3>3. QED
      BY <1>1, <2>2, <3>1, <3>2 DEF BoundaryInv, Handling
  <2>3. QED
    BY <2>1, <2>2
<1>6. QED
  BY <1>1, <1>4, <1>5 DEF BoundaryInv

\* What is not ok goes up to main, what is ok starts the next functor or ends the last.
LEMMA CheckKeeps ==
  ASSUME BoundaryInv, Boundary!Check
  PROVE  BoundaryInv'
<1>1. ret # "none" /\ exit.code = -1 /\ functor \in 1..7 /\ handler' = handler
  BY DEF Boundary!Check, Boundary!NoExit, BoundaryInv
<1>2. CASE ret = "ok" /\ functor < 7
  <2>1. functor' = functor + 1 /\ ret' = "none" /\ thrown' = "none" /\ exit' = exit
    BY <1>2, FunctorsAre DEF Boundary!Check
  <2>2. QED
    BY <1>1, <1>2, <2>1 DEF BoundaryInv, Handling, Exited
<1>3. CASE ~(ret = "ok" /\ functor < 7)
  <2>1. /\ exit' = IF ret = "ok" THEN [code |-> 0, name |-> "none"]
                   ELSE [code |-> 1, name |-> Boundary!to_string(ret)]
        /\ UNCHANGED <<functor, ret, thrown>>
    BY <1>3, FunctorsAre DEF Boundary!Check
  <2>2. Boundary!to_string(ret)' = Boundary!to_string(ret)
    BY <2>1 DEF Boundary!to_string
  <2>3. Exited'
    <3>1. CASE ret = "ok"
      BY <1>1, <1>3, <2>1, <3>1 DEF Exited, Boundary!NoExit
    <3>2. CASE ret # "ok"
      BY <1>1, <2>1, <2>2, <3>2 DEF Exited, Boundary!NoExit
    <3>3. QED
      BY <3>1, <3>2
  <2>4. QED
    BY <1>1, <2>1, <2>3 DEF BoundaryInv, Handling
<1>4. QED
  BY <1>2, <1>3

\* The inductive invariant of the boundary.
THEOREM BoundaryInvariant == Boundary!Spec => []BoundaryInv
<1>1. BoundaryInv /\ [Boundary!Next]_Boundary!vars => BoundaryInv'
  <2> SUFFICES ASSUME BoundaryInv, [Boundary!Next]_Boundary!vars
               PROVE  BoundaryInv'
    OBVIOUS
  <2>1. CASE UNCHANGED Boundary!vars
    BY <2>1 DEF Boundary!vars, BoundaryInv, Handling, Exited
  <2>2. QED
    BY <2>1, RunKeeps, CatchKeeps, CheckKeeps DEF Boundary!Next
<1>2. QED
  BY <1>1, BoundaryInit, PTL DEF Boundary!Spec

\* main exits under the status of the nearest handler of whatever was thrown in a functor, and
\* with 0 only behind the last functor when nothing was.
THEOREM NothingThrownIsLost == Boundary!Spec => []Boundary!NearestReported
<1>1. ASSUME BoundaryInv, thrown # "none", ret # "none"
      PROVE  handler \in 1..6 /\ thrown \in Classes /\ ret = Gives(handler)
             /\ ret \in {"logic_error", "runtime_error", "bad_alloc", "exception_error",
                         "generic_error"}
  BY <1>1, HandlersAre DEF BoundaryInv, Handling
<1>2. ASSUME BoundaryInv, exit.code = 0
      PROVE  thrown = "none" /\ functor = Len(Boundary!Functors)
  BY <1>1, <1>2, FunctorsAre DEF BoundaryInv, Exited
<1>3. ASSUME BoundaryInv, exit.code = 1, thrown # "none"
      PROVE  LET listed == {i \in DOMAIN Boundary!Handlers :
                              Boundary!Handlers[i][1] \in Boundary!Ancestors[thrown]}
             IN \/ listed = {} /\ exit.name = "generic_error"
                \/ \E i \in listed :
                     /\ exit.name = Boundary!Handlers[i][2]
                     /\ \A j \in listed :
                          Boundary!Handlers[j][1]
                            \in Boundary!Ancestors[Boundary!Handlers[i][1]]
  <2> DEFINE listed == {i \in DOMAIN Boundary!Handlers :
                          Boundary!Handlers[i][1] \in Boundary!Ancestors[thrown]}
  <2>1. handler \in 1..6 /\ thrown \in Classes /\ ret = Gives(handler)
    BY <1>1, <1>3 DEF BoundaryInv, Exited
  <2>2. exit.name = Gives(handler)
    BY <1>1, <1>3, <2>1 DEF BoundaryInv, Exited, Boundary!to_string
  <2>3. listed = {i \in 1..6 : Catches(i) \in Lineage(thrown)}
    BY <2>1, HandlersAre, AncestorsAre DEF Catches
  <2>4. /\ Catches(handler) \in Lineage(thrown) \union {"..."}
        /\ \A i \in 1..(handler - 1) : Catches(i) \notin Lineage(thrown) \union {"..."}
    BY <1>3, <2>1 DEF BoundaryInv, Handling, Catching, Exited
  <2>5. CASE handler = 6
    <3>1. "..." \notin Lineage(thrown)
      BY <2>1 DEF Lineage, Classes
    <3>2. listed = {}
      BY <2>3, <2>4, <2>5, <3>1, HandlersAre
    <3>3. QED
      BY <2>2, <2>5, <3>2, HandlersAre
  <2>6. CASE handler \in 1..5
    <3>1. Catches(handler) \in Lineage(thrown) /\ Catches(handler) \in Classes
      BY <2>4, <2>6, HandlersAre DEF Classes
    <3>2. handler \in listed
      BY <2>3, <2>6, <3>1
    <3>3. \A j \in listed : Catches(j) \in Lineage(Catches(handler))
      BY <2>1, <2>3, <2>4, <2>6, <3>1, FirstIsNearest
    <3>4. QED
      BY <2>2, <3>1, <3>2, <3>3, AncestorsAre DEF Catches, Gives
  <2>7. QED
    BY <2>1, <2>5, <2>6
<1>4. BoundaryInv => Boundary!NearestReported
  BY <1>2, <1>3 DEF Boundary!NearestReported
<1>5. QED
  BY <1>4, BoundaryInvariant, PTL

-----------------------------------------------------------------------------
(***************************************************************************)
(* WindowsCalls                                                            *)
(***************************************************************************)

Script(f) == Windows!Script[f]

Scripted ==
  {"get_current_directory", "create_directory", "directory_exists", "file_exists",
   "path_add_extension", "path_append", "path_canonicalize", "path_combine", "path_compact"}

\* The functions that widen one argument, those that widen two, and where they write.
LEMMA Scripts ==
  /\ DOMAIN Windows!Script = Scripted
  /\ \A f \in {"create_directory", "directory_exists", "file_exists"} :
       Script(f) = [args |-> <<"path_in">>, into |-> <<1>>, reads |-> <<1>>, writes |-> 0]
  /\ \A f \in {"path_canonicalize", "path_compact"} :
       Script(f) = [args |-> <<"path_in">>, into |-> <<1>>, reads |-> <<1>>, writes |-> 2]
  /\ \A f \in {"path_add_extension", "path_append"} :
       Script(f) = [args |-> <<"path_in", "more">>, into |-> <<1, 2>>, reads |-> <<1, 2>>,
                    writes |-> 1]
  /\ Script("path_combine") = [args |-> <<"path_in", "more">>, into |-> <<1, 1>>,
                               reads |-> <<1, 2>>, writes |-> 3]
  /\ Script("get_current_directory") = [args |-> <<>>, into |-> <<>>, reads |-> <<>>,
                                        writes |-> 1]
  BY DEF Windows!Script, Script, Scripted

\* The k-th argument is widened into the k-th buffer and read from it, except in path_combine,
\* which widens both into the first.
LEMMA ScriptOf ==
  ASSUME NEW f \in Scripted
  PROVE  /\ Len(Script(f).args) \in 0..2
         /\ DOMAIN Script(f).args = 1..Len(Script(f).args)
         /\ DOMAIN Script(f).reads = 1..Len(Script(f).args)
         /\ Script(f).args = <<>> <=> Len(Script(f).args) = 0
         /\ Script(f).writes \in 0..3
         /\ Len(Script(f).args) >= 1 => Script(f).args[1] = "path_in"
         /\ Len(Script(f).args) = 2 => Script(f).args[2] = "more"
         /\ \A k \in 1..Len(Script(f).args) :
              /\ Script(f).reads[k] = k
              /\ Script(f).into[k] = IF f = "path_combine" THEN 1 ELSE k
         /\ f \in {"path_combine", "path_append"} => Len(Script(f).args) = 2
         /\ f \in Windows!InPlace => Script(f).writes # 0
         /\ f = "get_current_directory" => Len(Script(f).args) = 0 /\ Script(f).writes = 1
<1>1. CASE f \in {"create_directory", "directory_exists", "file_exists", "path_canonicalize",
                  "path_compact"}
  <2>1. /\ Script(f).args = <<"path_in">> /\ Script(f).into = <<1>>
        /\ Script(f).reads = <<1>> /\ Script(f).writes \in {0, 2}
    BY <1>1, Scripts
  <2>2. QED
    BY <1>1, <2>1 DEF Windows!InPlace
<1>2. CASE f \in {"path_add_extension", "path_append"}
  <2>1. /\ Script(f).args = <<"path_in", "more">> /\ Script(f).into = <<1, 2>>
        /\ Script(f).reads = <<1, 2>> /\ Script(f).writes = 1
    BY <1>2, Scripts
  <2>2. QED
    BY <1>2, <2>1 DEF Windows!InPlace
<1>3. CASE f = "path_combine"
  <2>1. /\ Script(f).args = <<"path_in", "more">> /\ Script(f).into = <<1, 1>>
        /\ Script(f).reads = <<1, 2>> /\ Script(f).writes = 3
    BY <1>3, Scripts
  <2>2. \A k \in 1..2 : Script(f).reads[k] = k /\ Script(f).into[k] = 1
    BY <2>1
  <2>3. Len(Script(f).args) = 2 /\ DOMAIN Script(f).args = 1..2 /\ DOMAIN Script(f).reads = 1..2
    BY <2>1
  <2>4. Script(f).args # <<>> /\ Script(f).args[1] = "path_in" /\ Script(f).args[2] = "more"
    BY <2>1
  <2>5. f \notin Windows!InPlace /\ Script(f).writes = 3
    BY <1>3, <2>1 DEF Windows!InPlace
  <2>6. \A k \in 1..Len(Script(f).args) :
          /\ Script(f).reads[k] = k
          /\ Script(f).into[k] = IF f = "path_combine" THEN 1 ELSE k
    BY <1>3, <2>2, <2>3, Zenon
  <2>7. 2 \in 0..2 /\ 3 \in 0..3 /\ ~(2 = 0)
    OBVIOUS
  <2>8. f # "get_current_directory"
    BY <1>3
  <2>9. QED
    BY <2>3, <2>4, <2>5, <2>6, <2>7, <2>8, Zenon
<1>4. CASE f = "get_current_directory"
  <2>1. /\ Script(f).args = <<>> /\ Script(f).into = <<>>
        /\ Script(f).reads = <<>> /\ Script(f).writes = 1
    BY <1>4, Scripts
  <2>2. QED
    BY <1>4, <2>1 DEF Windows!InPlace
<1>5. QED
  BY <1>1, <1>2, <1>3, <1>4 DEF Scripted

\* The first argument as Windows gets it.
Own == IF fn = "path_append" /\ path_in = "slash" THEN "backslash" ELSE path_in

\* The path a function leaves that fails before it narrows.
Left == [old |-> IF fn \in Windows!InPlace THEN Own ELSE "name"]

\* What get_current_directory leaves of a directory that is too long.
Lost == IF fn = "get_current_directory" THEN {[uninitialised |-> 1]} ELSE {}

\* The buffers of a function other than path_combine once the arguments up to `widened' are in
\* them.
Filled ==
  /\ buf = [i \in 1..3 |-> buf[i]]
  /\ fn # "path_combine" =>
       \A k \in 1..widened : buf[k] = [text |-> IF k = 1 THEN Own ELSE more]
  /\ fn = "get_current_directory" => buf[1] = [uninitialised |-> 1]

\* What is narrowed is Windows' answer, or lost.
HoldsAnswer ==
  fn # "path_combine" => buf[Script(fn).writes] \in {Windows!Answer} \union Lost

\* Where the function is, and what its path and its buffers hold there.
Stage ==
  \/ pc = "start" /\ path = [old |-> IF fn \in Windows!InPlace THEN path_in ELSE "name"]
     /\ widened = 0 /\ buf = [i \in 1..3 |-> [uninitialised |-> i]]
  \/ pc = "widen" /\ path = Left /\ widened \in 0..(Len(Script(fn).args) - 1) /\ Filled
  \/ pc = "call" /\ path = Left /\ widened = Len(Script(fn).args) /\ Filled
  \/ pc = "narrow" /\ path = Left /\ Script(fn).writes # 0
     /\ HoldsAnswer
  \/ pc \in {"crashed", "returned"}

WindowsInv ==
  /\ fn \in Scripted
  /\ pc # "returned" => status = "none"
  /\ Stage
  /\ Windows!PathIsAnswer

\* What is widened next is the argument as Windows gets it.
LEMMA SourceOf ==
  ASSUME fn \in Scripted, path = Left, NEW k \in 1..Len(Script(fn).args)
  PROVE  Windows!Source(Script(fn).args[k]) = IF k = 1 THEN Own ELSE more
<1>1. Len(Script(fn).args) \in 0..2
  BY ScriptOf
<1>2. CASE k = 1
  <2>1. Script(fn).args[k] = "path_in"
    BY <1>1, <1>2, ScriptOf
  <2>2. fn \in Windows!InPlace => path.old = Own
    BY DEF Left
  <2>3. fn \notin Windows!InPlace => Own = path_in
    BY DEF Own, Windows!InPlace
  <2>4. QED
    BY <1>2, <2>1, <2>2, <2>3 DEF Windows!Source
<1>3. CASE k = 2
  <2>1. Script(fn).args[k] = "more"
    BY <1>1, <1>3, ScriptOf
  <2>2. QED
    BY <1>3, <2>1 DEF Windows!Source
<1>4. QED
  BY <1>1, <1>2, <1>3

\* A function that fails before it narrows leaves its path, or path_append's separator in it.
LEMMA FailedIsAnswer ==
  ASSUME path = Left, status # "ok"
  PROVE  Windows!PathIsAnswer
<1>1. CASE fn = "path_append" /\ path_in = "slash"
  <2>1. path.old = "backslash"
    BY <1>1 DEF Left, Own, Windows!InPlace
  <2>2. QED
    BY <1>1, <2>1 DEF Windows!PathIsAnswer
<1>2. CASE ~(fn = "path_append" /\ path_in = "slash")
  <2>1. path = [old |-> IF fn \in Windows!InPlace THEN path_in ELSE "name"]
    BY <1>2 DEF Left, Own
  <2>2. QED
    BY <2>1 DEF Windows!PathIsAnswer
<1>3. QED
  BY <1>1, <1>2

\* Once its arguments are widened the function computes from what it promises, unless it is
\* path_combine.
LEMMA ReadIsPromised ==
  ASSUME fn \in Scripted, Filled, widened = Len(Script(fn).args), fn # "path_combine"
  PROVE  Windows!Read = Windows!Promised
<1> DEFINE len == Len(Script(fn).args)
<1>1. /\ len \in 0..2 /\ DOMAIN Script(fn).args = 1..len /\ DOMAIN Script(fn).reads = 1..len
      /\ \A k \in 1..len : Script(fn).reads[k] = k
  BY ScriptOf
<1>2. Windows!Read = [k \in 1..len |-> buf[k]]
  BY <1>1 DEF Windows!Read, Script
<1>3. Windows!Promised = [k \in 1..len |-> [text |-> IF k = 1 THEN Own ELSE more]]
  BY <1>1 DEF Windows!Promised, Own, Script
<1>4. \A k \in 1..len : buf[k] = [text |-> IF k = 1 THEN Own ELSE more]
  BY DEF Filled
<1> HIDE DEF len
<1>5. QED
  BY <1>2, <1>3, <1>4

LEMMA WindowsInit == Windows!Init => WindowsInv
<1> SUFFICES ASSUME Windows!Init PROVE WindowsInv
  OBVIOUS
<1>1. fn \in Scripted
  BY Scripts DEF Windows!Init
<1>2. pc = "start" /\ status = "none"
  BY DEF Windows!Init
<1>3. Stage
  BY <1>2 DEF Windows!Init, Stage
<1>4. Windows!PathIsAnswer
  BY <1>2 DEF Windows!PathIsAnswer
<1>5. QED
  BY <1>1, <1>2, <1>3, <1>4 DEF WindowsInv

\* Before it widens, path_append turns the slash at its path's end, and path_canonicalize
\* returns of an empty path.
LEMMA StartKeeps ==
  ASSUME WindowsInv, Windows!Start
  PROVE  WindowsInv'
<1>1. /\ fn \in Scripted /\ UNCHANGED <<fn, path_in, more, widened, buf>>
      /\ path = [old |-> IF fn \in Windows!InPlace THEN path_in ELSE "name"]
      /\ widened = 0 /\ buf = [i \in 1..3 |-> [uninitialised |-> i]] /\ status = "none"
  BY DEF WindowsInv, Stage, Windows!Start
<1>2. CASE fn = "path_canonicalize" /\ path_in = "empty"
  <2>1. path' = [old |-> "empty"] /\ pc' = "returned" /\ status' = "ok"
    BY <1>2 DEF Windows!Start, Windows!Return
  <2>2. Windows!PathIsAnswer'
    BY <1>1, <1>2, <2>1 DEF Windows!PathIsAnswer
  <2>3. QED
    BY <1>1, <2>1, <2>2 DEF WindowsInv, Stage
<1>3. CASE ~(fn = "path_canonicalize" /\ path_in = "empty")
  <2>1. /\ path' = IF fn = "path_append" /\ path.old = "slash" THEN [old |-> "backslash"]
                   ELSE path
        /\ pc' = IF Script(fn).args = <<>> THEN "call" ELSE "widen"
        /\ status' = "none"
    BY <1>1, <1>3 DEF Windows!Start, Windows!Goes, Script
  <2>2. path' = Left
    BY <1>1, <2>1 DEF Left, Own, Windows!InPlace
  <2>3. Left' = Left
    BY <1>1 DEF Left, Own
  <2>4. Filled'
    BY <1>1 DEF Filled
  <2>5. Len(Script(fn).args) \in 0..2 /\ (Script(fn).args = <<>> <=> Len(Script(fn).args) = 0)
    BY <1>1, ScriptOf
  <2>6. \/ pc' = "call" /\ widened = Len(Script(fn).args)
        \/ pc' = "widen" /\ widened \in 0..(Len(Script(fn).args) - 1)
    BY <1>1, <2>1, <2>5
  <2>7. Stage'
    BY <1>1, <2>2, <2>3, <2>4, <2>6 DEF Stage, Script
  <2>8. Windows!PathIsAnswer'
    BY <2>1 DEF Windows!PathIsAnswer
  <2>9. QED
    BY <1>1, <2>1, <2>7, <2>8 DEF WindowsInv
<1>4. QED
  BY <1>2, <1>3

\* An argument gets into its buffer, or the call ends with the path as it was.
LEMMA WidenKeeps ==
  ASSUME WindowsInv, Windows!Widen
  PROVE  WindowsInv'
<1> DEFINE k == widened + 1
<1>1. /\ fn \in Scripted /\ UNCHANGED <<fn, path_in, more, path>> /\ path = Left
      /\ widened \in 0..(Len(Script(fn).args) - 1) /\ Filled /\ status = "none"
  BY DEF WindowsInv, Stage, Windows!Widen
<1>2. Len(Script(fn).args) \in 0..2 /\ k \in 1..Len(Script(fn).args)
  BY <1>1, ScriptOf
<1>0. widened \in {0, 1} /\ k \in {1, 2}
  <2>1. \A l \in 0..2 : \A w \in 0..(l - 1) : w \in {0, 1} /\ w + 1 \in {1, 2}
    OBVIOUS
  <2>2. QED
    BY <1>1, <1>2, <2>1, Zenon
<1>3. Windows!Source(Script(fn).args[k]) = IF k = 1 THEN Own ELSE more
  BY <1>1, <1>2, SourceOf
<1>4. path' = Left' /\ Own' = Own
  BY <1>1 DEF Left, Own
<1>5. \/ pc' = "crashed" /\ status' = "none"
      \/ /\ buf' = [buf EXCEPT ![Script(fn).into[k]]
                                   = [text |-> Windows!Source(Script(fn).args[k])]]
         /\ widened' = k /\ status' = "none"
         /\ pc' = IF k = Len(Script(fn).args) THEN "call" ELSE "widen"
      \/ pc' = "returned" /\ status' = "unicode_error"
  BY <1>1, Zenon DEF Windows!Widen, Windows!Goes, Windows!Return, Script
<1>6. CASE pc' = "crashed" /\ status' = "none"
  <2>1. Windows!PathIsAnswer'
    BY <1>6 DEF Windows!PathIsAnswer
  <2>2. QED
    BY <1>1, <1>6, <2>1 DEF WindowsInv, Stage
<1>7. CASE pc' = "returned" /\ status' = "unicode_error"
  <2>1. (path = Left /\ status # "ok")'
    BY <1>4, <1>7
  <2>2. Windows!PathIsAnswer'
    BY <2>1, FailedIsAnswer, PTL
  <2>3. QED
    BY <1>1, <1>7, <2>2 DEF WindowsInv, Stage
<1>8. CASE /\ buf' = [buf EXCEPT ![Script(fn).into[k]]
                                     = [text |-> Windows!Source(Script(fn).args[k])]]
           /\ widened' = k /\ status' = "none"
           /\ pc' = IF k = Len(Script(fn).args) THEN "call" ELSE "widen"
  <2> DEFINE source == IF k = 1 THEN Own ELSE more
  <2>1. Script(fn).into[k] = IF fn = "path_combine" THEN 1 ELSE k
    BY <1>1, <1>2, ScriptOf
  <2>2. Filled'
    <3>0. fn # "get_current_directory"
      BY <1>1, <1>2, ScriptOf
    <3>1. CASE fn = "path_combine"
      <4>1. buf' = [buf EXCEPT ![1] = [text |-> source]]
        BY <1>3, <1>8, <2>1, <3>1
      <4>2. buf = [i \in 1..3 |-> buf[i]]
        BY <1>1 DEF Filled
      <4>3. buf' = [i \in 1..3 |-> buf'[i]]
        <5> HIDE DEF source
        <5>1. QED
          BY <4>1, <4>2
      <4>4. QED
        BY <1>1, <3>1, <4>3 DEF Filled
    <3>2. CASE fn # "path_combine"
      <4>1. buf' = [buf EXCEPT ![k] = [text |-> source]]
        BY <1>3, <1>8, <2>1, <3>2
      <4>2. \A i \in 1..widened' : i \in 1..widened \/ i = k
        BY <1>1, <1>8
      <4>3. buf' = [i \in 1..3 |-> buf'[i]] /\ k \in 1..3
        <5>1. buf = [i \in 1..3 |-> buf[i]] /\ k \in 1..3
          BY <1>0, <1>1 DEF Filled
        <5> HIDE DEF source
        <5>2. QED
          BY <4>1, <5>1
      <4>4. \A i \in 1..widened : i \in 1..3 /\ i # k
        BY <1>0
      <4>5. \A i \in 1..widened' : buf'[i] = [text |-> IF i = 1 THEN Own ELSE more]
        <5> SUFFICES ASSUME NEW i \in 1..widened'
                     PROVE  buf'[i] = [text |-> IF i = 1 THEN Own ELSE more]
          OBVIOUS
        <5> HIDE DEF k
        <5>1. CASE i = k
          BY <1>1, <4>1, <4>3, <5>1 DEF Filled
        <5>2. CASE i # k
          BY <1>1, <3>2, <4>1, <4>2, <4>4, <5>2 DEF Filled
        <5>3. QED
          BY <5>1, <5>2
      <4>6. QED
        BY <1>1, <1>4, <3>0, <3>2, <4>3, <4>5 DEF Filled
    <3>3. QED
      BY <3>1, <3>2
  <2>3. \/ pc' = "call" /\ widened' = Len(Script(fn).args)
        \/ pc' = "widen" /\ widened' \in 0..(Len(Script(fn).args) - 1)
    BY <1>2, <1>8
  <2>4. Stage'
    BY <1>1, <1>4, <2>2, <2>3 DEF Stage, Script
  <2>5. Windows!PathIsAnswer'
    BY <1>8 DEF Windows!PathIsAnswer
  <2>6. QED
    BY <1>1, <1>8, <2>4, <2>5 DEF WindowsInv
<1>9. QED
  BY <1>5, <1>6, <1>7, <1>8

\* Windows answers what the function promises, or fails, or finds the buffer too small for the
\* current directory.
LEMMA CallKeepsPath ==
  ASSUME WindowsInv, Windows!Call
  PROVE  WindowsInv'
<1>1. /\ fn \in Scripted /\ UNCHANGED <<fn, path_in, more, path, widened>> /\ path = Left
      /\ widened = Len(Script(fn).args) /\ Filled /\ status = "none"
  BY DEF WindowsInv, Stage, Windows!Call
<1>2. fn # "path_combine" => Windows!Read = Windows!Promised
  BY <1>1, ReadIsPromised
<1>3. path' = Left' /\ Windows!Answer' = Windows!Answer /\ Lost' = Lost
  BY <1>1 DEF Left, Own, Windows!Answer, Windows!Promised, Lost
<1>4. \/ /\ buf' = [i \in 1..3 |-> IF i = Script(fn).writes
                                   THEN [by |-> fn, of |-> Windows!Read] ELSE buf[i]]
         /\ IF Script(fn).writes = 0 THEN pc' = "returned" /\ status' = "ok"
            ELSE pc' = "narrow" /\ status' = "none"
      \/ fn = "get_current_directory" /\ buf' = buf /\ pc' = "narrow" /\ status' = "none"
      \/ \E st \in Windows!Failures(fn) : pc' = "returned" /\ status' = st
  BY <1>1 DEF Windows!Call, Windows!Goes, Windows!Return, Script
<1>5. CASE \E st \in Windows!Failures(fn) : pc' = "returned" /\ status' = st
  <2>1. "ok" \notin Windows!Failures(fn)
    BY <1>1 DEF Windows!Failures, Scripted
  <2>2. (path = Left /\ status # "ok")'
    BY <1>3, <1>5, <2>1
  <2>3. Windows!PathIsAnswer'
    BY <2>2, FailedIsAnswer, PTL
  <2>4. QED
    BY <1>1, <1>5, <2>3 DEF WindowsInv, Stage
<1>6. CASE Script(fn).writes = 0 /\ pc' = "returned" /\ status' = "ok"
  <2>1. fn \notin Windows!InPlace
    BY <1>1, <1>6, ScriptOf
  <2>2. path' = [old |-> "name"]
    BY <1>1, <2>1 DEF Left
  <2>3. Windows!PathIsAnswer'
    BY <1>1, <1>6, <2>1, <2>2 DEF Windows!PathIsAnswer, Script
  <2>4. QED
    BY <1>1, <1>6, <2>3 DEF WindowsInv, Stage
<1>7. CASE /\ Script(fn).writes # 0 /\ pc' = "narrow" /\ status' = "none"
           /\ buf' = [i \in 1..3 |-> IF i = Script(fn).writes
                                     THEN [by |-> fn, of |-> Windows!Read] ELSE buf[i]]
  <2>1. Script(fn).writes \in 1..3
    BY <1>1, <1>7, ScriptOf
  <2>2. fn # "path_combine" => buf'[Script(fn).writes] \in {Windows!Answer} \union Lost
    BY <1>2, <1>7, <2>1 DEF Windows!Answer
  <2>3. Stage'
    <3>1. HoldsAnswer'
      BY <1>1, <1>3, <2>2 DEF HoldsAnswer, Script
    <3>2. QED
      BY <1>1, <1>3, <1>7, <3>1 DEF Stage, Script
  <2>4. Windows!PathIsAnswer'
    BY <1>7 DEF Windows!PathIsAnswer
  <2>5. QED
    BY <1>1, <1>7, <2>3, <2>4 DEF WindowsInv
<1>8. CASE fn = "get_current_directory" /\ buf' = buf /\ pc' = "narrow" /\ status' = "none"
  <2>1. Script(fn).writes = 1 /\ buf[1] \in Lost
    BY <1>1, <1>8, ScriptOf DEF Filled, Lost
  <2>2. Stage'
    <3>1. HoldsAnswer'
      BY <1>1, <1>3, <1>8, <2>1 DEF HoldsAnswer, Script
    <3>2. QED
      BY <1>1, <1>3, <1>8, <2>1, <3>1 DEF Stage, Script
  <2>3. Windows!PathIsAnswer'
    BY <1>8 DEF Windows!PathIsAnswer
  <2>4. QED
    BY <1>1, <1>8, <2>2, <2>3 DEF WindowsInv
<1>9. QED
  BY <1>4, <1>5, <1>6, <1>7, <1>8

\* The answer is narrowed into the path, or the part of it that fits.
LEMMA NarrowKeeps ==
  ASSUME WindowsInv, Windows!Narrow
  PROVE  WindowsInv'
<1>1. /\ fn \in Scripted /\ UNCHANGED <<fn, path_in, more, buf, widened>>
      /\ Script(fn).writes # 0
      /\ fn # "path_combine" => buf[Script(fn).writes] \in {Windows!Answer} \union Lost
  BY DEF WindowsInv, Stage, HoldsAnswer, Windows!Narrow
<1>2. Windows!Answer' = Windows!Answer /\ Lost' = Lost
  BY <1>1 DEF Windows!Answer, Windows!Promised, Lost
<1> DEFINE answer == buf[Script(fn).writes]
<1>3. /\ pc' = "returned"
      /\ \/ path' = answer /\ status' = "ok"
         \/ path' = [cut |-> answer] /\ status' = "unicode_error"
  BY <1>1 DEF Windows!Narrow, Windows!Return, Script
<1> HIDE DEF answer
<1>4. Windows!PathIsAnswer'
  <2>1. CASE fn = "path_combine"
    BY <1>1, <2>1 DEF Windows!PathIsAnswer
  <2>2. CASE fn # "path_combine"
    <3>1. answer \in {Windows!Answer'} \union Lost'
      BY <1>1, <1>2, <2>2 DEF answer
    <3>2. Script(fn)' = Script(fn) /\ fn' = fn
      BY <1>1 DEF Script
    <3>3. QED
      BY <1>1, <1>3, <2>2, <3>1, <3>2 DEF Windows!PathIsAnswer, Lost, Script
  <2>3. QED
    BY <2>1, <2>2
<1>5. QED
  BY <1>1, <1>3, <1>4 DEF WindowsInv, Stage

\* The inductive invariant of the Windows functions.
THEOREM WindowsInvariant == Windows!Spec => []WindowsInv
<1>1. WindowsInv /\ [Windows!Next]_Windows!vars => WindowsInv'
  <2> SUFFICES ASSUME WindowsInv, [Windows!Next]_Windows!vars
               PROVE  WindowsInv'
    OBVIOUS
  <2>1. CASE UNCHANGED Windows!vars
    BY <2>1 DEF Windows!vars, WindowsInv, Stage, HoldsAnswer, Filled, Left, Own, Windows!PathIsAnswer,
                Windows!Answer, Windows!Promised, Lost
  <2>2. QED
    BY <2>1, StartKeeps, WidenKeeps, CallKeepsPath, NarrowKeeps DEF Windows!Next
<1>2. QED
  BY <1>1, WindowsInit, PTL DEF Windows!Spec

\* A function of filesystem_win32.cpp other than path_combine that returns ok has left Windows'
\* answer to its own arguments in its path, or of a current directory too long for the buffer
\* what was in it; one that fails has left the path, or the part of the answer that fits.
THEOREM PathGetsAnswer == Windows!Spec => []Windows!PathIsAnswer
  BY WindowsInvariant, PTL DEF WindowsInv

-----------------------------------------------------------------------------
(***************************************************************************)
(* What LeafCalls checks of the leaves, for every value of its constants   *)
(***************************************************************************)

\* ascii_cmp answers rightly in every behaviour of the leaves.
THEOREM LeavesAnswerRightly == LeafSpec => []AnswersAreRight
  BY LeavesAreAlone, AsciiCmpIsRight, PTL

\* A wrapper of Windows other than path_combine leaves Windows' answer to its own arguments in
\* its path, unless the current directory is too long.
THEOREM LeavesGetAnswers == LeafSpec => []PathIsAnswer
  BY LeavesAreAlone, PathGetsAnswer, PTL DEF PathIsAnswer

\* An error that is compiled in is on stderr, or without the logger its text on stdout, or the
\* program ends and says why.
THEOREM LeavesShowErrors == LeafSpec => []ErrorsAreSeen
  BY LeavesAreAlone, ErrorsReachConsole, PTL DEF ErrorsAreSeen

\* main exits under the status of the nearest handler of what was thrown.
THEOREM LeavesReportNearest == LeafSpec => []NearestReported
  BY LeavesAreAlone, NothingThrownIsLost, PTL DEF NearestReported

\* A failing call of Linux is logged with its number's first name in front.
THEOREM LeavesLogFirstName == LeafSpec => []FirstNameLeads
  BY LeavesAreAlone, FirstNameIsLogged, PTL DEF FirstNameLeads

\* An operator of Vector3 computes from what its operands were, also where they alias.
THEOREM LeavesReadWhatWas ==
  ASSUME Vectors!Bounded
  PROVE  LeafSpec => ReadsWhatWas
  BY LeavesAreAlone, OperandsMayAlias, PTL DEF ReadsWhatWas

=============================================================================
