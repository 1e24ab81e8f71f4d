------------------------------- MODULE Vector -------------------------------
(***************************************************************************)
(* Vector3 (core/math): two vectors and the operators that assign to them. *)
(* An assignment writes its target's coordinates one by one, and reads the *)
(* operand meanwhile, which may be the target itself or, for a scalar, one *)
(* of its coordinates.                                                     *)
(*                                                                         *)
(* An f32 that holds an integer is modelled by it.  The model stops short  *)
(* of operations whose result is no integer of at most Bound, overflow and *)
(* division by zero among them, and says nothing of these.  A unit vector, *)
(* which is none of integers, is held as a quotient.                       *)
(***************************************************************************)
EXTENDS Integers

CONSTANTS
  Coordinates,   \* the coordinates of the vectors at first
  Bound          \* of the coordinates, for TLC

\* The coordinates are numbers of the model: what the theorems assume.
Bounded == Bound \in Nat /\ Coordinates \subseteq -Bound..Bound

VARIABLES
  vecs,    \* the vectors u and v, and the copy that the binary operators make
  last,    \* history: the operator applied last, with its operands
  unit     \* once made, a vector and the square of the number it is divided by

vars == <<vecs, last, unit>>

Numbers == -Bound..Bound
Axes == 1..3
Vectors == {"u", "v"}
Objects == Vectors \union {"copy"}
Zero == [i \in Axes |-> 0]
Operators == {"+", "-", "*", "/"}

TypeOK ==
  /\ vecs \in [Objects -> [Axes -> Numbers]]
  /\ vecs["copy"] = Zero

Init ==
  /\ vecs \in [Objects -> [Axes -> Coordinates \union {0}]] /\ vecs["copy"] = Zero
  /\ last = [kind |-> "none"]
  /\ unit = [kind |-> "none"]

-----------------------------------------------------------------------------

\* What `a op b' may be: the only number, or none that is modelled.
Results(op, a, b) ==
  {n \in Numbers : CASE op = "+" -> n = a + b
                     [] op = "-" -> n = a - b
                     [] op = "*" -> n = a * b
                     [] op = "/" -> b # 0 /\ n * b = a}

\* The objects m once m[x][i] op= b has been evaluated, if it can be.
Written(m, op, x, i, b) ==
  {[m EXCEPT ![x][i] = n] : n \in Results(op, m[x][i], b)}

\* x op= y
AssignedVector(m, op, x, y) ==
  UNION {UNION {Written(m2, op, x, 3, m2[y][3]) : m2 \in Written(m1, op, x, 2, m1[y][2])}
           : m1 \in Written(m, op, x, 1, m[y][1])}

\* Fault: the scalar is taken by reference.
AssignedScalarReference(m, op, x, y, j) ==
  UNION {UNION {Written(m2, op, x, 3, m2[y][j]) : m2 \in Written(m1, op, x, 2, m1[y][j])}
           : m1 \in Written(m, op, x, 1, m[y][j])}

\* x op= y[j], taken by value
AssignedScalar(m, op, x, y, j) ==
  UNION {UNION {Written(m2, op, x, 3, m[y][j]) : m2 \in Written(m1, op, x, 2, m[y][j])}
           : m1 \in Written(m, op, x, 1, m[y][j])}

dot(a, b) == a[1] * b[1] + a[2] * b[2] + a[3] * b[3]

squared_length(a) == a[1] * a[1] + a[2] * a[2] + a[3] * a[3]

cross(a, b) ==
  <<a[2] * b[3] - a[3] * b[2], -(a[1] * b[3] - a[3] * b[1]), a[1] * b[2] - a[2] * b[1]>>

Assign(x, y) ==
  \E op \in Operators :
    /\ vecs' \in AssignedVector(vecs, op, x, y)
    /\ last' = [kind |-> "assign", op |-> op, of |-> x, by |-> y]

Scale(x, y) ==
  \E op \in {"*", "/"}, j \in Axes :
    /\ vecs' \in AssignedScalar(vecs, op, x, y, j)
    /\ last' = [kind |-> "scale", op |-> op, of |-> x, by |-> y, axis |-> j]

\* u = x op y: a copy of x is assigned to, and returned.
Combine(x, y) ==
  \E op \in Operators :
    /\ vecs' \in {[m EXCEPT !["u"] = m["copy"], !["copy"] = Zero] :
                    m \in AssignedVector([vecs EXCEPT !["copy"] = vecs[x]], op, "copy", y)}
    /\ last' = [kind |-> "combine", op |-> op, of |-> x, by |-> y]

\* unit_vector, which asserts that x has a length, divides by the length.
UnitVector(x) ==
  /\ vecs[x] # Zero
  /\ unit' = [kind |-> "unit_vector", vec |-> vecs[x], over2 |-> squared_length(vecs[x])]

\* x.make_unit_vector() multiplies by 1 / squared_length().
MakeUnitVector(x) ==
  /\ vecs[x] # Zero
  /\ unit' = [kind |-> "make_unit_vector", vec |-> vecs[x],
              over2 |-> squared_length(vecs[x]) * squared_length(vecs[x])]

Next ==
  /\ unit.kind = "none"
  /\ \E x, y \in Vectors :
       \/ (Assign(x, y) \/ Scale(x, y) \/ Combine(x, y)) /\ UNCHANGED unit
       \/ (UnitVector(x) \/ MakeUnitVector(x)) /\ UNCHANGED <<vecs, last>>

Spec == Init /\ [][Next]_vars

-----------------------------------------------------------------------------
(***************************************************************************)
(* Properties                                                              *)
(***************************************************************************)

\* An operator computes every coordinate from what its operands were before it, also where
\* target and operand are one object, and writes to nothing but its target.
ReadsWhatWas ==
  [][vecs' # vecs \/ last' # last =>
       LET target == IF last'.kind = "combine" THEN "u" ELSE last'.of
           by(i)  == vecs[last'.by][IF last'.kind = "scale" THEN last'.axis ELSE i]
       IN  /\ \A i \in Axes : vecs'[target][i] \in Results(last'.op, vecs[last'.of][i], by(i))
           /\ \A x \in Objects \ {target} : vecs'[x] = vecs[x]]_vars

\* The cross product is orthogonal to both its operands, and as long as the parallelogram
\* they span is large.
CrossSpans ==
  \A x, y \in Vectors :
    LET a == vecs[x]
        b == vecs[y]
    IN  /\ dot(a, cross(a, b)) = 0 /\ dot(b, cross(a, b)) = 0
        /\ squared_length(cross(a, b)) + dot(a, b) * dot(a, b)
             = squared_length(a) * squared_length(b)

=============================================================================
