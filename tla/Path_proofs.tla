----------------------------- MODULE Path_proofs -----------------------------
(***************************************************************************)
(* Proofs about Path and PathText, for every capacity and paths of any     *)
(* length.  What the recursive functions compute is shown by induction on  *)
(* a place in the text, which is stated of sets: the places at which a     *)
(* claim holds are all there are.                                          *)
(***************************************************************************)
EXTENDS Path, SequenceTheorems, WellFoundedInduction, TLAPS

-----------------------------------------------------------------------------
(***************************************************************************)
(* Induction over the places in a text                                     *)
(***************************************************************************)

\* A set of natural numbers has a smallest one.
LEMMA SmallestPlace ==
  ASSUME NEW T \in SUBSET Nat, T # {}
  PROVE  \E x \in T : \A y \in T : x <= y
<1> DEFINE R == {pair \in Nat \X Nat : pair[1] < pair[2]}
<1>1. IsWellFoundedOn(R, Nat)
  BY NatLessThanWellFounded DEF OpToRel
<1>2. \A x, y \in Nat : <<x, y>> \notin R => y <= x
  OBVIOUS
<1> HIDE DEF R
<1>3. PICK x \in T : \A y \in T : <<y, x>> \notin R
  BY <1>1, WFMin
<1>4. \A y \in T : x <= y
  BY <1>2, <1>3
<1> QED BY <1>4

\* Induction upwards.
LEMMA UpwardInduction ==
  ASSUME NEW S \in SUBSET Nat, 0 \in S, \A n \in S : n + 1 \in S
  PROVE  S = Nat
<1> SUFFICES ASSUME S # Nat PROVE FALSE
  OBVIOUS
<1>1. PICK x \in Nat \ S : \A y \in Nat \ S : x <= y
  BY SmallestPlace
<1>2. x - 1 \in S
  BY <1>1
<1> QED BY <1>1, <1>2

\* Induction from the end of a text to its start, over every place behind the one at hand.
LEMMA BackwardInduction ==
  ASSUME NEW n \in Nat, NEW S \in SUBSET (1..n),
         \A i \in 1..n : (\A j \in i + 1..n : j \in S) => i \in S
  PROVE  S = 1..n
<1> SUFFICES ASSUME S # 1..n PROVE FALSE
  OBVIOUS
<1> DEFINE T == {k \in Nat : n - k \in 1..n /\ n - k \notin S}
<1>1. T # {}
  <2>1. PICK i \in 1..n : i \notin S
    OBVIOUS
  <2>2. n - i \in Nat /\ n - (n - i) = i
    OBVIOUS
  <2>3. n - i \in T
    BY <2>1, <2>2
  <2> QED BY <2>3
<1>2. PICK k \in T : \A l \in T : k <= l
  BY <1>1, SmallestPlace
<1>3. \A j \in (n - k) + 1..n : j \in S
  <2> SUFFICES ASSUME NEW j \in (n - k) + 1..n, j \notin S PROVE FALSE
    OBVIOUS
  <2>1. n - j \in Nat /\ n - (n - j) = j /\ n - j < k /\ j \in 1..n
    BY <1>2
  <2>2. n - j \in T
    BY <2>1
  <2>3. k <= n - j
    BY <1>2, <2>2
  <2>4. k \in Nat
    OBVIOUS
  <2> HIDE DEF T
  <2> QED BY <2>1, <2>3, <2>4
<1>4. n - k \in S
  BY <1>2, <1>3
<1> QED BY <1>2, <1>4

\* What a walk over the places of a text, which goes on from each at the next, collects from
\* each place on.
IsWalk(f, n, Stop, item, next) ==
  f = [i \in 1..n |-> IF i \in Stop THEN <<>> ELSE <<item[i]>> \o f[next[i]]]

\* There is such a function if the walk only goes forward.
LEMMA WalkDefined ==
  ASSUME NEW n \in Nat, NEW Stop, NEW item, NEW next,
         \A i \in 1..n : i \notin Stop => next[i] \in i + 1..n
  PROVE  \E f : IsWalk(f, n, Stop, item, next)
<1> DEFINE Part(f, k) ==
             f = [i \in n + 1 - k..n |-> IF i \in Stop THEN <<>>
                                         ELSE <<item[i]>> \o f[next[i]]]
           S == {k \in Nat : k <= n => \E f : Part(f, k)}
<1>1. 0 \in S
  <2>1. Part([i \in n + 1..n |-> <<>>], 0)
    OBVIOUS
  <2> HIDE DEF Part
  <2> QED BY <2>1
<1>2. ASSUME NEW k \in S PROVE k + 1 \in S
  <2> HIDE DEF Part
  <2> SUFFICES ASSUME k + 1 <= n PROVE \E f : Part(f, k + 1)
    OBVIOUS
  <2>1. PICK f : Part(f, k)
    <3>1. k <= n
      OBVIOUS
    <3> QED BY <3>1
  <2> USE DEF Part
  <2> DEFINE new == n - k
             g == [i \in n - k..n |-> IF i = new
                                      THEN IF i \in Stop THEN <<>>
                                           ELSE <<item[i]>> \o f[next[i]]
                                      ELSE f[i]]
  <2>2. new \in 1..n /\ n + 1 - (k + 1) = n - k /\ n + 1 - k = new + 1
    <3>1. k \in Nat
      OBVIOUS
    <3> HIDE DEF Part, S
    <3> QED BY <3>1
  <2>3. ASSUME NEW i \in n - k..n
        PROVE  g[i] = IF i \in Stop THEN <<>> ELSE <<item[i]>> \o g[next[i]]
    <3>1. i \in 1..n
      BY <2>2
    <3>2. i \notin Stop => next[i] \in i + 1..n
      BY <3>1
    <3>3. i \notin Stop => next[i] \in new + 1..n /\ g[next[i]] = f[next[i]]
      BY <2>2, <3>1, <3>2
    <3>4. CASE i = new
      BY <3>3, <3>4
    <3>5. CASE i # new
      <4>1. i \in n + 1 - k..n
        BY <2>2, <3>5
      <4>2. f[i] = IF i \in Stop THEN <<>> ELSE <<item[i]>> \o f[next[i]]
        BY <2>1, <4>1
      <4> QED BY <3>3, <3>5, <4>2
    <3> QED BY <3>4, <3>5
  <2>4. g = [i \in n - k..n |-> IF i \in Stop THEN <<>> ELSE <<item[i]>> \o g[next[i]]]
    BY <2>3
  <2>5. Part(g, k + 1)
    BY <2>2, <2>4
  <2> HIDE DEF Part
  <2> QED BY <2>5
<1>3. S = Nat
  <2> HIDE DEF S
  <2>1. S \in SUBSET Nat
    BY DEF S
  <2> QED BY <1>1, <1>2, <2>1, UpwardInduction
<1>4. \E f : Part(f, n)
  <2> HIDE DEF Part
  <2> QED BY <1>3
<1>5. n + 1 - n = 1
  OBVIOUS
<1> QED BY <1>4, <1>5 DEF IsWalk

-----------------------------------------------------------------------------
(***************************************************************************)
(* The loops over separators and over a segment                            *)
(***************************************************************************)

\* A loop that goes on while Skipped holds of the character stops somewhere.
LEMMA LoopStops ==
  ASSUME NEW n \in Nat, NEW Skipped, NEW i \in 1..n + 1
  PROVE  \E j \in i..n + 1 : (\A k \in i..j - 1 : k \in Skipped) /\ (j <= n => j \notin Skipped)
<1> DEFINE T == {j \in i..n + 1 : j <= n => j \notin Skipped}
<1>1. n + 1 \in T /\ T \in SUBSET Nat
  OBVIOUS
<1>2. PICK j \in T : \A l \in T : j <= l
  BY <1>1, SmallestPlace
<1>3. ASSUME NEW k \in i..j - 1 PROVE k \in Skipped
  <2>1. k \notin T
    BY <1>2
  <2> QED BY <1>2, <2>1
<1> QED BY <1>2, <1>3

\* SkipSeparators stops at the next character that is no separator.
LEMMA SkipSeparatorsIs ==
  ASSUME NEW t \in Seq(Chars), NEW i \in 1..Len(t) + 1
  PROVE  /\ SkipSeparators(t, i) \in i..Len(t) + 1
         /\ \A k \in i..SkipSeparators(t, i) - 1 : is_path_separator(t[k])
         /\ SkipSeparators(t, i) <= Len(t) => ~is_path_separator(t[SkipSeparators(t, i)])
<1> DEFINE Skipped == {k \in 1..Len(t) : is_path_separator(t[k])}
<1>1. Len(t) \in Nat
  OBVIOUS
<1>2. PICK j \in i..Len(t) + 1 :
        (\A k \in i..j - 1 : k \in Skipped) /\ (j <= Len(t) => j \notin Skipped)
  <2> HIDE DEF Skipped
  <2> QED BY <1>1, LoopStops
<1>3. /\ \A k \in i..j - 1 : is_path_separator(t[k])
      /\ j <= Len(t) => ~is_path_separator(t[j])
  BY <1>1, <1>2
<1> QED BY <1>3 DEF SkipSeparators

\* And nowhere else.
LEMMA SkipSeparatorsOnly ==
  ASSUME NEW t \in Seq(Chars), NEW i \in 1..Len(t) + 1, NEW j \in i..Len(t) + 1,
         \A k \in i..j - 1 : is_path_separator(t[k]),
         j <= Len(t) => ~is_path_separator(t[j])
  PROVE  SkipSeparators(t, i) = j
<1> DEFINE m == SkipSeparators(t, i)
<1>1. /\ m \in i..Len(t) + 1
      /\ \A k \in i..m - 1 : is_path_separator(t[k])
      /\ m <= Len(t) => ~is_path_separator(t[m])
  BY SkipSeparatorsIs
<1> HIDE DEF m
<1>2. Len(t) \in Nat
  OBVIOUS
<1>3. ~(m < j)
  BY <1>1, <1>2
<1>4. ~(j < m)
  BY <1>1, <1>2
<1>5. m = j
  BY <1>1, <1>2, <1>3, <1>4
<1> QED BY <1>5 DEF m

\* The same of SkipSegment.
LEMMA SkipSegmentIs ==
  ASSUME NEW t \in Seq(Chars), NEW i \in 1..Len(t) + 1
  PROVE  /\ SkipSegment(t, i) \in i..Len(t) + 1
         /\ \A k \in i..SkipSegment(t, i) - 1 : ~is_path_separator(t[k])
         /\ SkipSegment(t, i) <= Len(t) => is_path_separator(t[SkipSegment(t, i)])
<1> DEFINE Skipped == {k \in 1..Len(t) : ~is_path_separator(t[k])}
<1>1. Len(t) \in Nat
  OBVIOUS
<1>2. PICK j \in i..Len(t) + 1 :
        (\A k \in i..j - 1 : k \in Skipped) /\ (j <= Len(t) => j \notin Skipped)
  <2> HIDE DEF Skipped
  <2> QED BY <1>1, LoopStops
<1>3. /\ \A k \in i..j - 1 : ~is_path_separator(t[k])
      /\ j <= Len(t) => is_path_separator(t[j])
  BY <1>1, <1>2
<1> QED BY <1>3 DEF SkipSegment

LEMMA SkipSegmentOnly ==
  ASSUME NEW t \in Seq(Chars), NEW i \in 1..Len(t) + 1, NEW j \in i..Len(t) + 1,
         \A k \in i..j - 1 : ~is_path_separator(t[k]),
         j <= Len(t) => is_path_separator(t[j])
  PROVE  SkipSegment(t, i) = j
<1> DEFINE m == SkipSegment(t, i)
<1>1. /\ m \in i..Len(t) + 1
      /\ \A k \in i..m - 1 : ~is_path_separator(t[k])
      /\ m <= Len(t) => is_path_separator(t[m])
  BY SkipSegmentIs
<1> HIDE DEF m
<1>2. Len(t) \in Nat
  OBVIOUS
<1>3. ~(m < j)
  BY <1>1, <1>2
<1>4. ~(j < m)
  BY <1>1, <1>2
<1>5. m = j
  BY <1>1, <1>2, <1>3, <1>4
<1> QED BY <1>5 DEF m

\* The loop of path_remove_dup_separators is defined at every place.
LEMMA CopiedIs ==
  ASSUME NEW t \in Seq(Chars)
  PROVE  /\ Copied(t)[Len(t) + 1] = <<>>
         /\ \A r \in 1..Len(t) :
              Copied(t)[r] = <<t[r]>> \o Copied(t)[IF is_path_separator(t[r])
                                                  THEN SkipSeparators(t, r + 1)
                                                  ELSE r + 1]
<1> DEFINE next == [r \in 1..Len(t) + 1 |-> IF is_path_separator(t[r])
                                            THEN SkipSeparators(t, r + 1)
                                            ELSE r + 1]
           Stop == {Len(t) + 1}
           F(f) == [r \in 1..Len(t) + 1 |->
                     IF r > Len(t) THEN <<>>
                     ELSE <<t[r]>> \o f[IF is_path_separator(t[r])
                                        THEN SkipSeparators(t, r + 1)
                                        ELSE r + 1]]
<1>1. Len(t) \in Nat /\ Len(t) + 1 \in Nat
  OBVIOUS
<1>2. ASSUME NEW r \in 1..Len(t) + 1, r \notin Stop
      PROVE  next[r] \in r + 1..Len(t) + 1
  <2>1. r + 1 \in 1..Len(t) + 1
    BY <1>1, <1>2
  <2>2. SkipSeparators(t, r + 1) \in r + 1..Len(t) + 1
    BY <2>1, SkipSeparatorsIs
  <2> QED BY <2>1, <2>2
<1>3. PICK f : IsWalk(f, Len(t) + 1, Stop, t, next)
  <2> HIDE DEF next, Stop
  <2> QED BY <1>1, <1>2, WalkDefined
<1>4. f = [r \in 1..Len(t) + 1 |-> IF r \in Stop THEN <<>> ELSE <<t[r]>> \o f[next[r]]]
  <2> HIDE DEF next, Stop
  <2> QED BY <1>3 DEF IsWalk
<1>5. ASSUME NEW r \in 1..Len(t) + 1
      PROVE  (r \in Stop <=> r > Len(t)) /\ next[r] = IF is_path_separator(t[r])
                                                    THEN SkipSeparators(t, r + 1)
                                                    ELSE r + 1
  BY <1>1
<1>6. f = F(f)
  <2> HIDE DEF next, Stop
  <2> QED BY <1>4, <1>5
<1>7. Copied(t) = CHOOSE g : g = F(g)
  BY Zenon DEF Copied
<1>8. Copied(t) = F(Copied(t))
  <2> HIDE DEF F
  <2> QED BY <1>6, <1>7, Zenon
<1> DEFINE g == Copied(t)
<1>9. g = [r \in 1..Len(t) + 1 |->
            IF r > Len(t) THEN <<>>
            ELSE <<t[r]>> \o g[IF is_path_separator(t[r])
                               THEN SkipSeparators(t, r + 1)
                               ELSE r + 1]]
  BY <1>8, Zenon
<1> HIDE DEF g
<1>10. g[Len(t) + 1] = <<>>
  BY <1>1, <1>9
<1>11. ASSUME NEW r \in 1..Len(t)
       PROVE  g[r] = <<t[r]>> \o g[IF is_path_separator(t[r])
                                  THEN SkipSeparators(t, r + 1)
                                  ELSE r + 1]
  <2>1. r \in 1..Len(t) + 1 /\ ~(r > Len(t))
    BY <1>1
  <2> QED BY <2>1, <1>9, Zenon
<1> QED BY <1>10, <1>11 DEF g

\* One character in front of a text.
LEMMA Cons ==
  ASSUME NEW c \in Chars, NEW d \in Seq(Chars)
  PROVE  /\ <<c>> \o d \in Seq(Chars)
         /\ Len(<<c>> \o d) = Len(d) + 1
         /\ (<<c>> \o d)[1] = c
         /\ \A i \in 2..Len(d) + 1 : (<<c>> \o d)[i] = d[i - 1]
<1>1. <<c>> \in Seq(Chars) /\ Len(<<c>>) = 1 /\ <<c>>[1] = c
  OBVIOUS
<1> QED BY <1>1, ConcatProperties

\* A part of a text.
LEMMA PartIs ==
  ASSUME NEW t \in Seq(Chars), NEW m \in 1..Len(t) + 1, NEW n \in m - 1..Len(t)
  PROVE  /\ SubSeq(t, m, n) \in Seq(Chars)
         /\ Len(SubSeq(t, m, n)) = n - m + 1
         /\ \A i \in 1..n - m + 1 : SubSeq(t, m, n)[i] = t[m + i - 1]
<1>1. Len(t) \in Nat /\ m \in Int /\ n \in Int /\ \A i \in m..n : t[i] \in Chars
  OBVIOUS
<1>2. n - m + 1 = IF m <= n THEN n - m + 1 ELSE 0
  BY <1>1
<1> QED BY <1>1, <1>2, SubSeqProperties

\* What is copied from a place on: no more than there is, nothing that is not there, the
\* character at that place first, and never two separators in a row.
CopyIsRight(t, r, c) ==
  /\ c \in Seq(Chars)
  /\ Len(c) <= Len(t) + 1 - r
  /\ r <= Len(t) => Len(c) >= 1 /\ c[1] = t[r]
  /\ \A i \in 1..Len(c) : \E k \in r..Len(t) : c[i] = t[k]
  /\ \A i \in 1..Len(c) - 1 : ~(is_path_separator(c[i]) /\ is_path_separator(c[i + 1]))

LEMMA CopyStep ==
  ASSUME NEW t \in Seq(Chars), NEW r \in 1..Len(t), NEW q \in r + 1..Len(t) + 1,
         NEW d, CopyIsRight(t, q, d),
         is_path_separator(t[r]) /\ q <= Len(t) => ~is_path_separator(t[q])
  PROVE  CopyIsRight(t, r, <<t[r]>> \o d)
<1> DEFINE c == <<t[r]>> \o d
<1>1. t[r] \in Chars /\ Len(t) \in Nat /\ d \in Seq(Chars) /\ Len(d) \in Nat
      /\ Len(d) <= Len(t) + 1 - q
  BY DEF CopyIsRight
<1>2. /\ c \in Seq(Chars) /\ Len(c) = Len(d) + 1 /\ c[1] = t[r]
      /\ \A i \in 2..Len(d) + 1 : c[i] = d[i - 1]
  BY <1>1, Cons
<1> HIDE DEF c
<1>3. ASSUME NEW i \in 1..Len(c) PROVE \E k \in r..Len(t) : c[i] = t[k]
  <2>1. CASE i = 1
    BY <1>1, <1>2, <2>1
  <2>2. CASE i # 1
    <3>1. i - 1 \in 1..Len(d) /\ c[i] = d[i - 1]
      BY <1>1, <1>2, <2>2
    <3>2. PICK k \in q..Len(t) : d[i - 1] = t[k]
      BY <3>1 DEF CopyIsRight
    <3> QED BY <1>1, <3>1, <3>2
  <2> QED BY <2>1, <2>2
<1>4. ASSUME NEW i \in 1..Len(c) - 1
      PROVE  ~(is_path_separator(c[i]) /\ is_path_separator(c[i + 1]))
  <2>1. c[i + 1] = d[i] /\ i \in 1..Len(d)
    BY <1>1, <1>2
  <2>2. CASE i = 1
    <3>1. q <= Len(t) /\ d[1] = t[q]
      BY <1>1, <2>1 DEF CopyIsRight
    <3> QED BY <1>2, <2>1, <2>2, <3>1
  <2>3. CASE i # 1
    <3>1. c[i] = d[i - 1] /\ i - 1 \in 1..Len(d) - 1
      BY <1>1, <1>2, <2>3
    <3>2. d[(i - 1) + 1] = d[i]
      OBVIOUS
    <3>3. ~(is_path_separator(d[i - 1]) /\ is_path_separator(d[i]))
      BY <3>1, <3>2 DEF CopyIsRight
    <3> QED BY <2>1, <3>1, <3>3
  <2> QED BY <2>2, <2>3
<1>5. CopyIsRight(t, r, c)
  BY <1>1, <1>2, <1>3, <1>4 DEF CopyIsRight
<1> QED BY <1>5 DEF c

LEMMA CopiedIsRight ==
  ASSUME NEW t \in Seq(Chars)
  PROVE  \A r \in 1..Len(t) + 1 : CopyIsRight(t, r, Copied(t)[r])
<1> DEFINE S == {r \in 1..Len(t) + 1 : CopyIsRight(t, r, Copied(t)[r])}
<1>1. Len(t) \in Nat /\ Len(t) + 1 \in Nat
  OBVIOUS
<1>2. ASSUME NEW r \in 1..Len(t) + 1, \A q \in r + 1..Len(t) + 1 : q \in S
      PROVE  r \in S
  <2>1. CASE r = Len(t) + 1
    <3>1. Copied(t)[r] = <<>>
      BY <2>1, CopiedIs
    <3>2. CopyIsRight(t, r, <<>>)
      BY <1>1, <2>1 DEF CopyIsRight
    <3> QED BY <3>1, <3>2
  <2>2. CASE r # Len(t) + 1
    <3> DEFINE q == IF is_path_separator(t[r]) THEN SkipSeparators(t, r + 1) ELSE r + 1
    <3>1. r \in 1..Len(t) /\ r + 1 \in 1..Len(t) + 1
      BY <1>1, <2>2
    <3>2. /\ q \in r + 1..Len(t) + 1
          /\ is_path_separator(t[r]) /\ q <= Len(t) => ~is_path_separator(t[q])
      BY <1>1, <3>1, SkipSeparatorsIs
    <3>3. Copied(t)[r] = <<t[r]>> \o Copied(t)[q]
      BY <3>1, CopiedIs
    <3> HIDE DEF q
    <3>4. CopyIsRight(t, q, Copied(t)[q])
      BY <1>2, <3>2
    <3> QED BY <3>1, <3>2, <3>3, <3>4, CopyStep
  <2> QED BY <2>1, <2>2
<1>3. S = 1..Len(t) + 1
  <2> HIDE DEF S
  <2>1. S \in SUBSET (1..Len(t) + 1)
    BY DEF S
  <2> QED BY <1>1, <1>2, <2>1, BackwardInduction
<1> QED BY <1>3

\* path_normalize changes which separator is used, and nothing else.
LEMMA NormalizedIs ==
  ASSUME NEW t \in Seq(Chars)
  PROVE  /\ Normalized(t) \in Seq(Chars)
         /\ Len(Normalized(t)) = Len(t)
         /\ \A i \in 1..Len(t) :
              /\ Normalized(t)[i] # Slash
              /\ Normalized(t)[i] = IF is_path_separator(t[i]) THEN Backslash ELSE t[i]
              /\ is_path_separator(Normalized(t)[i]) <=> is_path_separator(t[i])
<1>1. Len(t) \in Nat /\ DOMAIN t = 1..Len(t) /\ \A i \in 1..Len(t) : t[i] \in Chars
  OBVIOUS
<1>2. Normalized(t) \in [1..Len(t) -> Chars]
  BY <1>1 DEF Normalized, Chars
<1>3. Normalized(t) \in Seq(Chars) /\ Len(Normalized(t)) = Len(t)
  BY <1>1, <1>2
<1>4. ASSUME NEW i \in 1..Len(t)
      PROVE  Normalized(t)[i] = IF t[i] = Slash THEN Backslash ELSE t[i]
  BY <1>1 DEF Normalized
<1> QED BY <1>3, <1>4 DEF is_path_separator, Slash, Backslash

\* path_remove_dup_separators leaves a text no longer, with the same first character, and two
\* separators in a row only where two backslashes were in front.
LEMMA WithoutDuplicatesIs ==
  ASSUME NEW t \in Seq(Chars)
  PROVE  LET d == WithoutDuplicates(t)
         IN  /\ d \in Seq(Chars)
             /\ Len(d) <= Len(t)
             /\ Len(t) >= 1 => Len(d) >= 1 /\ d[1] = t[1]
             /\ \A i \in 1..Len(d) : \E k \in 1..Len(t) : d[i] = t[k]
             /\ \A i \in 1..Len(d) - 1 :
                  is_path_separator(d[i]) /\ is_path_separator(d[i + 1])
                    => i = 1 /\ d[1] = Backslash /\ t[2] = Backslash
<1> DEFINE d == WithoutDuplicates(t)
<1>1. Len(t) \in Nat /\ \A r \in 1..Len(t) + 1 : CopyIsRight(t, r, Copied(t)[r])
  BY CopiedIsRight
<1>2. CASE Len(t) >= 2 /\ t[1] = Backslash /\ t[2] = Backslash
  <2> DEFINE c == Copied(t)[2]
  <2>1. CopyIsRight(t, 2, c)
    BY <1>1, <1>2
  <2>2. d = <<Backslash>> \o c
    BY <1>2 DEF WithoutDuplicates
  <2> HIDE DEF c, d
  <2>3. Backslash \in Chars /\ c \in Seq(Chars) /\ Len(c) \in Nat /\ Len(c) <= Len(t) - 1
        /\ Len(c) >= 1 /\ c[1] = Backslash
    BY <1>1, <1>2, <2>1 DEF CopyIsRight, Chars
  <2>4. /\ d \in Seq(Chars) /\ Len(d) = Len(c) + 1 /\ d[1] = Backslash
        /\ \A i \in 2..Len(c) + 1 : d[i] = c[i - 1]
    BY <2>2, <2>3, Cons
  <2>5. ASSUME NEW i \in 1..Len(d) PROVE \E k \in 1..Len(t) : d[i] = t[k]
    <3>1. CASE i = 1
      BY <1>1, <1>2, <2>4, <3>1
    <3>2. CASE i # 1
      <4>1. i - 1 \in 1..Len(c) /\ d[i] = c[i - 1]
        BY <2>3, <2>4, <3>2
      <4>2. PICK k \in 2..Len(t) : c[i - 1] = t[k]
        BY <2>1, <4>1 DEF CopyIsRight
      <4> QED BY <4>1, <4>2
    <3> QED BY <3>1, <3>2
  <2>6. ASSUME NEW i \in 1..Len(d) - 1, i # 1
        PROVE  ~(is_path_separator(d[i]) /\ is_path_separator(d[i + 1]))
    <3>1. i - 1 \in 1..Len(c) - 1 /\ d[i] = c[i - 1] /\ d[i + 1] = c[i] /\ (i - 1) + 1 = i
      BY <2>3, <2>4, <2>6
    <3>2. ~(is_path_separator(c[i - 1]) /\ is_path_separator(c[(i - 1) + 1]))
      BY <2>1, <3>1 DEF CopyIsRight
    <3> QED BY <3>1, <3>2
  <2> QED BY <1>1, <1>2, <2>3, <2>4, <2>5, <2>6 DEF d
<1>3. CASE ~(Len(t) >= 2 /\ t[1] = Backslash /\ t[2] = Backslash)
  <2>1. d = Copied(t)[1]
    BY <1>3 DEF WithoutDuplicates
  <2>2. CopyIsRight(t, 1, d)
    BY <1>1, <2>1
  <2> HIDE DEF d
  <2>3. /\ d \in Seq(Chars) /\ Len(d) <= Len(t)
        /\ Len(t) >= 1 => Len(d) >= 1 /\ d[1] = t[1]
        /\ \A i \in 1..Len(d) : \E k \in 1..Len(t) : d[i] = t[k]
        /\ \A i \in 1..Len(d) - 1 : ~(is_path_separator(d[i]) /\ is_path_separator(d[i + 1]))
    BY <1>1, <2>2 DEF CopyIsRight
  <2> QED BY <2>3 DEF d
<1> QED BY <1>2, <1>3

\* path_remove_trailing_separator takes the last character or nothing.
LEMMA WithoutTrailingIs ==
  ASSUME NEW t \in Seq(Chars)
  PROVE  LET d == WithoutTrailing(t)
         IN  /\ d \in Seq(Chars)
             /\ \A i \in 1..Len(d) : d[i] = t[i]
             /\ HasTrailingSeparator(t) => Len(d) = Len(t) - 1 /\ Len(t) >= 1
             /\ ~HasTrailingSeparator(t) => d = t
<1>1. Len(t) \in Nat /\ (t = <<>> <=> Len(t) = 0)
  OBVIOUS
<1>2. CASE HasTrailingSeparator(t)
  <2> DEFINE d == WithoutTrailing(t)
  <2>1. d = SubSeq(t, 1, Len(t) - 1) /\ Len(t) >= 1
    BY <1>1, <1>2 DEF WithoutTrailing, HasTrailingSeparator
  <2> HIDE DEF d
  <2>2. d \in Seq(Chars) /\ Len(d) = Len(t) - 1 /\ \A i \in 1..Len(d) : d[i] = t[i]
    <3> DEFINE n == Len(t) - 1
    <3>1. 1 \in 1..Len(t) + 1 /\ n \in 1 - 1..Len(t) /\ n - 1 + 1 = n
          /\ \A i \in 1..n : 1 + i - 1 = i
      BY <1>1, <2>1
    <3>2. /\ SubSeq(t, 1, n) \in Seq(Chars) /\ Len(SubSeq(t, 1, n)) = n - 1 + 1
          /\ \A i \in 1..n - 1 + 1 : SubSeq(t, 1, n)[i] = t[1 + i - 1]
      BY <3>1, PartIs
    <3> QED BY <2>1, <3>1, <3>2
  <2> QED BY <1>2, <2>1, <2>2 DEF d
<1>3. CASE ~HasTrailingSeparator(t)
  BY <1>1, <1>3 DEF WithoutTrailing, HasTrailingSeparator
<1> QED BY <1>2, <1>3

-----------------------------------------------------------------------------
(***************************************************************************)
(* The buffer and its text                                                 *)
(***************************************************************************)

\* A buffer with a terminator in it.
Terminated == {b \in Buffers : \E i \in 1..Capacity : b[i] = NUL}

LEMMA NULIsNoChar == NUL \notin Chars
  BY ResultsAssumption DEF NUL, Chars, Slash, Backslash, Period

\* The text ends before the first terminator.
LEMMA TextIs ==
  ASSUME NEW b \in Terminated
  PROVE  /\ Text(b) \in Seq(Chars)
         /\ Len(Text(b)) \in 0..Capacity - 1
         /\ b[Len(Text(b)) + 1] = NUL
         /\ \A i \in 1..Len(Text(b)) : Text(b)[i] = b[i] /\ b[i] # NUL
<1>1. Capacity \in Nat /\ b \in [1..Capacity -> Chars \union {NUL}]
      /\ b \in Seq(Chars \union {NUL}) /\ Len(b) = Capacity
  BY CapacityAssumption DEF Terminated, Buffers
<1> DEFINE T == {i \in 1..Capacity : b[i] = NUL}
<1>2. PICK m \in T : \A k \in T : m <= k
  <2>1. T # {} /\ T \in SUBSET Nat
    BY <1>1 DEF Terminated
  <2> HIDE DEF T
  <2> QED BY <2>1, SmallestPlace
<1>3. m \in 1..Capacity /\ b[m] = NUL /\ \A j \in 1..m - 1 : b[j] # NUL
  BY <1>1, <1>2
<1> DEFINE e == CHOOSE i \in 1..Capacity : b[i] = NUL /\ \A j \in 1..i - 1 : b[j] # NUL
<1>4. e \in 1..Capacity /\ b[e] = NUL /\ \A j \in 1..e - 1 : b[j] # NUL
  BY <1>3
<1>5. Text(b) = SubSeq(b, 1, e - 1)
  BY DEF Text
<1> HIDE DEF e
<1>6. SubSeq(b, 1, e - 1) \in Seq(Chars \union {NUL}) /\ Len(SubSeq(b, 1, e - 1)) = e - 1
      /\ \A i \in 1..e - 1 : SubSeq(b, 1, e - 1)[i] = b[i]
  BY <1>1, <1>4
<1>7. \A i \in 1..e - 1 : SubSeq(b, 1, e - 1)[i] \in Chars
  BY <1>1, <1>4, <1>6
<1>8. SubSeq(b, 1, e - 1) \in Seq(Chars)
  BY <1>6, <1>7, <1>4
<1> QED BY <1>1, <1>4, <1>5, <1>6, <1>8

\* There is one such text.
LEMMA TextOnly ==
  ASSUME NEW b \in Buffers, NEW t \in Seq(Chars), Len(t) < Capacity,
         b[Len(t) + 1] = NUL, \A i \in 1..Len(t) : b[i] = t[i]
  PROVE  b \in Terminated /\ Text(b) = t
<1>1. Capacity \in Nat /\ Len(t) \in Nat
  BY CapacityAssumption
<1>2. b \in Terminated
  BY <1>1 DEF Terminated
<1> DEFINE u == Text(b)
<1>3. /\ u \in Seq(Chars) /\ Len(u) \in 0..Capacity - 1 /\ b[Len(u) + 1] = NUL
      /\ \A i \in 1..Len(u) : u[i] = b[i] /\ b[i] # NUL
  BY <1>2, TextIs
<1> HIDE DEF u
<1>4. \A i \in 1..Len(t) : b[i] # NUL
  BY NULIsNoChar
<1>5. ~(Len(u) < Len(t)) /\ ~(Len(t) < Len(u))
  BY <1>1, <1>3, <1>4
<1>6. Len(u) = Len(t)
  BY <1>1, <1>3, <1>5
<1>7. u = t
  BY <1>3, <1>6, SeqEqual
<1> QED BY <1>2, <1>7 DEF u

\* What is written to a buffer is the text in it.
LEMMA WrittenIs ==
  ASSUME NEW b \in Buffers, NEW t \in Seq(Chars), Len(t) < Capacity
  PROVE  /\ Written(b, t) \in Terminated
         /\ Text(Written(b, t)) = t
<1>1. Capacity \in Nat /\ Len(t) \in Nat /\ \A i \in 1..Len(t) : t[i] \in Chars
  BY CapacityAssumption
<1>2. Written(b, t) \in Buffers
  BY <1>1 DEF Written, Buffers
<1>3. Written(b, t)[Len(t) + 1] = NUL /\ \A i \in 1..Len(t) : Written(b, t)[i] = t[i]
  BY <1>1 DEF Written
<1> QED BY <1>2, <1>3, TextOnly

-----------------------------------------------------------------------------
(***************************************************************************)
(* The functions on a Path                                                 *)
(***************************************************************************)

Paths == [m_path : Terminated, m_size : {dirty_flag} \union 0..Capacity - 1]

\* The cached size is right.
Coherent(p) == p.m_size \in {dirty_flag, Len(Text(p.m_path))}

\* What a function may do with a path p to leave q: the path stays well-formed, and if its size
\* was right it still is.
Keeps(p, q) == q \in Paths /\ (Coherent(p) => Coherent(q))

LEMMA SizedIs ==
  ASSUME NEW p \in Paths
  PROVE  /\ Keeps(p, Sized(p))
         /\ Sized(p).m_path = p.m_path
         /\ Sized(p).m_size \in 0..Capacity - 1
         /\ Coherent(p) => Sized(p).m_size = Len(Text(p.m_path))
<1>1. p.m_path \in Terminated /\ p.m_size \in {dirty_flag} \union 0..Capacity - 1
  BY DEF Paths
<1>2. Len(Text(p.m_path)) \in 0..Capacity - 1
  BY <1>1, TextIs
<1> QED BY <1>1, <1>2 DEF Sized, Paths, Coherent, Keeps, dirty_flag

\* A text written to the buffer, with its size or the dirty flag.
LEMMA WrittenKeeps ==
  ASSUME NEW p \in Paths, NEW t \in Seq(Chars), Len(t) < Capacity,
         NEW size \in {dirty_flag, Len(t)}
  PROVE  /\ [m_path |-> Written(p.m_path, t), m_size |-> size] \in Paths
         /\ Coherent([m_path |-> Written(p.m_path, t), m_size |-> size])
<1>1. p.m_path \in Buffers
  BY DEF Paths, Terminated
<1>2. Written(p.m_path, t) \in Terminated /\ Text(Written(p.m_path, t)) = t
  BY <1>1, WrittenIs
<1>3. Len(t) \in 0..Capacity - 1
  BY CapacityAssumption
<1> QED BY <1>2, <1>3 DEF Paths, Coherent

\* A text as long as the one it replaces leaves the size as right as it was.
LEMMA RewrittenKeeps ==
  ASSUME NEW p \in Paths, NEW t \in Seq(Chars), Len(t) = Len(Text(p.m_path))
  PROVE  /\ Keeps(p, [p EXCEPT !.m_path = Written(p.m_path, t)])
         /\ Text(Written(p.m_path, t)) = t
<1>1. p.m_path \in Terminated /\ p.m_path \in Buffers
  BY DEF Paths, Terminated
<1>2. Len(t) < Capacity
  BY <1>1, TextIs, CapacityAssumption
<1>3. Written(p.m_path, t) \in Terminated /\ Text(Written(p.m_path, t)) = t
  BY <1>1, <1>2, WrittenIs
<1> QED BY <1>3 DEF Paths, Coherent, Keeps

LEMMA EmptyText ==
  /\ Normalized(<<>>) = <<>>
  /\ WithoutDuplicates(<<>>) = <<>>
  /\ WithoutTrailing(<<>>) = <<>>
<1>1. <<>> \in Seq(Chars) /\ Len(<<>>) = 0
  OBVIOUS
<1>2. \A d \in Seq(Chars) : Len(d) <= 0 => d = <<>>
  OBVIOUS
<1>3. Normalized(<<>>) \in Seq(Chars) /\ Len(Normalized(<<>>)) <= 0
  <2>1. \A t \in Seq(Chars) : Normalized(t) \in Seq(Chars) /\ Len(Normalized(t)) = Len(t)
    BY NormalizedIs
  <2>2. Normalized(<<>>) \in Seq(Chars) /\ Len(Normalized(<<>>)) = Len(<<>>)
    BY <1>1, <2>1, Zenon
  <2> QED BY <1>1, <2>2
<1>4. WithoutDuplicates(<<>>) \in Seq(Chars) /\ Len(WithoutDuplicates(<<>>)) <= 0
  BY <1>1, WithoutDuplicatesIs
<1> QED BY <1>2, <1>3, <1>4 DEF WithoutTrailing

LEMMA NormalizeKeeps ==
  ASSUME NEW p \in Paths
  PROVE  /\ Keeps(p, path_normalize(p))
         /\ Coherent(p) => Text(path_normalize(p).m_path) = Normalized(Text(p.m_path))
<1> DEFINE t == Text(p.m_path)
           q == Sized(p)
<1>1. t \in Seq(Chars) /\ Len(t) \in Nat
  BY TextIs DEF Paths
<1>2. q \in Paths /\ (Coherent(p) => Coherent(q)) /\ q.m_path = p.m_path
      /\ q.m_size \in 0..Capacity - 1 /\ (Coherent(p) => q.m_size = Len(t))
  BY SizedIs DEF Keeps
<1>3. Normalized(t) \in Seq(Chars) /\ Len(Normalized(t)) = Len(t)
  BY <1>1, NormalizedIs
<1>4. CASE q.m_size > 0
  <2>1. path_normalize(p) = [q EXCEPT !.m_path = Written(q.m_path, Normalized(t))]
    BY <1>2, <1>4 DEF path_normalize
  <2>2. Keeps(q, path_normalize(p)) /\ Text(Written(q.m_path, Normalized(t))) = Normalized(t)
    BY <1>2, <1>3, <2>1, RewrittenKeeps
  <2>3. path_normalize(p).m_path = Written(q.m_path, Normalized(t))
    BY <1>2, <2>1 DEF Paths
  <2> QED BY <1>2, <2>2, <2>3 DEF Keeps
<1>5. CASE ~(q.m_size > 0)
  <2>1. path_normalize(p) = q
    BY <1>5 DEF path_normalize
  <2>2. Coherent(p) => t = <<>>
    BY <1>1, <1>2, <1>5
  <2> QED BY <1>2, <2>1, <2>2, EmptyText DEF Keeps
<1> QED BY <1>4, <1>5

LEMMA RemoveDupKeeps ==
  ASSUME NEW p \in Paths
  PROVE  /\ Keeps(p, path_remove_dup_separators(p))
         /\ Coherent(p) =>
              Text(path_remove_dup_separators(p).m_path) = WithoutDuplicates(Text(p.m_path))
<1> DEFINE t == Text(p.m_path)
           q == Sized(p)
           d == WithoutDuplicates(t)
<1>1. t \in Seq(Chars) /\ Len(t) \in 0..Capacity - 1 /\ p.m_path \in Buffers
  BY TextIs DEF Paths, Terminated
<1>2. q \in Paths /\ (Coherent(p) => Coherent(q)) /\ q.m_path = p.m_path
      /\ q.m_size \in 0..Capacity - 1 /\ (Coherent(p) => q.m_size = Len(t))
  BY SizedIs DEF Keeps
<1>3. d \in Seq(Chars) /\ Len(d) < Capacity
  BY <1>1, WithoutDuplicatesIs, CapacityAssumption
<1>4. CASE q.m_size = 0
  <2>1. path_remove_dup_separators(p) = q
    BY <1>4 DEF path_remove_dup_separators
  <2>2. Coherent(p) => t = <<>>
    BY <1>1, <1>2, <1>4
  <2> QED BY <1>2, <2>1, <2>2, EmptyText DEF Keeps
<1>5. CASE q.m_size # 0
  <2>1. path_remove_dup_separators(p) = [m_path |-> Written(p.m_path, d), m_size |-> dirty_flag]
    BY <1>5 DEF path_remove_dup_separators
  <2>2. Text(Written(p.m_path, d)) = d
    BY <1>1, <1>3, WrittenIs
  <2>3. Keeps(p, path_remove_dup_separators(p))
    <3> HIDE DEF d
    <3> QED BY <1>3, <2>1, WrittenKeeps DEF Keeps
  <2> QED BY <2>1, <2>2, <2>3
<1> QED BY <1>4, <1>5

\* A terminator written into a text cuts it off there.
LEMMA CutKeeps ==
  ASSUME NEW p \in Paths, NEW n \in 1..Capacity - 1,
         NEW b, b = [p.m_path EXCEPT ![n] = NUL]
  PROVE  /\ b \in Terminated
         /\ n = Len(Text(p.m_path)) => Text(b) = SubSeq(Text(p.m_path), 1, n - 1)
<1> DEFINE t == Text(p.m_path)
<1>1. /\ p.m_path \in Buffers /\ t \in Seq(Chars) /\ Len(t) \in 0..Capacity - 1
      /\ \A i \in 1..Len(t) : t[i] = p.m_path[i]
  BY TextIs DEF Paths, Terminated
<1>2. b \in Buffers /\ b[n] = NUL /\ \A i \in 1..n - 1 : b[i] = p.m_path[i]
  BY <1>1, CapacityAssumption DEF Buffers
<1>3. b \in Terminated
  <2>1. n \in 1..Capacity
    BY CapacityAssumption
  <2> QED BY <1>2, <2>1 DEF Terminated
<1>4. ASSUME n = Len(t) PROVE Text(b) = SubSeq(t, 1, n - 1)
  <2> DEFINE u == SubSeq(t, 1, n - 1)
  <2>1. 1 \in 1..Len(t) + 1 /\ n - 1 \in 1 - 1..Len(t) /\ (n - 1) - 1 + 1 = n - 1
    BY <1>1, <1>4
  <2>2. u \in Seq(Chars) /\ Len(u) = n - 1 /\ \A i \in 1..n - 1 : u[i] = t[1 + i - 1]
    BY <1>1, <2>1, PartIs
  <2>3. \A i \in 1..n - 1 : u[i] = t[i] /\ t[i] = p.m_path[i]
    BY <1>1, <1>4, <2>2
  <2> HIDE DEF u
  <2>4. Len(u) < Capacity /\ b[Len(u) + 1] = NUL /\ \A i \in 1..Len(u) : b[i] = u[i]
    BY <1>2, <2>2, <2>3, CapacityAssumption
  <2>5. Text(b) = u
    BY <1>2, <2>2, <2>4, TextOnly
  <2> QED BY <2>5 DEF u
<1> QED BY <1>3, <1>4

LEMMA RemoveTrailingKeeps ==
  ASSUME NEW p \in Paths
  PROVE  /\ Keeps(p, path_remove_trailing_separator(p))
         /\ Coherent(p) =>
              Text(path_remove_trailing_separator(p).m_path) = WithoutTrailing(Text(p.m_path))
<1> DEFINE t == Text(p.m_path)
           q == Sized(p)
           n == q.m_size
<1>1. /\ t \in Seq(Chars) /\ Len(t) \in 0..Capacity - 1 /\ p.m_path \in Buffers
      /\ \A i \in 1..Len(t) : t[i] = p.m_path[i]
  BY TextIs DEF Paths, Terminated
<1>2. q \in Paths /\ (Coherent(p) => Coherent(q)) /\ q.m_path = p.m_path
      /\ n \in 0..Capacity - 1 /\ (Coherent(p) => n = Len(t))
  BY SizedIs DEF Keeps
<1>3. CASE n > 0 /\ is_path_separator(p.m_path[n])
  <2>1. path_remove_trailing_separator(p)
          = [m_path |-> [p.m_path EXCEPT ![n] = NUL], m_size |-> dirty_flag]
    BY <1>3 DEF path_remove_trailing_separator, Back
  <2>2. n \in 1..Capacity - 1
    BY <1>2, <1>3
  <2> HIDE DEF n
  <2> DEFINE b == [p.m_path EXCEPT ![n] = NUL]
  <2>3. /\ path_remove_trailing_separator(p) \in Paths
        /\ n = Len(t) => Text(path_remove_trailing_separator(p).m_path) = SubSeq(t, 1, n - 1)
    <3>1. b \in Terminated /\ (n = Len(t) => Text(b) = SubSeq(t, 1, n - 1))
      BY <2>2, CutKeeps
    <3>2. path_remove_trailing_separator(p) = [m_path |-> b, m_size |-> dirty_flag]
      BY <2>1
    <3> HIDE DEF b
    <3> QED BY <3>1, <3>2 DEF Paths
  <2>4. ASSUME Coherent(p) PROVE WithoutTrailing(t) = SubSeq(t, 1, n - 1) /\ n = Len(t)
    <3>1. n = Len(t) /\ n > 0 /\ is_path_separator(t[n]) /\ t # <<>>
      BY <1>1, <1>2, <1>3, <2>4
    <3> QED BY <3>1 DEF WithoutTrailing
  <2>5. Coherent(path_remove_trailing_separator(p))
    BY <2>1 DEF Coherent
  <2> QED BY <2>3, <2>4, <2>5 DEF Keeps
<1>4. CASE ~(n > 0 /\ is_path_separator(p.m_path[n]))
  <2>1. path_remove_trailing_separator(p) = q
    BY <1>4 DEF path_remove_trailing_separator, Back
  <2>2. ASSUME Coherent(p) PROVE WithoutTrailing(t) = t
    <3>1. CASE n = 0
      <4>1. t = <<>>
        BY <1>1, <1>2, <2>2, <3>1
      <4> QED BY <4>1, EmptyText
    <3>2. CASE n # 0
      <4>1. n = Len(t) /\ n \in 1..Len(t) /\ ~is_path_separator(t[Len(t)])
        BY <1>1, <1>2, <1>4, <2>2, <3>2
      <4> QED BY <4>1 DEF WithoutTrailing
    <3> QED BY <3>1, <3>2
  <2> QED BY <1>2, <2>1, <2>2 DEF Keeps
<1> QED BY <1>3, <1>4

LEMMA AddTrailingKeeps ==
  ASSUME NEW p \in Paths, NEW before, NEW q, q = path_add_trailing_separator(p, before)
  PROVE  /\ Keeps(p, q)
         /\ Coherent(p) => Text(q.m_path) \in {Text(p.m_path), Text(p.m_path) \o <<Backslash>>}
<1> DEFINE t == Text(p.m_path)
           s == Sized(p)
           n == s.m_size
           b == [p.m_path EXCEPT ![n + 1] = Backslash, ![n + 2] = NUL]
<1>1. /\ t \in Seq(Chars) /\ Len(t) \in 0..Capacity - 1 /\ p.m_path \in Buffers
      /\ \A i \in 1..Len(t) : t[i] = p.m_path[i]
  BY TextIs DEF Paths, Terminated
<1>2. s \in Paths /\ (Coherent(p) => Coherent(s)) /\ s.m_path = p.m_path
      /\ n \in 0..Capacity - 1 /\ (Coherent(p) => n = Len(t))
  BY SizedIs DEF Keeps
<1>3. q = s \/ (Capacity - n - 1 >= 1 /\ q = [m_path |-> b, m_size |-> n + 1])
  <2>1. Capacity - n - 1 \in Int
    BY <1>2, CapacityAssumption
  <2> QED BY <2>1 DEF path_add_trailing_separator
<1>4. CASE q = s
  BY <1>2, <1>4 DEF Keeps
<1>5. CASE Capacity - n - 1 >= 1 /\ q = [m_path |-> b, m_size |-> n + 1]
  <2> HIDE DEF n
  <2>1. n \in Nat /\ n + 2 <= Capacity /\ Capacity \in Nat
    BY <1>2, <1>5, CapacityAssumption
  <2>2. /\ b \in Buffers /\ b[n + 1] = Backslash /\ b[n + 2] = NUL
        /\ \A i \in 1..n : b[i] = p.m_path[i]
    <3>1. n + 1 \in 1..Capacity /\ n + 2 \in 1..Capacity /\ n + 1 # n + 2
      BY <2>1
    <3>2. p.m_path \in [1..Capacity -> Chars \union {NUL}] /\ Backslash \in Chars
      BY <1>1 DEF Buffers, Chars
    <3>3. b \in Buffers
      BY <3>2 DEF Buffers
    <3>4. b[n + 1] = Backslash /\ b[n + 2] = NUL
      BY <3>1, <3>2
    <3>5. ASSUME NEW i \in 1..n PROVE b[i] = p.m_path[i]
      <4>1. i \in 1..Capacity /\ i # n + 1 /\ i # n + 2
        BY <2>1
      <4> QED BY <3>2, <4>1
    <3> QED BY <3>3, <3>4, <3>5
  <2>3. b \in Terminated
    BY <2>1, <2>2 DEF Terminated
  <2>4. q \in Paths /\ q.m_path = b /\ q.m_size = n + 1
    BY <1>5, <2>1, <2>3 DEF Paths
  <2>5. ASSUME Coherent(p) PROVE Text(b) = t \o <<Backslash>> /\ Len(t \o <<Backslash>>) = n + 1
    <3> DEFINE u == t \o <<Backslash>>
    <3>1. <<Backslash>> \in Seq(Chars) /\ Len(<<Backslash>>) = 1 /\ <<Backslash>>[1] = Backslash
      BY DEF Chars
    <3>2. /\ u \in Seq(Chars) /\ Len(u) = n + 1 /\ u[n + 1] = Backslash
          /\ \A i \in 1..n : u[i] = t[i]
      <4>1. Len(t) = n /\ t \in Seq(Chars)
        BY <1>1, <1>2, <2>5
      <4>2. /\ u \in Seq(Chars) /\ Len(u) = Len(t) + 1
            /\ \A i \in 1..Len(t) + 1 : u[i] = IF i <= Len(t) THEN t[i]
                                             ELSE <<Backslash>>[i - Len(t)]
        BY <3>1, <4>1, ConcatProperties
      <4> HIDE DEF u, t
      <4> QED BY <2>1, <3>1, <4>1, <4>2
    <3> HIDE DEF u, b
    <3>3. Len(u) < Capacity /\ (n + 1) + 1 = n + 2
      BY <2>1, <3>2
    <3>4. \A i \in 1..n + 1 : b[i] = u[i]
      BY <1>1, <1>2, <2>1, <2>2, <2>5, <3>2
    <3>5. Text(b) = u
      BY <2>2, <3>2, <3>3, <3>4, TextOnly
    <3> QED BY <3>2, <3>5 DEF u
  <2> QED BY <2>4, <2>5 DEF Keeps, Coherent
<1>6. Keeps(p, q) /\ (Coherent(p) => Text(q.m_path) \in {t, t \o <<Backslash>>})
  BY <1>3, <1>4, <1>5
<1> QED BY <1>6

\* A character in front of the first terminator replaced by another leaves the size alone.
LEMMA BackNormalizedKeeps ==
  ASSUME NEW p \in Paths
  PROVE  Keeps(p, BackNormalized(p))
<1> DEFINE t == Text(p.m_path)
           s == Sized(p)
           n == s.m_size
           b == [p.m_path EXCEPT ![n] = Backslash]
<1>1. /\ t \in Seq(Chars) /\ Len(t) \in 0..Capacity - 1 /\ p.m_path[Len(t) + 1] = NUL
      /\ \A i \in 1..Len(t) : t[i] = p.m_path[i]
  BY TextIs DEF Paths
<1>2. s \in Paths /\ (Coherent(p) => Coherent(s)) /\ s.m_path = p.m_path
      /\ n \in 0..Capacity - 1 /\ (Coherent(p) => n = Len(t))
  BY SizedIs DEF Keeps
<1>3. p.m_path \in [1..Capacity -> Chars \union {NUL}] /\ Backslash \in Chars
  BY DEF Paths, Terminated, Buffers, Chars
<1>4. CASE n > 0 /\ p.m_path[n] = Slash
  <2>1. BackNormalized(p) = [s EXCEPT !.m_path = b]
    BY <1>2, <1>4 DEF BackNormalized, Back
  <2>2. b \in Buffers
    BY <1>3 DEF Buffers
  <2>3. n \in 1..Capacity /\ b[n] = Backslash
    BY <1>2, <1>3, <1>4, CapacityAssumption
  <2>4. b \in Terminated
    <3>1. PICK i \in 1..Capacity : p.m_path[i] = NUL
      BY DEF Paths, Terminated
    <3>2. i # n
      BY <1>4, <3>1 DEF NUL, Slash
    <3>3. b[i] = NUL
      BY <1>3, <3>1, <3>2
    <3> HIDE DEF b
    <3> QED BY <2>2, <3>1, <3>3 DEF Terminated
  <2>5. ASSUME Coherent(p) PROVE Len(Text(b)) = n
    <3> DEFINE u == [i \in 1..n |-> b[i]]
    <3>1. n = Len(t) /\ n \in Nat /\ n < Capacity /\ Capacity \in Nat
      BY <1>1, <1>2, <2>5, CapacityAssumption
    <3>2. \A i \in 1..n : b[i] \in Chars
      BY <1>1, <1>3, <3>1
    <3>3. u \in Seq(Chars) /\ Len(u) = n /\ \A i \in 1..n : b[i] = u[i]
      <4> HIDE DEF b
      <4> QED BY <3>1, <3>2
    <3>4. n + 1 \in 1..Capacity /\ n + 1 # n
      BY <3>1
    <3>5. b[n + 1] = NUL
      BY <1>1, <1>3, <3>1, <3>4
    <3> HIDE DEF u, b
    <3> QED BY <2>2, <3>1, <3>3, <3>5, TextOnly
  <2> HIDE DEF b
  <2> QED BY <1>2, <2>1, <2>4, <2>5 DEF Keeps, Paths, Coherent
<1>5. CASE ~(n > 0 /\ p.m_path[n] = Slash)
  <2>1. BackNormalized(p) = s
    BY <1>5 DEF BackNormalized, Back
  <2> QED BY <1>2, <2>1 DEF Keeps
<1> QED BY <1>4, <1>5

LEMMA KeepsOn ==
  ASSUME NEW p, NEW q, NEW r, Keeps(p, q), Keeps(q, r)
  PROVE  Keeps(p, r)
BY DEF Keeps

\* What path_clean makes of a path before it asks Windows.
LEMMA TidiedKeeps ==
  ASSUME NEW p \in Paths
  PROVE  /\ Keeps(p, Tidied(p))
         /\ Coherent(p) => Text(Tidied(p).m_path) = Tidy(Text(p.m_path))
<1> DEFINE q == path_normalize(p)
           r == path_remove_dup_separators(q)
           s == path_remove_trailing_separator(r)
<1>1. Keeps(p, q) /\ (Coherent(p) => Text(q.m_path) = Normalized(Text(p.m_path)))
  BY NormalizeKeeps
<1>2. q \in Paths
  BY <1>1 DEF Keeps
<1> HIDE DEF q
<1>3. Keeps(q, r) /\ (Coherent(q) => Text(r.m_path) = WithoutDuplicates(Text(q.m_path)))
  BY <1>2, RemoveDupKeeps
<1>4. r \in Paths
  BY <1>3 DEF Keeps
<1> HIDE DEF r
<1>5. Keeps(r, s) /\ (Coherent(r) => Text(s.m_path) = WithoutTrailing(Text(r.m_path)))
  BY <1>4, RemoveTrailingKeeps
<1> HIDE DEF s
<1>6. Keeps(p, s)
  BY <1>1, <1>3, <1>5, KeepsOn
<1>7. Coherent(p) => Text(s.m_path) = Tidy(Text(p.m_path))
  BY <1>1, <1>3, <1>5 DEF Keeps, Tidy
<1> QED BY <1>6, <1>7 DEF s, r, q, Tidied

\* How far two texts agree.
LEMMA CommonPrefixLengthIs ==
  ASSUME NEW t \in Seq(Chars), NEW u \in Seq(Chars)
  PROVE  LET n == CommonPrefixLength(t, u)
         IN  /\ n \in 0..Len(t) /\ n <= Len(u)
             /\ \A i \in 1..n : t[i] = u[i]
             /\ n < Len(t) /\ n < Len(u) => t[n + 1] # u[n + 1]
<1> DEFINE m == IF Len(t) <= Len(u) THEN Len(t) ELSE Len(u)
           Skipped == {k \in 1..m : t[k] = u[k]}
<1>1. m \in Nat /\ Len(t) \in Nat /\ Len(u) \in Nat /\ 1 \in 1..m + 1
  OBVIOUS
<1>2. PICK j \in 1..m + 1 :
        (\A k \in 1..j - 1 : k \in Skipped) /\ (j <= m => j \notin Skipped)
  <2> HIDE DEF m, Skipped
  <2> QED BY <1>1, LoopStops
<1>3. /\ j - 1 \in 0..Len(t) /\ j - 1 <= Len(u)
      /\ \A i \in 1..j - 1 : t[i] = u[i]
      /\ j - 1 < Len(t) /\ j - 1 < Len(u) => t[(j - 1) + 1] # u[(j - 1) + 1]
  BY <1>1, <1>2
<1> QED BY <1>3 DEF CommonPrefixLength

LEMMA CommonPrefixIsText ==
  ASSUME NEW t \in Seq(Chars), NEW u \in Seq(Chars)
  PROVE  CommonPrefix(t, u) \in Seq(Chars)
<1> DEFINE n == CommonPrefixLength(t, u)
<1>1. n \in 0..Len(t) /\ Len(t) \in Nat
  BY CommonPrefixLengthIs
<1>2. 1 \in 1..Len(t) + 1 /\ n \in 1 - 1..Len(t)
  BY <1>1
<1> HIDE DEF n
<1>3. SubSeq(t, 1, n) \in Seq(Chars)
  BY <1>2, PartIs
<1> QED BY <1>3 DEF CommonPrefix, n

-----------------------------------------------------------------------------
(***************************************************************************)
(* The invariant                                                           *)
(***************************************************************************)

IInv == TypeOK /\ WritesFit /\ SizeCoherent

LEMMA IInvIs ==
  IInv <=> /\ path \in Paths
           /\ untold \in {"none", "get_current_directory", "path_compact", "narrow"}
           /\ untold = "none" => Coherent(path)
           /\ overrun \in {"none", "constructor", "path_common_prefix"}
BY DEF IInv, TypeOK, WritesFit, SizeCoherent, Contents, Coherent, Paths, Terminated

LEMMA IInvIsNext ==
  IInv' <=> /\ path' \in Paths
            /\ untold' \in {"none", "get_current_directory", "path_compact", "narrow"}
            /\ untold' = "none" => Coherent(path')
            /\ overrun' \in {"none", "constructor", "path_common_prefix"}
BY DEF IInv, TypeOK, WritesFit, SizeCoherent, Contents, Coherent, Paths, Terminated

\* A call that keeps the path, with the size the text's or marked dirty.
LEMMA BecomesKeeps ==
  ASSUME IInv, NEW p, p \in Paths, Coherent(path) => Coherent(p), Becomes(p)
  PROVE  IInv'
<1>1. Coherent(p) \/ p.m_size # dirty_flag
  BY DEF Coherent
<1> QED BY <1>1, IInvIs, IInvIsNext DEF Becomes, Within

\* The texts that fit are those of a length for which the buffer has a terminator too.
LEMMA TextsAre == \A t : t \in Texts <=> t \in Seq(Chars) /\ Len(t) < Capacity
<1>1. ASSUME NEW t \in Texts PROVE t \in Seq(Chars) /\ Len(t) < Capacity
  BY CapacityAssumption DEF Texts
<1>2. ASSUME NEW t \in Seq(Chars), Len(t) < Capacity PROVE t \in Texts
  <2>1. Len(t) \in 0..Capacity - 1 /\ t \in [1..Len(t) -> Chars]
    BY <1>2, CapacityAssumption
  <2> QED BY <2>1 DEF Texts
<1> QED BY <1>1, <1>2

\* What Windows makes of a text that fits is a text, and the same one if there is nothing in
\* it to simplify.
LEMMA CanonicalizedIs ==
  ASSUME NEW t \in Seq(Chars), Len(t) < Capacity
  PROVE  /\ Canonicalized(t) \in Seq(Chars)
         /\ t = <<>> => Canonicalized(t) = <<>>
         /\ IsCanonical(t) => Canonicalized(t) = t
<1>1. t \in Texts
  BY TextsAre
<1> QED BY <1>1, CanonicalAssumption DEF Canonicalized

\* A new Path.
LEMMA ConstructedIs ==
  ASSUME NEW t \in Seq(Chars), Len(t) < Capacity, NEW rest \in Chars \union {NUL}
  PROVE  /\ Constructed(t, rest) \in Paths
         /\ Coherent(Constructed(t, rest))
         /\ [Constructed(t, rest) EXCEPT !.m_size = dirty_flag] \in Paths
         /\ Coherent([Constructed(t, rest) EXCEPT !.m_size = dirty_flag])
<1> DEFINE b == [i \in 1..Capacity |-> rest]
           w == Written(b, t)
<1>1. b \in Buffers
  BY DEF Buffers
<1> HIDE DEF b
<1>2. w \in Terminated /\ Text(w) = t
  BY <1>1, WrittenIs
<1>3. Len(t) \in 0..Capacity - 1
  BY CapacityAssumption
<1>4. Constructed(t, rest) = [m_path |-> w, m_size |-> Len(t)]
  BY DEF Constructed, b
<1> HIDE DEF w
<1> QED BY <1>2, <1>3, <1>4 DEF Paths, Coherent

LEMMA InitIInv == Init => IInv
<1> SUFFICES ASSUME Init PROVE IInv
  OBVIOUS
<1>1. PICK t \in Texts \union Results, rest \in Chars \union {NUL} :
        IF Len(t) < Capacity
        THEN path = Constructed(t, rest) /\ overrun = "none"
        ELSE path = Constructed(<<>>, rest) /\ overrun = "constructor"
  BY DEF Init
<1>2. t \in Seq(Chars) /\ <<>> \in Seq(Chars) /\ Len(<<>>) < Capacity
  BY TextsAre, ResultsAssumption, CapacityAssumption
<1>3. path \in Paths /\ Coherent(path) /\ overrun \in {"none", "constructor"}
  BY <1>1, <1>2, ConstructedIs
<1> QED BY <1>3, IInvIs DEF Init

\* A size that is not changed is still one of a Path.
LEMMA ResultKeeps ==
  ASSUME NEW p \in Paths, NEW t \in Seq(Chars), Len(t) < Capacity
  PROVE  [p EXCEPT !.m_path = Written(p.m_path, t)] \in Paths
<1>1. p.m_path \in Buffers
  BY DEF Paths, Terminated
<1>2. Written(p.m_path, t) \in Terminated
  BY <1>1, WrittenIs
<1> QED BY <1>2 DEF Paths

LEMMA CleanKeeps == ASSUME IInv, Clean PROVE IInv'
<1> DEFINE tidied == Tidied(path)
           t == Text(tidied.m_path)
           clean == Canonicalized(t)
<1>1. path \in Paths
  BY IInvIs
<1>2. tidied \in Paths /\ (Coherent(path) => Coherent(tidied))
  BY <1>1, TidiedKeeps DEF Keeps
<1>3. \/ Becomes(tidied)
      \/ /\ Len(clean) < Capacity
         /\ \E rest \in {NUL, Backslash} :
              path' = IF t = <<>> THEN Constructed(clean, rest)
                      ELSE [Constructed(clean, rest) EXCEPT !.m_size = dirty_flag]
         /\ untold' = "none"
         /\ Within
  BY Zenon DEF Clean
<1> HIDE DEF tidied
<1>4. t \in Seq(Chars) /\ Len(t) < Capacity
  BY <1>2, TextIs, CapacityAssumption DEF Paths
<1> HIDE DEF t
<1>5. clean \in Seq(Chars)
  BY <1>4, CanonicalizedIs
<1> HIDE DEF clean
<1>6. CASE Becomes(tidied)
  BY <1>2, <1>6, BecomesKeeps
<1>7. ASSUME Len(clean) < Capacity, untold' = "none", Within, NEW rest \in {NUL, Backslash},
             path' = IF t = <<>> THEN Constructed(clean, rest)
                     ELSE [Constructed(clean, rest) EXCEPT !.m_size = dirty_flag]
      PROVE  IInv'
  <2>1. rest \in Chars \union {NUL}
    BY DEF Chars
  <2>2. path' \in Paths /\ Coherent(path')
    BY <1>5, <1>7, <2>1, ConstructedIs
  <2>3. overrun' = "none"
    BY <1>7 DEF Within
  <2> QED BY <1>7, <2>2, <2>3, IInvIsNext
<1> QED BY <1>3, <1>6, <1>7

\* What overruns leaves the path as it was.
LEMMA OverrunsKeeps ==
  ASSUME IInv, NEW f \in {"constructor", "path_common_prefix"}, Overruns(f)
  PROVE  IInv'
<1>1. path' = path /\ untold' = untold /\ overrun' = f
  BY DEF Overruns
<1> QED BY <1>1, IInvIs, IInvIsNext

LEMMA CommonPrefixKeeps == ASSUME IInv, CommonPrefixInto PROVE IInv'
<1>1. PICK t \in Results, u \in Results :
        IF Len(CommonPrefix(t, u)) < Capacity
        THEN Becomes([m_path |-> Written(path.m_path, CommonPrefix(t, u)), m_size |-> dirty_flag])
        ELSE Overruns("path_common_prefix")
  BY DEF CommonPrefixInto
<1> DEFINE c == CommonPrefix(t, u)
           q == [m_path |-> Written(path.m_path, c), m_size |-> dirty_flag]
<1>2. path \in Paths /\ c \in Seq(Chars)
  BY IInvIs, CommonPrefixIsText, ResultsAssumption
<1>3. CASE Len(c) < Capacity
  <2>1. Becomes(q)
    BY <1>1, <1>3
  <2> HIDE DEF c
  <2>2. q \in Paths /\ Coherent(q)
    BY <1>2, <1>3, WrittenKeeps
  <2> HIDE DEF q
  <2> QED BY <2>1, <2>2, BecomesKeeps
<1>4. CASE ~(Len(c) < Capacity)
  BY <1>1, <1>4, OverrunsKeeps
<1> QED BY <1>3, <1>4

LEMMA ComputeKeeps == ASSUME IInv, Compute PROVE IInv'
<1>1. PICK p \in {path, BackNormalized(path)}, t \in Results :
        \/ /\ Len(t) < Capacity
           /\ Becomes([m_path |-> Written(p.m_path, t), m_size |-> dirty_flag])
        \/ Becomes(p)
        \/ /\ Len(t) >= Capacity
           /\ path' = [p EXCEPT !.m_path = Written(p.m_path, SubSeq(t, 1, Capacity - 1))]
           /\ untold' = "narrow"
           /\ Within
  BY DEF Compute
<1>2. t \in Seq(Chars)
  BY ResultsAssumption
<1>3. p \in Paths /\ (Coherent(path) => Coherent(p))
  BY IInvIs, BackNormalizedKeeps DEF Keeps
<1>4. CASE Len(t) < Capacity
           /\ Becomes([m_path |-> Written(p.m_path, t), m_size |-> dirty_flag])
  <2> DEFINE q == [m_path |-> Written(p.m_path, t), m_size |-> dirty_flag]
  <2>1. q \in Paths /\ Coherent(q) /\ Becomes(q)
    BY <1>2, <1>3, <1>4, WrittenKeeps
  <2> HIDE DEF q
  <2> QED BY <2>1, BecomesKeeps
<1>5. CASE Becomes(p)
  BY <1>3, <1>5, BecomesKeeps
<1>6. CASE /\ Len(t) >= Capacity
           /\ path' = [p EXCEPT !.m_path = Written(p.m_path, SubSeq(t, 1, Capacity - 1))]
           /\ untold' = "narrow"
           /\ Within
  <2> DEFINE n == Capacity - 1
             u == SubSeq(t, 1, n)
  <2>1. 1 \in 1..Len(t) + 1 /\ n \in 1 - 1..Len(t) /\ n - 1 + 1 = n /\ n < Capacity
    BY <1>2, <1>6, CapacityAssumption
  <2>2. path' = [p EXCEPT !.m_path = Written(p.m_path, u)]
    BY <1>6
  <2> HIDE DEF n
  <2>3. u \in Seq(Chars) /\ Len(u) < Capacity
    BY <1>2, <2>1, PartIs
  <2> HIDE DEF u
  <2>4. path' \in Paths
    BY <1>3, <2>2, <2>3, ResultKeeps
  <2> QED BY <1>6, <2>4, IInvIsNext DEF Within
<1> QED BY <1>1, <1>4, <1>5, <1>6

LEMMA WriteUntoldKeeps == ASSUME IInv, WriteUntold PROVE IInv'
<1>1. PICK t \in Results :
        /\ Len(t) < Capacity
        /\ path' = [path EXCEPT !.m_path = Written(path.m_path, t)]
        /\ untold' \in {"get_current_directory", "path_compact"}
        /\ Within
  BY DEF WriteUntold
<1>2. path' \in Paths
  BY <1>1, IInvIs, ResultKeeps, ResultsAssumption
<1> QED BY <1>1, <1>2, IInvIsNext DEF Within

\* path_add_trailing_separator never gives a path a size that the buffer has no room for.
LEMMA AddTrailingBecomes ==
  ASSUME IInv, AddTrailingSeparator
  PROVE  \E before : Becomes(path_add_trailing_separator(path, before))
<1>1. PICK before :
        LET p == path_add_trailing_separator(path, before)
        IN IF p.m_size < Capacity
           THEN Becomes(p)
           ELSE Overruns("path_add_trailing_separator")
  BY DEF AddTrailingSeparator
<1> DEFINE p == path_add_trailing_separator(path, before)
<1>2. p \in Paths
  BY IInvIs, AddTrailingKeeps DEF Keeps
<1>3. IF p.m_size < Capacity THEN Becomes(p) ELSE Overruns("path_add_trailing_separator")
  BY <1>1
<1> HIDE DEF p
<1>4. p.m_size < Capacity
  BY <1>2, CapacityAssumption DEF Paths, dirty_flag
<1> QED BY <1>3, <1>4 DEF p

\* IInv is inductive.
LEMMA IInvStep == IInv /\ [Next]_vars => IInv'
<1> SUFFICES ASSUME IInv, [Next]_vars PROVE IInv'
  OBVIOUS
<1>0. path \in Paths
  BY IInvIs
<1>1. ASSUME NEW p, Keeps(path, p), Becomes(p) PROVE IInv'
  BY <1>1, BecomesKeeps DEF Keeps
<1>2. CASE Normalize
  BY <1>0, <1>1, <1>2, NormalizeKeeps DEF Normalize
<1>3. CASE RemoveDupSeparators
  BY <1>0, <1>1, <1>3, RemoveDupKeeps DEF RemoveDupSeparators
<1>4. CASE RemoveTrailingSeparator
  BY <1>0, <1>1, <1>4, RemoveTrailingKeeps DEF RemoveTrailingSeparator
<1>5. CASE AddTrailingSeparator
  <2> QED BY <1>0, <1>1, <1>5, AddTrailingBecomes, AddTrailingKeeps
<1>6. CASE UNCHANGED vars
  <2>1. path' = path /\ untold' = untold /\ overrun' = overrun
    BY <1>6 DEF vars
  <2> QED BY <2>1, IInvIs, IInvIsNext
<1> QED BY <1>2, <1>3, <1>4, <1>5, <1>6, CleanKeeps, CommonPrefixKeeps, ComputeKeeps,
           WriteUntoldKeeps DEF Next

\* Every variable keeps its type.
THEOREM PathTypeCorrect == Spec => []TypeOK
<1>1. IInv => TypeOK
  BY DEF IInv
<1> QED BY InitIInv, IInvStep, <1>1, PTL DEF Spec

\* Whatever texts callers and Windows come with, and whatever the cached size has been left at,
\* nothing but the constructor and path_common_prefix writes behind the buffer, and a terminator
\* stays in it.
THEOREM WritesStayInside == Spec => []WritesFit
<1>1. IInv => WritesFit
  BY DEF IInv
<1> QED BY InitIInv, IInvStep, <1>1, PTL DEF Spec

\* The cached size is marked dirty or is the text's, unless one of the three functions that
\* leave it was the last to change the text.
THEOREM SizeStaysCoherent == Spec => []SizeCoherent
<1>1. IInv => SizeCoherent
  BY DEF IInv
<1> QED BY InitIInv, IInvStep, <1>1, PTL DEF Spec

-----------------------------------------------------------------------------
(***************************************************************************)
(* The components of a path                                                *)
(***************************************************************************)

\* Where a component found at a place ends, and where the next may start, lies behind it.
LEMMA NextPlace ==
  ASSUME NEW t \in Seq(Chars), NEW i \in 1..Len(t) + 1, SkipSeparators(t, i) <= Len(t)
  PROVE  LET a == SkipSeparators(t, i)
             e == SkipSegment(t, a)
         IN  /\ a \in i..Len(t) /\ ~is_path_separator(t[a])
             /\ e \in a + 1..Len(t) + 1
             /\ SkipSeparators(t, e) \in e..Len(t) + 1
             /\ GetComponent(t, i) = a
             /\ FindNextComponent(t, a) = SkipSeparators(t, e)
<1> DEFINE a == SkipSeparators(t, i)
           e == SkipSegment(t, a)
<1>1. Len(t) \in Nat
  OBVIOUS
<1>2. a \in i..Len(t) /\ ~is_path_separator(t[a])
  BY <1>1, SkipSeparatorsIs
<1>3. GetComponent(t, i) = a
  BY <1>1, <1>2 DEF GetComponent, NoPointer
<1> HIDE DEF a
<1>4. a \in 1..Len(t) + 1
  BY <1>1, <1>2
<1>5. e \in a..Len(t) + 1 /\ (e <= Len(t) => is_path_separator(t[e]))
  BY <1>4, SkipSegmentIs
<1>6. e # a
  BY <1>1, <1>2, <1>5
<1> HIDE DEF e
<1>7. e \in a + 1..Len(t) + 1 /\ e \in 1..Len(t) + 1
  BY <1>1, <1>2, <1>5, <1>6
<1>8. SkipSeparators(t, e) \in e..Len(t) + 1
  BY <1>7, SkipSeparatorsIs
<1>9. FindNextComponent(t, a) = SkipSeparators(t, e)
  BY <1>1, <1>2 DEF FindNextComponent, e
<1> QED BY <1>2, <1>3, <1>7, <1>8, <1>9 DEF a, e

\* The walk over the components is defined at every place.
LEMMA ComponentsFromIs ==
  ASSUME NEW t \in Seq(Chars), NEW i \in 1..Len(t) + 1
  PROVE  LET a == SkipSeparators(t, i)
             e == SkipSegment(t, a)
         IN  ComponentsFrom(t)[i]
               = IF a > Len(t) THEN <<>>
                 ELSE <<SubSeq(t, a, e - 1)>> \o ComponentsFrom(t)[SkipSeparators(t, e)]
<1> DEFINE next == [r \in 1..Len(t) + 1 |-> FindNextComponent(t, GetComponent(t, r))]
           item == [r \in 1..Len(t) + 1 |-> ComponentName(t, GetComponent(t, r))]
           Stop == {r \in 1..Len(t) + 1 : GetComponent(t, r) = NoPointer}
           F(f) == [r \in 1..Len(t) + 1 |->
                     IF GetComponent(t, r) = NoPointer
                     THEN <<>>
                     ELSE <<ComponentName(t, GetComponent(t, r))>>
                            \o f[FindNextComponent(t, GetComponent(t, r))]]
<1>1. Len(t) \in Nat /\ Len(t) + 1 \in Nat
  OBVIOUS
<1>2. ASSUME NEW r \in 1..Len(t) + 1
      PROVE  r \notin Stop => SkipSeparators(t, r) <= Len(t)
  <2>1. SkipSeparators(t, r) \in r..Len(t) + 1
    BY SkipSeparatorsIs
  <2> QED BY <1>1, <2>1 DEF GetComponent
<1>3. ASSUME NEW r \in 1..Len(t) + 1, r \notin Stop
      PROVE  next[r] \in r + 1..Len(t) + 1
  <2> DEFINE a == SkipSeparators(t, r)
             e == SkipSegment(t, a)
  <2>1. /\ a \in r..Len(t) /\ e \in a + 1..Len(t) + 1 /\ SkipSeparators(t, e) \in e..Len(t) + 1
        /\ GetComponent(t, r) = a /\ FindNextComponent(t, a) = SkipSeparators(t, e)
    BY <1>2, <1>3, NextPlace
  <2>2. next[r] = SkipSeparators(t, e)
    BY <2>1
  <2> HIDE DEF a, e, next
  <2> QED BY <1>1, <2>1, <2>2
<1>4. PICK f : IsWalk(f, Len(t) + 1, Stop, item, next)
  <2> HIDE DEF next, Stop, item
  <2> QED BY <1>1, <1>3, WalkDefined
<1>5. f = [r \in 1..Len(t) + 1 |-> IF r \in Stop THEN <<>> ELSE <<item[r]>> \o f[next[r]]]
  <2> HIDE DEF next, Stop, item
  <2> QED BY <1>4 DEF IsWalk
<1>6. ASSUME NEW r \in 1..Len(t) + 1
      PROVE  /\ r \in Stop <=> GetComponent(t, r) = NoPointer
             /\ next[r] = FindNextComponent(t, GetComponent(t, r))
             /\ item[r] = ComponentName(t, GetComponent(t, r))
  OBVIOUS
<1>7. f = F(f)
  <2> HIDE DEF next, Stop, item
  <2> QED BY <1>5, <1>6
<1>8. ComponentsFrom(t) = CHOOSE g : g = F(g)
  BY Zenon DEF ComponentsFrom
<1>9. ComponentsFrom(t) = F(ComponentsFrom(t))
  <2> HIDE DEF F
  <2> QED BY <1>7, <1>8, Zenon
<1> DEFINE g == ComponentsFrom(t)
           a == SkipSeparators(t, i)
           e == SkipSegment(t, a)
<1>10. g = [r \in 1..Len(t) + 1 |->
              IF GetComponent(t, r) = NoPointer
              THEN <<>>
              ELSE <<ComponentName(t, GetComponent(t, r))>>
                     \o g[FindNextComponent(t, GetComponent(t, r))]]
  BY <1>9, Zenon
<1> HIDE DEF g
<1>11. g[i] = IF GetComponent(t, i) = NoPointer
              THEN <<>>
              ELSE <<ComponentName(t, GetComponent(t, i))>>
                     \o g[FindNextComponent(t, GetComponent(t, i))]
  BY <1>10, Zenon
<1>12. CASE a > Len(t)
  <2>1. GetComponent(t, i) = NoPointer
    BY <1>12 DEF GetComponent
  <2> QED BY <1>11, <1>12, <2>1 DEF g
<1>13. CASE ~(a > Len(t))
  <2>1. a <= Len(t)
    BY <1>1, <1>13, SkipSeparatorsIs
  <2>2. a \in i..Len(t) /\ GetComponent(t, i) = a /\ FindNextComponent(t, a) = SkipSeparators(t, e)
    BY <2>1, NextPlace
  <2>3. a # NoPointer
    BY <1>1, <2>2 DEF NoPointer
  <2>4. ComponentName(t, a) = SubSeq(t, a, e - 1)
    BY DEF ComponentName
  <2> QED BY <1>11, <1>13, <2>2, <2>3, <2>4 DEF g
<1> QED BY <1>12, <1>13

\* The components from a place are the same as from the next character that is no separator.
LEMMA ComponentsFromSkip ==
  ASSUME NEW t \in Seq(Chars), NEW i \in 1..Len(t) + 1
  PROVE  ComponentsFrom(t)[i] = ComponentsFrom(t)[SkipSeparators(t, i)]
<1> DEFINE a == SkipSeparators(t, i)
<1>1. Len(t) \in Nat /\ a \in i..Len(t) + 1 /\ (a <= Len(t) => ~is_path_separator(t[a]))
  BY SkipSeparatorsIs
<1>2. a \in 1..Len(t) + 1
  BY <1>1
<1> DEFINE b == a
<1> HIDE DEF b
<1>3. b = a
  BY DEF b
<1>4. SkipSeparators(t, b) = b
  <2>1. b \in b..Len(t) + 1 /\ b \in 1..Len(t) + 1 /\ \A k \in b..b - 1 : is_path_separator(t[k])
    BY <1>1, <1>2, <1>3
  <2> QED BY <1>1, <1>3, <2>1, SkipSeparatorsOnly
<1>5. ComponentsFrom(t)[b] = IF b > Len(t) THEN <<>>
                             ELSE <<SubSeq(t, b, SkipSegment(t, b) - 1)>>
                                    \o ComponentsFrom(t)[SkipSeparators(t, SkipSegment(t, b))]
  BY <1>2, <1>3, <1>4, ComponentsFromIs
<1>6. ComponentsFrom(t)[i] = IF a > Len(t) THEN <<>>
                             ELSE <<SubSeq(t, a, SkipSegment(t, a) - 1)>>
                                    \o ComponentsFrom(t)[SkipSeparators(t, SkipSegment(t, a))]
  BY ComponentsFromIs
<1> QED BY <1>3, <1>5, <1>6

\* What one character, followed by one of a component or not, makes of the components behind it.
Grown(c, followed, names) ==
  IF is_path_separator(c) THEN names
  ELSE IF followed THEN <<<<c>> \o Head(names)>> \o Tail(names)
  ELSE <<<<c>>>> \o names

\* Is the character behind a place one of a component?
Followed(t, i) == i < Len(t) /\ ~is_path_separator(t[i + 1])

LEMMA ConsOf ==
  ASSUME NEW S, NEW x \in S, NEW s \in Seq(S)
  PROVE  /\ <<x>> \o s \in Seq(S)
         /\ Len(<<x>> \o s) = Len(s) + 1
         /\ (<<x>> \o s)[1] = x
         /\ \A i \in 2..Len(s) + 1 : (<<x>> \o s)[i] = s[i - 1]
         /\ Head(<<x>> \o s) = x
         /\ Tail(<<x>> \o s) = s
<1>1. <<x>> \in Seq(S) /\ Len(<<x>>) = 1 /\ <<x>>[1] = x
  OBVIOUS
<1>2. /\ <<x>> \o s \in Seq(S) /\ Len(<<x>> \o s) = Len(s) + 1
      /\ (<<x>> \o s)[1] = x
      /\ \A i \in 2..Len(s) + 1 : (<<x>> \o s)[i] = s[i - 1]
  BY <1>1, ConcatProperties
<1> DEFINE c == <<x>> \o s
<1>3. c # <<>> /\ Len(s) \in Nat
  BY <1>2
<1> HIDE DEF c
<1>4. Head(c) = c[1] /\ Tail(c) \in Seq(S) /\ Len(Tail(c)) = Len(c) - 1
      /\ \A i \in 1..Len(Tail(c)) : Tail(c)[i] = c[i + 1]
  BY <1>2, <1>3, HeadTailProperties DEF c
<1>5. \A i \in 1..Len(s) : Tail(c)[i] = s[i]
  <2> TAKE i \in 1..Len(s)
  <2>1. i + 1 \in 2..Len(s) + 1 /\ (i + 1) - 1 = i /\ i \in 1..Len(Tail(c))
    BY <1>2, <1>3, <1>4 DEF c
  <2> QED BY <1>2, <1>4, <2>1 DEF c
<1>6. Tail(c) = s
  BY <1>2, <1>3, <1>4, <1>5, SeqEqual DEF c
<1> QED BY <1>2, <1>4, <1>6 DEF c

\* Every component is a text, and not an empty one.
Names == Seq(Chars) \ {<<>>}

LEMMA ComponentsAreNames ==
  ASSUME NEW t \in Seq(Chars)
  PROVE  \A i \in 1..Len(t) + 1 :
           /\ ComponentsFrom(t)[i] \in Seq(Names)
           /\ ComponentsFrom(t)[i] = <<>> <=> SkipSeparators(t, i) > Len(t)
<1> DEFINE S == {i \in 1..Len(t) + 1 :
                   /\ ComponentsFrom(t)[i] \in Seq(Names)
                   /\ ComponentsFrom(t)[i] = <<>> <=> SkipSeparators(t, i) > Len(t)}
<1>1. Len(t) \in Nat /\ Len(t) + 1 \in Nat
  OBVIOUS
<1>2. ASSUME NEW i \in 1..Len(t) + 1, \A j \in i + 1..Len(t) + 1 : j \in S
      PROVE  i \in S
  <2> DEFINE a == SkipSeparators(t, i)
             e == SkipSegment(t, a)
             r == SkipSeparators(t, e)
             name == SubSeq(t, a, e - 1)
             c == ComponentsFrom(t)[i]
  <2>1. c = IF a > Len(t) THEN <<>> ELSE <<name>> \o ComponentsFrom(t)[r]
    BY ComponentsFromIs
  <2>2. CASE a > Len(t)
    <3>1. c = <<>> /\ c \in Seq(Names)
      BY <2>1, <2>2
    <3> HIDE DEF c
    <3>2. c = <<>> <=> a > Len(t)
      BY <2>2, <3>1
    <3> QED BY <3>1, <3>2 DEF c
  <2>3. CASE ~(a > Len(t))
    <3>1. a <= Len(t)
      BY <1>1, <2>3, SkipSeparatorsIs
    <3>2. a \in i..Len(t) /\ e \in a + 1..Len(t) + 1 /\ r \in e..Len(t) + 1
      BY <3>1, NextPlace
    <3> HIDE DEF a, e, r
    <3>3. r \in i + 1..Len(t) + 1
      BY <1>1, <3>2
    <3>4. ComponentsFrom(t)[r] \in Seq(Names)
      BY <1>2, <3>3
    <3>5. a \in 1..Len(t) + 1 /\ e - 1 \in a - 1..Len(t) /\ (e - 1) - a + 1 >= 1
      BY <1>1, <3>2
    <3>6. name \in Seq(Chars) /\ Len(name) = (e - 1) - a + 1
      BY <3>5, PartIs
    <3> HIDE DEF name, c, S
    <3>7. name \in Names
      BY <3>5, <3>6 DEF Names
    <3>8. c \in Seq(Names) /\ Len(c) = Len(ComponentsFrom(t)[r]) + 1
      BY <2>1, <2>3, <3>4, <3>7, ConsOf
    <3>9. c # <<>>
      BY <3>4, <3>8
    <3> QED BY <2>3, <3>8, <3>9 DEF S, c, a
  <2> QED BY <2>2, <2>3
<1>3. S = 1..Len(t) + 1
  <2>1. S \in SUBSET (1..Len(t) + 1)
    OBVIOUS
  <2> HIDE DEF S
  <2> QED BY <1>1, <1>2, <2>1, BackwardInduction
<1> QED BY <1>3

\* A part of a text is its first character and the rest of the part.
LEMMA PartGrows ==
  ASSUME NEW t \in Seq(Chars), NEW i \in 1..Len(t), NEW n \in i..Len(t)
  PROVE  /\ SubSeq(t, i, n) = <<t[i]>> \o SubSeq(t, i + 1, n)
         /\ SubSeq(t, i, i) = <<t[i]>>
<1>1. Len(t) \in Nat /\ t[i] \in Chars
  OBVIOUS
<1> DEFINE u == SubSeq(t, i, n)
           v == SubSeq(t, i + 1, n)
           w == <<t[i]>> \o v
<1>2. i \in 1..Len(t) + 1 /\ n \in i - 1..Len(t) /\ i + 1 \in 1..Len(t) + 1
      /\ n \in (i + 1) - 1..Len(t) /\ i \in i - 1..Len(t)
  BY <1>1
<1>3. u \in Seq(Chars) /\ Len(u) = n - i + 1 /\ \A k \in 1..n - i + 1 : u[k] = t[i + k - 1]
  BY <1>2, PartIs
<1>4. v \in Seq(Chars) /\ Len(v) = n - (i + 1) + 1
      /\ \A k \in 1..n - (i + 1) + 1 : v[k] = t[i + 1 + k - 1]
  BY <1>2, PartIs
<1> HIDE DEF u, v
<1>5. /\ w \in Seq(Chars) /\ Len(w) = Len(v) + 1 /\ w[1] = t[i]
      /\ \A k \in 2..Len(v) + 1 : w[k] = v[k - 1]
  BY <1>1, <1>4, Cons
<1> HIDE DEF w
<1>6. Len(w) = Len(u)
  BY <1>1, <1>3, <1>4, <1>5
<1>7. ASSUME NEW k \in 1..Len(u) PROVE w[k] = u[k]
  <2>1. CASE k = 1
    <3>1. u[1] = t[i + 1 - 1] /\ i + 1 - 1 = i
      BY <1>1, <1>3, <2>1
    <3> QED BY <1>5, <2>1, <3>1
  <2>2. CASE k # 1
    <3>1. k \in 2..Len(v) + 1 /\ k - 1 \in 1..n - (i + 1) + 1 /\ i + 1 + (k - 1) - 1 = i + k - 1
          /\ k \in 1..n - i + 1
      BY <1>1, <1>3, <1>4, <2>2
    <3>2. w[k] = v[k - 1] /\ v[k - 1] = t[i + 1 + (k - 1) - 1] /\ u[k] = t[i + k - 1]
      BY <1>3, <1>4, <1>5, <3>1
    <3> QED BY <3>1, <3>2
  <2> QED BY <2>1, <2>2
<1>8. u = w
  BY <1>3, <1>5, <1>6, <1>7, SeqEqual
<1> DEFINE x == SubSeq(t, i, i)
<1>9. x \in Seq(Chars) /\ Len(x) = i - i + 1 /\ \A k \in 1..i - i + 1 : x[k] = t[i + k - 1]
  BY <1>2, PartIs
<1> HIDE DEF x
<1>10. Len(x) = 1 /\ x[1] = t[i]
  <2>1. i - i + 1 = 1 /\ i + 1 - 1 = i /\ 1 \in 1..1
    OBVIOUS
  <2>2. Len(x) = 1 /\ x[1] = t[i + 1 - 1]
    BY <1>9, <2>1
  <2> QED BY <2>1, <2>2
<1>11. x = <<t[i]>>
  BY <1>1, <1>9, <1>10
<1> QED BY <1>8, <1>11 DEF u, v, w, x

\* The components from a place, from the character there and those from the next.
LEMMA ComponentsGrow ==
  ASSUME NEW t \in Seq(Chars), NEW i \in 1..Len(t)
  PROVE  ComponentsFrom(t)[i] = Grown(t[i], Followed(t, i), ComponentsFrom(t)[i + 1])
<1> DEFINE names == ComponentsFrom(t)[i + 1]
<1>1. Len(t) \in Nat /\ i \in 1..Len(t) + 1 /\ i + 1 \in 1..Len(t) + 1 /\ t[i] \in Chars
  OBVIOUS
<1>2. CASE is_path_separator(t[i])
  <2> DEFINE b == SkipSeparators(t, i + 1)
  <2>1. /\ b \in i + 1..Len(t) + 1
        /\ \A k \in i + 1..b - 1 : is_path_separator(t[k])
        /\ b <= Len(t) => ~is_path_separator(t[b])
    BY <1>1, SkipSeparatorsIs
  <2>2. ComponentsFrom(t)[i + 1] = ComponentsFrom(t)[b]
    BY <1>1, ComponentsFromSkip
  <2> HIDE DEF b
  <2>3. b \in i..Len(t) + 1 /\ \A k \in i..b - 1 : is_path_separator(t[k])
    BY <1>1, <1>2, <2>1
  <2>4. SkipSeparators(t, i) = b
    BY <1>1, <2>1, <2>3, SkipSeparatorsOnly
  <2>5. ComponentsFrom(t)[i] = ComponentsFrom(t)[b]
    BY <1>1, <2>4, ComponentsFromSkip
  <2> QED BY <1>2, <2>2, <2>5 DEF Grown
<1>3. CASE ~is_path_separator(t[i])
  <2> DEFINE e == SkipSegment(t, i)
             r == SkipSeparators(t, e)
             rest == ComponentsFrom(t)[r]
  <2>1. SkipSeparators(t, i) = i
    <3>1. i \in i..Len(t) + 1 /\ \A k \in i..i - 1 : is_path_separator(t[k])
      BY <1>1
    <3> QED BY <1>1, <1>3, <3>1, SkipSeparatorsOnly
  <2>2. e \in i + 1..Len(t) + 1 /\ r \in e..Len(t) + 1
    <3>1. SkipSeparators(t, i) <= Len(t)
      BY <1>1, <2>1
    <3> QED BY <1>1, <2>1, <3>1, NextPlace
  <2>3. ComponentsFrom(t)[i] = <<SubSeq(t, i, e - 1)>> \o rest
    <3>1. ~(i > Len(t))
      BY <1>1
    <3> QED BY <1>1, <2>1, <3>1, ComponentsFromIs
  <2>4. r \in 1..Len(t) + 1 /\ e \in 1..Len(t) + 1
    <3> HIDE DEF e, r
    <3> QED BY <1>1, <2>2
  <2>5. rest \in Seq(Names)
    <3> HIDE DEF r
    <3> QED BY <2>4, ComponentsAreNames
  <2>6. /\ \A k \in i..e - 1 : ~is_path_separator(t[k])
        /\ e <= Len(t) => is_path_separator(t[e])
    BY <1>1, SkipSegmentIs
  <2>7. CASE Followed(t, i)
    <3>1. i + 1 <= Len(t) /\ ~is_path_separator(t[i + 1]) /\ i + 1 # e
      <4> HIDE DEF e
      <4> QED BY <1>1, <2>2, <2>6, <2>7 DEF Followed
    <3>2. SkipSeparators(t, i + 1) = i + 1
      <4>1. i + 1 \in i + 1..Len(t) + 1 /\ \A k \in i + 1..(i + 1) - 1 : is_path_separator(t[k])
        BY <1>1
      <4> QED BY <1>1, <3>1, <4>1, SkipSeparatorsOnly
    <3>3. SkipSegment(t, i + 1) = e
      <4> HIDE DEF e
      <4>1. e \in i + 1..Len(t) + 1 /\ \A k \in i + 1..e - 1 : ~is_path_separator(t[k])
        BY <1>1, <2>2, <2>6
      <4> QED BY <1>1, <2>6, <4>1, SkipSegmentOnly
    <3> DEFINE name == SubSeq(t, i + 1, e - 1)
    <3>4. names = <<name>> \o rest
      <4>1. ~(i + 1 > Len(t))
        BY <1>1, <3>1
      <4> QED BY <1>1, <3>2, <3>3, <4>1, ComponentsFromIs
    <3> HIDE DEF e, r, rest, names
    <3>5. SubSeq(t, i, e - 1) = <<t[i]>> \o name
      <4>1. e - 1 \in i..Len(t)
        BY <1>1, <2>2
      <4> QED BY <4>1, PartGrows
    <3>6. name \in Names
      <4>1. e - 1 \in (i + 1) - 1..Len(t) /\ (e - 1) - (i + 1) + 1 >= 1
        BY <1>1, <2>2, <3>1
      <4>2. name \in Seq(Chars) /\ Len(name) = (e - 1) - (i + 1) + 1
        BY <1>1, <4>1, PartIs
      <4> HIDE DEF name
      <4> QED BY <4>1, <4>2 DEF Names
    <3> HIDE DEF name
    <3>7. Head(names) = name /\ Tail(names) = rest
      BY <2>5, <3>4, <3>6, ConsOf
    <3> QED BY <1>3, <2>3, <2>7, <3>5, <3>7 DEF Grown, names
  <2>8. CASE ~Followed(t, i)
    <3>1. SkipSegment(t, i) = i + 1
      <4>1. i + 1 \in i..Len(t) + 1 /\ \A k \in i..(i + 1) - 1 : ~is_path_separator(t[k])
        BY <1>1, <1>3
      <4>2. i + 1 <= Len(t) => is_path_separator(t[i + 1])
        BY <1>1, <2>8 DEF Followed
      <4> QED BY <1>1, <4>1, <4>2, SkipSegmentOnly
    <3>2. names = rest
      BY <1>1, <3>1, ComponentsFromSkip
    <3>3. SubSeq(t, i, e - 1) = <<t[i]>>
      <4>1. (i + 1) - 1 = i /\ i \in i..Len(t)
        BY <1>1
      <4> QED BY <3>1, <4>1, PartGrows
    <3> HIDE DEF e, r, rest, names
    <3> QED BY <1>3, <2>3, <2>8, <3>2, <3>3 DEF Grown, names
  <2> QED BY <2>7, <2>8
<1> QED BY <1>2, <1>3

LEMMA ComponentsEnd ==
  ASSUME NEW t \in Seq(Chars)
  PROVE  ComponentsFrom(t)[Len(t) + 1] = <<>>
<1>1. Len(t) \in Nat /\ Len(t) + 1 \in 1..Len(t) + 1
  OBVIOUS
<1>2. SkipSeparators(t, Len(t) + 1) \in Len(t) + 1..Len(t) + 1
  BY <1>1, SkipSeparatorsIs
<1>3. SkipSeparators(t, Len(t) + 1) > Len(t)
  BY <1>1, <1>2
<1> QED BY <1>1, <1>3, ComponentsAreNames

\* Which separators a text has, and how many at its end, does not matter for its components.
LEMMA SameComponents ==
  ASSUME NEW t \in Seq(Chars), NEW u \in Seq(Chars), Len(u) <= Len(t),
         \A i \in 1..Len(u) : /\ is_path_separator(u[i]) <=> is_path_separator(t[i])
                              /\ is_path_separator(t[i]) \/ u[i] = t[i],
         \A i \in Len(u) + 1..Len(t) : is_path_separator(t[i])
  PROVE  Components(u) = Components(t)
<1> DEFINE S == {i \in 1..Len(u) + 1 : ComponentsFrom(u)[i] = ComponentsFrom(t)[i]}
<1>1. Len(t) \in Nat /\ Len(u) \in Nat /\ Len(u) + 1 \in Nat
  OBVIOUS
<1>2. ASSUME NEW i \in 1..Len(u) + 1, \A j \in i + 1..Len(u) + 1 : j \in S
      PROVE  i \in S
  <2>1. CASE i = Len(u) + 1
    <3>1. ComponentsFrom(u)[i] = <<>>
      BY <2>1, ComponentsEnd
    <3>2. i \in 1..Len(t) + 1
      BY <1>1, <2>1
    <3>3. SkipSeparators(t, i) > Len(t)
      <4>1. SkipSeparators(t, i) \in i..Len(t) + 1
            /\ (SkipSeparators(t, i) <= Len(t) => ~is_path_separator(t[SkipSeparators(t, i)]))
        BY <3>2, SkipSeparatorsIs
      <4> QED BY <1>1, <2>1, <4>1
    <3>4. ComponentsFrom(t)[i] = <<>>
      BY <3>2, <3>3, ComponentsAreNames
    <3> QED BY <3>1, <3>4
  <2>2. CASE i # Len(u) + 1
    <3>1. i \in 1..Len(u) /\ i \in 1..Len(t) /\ i + 1 \in i + 1..Len(u) + 1
      BY <1>1, <2>2
    <3>2. ComponentsFrom(u)[i + 1] = ComponentsFrom(t)[i + 1]
      BY <1>2, <3>1
    <3>3. Followed(u, i) <=> Followed(t, i)
      <4>1. CASE i < Len(u)
        <5>1. i + 1 \in 1..Len(u) /\ i < Len(t)
          BY <1>1, <3>1, <4>1
        <5> QED BY <4>1, <5>1 DEF Followed
      <4>2. CASE ~(i < Len(u))
        <5>1. i < Len(t) => i + 1 \in Len(u) + 1..Len(t)
          BY <1>1, <3>1, <4>2
        <5> QED BY <4>2, <5>1 DEF Followed
      <4> QED BY <4>1, <4>2
    <3>4. /\ ComponentsFrom(u)[i] = Grown(u[i], Followed(u, i), ComponentsFrom(u)[i + 1])
          /\ ComponentsFrom(t)[i] = Grown(t[i], Followed(t, i), ComponentsFrom(t)[i + 1])
      BY <3>1, ComponentsGrow
    <3>5. /\ is_path_separator(u[i]) <=> is_path_separator(t[i])
          /\ is_path_separator(t[i]) \/ u[i] = t[i]
      BY <3>1
    <3>6. Grown(u[i], Followed(u, i), ComponentsFrom(u)[i + 1])
            = Grown(t[i], Followed(t, i), ComponentsFrom(t)[i + 1])
      BY <3>2, <3>3, <3>5, Zenon DEF Grown
    <3> QED BY <3>4, <3>6
  <2> QED BY <2>1, <2>2
<1>3. S = 1..Len(u) + 1
  <2>1. S \in SUBSET (1..Len(u) + 1)
    OBVIOUS
  <2> HIDE DEF S
  <2> QED BY <1>1, <1>2, <2>1, BackwardInduction
<1> QED BY <1>1, <1>3 DEF Components

\* One character in front of a text does not change the components behind it.
LEMMA ComponentsCons ==
  ASSUME NEW c \in Chars, NEW d \in Seq(Chars)
  PROVE  Components(<<c>> \o d)
           = Grown(c, d # <<>> /\ ~is_path_separator(d[1]), Components(d))
<1> DEFINE t == <<c>> \o d
           S == {i \in 1..Len(d) + 1 : ComponentsFrom(t)[i + 1] = ComponentsFrom(d)[i]}
<1>1. /\ t \in Seq(Chars) /\ Len(t) = Len(d) + 1 /\ t[1] = c
      /\ \A i \in 2..Len(d) + 1 : t[i] = d[i - 1]
  BY Cons
<1>2. Len(d) \in Nat /\ Len(d) + 1 \in Nat /\ (d = <<>> <=> Len(d) = 0)
  OBVIOUS
<1> HIDE DEF t
<1>3. ASSUME NEW i \in 1..Len(d) + 1, \A j \in i + 1..Len(d) + 1 : j \in S
      PROVE  i \in S
  <2>1. CASE i = Len(d) + 1
    <3>1. ComponentsFrom(d)[i] = <<>> /\ ComponentsFrom(t)[i + 1] = <<>>
      BY <1>1, <2>1, ComponentsEnd
    <3> QED BY <3>1
  <2>2. CASE i # Len(d) + 1
    <3>1. i \in 1..Len(d) /\ i + 1 \in 1..Len(t) /\ i + 1 \in i + 1..Len(d) + 1
          /\ i + 1 \in 2..Len(d) + 1 /\ (i + 1) - 1 = i
      BY <1>1, <1>2, <2>2
    <3>2. ComponentsFrom(t)[(i + 1) + 1] = ComponentsFrom(d)[i + 1] /\ t[i + 1] = d[i]
      BY <1>1, <1>3, <3>1
    <3>3. Followed(t, i + 1) <=> Followed(d, i)
      <4>1. i + 1 < Len(t) <=> i < Len(d)
        BY <1>1, <1>2, <3>1
      <4>2. i < Len(d) => t[(i + 1) + 1] = d[i + 1]
        <5>1. i < Len(d) => (i + 1) + 1 \in 2..Len(d) + 1 /\ ((i + 1) + 1) - 1 = i + 1
          BY <1>2, <3>1
        <5> QED BY <1>1, <5>1
      <4> QED BY <4>1, <4>2 DEF Followed
    <3>4. ComponentsFrom(t)[i + 1]
            = Grown(t[i + 1], Followed(t, i + 1), ComponentsFrom(t)[(i + 1) + 1])
      BY <1>1, <3>1, ComponentsGrow
    <3>5. ComponentsFrom(d)[i] = Grown(d[i], Followed(d, i), ComponentsFrom(d)[i + 1])
      BY <3>1, ComponentsGrow
    <3>6. Grown(t[i + 1], Followed(t, i + 1), ComponentsFrom(t)[(i + 1) + 1])
            = Grown(d[i], Followed(d, i), ComponentsFrom(d)[i + 1])
      BY <3>2, <3>3, Zenon DEF Grown
    <3> QED BY <3>4, <3>5, <3>6
  <2> QED BY <2>1, <2>2
<1>4. S = 1..Len(d) + 1
  <2>1. S \in SUBSET (1..Len(d) + 1)
    OBVIOUS
  <2> HIDE DEF S
  <2> QED BY <1>2, <1>3, <2>1, BackwardInduction
<1>5. ComponentsFrom(t)[1 + 1] = Components(d)
  <2>1. 1 \in S
    BY <1>2, <1>4
  <2> QED BY <2>1 DEF Components
<1>6. Followed(t, 1) <=> (d # <<>> /\ ~is_path_separator(d[1]))
  <2>1. 1 < Len(t) <=> d # <<>>
    BY <1>1, <1>2
  <2>2. d # <<>> => t[1 + 1] = d[1]
    <3>1. d # <<>> => 1 + 1 \in 2..Len(d) + 1 /\ (1 + 1) - 1 = 1
      BY <1>2
    <3> QED BY <1>1, <3>1
  <2> QED BY <2>1, <2>2 DEF Followed
<1>7. Components(t) = Grown(t[1], Followed(t, 1), ComponentsFrom(t)[1 + 1])
  <2>1. 1 \in 1..Len(t)
    BY <1>1, <1>2
  <2> QED BY <1>1, <2>1, ComponentsGrow DEF Components
<1>8. Grown(t[1], Followed(t, 1), ComponentsFrom(t)[1 + 1])
        = Grown(c, d # <<>> /\ ~is_path_separator(d[1]), Components(d))
  BY <1>1, <1>5, <1>6, Zenon DEF Grown
<1> QED BY <1>7, <1>8 DEF t

\* path_remove_dup_separators keeps the components.
LEMMA CopiedComponents ==
  ASSUME NEW t \in Seq(Chars)
  PROVE  \A r \in 1..Len(t) + 1 : Components(Copied(t)[r]) = ComponentsFrom(t)[r]
<1> DEFINE S == {r \in 1..Len(t) + 1 : Components(Copied(t)[r]) = ComponentsFrom(t)[r]}
<1>1. Len(t) \in Nat /\ Len(t) + 1 \in Nat
  OBVIOUS
<1>2. ASSUME NEW r \in 1..Len(t) + 1, \A q \in r + 1..Len(t) + 1 : q \in S
      PROVE  r \in S
  <2>1. CASE r = Len(t) + 1
    <3>1. Copied(t)[r] = <<>> /\ ComponentsFrom(t)[r] = <<>>
      BY <2>1, CopiedIs, ComponentsEnd
    <3>2. ComponentsFrom(<<>>)[1] = <<>>
      <4>1. <<>> \in Seq(Chars) /\ Len(<<>>) + 1 = 1
        OBVIOUS
      <4>2. \A u \in Seq(Chars) : ComponentsFrom(u)[Len(u) + 1] = <<>>
        BY ComponentsEnd
      <4> QED BY <4>1, <4>2, Zenon
    <3> QED BY <3>1, <3>2 DEF Components
  <2>2. CASE r # Len(t) + 1
    <3> DEFINE q == IF is_path_separator(t[r]) THEN SkipSeparators(t, r + 1) ELSE r + 1
               d == Copied(t)[q]
    <3>1. r \in 1..Len(t) /\ r + 1 \in 1..Len(t) + 1 /\ t[r] \in Chars
      BY <1>1, <2>2
    <3>2. q \in r + 1..Len(t) + 1 /\ ComponentsFrom(t)[r + 1] = ComponentsFrom(t)[q]
      BY <1>1, <3>1, SkipSeparatorsIs, ComponentsFromSkip
    <3>3. Copied(t)[r] = <<t[r]>> \o d
      BY <3>1, CopiedIs
    <3>4. ~is_path_separator(t[r]) => q = r + 1
      OBVIOUS
    <3> HIDE DEF q
    <3>5. q \in 1..Len(t) + 1
      BY <1>1, <3>2
    <3>6. CopyIsRight(t, q, d)
      BY <3>5, CopiedIsRight
    <3>7. Components(d) = ComponentsFrom(t)[q]
      BY <1>2, <3>2
    <3> HIDE DEF d
    <3>8. d \in Seq(Chars) /\ Len(d) <= Len(t) + 1 - q
          /\ (q <= Len(t) => Len(d) >= 1 /\ d[1] = t[q])
      BY <3>6 DEF CopyIsRight
    <3>9. ~is_path_separator(t[r])
            => (Followed(t, r) <=> (d # <<>> /\ ~is_path_separator(d[1])))
      <4> SUFFICES ASSUME ~is_path_separator(t[r])
                   PROVE  Followed(t, r) <=> (d # <<>> /\ ~is_path_separator(d[1]))
        OBVIOUS
      <4>1. q = r + 1 /\ (d # <<>> <=> q <= Len(t)) /\ (q <= Len(t) => d[1] = t[r + 1])
        <5>1. q = r + 1
          BY <3>4
        <5>2. q <= Len(t) => d # <<>> /\ d[1] = t[r + 1]
          BY <3>8, <5>1
        <5>3. ~(q <= Len(t)) => d = <<>>
          BY <1>1, <3>1, <3>8, <5>1
        <5> QED BY <5>1, <5>2, <5>3
      <4>2. r < Len(t) <=> q <= Len(t)
        BY <1>1, <3>1, <4>1
      <4> QED BY <4>1, <4>2 DEF Followed
    <3>10. Components(Copied(t)[r])
             = Grown(t[r], d # <<>> /\ ~is_path_separator(d[1]), Components(d))
      BY <3>1, <3>3, <3>8, ComponentsCons
    <3>11. ComponentsFrom(t)[r] = Grown(t[r], Followed(t, r), ComponentsFrom(t)[r + 1])
      BY <3>1, ComponentsGrow
    <3>12. Components(Copied(t)[r]) = ComponentsFrom(t)[r]
      BY <3>2, <3>7, <3>9, <3>10, <3>11, Zenon DEF Grown
    <3> QED BY <3>12
  <2> QED BY <2>1, <2>2
<1>3. S = 1..Len(t) + 1
  <2>1. S \in SUBSET (1..Len(t) + 1)
    OBVIOUS
  <2> HIDE DEF S
  <2> QED BY <1>1, <1>2, <2>1, BackwardInduction
<1> QED BY <1>3

LEMMA NormalizedComponents ==
  ASSUME NEW t \in Seq(Chars)
  PROVE  Components(Normalized(t)) = Components(t)
<1> DEFINE u == Normalized(t)
<1>1. u \in Seq(Chars) /\ Len(u) = Len(t)
      /\ \A i \in 1..Len(t) : /\ u[i] = IF is_path_separator(t[i]) THEN Backslash ELSE t[i]
                              /\ is_path_separator(u[i]) <=> is_path_separator(t[i])
  BY NormalizedIs
<1> HIDE DEF u
<1>2. Len(u) <= Len(t) /\ \A i \in Len(u) + 1..Len(t) : is_path_separator(t[i])
  BY <1>1
<1>3. Components(u) = Components(t)
  BY <1>1, <1>2, SameComponents
<1> QED BY <1>3 DEF u

LEMMA WithoutTrailingComponents ==
  ASSUME NEW t \in Seq(Chars)
  PROVE  Components(WithoutTrailing(t)) = Components(t)
<1> DEFINE u == WithoutTrailing(t)
<1>1. /\ u \in Seq(Chars) /\ \A i \in 1..Len(u) : u[i] = t[i]
      /\ HasTrailingSeparator(t) => Len(u) = Len(t) - 1 /\ Len(t) >= 1
      /\ ~HasTrailingSeparator(t) => u = t
  BY WithoutTrailingIs
<1> HIDE DEF u
<1>2. CASE HasTrailingSeparator(t)
  <2>1. is_path_separator(t[Len(t)])
    BY <1>2 DEF HasTrailingSeparator
  <2>2. Len(u) <= Len(t) /\ \A i \in Len(u) + 1..Len(t) : is_path_separator(t[i])
    BY <1>1, <1>2, <2>1
  <2>3. Components(u) = Components(t)
    BY <1>1, <2>2, SameComponents
  <2> QED BY <2>3 DEF u
<1> QED BY <1>1, <1>2 DEF u

LEMMA WithoutDuplicatesComponents ==
  ASSUME NEW t \in Seq(Chars)
  PROVE  Components(WithoutDuplicates(t)) = Components(t)
<1>1. Len(t) \in Nat
  OBVIOUS
<1>2. CASE Len(t) >= 2 /\ t[1] = Backslash /\ t[2] = Backslash
  <2> DEFINE d == Copied(t)[2]
  <2>1. 2 \in 1..Len(t) + 1 /\ 1 \in 1..Len(t) /\ is_path_separator(t[1]) /\ Backslash \in Chars
        /\ 1 + 1 = 2
    BY <1>1, <1>2 DEF is_path_separator, Chars
  <2>2. WithoutDuplicates(t) = <<Backslash>> \o d
    BY <1>2 DEF WithoutDuplicates
  <2>3. d \in Seq(Chars) /\ Components(d) = ComponentsFrom(t)[2]
    BY <2>1, CopiedIsRight, CopiedComponents DEF CopyIsRight
  <2> HIDE DEF d
  <2>4. Components(<<Backslash>> \o d) = Components(d)
    BY <2>1, <2>3, ComponentsCons DEF Grown, is_path_separator
  <2>5. ComponentsFrom(t)[1] = ComponentsFrom(t)[2]
    BY <2>1, ComponentsGrow DEF Grown
  <2> QED BY <2>2, <2>3, <2>4, <2>5 DEF Components
<1>3. CASE ~(Len(t) >= 2 /\ t[1] = Backslash /\ t[2] = Backslash)
  <2>1. WithoutDuplicates(t) = Copied(t)[1]
    BY <1>3 DEF WithoutDuplicates
  <2>2. 1 \in 1..Len(t) + 1
    BY <1>1
  <2> QED BY <2>1, <2>2, CopiedComponents DEF Components
<1> QED BY <1>2, <1>3

LEMMA TidyComponents ==
  ASSUME NEW t \in Seq(Chars)
  PROVE  Components(Tidy(t)) = Components(t)
<1> DEFINE n == Normalized(t)
           w == WithoutDuplicates(n)
<1>1. n \in Seq(Chars) /\ Components(n) = Components(t)
  BY NormalizedIs, NormalizedComponents
<1> HIDE DEF n
<1>2. w \in Seq(Chars) /\ Components(w) = Components(n)
  BY <1>1, WithoutDuplicatesIs, WithoutDuplicatesComponents
<1> HIDE DEF w
<1>3. Components(WithoutTrailing(w)) = Components(w)
  BY <1>2, WithoutTrailingComponents
<1> QED BY <1>1, <1>2, <1>3 DEF w, n, Tidy

LEMMA TrailedComponents ==
  ASSUME NEW t \in Seq(Chars)
  PROVE  Components(t \o <<Backslash>>) = Components(t)
<1> DEFINE u == t \o <<Backslash>>
<1>1. <<Backslash>> \in Seq(Chars) /\ Len(<<Backslash>>) = 1 /\ <<Backslash>>[1] = Backslash
      /\ Len(t) \in Nat /\ is_path_separator(Backslash)
  BY DEF Chars, is_path_separator
<1>2. /\ u \in Seq(Chars) /\ Len(u) = Len(t) + 1
      /\ \A i \in 1..Len(t) + 1 : u[i] = IF i <= Len(t) THEN t[i] ELSE <<Backslash>>[i - Len(t)]
  BY <1>1, ConcatProperties
<1> HIDE DEF u
<1>3. Len(t) <= Len(u) /\ (\A i \in 1..Len(t) : t[i] = u[i])
      /\ \A i \in Len(t) + 1..Len(u) : is_path_separator(u[i])
  <2>1. Len(t) <= Len(u) /\ (\A i \in 1..Len(t) : t[i] = u[i])
    BY <1>1, <1>2
  <2>2. ASSUME NEW i \in Len(t) + 1..Len(u) PROVE is_path_separator(u[i])
    <3>1. i \in 1..Len(t) + 1 /\ ~(i <= Len(t)) /\ i - Len(t) = 1
      BY <1>1, <1>2
    <3> QED BY <1>1, <1>2, <3>1
  <2> QED BY <2>1, <2>2
<1>4. Components(t) = Components(u)
  BY <1>2, <1>3, SameComponents
<1> QED BY <1>4 DEF u

\* Whether there is something for Windows to simplify does not depend on the separators.
LEMMA TidyIsCanonical ==
  ASSUME NEW t \in Seq(Chars)
  PROVE  IsCanonical(Tidy(t)) <=> IsCanonical(t)
<1>1. Components(Tidy(t)) = Components(t)
  BY TidyComponents
<1> QED BY <1>1, Zenon DEF IsCanonical

\* What path_clean leaves in a path with nothing to simplify, whichever way it ends, is the
\* tidy text.
LEMMA CleanLeaves ==
  ASSUME IInv, untold = "none", Clean, IsCanonical(Contents)
  PROVE  Contents' = Tidy(Contents)
<1> DEFINE tidied == Tidied(path)
           t == Text(tidied.m_path)
           clean == Canonicalized(t)
<1>1. path \in Paths /\ Coherent(path) /\ Contents \in Seq(Chars)
  BY IInvIs, TextIs DEF Paths, Contents
<1>2. tidied \in Paths /\ t = Tidy(Contents)
  BY <1>1, TidiedKeeps DEF Keeps, Contents
<1>3. \/ Becomes(tidied)
      \/ \E rest \in {NUL, Backslash} :
           path' = IF t = <<>> THEN Constructed(clean, rest)
                   ELSE [Constructed(clean, rest) EXCEPT !.m_size = dirty_flag]
  BY Zenon DEF Clean
<1> HIDE DEF tidied
<1>4. t \in Seq(Chars) /\ Len(t) < Capacity
  BY <1>2, TextIs, CapacityAssumption DEF Paths
<1>5. clean = t
  <2>1. IsCanonical(t)
    BY <1>1, <1>2, TidyIsCanonical
  <2> HIDE DEF t
  <2> QED BY <1>4, <2>1, CanonicalizedIs
<1> HIDE DEF clean
<1>6. ASSUME NEW rest \in {NUL, Backslash} PROVE Text(Constructed(t, rest).m_path) = t
  <2> DEFINE b == [i \in 1..Capacity |-> rest]
  <2>1. b \in Buffers
    BY DEF Buffers, Chars
  <2> HIDE DEF b, t
  <2>2. Text(Written(b, t)) = t
    BY <1>4, <2>1, WrittenIs
  <2> QED BY <2>2 DEF Constructed, b
<1>7. CASE Becomes(tidied)
  BY <1>2, <1>7 DEF Becomes, Contents
<1>8. ASSUME NEW rest \in {NUL, Backslash},
             path' = IF t = <<>> THEN Constructed(clean, rest)
                     ELSE [Constructed(clean, rest) EXCEPT !.m_size = dirty_flag]
      PROVE  Contents' = Tidy(Contents)
  <2> HIDE DEF t
  <2>1. path'.m_path = Constructed(t, rest).m_path
    BY <1>5, <1>8 DEF Constructed
  <2> QED BY <1>2, <1>6, <2>1 DEF Contents
<1> QED BY <1>3, <1>7, <1>8

LEMMA TidyingKeeps ==
  ASSUME IInv, untold = "none", Tidying
  PROVE  Components(Contents') = Components(Contents)
<1> DEFINE t == Contents
<1>1. path \in Paths /\ Coherent(path) /\ t = Text(path.m_path)
  BY IInvIs DEF Contents
<1>2. t \in Seq(Chars)
  BY <1>1, TextIs DEF Paths
<1>3. ASSUME NEW q, Becomes(q) PROVE Contents' = Text(q.m_path)
  BY <1>3 DEF Becomes, Contents
<1> HIDE DEF t
<1>4. CASE Normalize
  <2>1. Contents' = Normalized(t)
    BY <1>1, <1>3, <1>4, NormalizeKeeps DEF Normalize
  <2> QED BY <1>2, <2>1, NormalizedComponents DEF t
<1>5. CASE RemoveDupSeparators
  <2>1. Contents' = WithoutDuplicates(t)
    BY <1>1, <1>3, <1>5, RemoveDupKeeps DEF RemoveDupSeparators
  <2> QED BY <1>2, <2>1, WithoutDuplicatesComponents DEF t
<1>6. CASE RemoveTrailingSeparator
  <2>1. Contents' = WithoutTrailing(t)
    BY <1>1, <1>3, <1>6, RemoveTrailingKeeps DEF RemoveTrailingSeparator
  <2> QED BY <1>2, <2>1, WithoutTrailingComponents DEF t
<1>7. CASE AddTrailingSeparator
  <2>1. PICK before : Becomes(path_add_trailing_separator(path, before))
    BY <1>7, AddTrailingBecomes
  <2> DEFINE q == path_add_trailing_separator(path, before)
  <2>2. Text(q.m_path) \in {t, t \o <<Backslash>>}
    BY <1>1, AddTrailingKeeps
  <2>3. Becomes(q)
    BY <2>1
  <2> HIDE DEF q
  <2>4. Contents' \in {t, t \o <<Backslash>>}
    BY <1>3, <2>2, <2>3
  <2> QED BY <1>2, <2>4, TrailedComponents DEF t
<1>8. CASE Clean /\ IsCanonical(t)
  <2>1. Contents' = Tidy(t)
    BY <1>8, CleanLeaves DEF t
  <2> QED BY <1>2, <2>1, TidyComponents DEF t
<1> QED BY <1>4, <1>5, <1>6, <1>7, <1>8 DEF Tidying, t

\* Tidying a path, by any of the functions on separators and with any of them in it, keeps the
\* names and their order, and so does path_clean where Windows has nothing to simplify.
THEOREM TidyingKeepsComponents == Spec => ComponentsKept
<1>1. IInv /\ [Next]_vars
        => [Tidying /\ untold = "none"
              => Components(Contents') = Components(Contents)]_vars
  BY TidyingKeeps
<1> QED BY InitIInv, IInvStep, <1>1, PTL DEF Spec, ComponentsKept

-----------------------------------------------------------------------------
(***************************************************************************)
(* What path_clean leaves                                                  *)
(***************************************************************************)

\* The loop copies a text without two separators in a row as it is.
LEMMA CopiedPlain ==
  ASSUME NEW t \in Seq(Chars), NEW m \in 1..Len(t) + 1,
         \A i \in m..Len(t) - 1 : ~(is_path_separator(t[i]) /\ is_path_separator(t[i + 1]))
  PROVE  \A r \in m..Len(t) + 1 : Copied(t)[r] = SubSeq(t, r, Len(t))
<1> DEFINE S == {r \in 1..Len(t) + 1 : r >= m => Copied(t)[r] = SubSeq(t, r, Len(t))}
<1>1. Len(t) \in Nat /\ Len(t) + 1 \in Nat
  OBVIOUS
<1>2. ASSUME NEW r \in 1..Len(t) + 1, \A q \in r + 1..Len(t) + 1 : q \in S
      PROVE  r \in S
  <2> SUFFICES ASSUME r >= m PROVE Copied(t)[r] = SubSeq(t, r, Len(t))
    OBVIOUS
  <2>1. CASE r = Len(t) + 1
    <3>1. SubSeq(t, r, Len(t)) = <<>>
      <4>1. r \in 1..Len(t) + 1 /\ Len(t) \in r - 1..Len(t) /\ Len(t) - r + 1 = 0
        BY <1>1, <2>1
      <4>2. SubSeq(t, r, Len(t)) \in Seq(Chars) /\ Len(SubSeq(t, r, Len(t))) = 0
        BY <4>1, PartIs
      <4> QED BY <4>2
    <3> QED BY <2>1, <3>1, CopiedIs
  <2>2. CASE r # Len(t) + 1
    <3>1. r \in 1..Len(t) /\ r + 1 \in 1..Len(t) + 1 /\ r + 1 >= m /\ Len(t) \in r..Len(t)
      BY <1>1, <2>2
    <3>2. is_path_separator(t[r]) => SkipSeparators(t, r + 1) = r + 1
      <4>1. is_path_separator(t[r]) /\ r + 1 <= Len(t) => ~is_path_separator(t[r + 1])
        <5>1. r + 1 <= Len(t) => r \in m..Len(t) - 1
          BY <1>1, <3>1
        <5> QED BY <5>1
      <4>2. r + 1 \in r + 1..Len(t) + 1 /\ \A k \in r + 1..(r + 1) - 1 : is_path_separator(t[k])
        BY <3>1
      <4> QED BY <3>1, <4>1, <4>2, SkipSeparatorsOnly
    <3>3. Copied(t)[r] = <<t[r]>> \o Copied(t)[r + 1]
      BY <3>1, <3>2, CopiedIs
    <3>4. r + 1 \in S
      BY <1>2, <3>1
    <3>5. Copied(t)[r + 1] = SubSeq(t, r + 1, Len(t))
      BY <3>1, <3>4
    <3> QED BY <3>1, <3>3, <3>5, PartGrows
  <2> QED BY <2>1, <2>2
<1>3. S = 1..Len(t) + 1
  <2>1. S \in SUBSET (1..Len(t) + 1)
    OBVIOUS
  <2> HIDE DEF S
  <2> QED BY <1>1, <1>2, <2>1, BackwardInduction
<1>4. ASSUME NEW r \in m..Len(t) + 1 PROVE r \in 1..Len(t) + 1 /\ r >= m
  BY <1>1
<1> QED BY <1>3, <1>4

\* A text with no separators in a row but in front is copied as it is.
LEMMA WithoutDuplicatesPlain ==
  ASSUME NEW t \in Seq(Chars),
         \A i \in 1..Len(t) - 1 :
           is_path_separator(t[i]) /\ is_path_separator(t[i + 1])
             => i = 1 /\ t[1] = Backslash /\ t[2] = Backslash
  PROVE  WithoutDuplicates(t) = t
<1>1. Len(t) \in Nat
  OBVIOUS
<1>2. SubSeq(t, 1, Len(t)) = t
  OBVIOUS
<1>3. CASE Len(t) >= 2 /\ t[1] = Backslash /\ t[2] = Backslash
  <2>1. 2 \in 1..Len(t) + 1 /\ 1 \in 1..Len(t) /\ Len(t) \in 1..Len(t) /\ 1 + 1 = 2
    BY <1>1, <1>3
  <2>2. ASSUME NEW i \in 2..Len(t) - 1
        PROVE  ~(is_path_separator(t[i]) /\ is_path_separator(t[i + 1]))
    <3>1. i \in 1..Len(t) - 1 /\ i # 1
      BY <1>1
    <3> QED BY <3>1
  <2>3. Copied(t)[2] = SubSeq(t, 2, Len(t))
    <3>1. 2 \in 2..Len(t) + 1
      BY <1>1, <1>3
    <3> QED BY <2>1, <2>2, <3>1, CopiedPlain
  <2>4. t = <<t[1]>> \o SubSeq(t, 1 + 1, Len(t))
    BY <1>2, <2>1, PartGrows
  <2> QED BY <1>3, <2>1, <2>3, <2>4, Zenon DEF WithoutDuplicates
<1>4. CASE ~(Len(t) >= 2 /\ t[1] = Backslash /\ t[2] = Backslash)
  <2>1. ASSUME NEW i \in 1..Len(t) - 1
        PROVE  ~(is_path_separator(t[i]) /\ is_path_separator(t[i + 1]))
    <3>1. Len(t) >= 2
      BY <1>1
    <3> QED BY <1>4, <3>1
  <2>2. Copied(t)[1] = SubSeq(t, 1, Len(t))
    <3>1. 1 \in 1..Len(t) + 1
      BY <1>1
    <3> QED BY <2>1, <3>1, CopiedPlain
  <2> QED BY <1>2, <1>4, <2>2 DEF WithoutDuplicates
<1> QED BY <1>3, <1>4

\* What a clean text looks like: no '/', no separator at its end, and none in a row but two
\* backslashes in front.
IsClean(t) ==
  /\ t \in Seq(Chars) \ {<<>>}
  /\ \A i \in 1..Len(t) : t[i] # Slash
  /\ ~is_path_separator(t[Len(t)])
  /\ \A i \in 2..Len(t) - 1 : ~(is_path_separator(t[i]) /\ is_path_separator(t[i + 1]))

LEMMA SeparatorsName ==
  ASSUME NEW t \in Seq(Chars), \A i \in 1..Len(t) : is_path_separator(t[i])
  PROVE  Components(t) = <<>>
<1>1. Len(t) \in Nat /\ 1 \in 1..Len(t) + 1
  OBVIOUS
<1>2. SkipSeparators(t, 1) \in 1..Len(t) + 1
      /\ (SkipSeparators(t, 1) <= Len(t) => ~is_path_separator(t[SkipSeparators(t, 1)]))
  BY <1>1, SkipSeparatorsIs
<1>3. SkipSeparators(t, 1) > Len(t)
  BY <1>1, <1>2
<1> QED BY <1>1, <1>3, ComponentsAreNames DEF Components

\* The text path_remove_dup_separators makes of a normalized one.
LEMMA DeduplicatedIs ==
  ASSUME NEW t \in Seq(Chars)
  PROVE  LET w == WithoutDuplicates(Normalized(t))
         IN  /\ w \in Seq(Chars)
             /\ Components(w) = Components(t)
             /\ \A i \in 1..Len(w) : w[i] # Slash
             /\ \A i \in 2..Len(w) - 1 : ~(is_path_separator(w[i]) /\ is_path_separator(w[i + 1]))
<1> DEFINE n == Normalized(t)
           w == WithoutDuplicates(n)
<1>1. n \in Seq(Chars) /\ (\A i \in 1..Len(n) : n[i] # Slash) /\ Components(n) = Components(t)
  BY NormalizedIs, NormalizedComponents
<1> HIDE DEF n
<1>2. /\ w \in Seq(Chars) /\ Components(w) = Components(n)
      /\ \A i \in 1..Len(w) : \E k \in 1..Len(n) : w[i] = n[k]
      /\ \A i \in 1..Len(w) - 1 : is_path_separator(w[i]) /\ is_path_separator(w[i + 1]) => i = 1
  BY <1>1, WithoutDuplicatesIs, WithoutDuplicatesComponents
<1> HIDE DEF w
<1>3. \A i \in 1..Len(w) : w[i] # Slash
  BY <1>1, <1>2
<1>4. ASSUME NEW i \in 2..Len(w) - 1
      PROVE  ~(is_path_separator(w[i]) /\ is_path_separator(w[i + 1]))
  <2>1. Len(w) \in Nat
    BY <1>2
  <2>2. i \in 1..Len(w) - 1 /\ i # 1
    BY <2>1
  <2> QED BY <1>2, <2>2
<1> QED BY <1>1, <1>2, <1>3, <1>4 DEF w, n

LEMMA TidyIsClean ==
  ASSUME NEW t \in Seq(Chars), Components(t) # <<>>
  PROVE  IsClean(Tidy(t))
<1> DEFINE w == WithoutDuplicates(Normalized(t))
           c == WithoutTrailing(w)
<1>1. /\ w \in Seq(Chars) /\ Components(w) # <<>>
      /\ \A i \in 1..Len(w) : w[i] # Slash
      /\ \A i \in 2..Len(w) - 1 : ~(is_path_separator(w[i]) /\ is_path_separator(w[i + 1]))
  BY DeduplicatedIs
<1> HIDE DEF w
<1>2. /\ c \in Seq(Chars) /\ \A i \in 1..Len(c) : c[i] = w[i]
      /\ HasTrailingSeparator(w) => Len(c) = Len(w) - 1 /\ Len(w) >= 1
      /\ ~HasTrailingSeparator(w) => c = w
  BY <1>1, WithoutTrailingIs
<1>3. Components(c) = Components(w)
  BY <1>1, WithoutTrailingComponents
<1> HIDE DEF c
<1>4. Len(w) \in Nat /\ Len(c) \in Nat /\ Len(c) <= Len(w) /\ (c = <<>> <=> Len(c) = 0)
  BY <1>1, <1>2
<1>5. c # <<>>
  <2> SUFFICES ASSUME c = <<>> PROVE FALSE
    OBVIOUS
  <2>1. c \in Seq(Chars) /\ \A i \in 1..Len(c) : is_path_separator(c[i])
    BY <1>2, <1>4
  <2> QED BY <1>1, <1>3, <2>1, SeparatorsName
<1>6. ~is_path_separator(c[Len(c)])
  <2>1. CASE ~HasTrailingSeparator(w)
    <3>1. c = w /\ w # <<>>
      BY <1>2, <1>5, <2>1
    <3> QED BY <2>1, <3>1 DEF HasTrailingSeparator
  <2>2. CASE HasTrailingSeparator(w)
    <3>1. Len(c) = Len(w) - 1 /\ is_path_separator(w[Len(w)])
      BY <1>2, <2>2 DEF HasTrailingSeparator
    <3> SUFFICES ASSUME is_path_separator(c[Len(c)]) PROVE FALSE
      OBVIOUS
    <3>2. Len(c) \in 1..Len(c) /\ Len(c) + 1 = Len(w)
      BY <1>4, <1>5, <3>1
    <3>3. is_path_separator(w[Len(c)]) /\ is_path_separator(w[Len(c) + 1])
      BY <1>2, <3>1, <3>2
    <3>4. ~(Len(c) \in 2..Len(w) - 1)
      BY <1>1, <3>3
    <3>5. Len(c) = 1
      <4>1. Len(c) >= 1 /\ Len(w) - 1 = Len(c)
        BY <1>4, <3>2
      <4>2. Len(c) >= 2 => Len(c) \in 2..Len(w) - 1
        BY <1>4, <4>1
      <4>3. ~(Len(c) >= 2)
        BY <3>4, <4>2, Zenon
      <4>4. \A k \in Nat : k >= 1 /\ ~(k >= 2) => k = 1
        OBVIOUS
      <4> QED BY <1>4, <4>1, <4>3, <4>4, Zenon
    <3>6. \A i \in 1..Len(c) : is_path_separator(c[i])
      BY <3>5
    <3> QED BY <1>1, <1>2, <1>3, <3>6, SeparatorsName
  <2> QED BY <2>1, <2>2
<1>7. \A i \in 1..Len(c) : c[i] # Slash
  BY <1>1, <1>2, <1>4
<1>8. ASSUME NEW i \in 2..Len(c) - 1
      PROVE  ~(is_path_separator(c[i]) /\ is_path_separator(c[i + 1]))
  <2>1. i \in 2..Len(w) - 1 /\ i \in 1..Len(c) /\ i + 1 \in 1..Len(c)
    BY <1>4
  <2> QED BY <1>1, <1>2, <2>1
<1>9. IsClean(c)
  BY <1>2, <1>5, <1>6, <1>7, <1>8 DEF IsClean
<1> QED BY <1>9 DEF Tidy, c, w

\* Cleaning a clean text changes nothing.
LEMMA CleanStays ==
  ASSUME NEW t, IsClean(t)
  PROVE  Tidy(t) = t
<1>1. t \in Seq(Chars) /\ t # <<>> /\ Len(t) \in Nat
  BY DEF IsClean
<1>2. Normalized(t) = t
  <2>1. /\ Normalized(t) \in Seq(Chars) /\ Len(Normalized(t)) = Len(t)
        /\ \A i \in 1..Len(t) :
             Normalized(t)[i] = IF is_path_separator(t[i]) THEN Backslash ELSE t[i]
    BY <1>1, NormalizedIs
  <2>2. \A i \in 1..Len(t) : is_path_separator(t[i]) => t[i] = Backslash
    BY DEF IsClean, is_path_separator
  <2>3. \A i \in 1..Len(t) : Normalized(t)[i] = t[i]
    BY <2>1, <2>2
  <2> QED BY <1>1, <2>1, <2>3, SeqEqual
<1>3. WithoutDuplicates(t) = t
  <2>1. ASSUME NEW i \in 1..Len(t) - 1, is_path_separator(t[i]), is_path_separator(t[i + 1])
        PROVE  i = 1 /\ t[1] = Backslash /\ t[2] = Backslash
    <3>1. ~(i \in 2..Len(t) - 1)
      BY <2>1 DEF IsClean
    <3>2. i = 1 /\ i + 1 = 2 /\ 1 \in 1..Len(t) /\ 2 \in 1..Len(t)
      BY <1>1, <3>1
    <3> QED BY <2>1, <3>2 DEF IsClean, is_path_separator
  <2> QED BY <1>1, <2>1, WithoutDuplicatesPlain
<1>4. WithoutTrailing(t) = t
  BY DEF WithoutTrailing, IsClean
<1> QED BY <1>2, <1>3, <1>4 DEF Tidy

\* A tidy text is no longer than the one it is made from, so that it fits where that does.
LEMMA TidyFits ==
  ASSUME NEW t \in Seq(Chars), Len(t) < Capacity
  PROVE  Tidy(t) \in Seq(Chars) /\ Len(Tidy(t)) < Capacity
<1> DEFINE n == Normalized(t)
           w == WithoutDuplicates(n)
           c == WithoutTrailing(w)
<1>1. n \in Seq(Chars) /\ Len(n) = Len(t)
  BY NormalizedIs
<1> HIDE DEF n
<1>2. w \in Seq(Chars) /\ Len(w) <= Len(n)
  BY <1>1, WithoutDuplicatesIs
<1> HIDE DEF w
<1>3. c \in Seq(Chars) /\ Len(c) <= Len(w)
  <2>1. /\ c \in Seq(Chars)
        /\ HasTrailingSeparator(w) => Len(c) = Len(w) - 1
        /\ ~HasTrailingSeparator(w) => c = w
    BY <1>2, WithoutTrailingIs
  <2>2. Len(w) \in Nat
    BY <1>2
  <2> HIDE DEF c
  <2> QED BY <2>1, <2>2
<1> HIDE DEF c
<1>4. Len(c) < Capacity
  BY <1>1, <1>2, <1>3, CapacityAssumption
<1> QED BY <1>3, <1>4 DEF Tidy, c, w, n

\* Where Windows has nothing to simplify path_clean makes the text tidy and no more.
LEMMA CleanedIsTidy ==
  ASSUME NEW t \in Seq(Chars), Len(t) < Capacity, IsCanonical(t)
  PROVE  Cleaned(t) = Tidy(t)
<1> DEFINE c == Tidy(t)
<1>1. c \in Seq(Chars) /\ Len(c) < Capacity /\ IsCanonical(c)
  BY TidyFits, TidyIsCanonical
<1> HIDE DEF c
<1>2. Canonicalized(c) = c
  BY <1>1, CanonicalizedIs
<1> QED BY <1>2 DEF Cleaned, c

\* A clean path is written with backslashes, none at its end or two in a row but in front, and
\* cleaning it again changes nothing, if it names something and Windows finds nothing in it to
\* simplify.
THEOREM CleaningIsFinal == Spec => []CleanIsFinal
<1>1. ASSUME IInv PROVE CleanIsFinal
  <2> DEFINE t == Contents
             c == Tidy(t)
  <2>1. t \in Seq(Chars) /\ Len(t) < Capacity
    BY <1>1, IInvIs, TextIs, CapacityAssumption DEF Contents, Paths
  <2> HIDE DEF t
  <2>2. ASSUME Components(t) # <<>>, IsCanonical(t)
        PROVE  /\ Cleaned(Cleaned(t)) = Cleaned(t)
               /\ ~HasTrailingSeparator(Cleaned(t))
               /\ \A i \in DOMAIN Cleaned(t) : Cleaned(t)[i] # Slash
               /\ \A i \in 2..Len(Cleaned(t)) - 1 :
                    ~(Cleaned(t)[i] = Backslash /\ Cleaned(t)[i + 1] = Backslash)
    <3>1. Cleaned(t) = c
      BY <2>1, <2>2, CleanedIsTidy
    <3>2. IsClean(c) /\ c \in Seq(Chars) /\ Len(c) < Capacity /\ IsCanonical(c)
      BY <2>1, <2>2, TidyIsClean, TidyFits, TidyIsCanonical
    <3> HIDE DEF c
    <3>3. Tidy(c) = c
      BY <3>2, CleanStays
    <3>4. Cleaned(c) = c
      BY <3>2, <3>3, CleanedIsTidy
    <3>5. DOMAIN c = 1..Len(c)
      BY <3>2 DEF IsClean
    <3>6. /\ ~HasTrailingSeparator(c)
          /\ \A i \in DOMAIN c : c[i] # Slash
          /\ \A i \in 2..Len(c) - 1 : ~(c[i] = Backslash /\ c[i + 1] = Backslash)
      BY <3>2, <3>5 DEF IsClean, HasTrailingSeparator, is_path_separator
    <3> QED BY <3>1, <3>4, <3>6
  <2> QED BY <2>2 DEF CleanIsFinal, t
<1>2. IInv => CleanIsFinal
  BY <1>1
<1> QED BY InitIInv, IInvStep, <1>2, PTL DEF Spec

-----------------------------------------------------------------------------
(***************************************************************************)
(* The file name and the extension                                         *)
(***************************************************************************)

\* Some places in a text have a last one among them.
LEMMA LastPlace ==
  ASSUME NEW n \in Nat, NEW S \in SUBSET (1..n), S # {}
  PROVE  \E i \in S : \A j \in i + 1..n : j \notin S
<1> DEFINE T == {k \in Nat : n - k \in S}
<1>1. T # {}
  <2>1. PICK i \in S : TRUE
    OBVIOUS
  <2>2. n - i \in Nat /\ n - (n - i) = i
    OBVIOUS
  <2>3. n - i \in T
    BY <2>1, <2>2
  <2> QED BY <2>3
<1>2. PICK k \in T : \A l \in T : k <= l
  BY <1>1, SmallestPlace
<1>3. ASSUME NEW j \in (n - k) + 1..n PROVE j \notin S
  <2> SUFFICES ASSUME j \in S PROVE FALSE
    OBVIOUS
  <2>1. n - j \in Nat /\ n - (n - j) = j /\ n - j < k
    BY <1>2
  <2>2. n - j \in T
    BY <2>1
  <2>3. k <= n - j /\ k \in Nat
    BY <1>2, <2>2
  <2> HIDE DEF T
  <2> QED BY <2>1, <2>3
<1>4. n - k \in S
  OBVIOUS
<1> QED BY <1>3, <1>4

\* The last separator of a text.
LEMMA LastSeparatorIs ==
  ASSUME NEW t \in Seq(Chars)
  PROVE  LET sep == LastOf(t, is_path_separator)
         IN  /\ sep \in 0..Len(t)
             /\ sep # 0 => is_path_separator(t[sep])
             /\ \A j \in sep + 1..Len(t) : ~is_path_separator(t[j])
<1> DEFINE S == {i \in 1..Len(t) : is_path_separator(t[i])}
           sep == LastOf(t, is_path_separator)
<1>1. Len(t) \in Nat /\ DOMAIN t = 1..Len(t)
  OBVIOUS
<1>2. CASE \A i \in 1..Len(t) : ~is_path_separator(t[i])
  <2>1. sep = 0
    BY <1>1, <1>2 DEF LastOf, NoPointer
  <2> QED BY <1>1, <1>2, <2>1
<1>3. CASE \E i \in 1..Len(t) : is_path_separator(t[i])
  <2>1. PICK i \in S : \A j \in i + 1..Len(t) : j \notin S
    <3>1. S # {} /\ S \in SUBSET (1..Len(t))
      BY <1>3
    <3> HIDE DEF S
    <3> QED BY <1>1, <3>1, LastPlace
  <2>2. i \in 1..Len(t) /\ is_path_separator(t[i])
        /\ \A j \in i + 1..Len(t) : ~is_path_separator(t[j])
    BY <1>1, <2>1
  <2>3. sep = CHOOSE k \in 1..Len(t) : /\ is_path_separator(t[k])
                                       /\ \A j \in k + 1..Len(t) : ~is_path_separator(t[j])
    BY <1>1, <1>3, Zenon DEF LastOf
  <2>4. sep \in 1..Len(t) /\ is_path_separator(t[sep])
        /\ \A j \in sep + 1..Len(t) : ~is_path_separator(t[j])
    BY <2>2, <2>3, Zenon
  <2> HIDE DEF sep
  <2>5. sep \in 0..Len(t)
    BY <1>1, <2>4
  <2> QED BY <2>4, <2>5 DEF sep
<1> QED BY <1>1, <1>2, <1>3

\* What path_find_extension finds: a period that is not first, not last and not behind a
\* separator, with no other behind it.
LEMMA ExtensionIs ==
  ASSUME NEW t \in Seq(Chars), FindExtension(t) # NoPointer
  PROVE  LET ext == FindExtension(t)
         IN  /\ ext \in 2..Len(t) - 1
             /\ t[ext] = Period
             /\ ~is_path_separator(t[ext - 1])
             /\ \A j \in ext + 1..Len(t) : t[j] # Period
<1> DEFINE S == {i \in 1..Len(t) : t[i] = Period}
           dot == IF \A i \in DOMAIN t : ~(t[i] = Period)
                  THEN NoPointer
                  ELSE CHOOSE i \in DOMAIN t :
                         t[i] = Period /\ \A j \in i + 1..Len(t) : ~(t[j] = Period)
<1>1. Len(t) \in Nat /\ DOMAIN t = 1..Len(t)
  OBVIOUS
<1>2. FindExtension(t) = IF dot \in {NoPointer, 1, Len(t)} \/ is_path_separator(t[dot - 1])
                         THEN NoPointer ELSE dot
  BY Zenon DEF FindExtension, LastOf
<1> HIDE DEF dot
<1>3. FindExtension(t) = dot /\ dot \notin {NoPointer, 1, Len(t)}
      /\ ~is_path_separator(t[dot - 1])
  BY <1>2, Zenon
<1>4. \E i \in 1..Len(t) : t[i] = Period
  BY <1>1, <1>3 DEF dot
<1>5. PICK i \in S : \A j \in i + 1..Len(t) : j \notin S
  <2>1. S # {} /\ S \in SUBSET (1..Len(t))
    BY <1>4
  <2> HIDE DEF S
  <2> QED BY <1>1, <2>1, LastPlace
<1>6. i \in DOMAIN t /\ t[i] = Period /\ \A j \in i + 1..Len(t) : ~(t[j] = Period)
  BY <1>1, <1>5
<1>7. dot \in DOMAIN t /\ t[dot] = Period /\ \A j \in dot + 1..Len(t) : ~(t[j] = Period)
  BY <1>1, <1>4, <1>6, Zenon DEF dot
<1>8. dot \in 2..Len(t) - 1
  BY <1>1, <1>3, <1>7
<1> QED BY <1>3, <1>7, <1>8

\* What path_find_file_name finds: the first character behind the last separator.
LEMMA FileNameIs ==
  ASSUME NEW t \in Seq(Chars), FindFileName(t) # NoPointer
  PROVE  LET name == FindFileName(t)
         IN  /\ name \in 1..Len(t)
             /\ name = 1 \/ is_path_separator(t[name - 1])
             /\ \A j \in name..Len(t) : ~is_path_separator(t[j])
<1> DEFINE sep == LastOf(t, is_path_separator)
<1>1. /\ sep \in 0..Len(t)
      /\ sep # 0 => is_path_separator(t[sep])
      /\ \A j \in sep + 1..Len(t) : ~is_path_separator(t[j])
  BY LastSeparatorIs
<1>2. FindFileName(t) = IF t = <<>> \/ sep = Len(t) THEN NoPointer ELSE sep + 1
  BY DEF FindFileName
<1> HIDE DEF sep
<1>3. FindFileName(t) = sep + 1 /\ sep # Len(t) /\ Len(t) \in Nat
  BY <1>2
<1>4. sep + 1 \in 1..Len(t) /\ (sep + 1) - 1 = sep
  BY <1>1, <1>3
<1> QED BY <1>1, <1>3, <1>4

\* It is where the last component starts.
LEMMA NameIsLastComponent ==
  ASSUME NEW t \in Seq(Chars), NEW name \in 1..Len(t),
         name = 1 \/ is_path_separator(t[name - 1]),
         \A j \in name..Len(t) : ~is_path_separator(t[j])
  PROVE  Components(t)[Len(Components(t))] = SubSeq(t, name, Len(t))
<1> DEFINE last == SubSeq(t, name, Len(t))
           C(i) == ComponentsFrom(t)[i]
           S == {i \in 1..name : C(i) # <<>> /\ C(i)[Len(C(i))] = last}
<1>1. Len(t) \in Nat /\ name \in Nat /\ name \in 1..Len(t) + 1
  OBVIOUS
<1>2. last \in Names
  <2>1. Len(t) \in name - 1..Len(t) /\ Len(t) - name + 1 >= 1
    BY <1>1
  <2>2. last \in Seq(Chars) /\ Len(last) = Len(t) - name + 1
    BY <1>1, <2>1, PartIs
  <2> HIDE DEF last
  <2> QED BY <2>1, <2>2 DEF Names
<1>3. ASSUME NEW i \in 1..name, \A j \in i + 1..name : j \in S
      PROVE  i \in S
  <2> DEFINE a == SkipSeparators(t, i)
             e == SkipSegment(t, a)
             r == SkipSeparators(t, e)
  <2>1. i \in 1..Len(t) + 1 /\ i \in Nat
    BY <1>1
  <2>2. /\ a \in i..Len(t) + 1
        /\ \A k \in i..a - 1 : is_path_separator(t[k])
        /\ a <= Len(t) => ~is_path_separator(t[a])
    BY <2>1, SkipSeparatorsIs
  <2>3. a <= name
    <3> HIDE DEF a
    <3> SUFFICES ASSUME ~(a <= name) PROVE FALSE
      OBVIOUS
    <3>1. name \in i..a - 1 /\ name \in name..Len(t)
      BY <1>1, <2>1, <2>2
    <3> QED BY <2>2, <3>1
  <2>4. a <= Len(t) /\ a \in 1..Len(t) + 1 /\ ~(a > Len(t))
    <3> HIDE DEF a
    <3> QED BY <1>1, <2>1, <2>2, <2>3
  <2>5. e \in a + 1..Len(t) + 1 /\ r \in e..Len(t) + 1
    BY <2>1, <2>4, NextPlace
  <2>6. C(i) = <<SubSeq(t, a, e - 1)>> \o C(r)
    BY <2>1, <2>4, ComponentsFromIs
  <2>7. /\ \A k \in a..e - 1 : ~is_path_separator(t[k])
        /\ e <= Len(t) => is_path_separator(t[e])
    BY <2>4, SkipSegmentIs
  <2>8. e \in 1..Len(t) + 1 /\ r \in 1..Len(t) + 1
    <3> HIDE DEF a, e, r
    <3> QED BY <2>4, <2>5
  <2>9. C(r) \in Seq(Names)
    <3> HIDE DEF r
    <3> QED BY <2>8, ComponentsAreNames
  <2>10. CASE a = name
    <3>1. e = Len(t) + 1
      <4> HIDE DEF e, r
      <4> SUFFICES ASSUME e # Len(t) + 1 PROVE FALSE
        OBVIOUS
      <4>1. e <= Len(t) /\ e \in name..Len(t)
        BY <1>1, <2>5, <2>10
      <4> QED BY <2>7, <4>1
    <3>2. r = Len(t) + 1
      <4> HIDE DEF e, r
      <4> QED BY <1>1, <2>5, <3>1
    <3>3. C(r) = <<>> /\ e - 1 = Len(t)
      BY <1>1, <3>1, <3>2, ComponentsEnd
    <3> HIDE DEF a, e, r, S
    <3>4. C(i) = <<last>>
      <4>1. <<last>> \o <<>> = <<last>>
        OBVIOUS
      <4> QED BY <2>6, <2>10, <3>3, <4>1
    <3>5. C(i) # <<>> /\ C(i)[Len(C(i))] = last
      <4> HIDE DEF C, last
      <4> QED BY <3>4
    <3> QED BY <3>5 DEF S
  <2>11. CASE a # name
    <3> HIDE DEF a, e
    <3>1. name - 1 \in a..Len(t) /\ is_path_separator(t[name - 1])
      BY <1>1, <2>1, <2>2, <2>3, <2>11
    <3>2. e <= name - 1
      <4> SUFFICES ASSUME ~(e <= name - 1) PROVE FALSE
        OBVIOUS
      <4>1. name - 1 \in a..e - 1
        BY <1>1, <2>5, <3>1
      <4> QED BY <2>7, <3>1, <4>1
    <3>3. /\ r \in e..Len(t) + 1
          /\ \A k \in e..r - 1 : is_path_separator(t[k])
      BY <2>8, SkipSeparatorsIs
    <3> HIDE DEF r
    <3>4. r <= name
      <4> SUFFICES ASSUME ~(r <= name) PROVE FALSE
        OBVIOUS
      <4>1. name \in e..r - 1 /\ name \in name..Len(t)
        BY <1>1, <2>8, <3>2, <3>3
      <4> QED BY <3>3, <4>1
    <3>5. r \in i + 1..name
      BY <1>1, <2>1, <2>2, <2>5, <3>4
    <3>6. C(r) # <<>> /\ C(r)[Len(C(r))] = last
      BY <1>3, <3>5
    <3>7. SubSeq(t, a, e - 1) \in Names
      <4>1. e - 1 \in a - 1..Len(t) /\ (e - 1) - a + 1 >= 1
        BY <1>1, <2>4, <2>5
      <4>2. SubSeq(t, a, e - 1) \in Seq(Chars) /\ Len(SubSeq(t, a, e - 1)) = (e - 1) - a + 1
        BY <2>4, <4>1, PartIs
      <4> QED BY <4>1, <4>2 DEF Names
    <3> DEFINE first == SubSeq(t, a, e - 1)
    <3> HIDE DEF first
    <3>8. /\ <<first>> \o C(r) \in Seq(Names)
          /\ Len(<<first>> \o C(r)) = Len(C(r)) + 1
          /\ \A k \in 2..Len(C(r)) + 1 : (<<first>> \o C(r))[k] = C(r)[k - 1]
      BY <2>9, <3>7, ConsOf DEF first
    <3>9. C(i) = <<first>> \o C(r)
      BY <2>6 DEF first
    <3> HIDE DEF C, last, S
    <3>10. Len(C(i)) \in 2..Len(C(r)) + 1 /\ Len(C(i)) - 1 = Len(C(r)) /\ C(i) # <<>>
      BY <2>9, <3>6, <3>8, <3>9
    <3>11. C(i)[Len(C(i))] = last
      BY <3>6, <3>8, <3>9, <3>10
    <3> QED BY <3>10, <3>11 DEF S
  <2> QED BY <2>10, <2>11
<1>4. S = 1..name
  <2>1. S \in SUBSET (1..name)
    OBVIOUS
  <2> HIDE DEF S
  <2> QED BY <1>1, <1>3, <2>1, BackwardInduction
<1>5. 1 \in S
  BY <1>1, <1>4
<1> QED BY <1>5 DEF Components

\* The file name is the last component, and the extension of a path with periods only in its
\* last component is in it.
THEOREM NamesAreComponents == Spec => []NameAndExtension
<1>1. ASSUME IInv PROVE NameAndExtension
  <2> DEFINE t == Contents
             name == FindFileName(t)
             ext == FindExtension(t)
  <2>1. t \in Seq(Chars)
    BY <1>1, IInvIs, TextIs DEF Contents, Paths
  <2> HIDE DEF t
  <2>2. SUFFICES ASSUME name # NoPointer
        PROVE  /\ SubSeq(t, name, Len(t)) = Components(t)[Len(Components(t))]
               /\ ext # NoPointer /\ (\A i \in 1..name - 1 : t[i] # Period) =>
                    /\ ext > name
                    /\ ext < Len(t)
                    /\ \A i \in ext + 1..Len(t) : t[i] \in Letters
    BY DEF NameAndExtension, t
  <2>3. /\ name \in 1..Len(t)
        /\ name = 1 \/ is_path_separator(t[name - 1])
        /\ \A j \in name..Len(t) : ~is_path_separator(t[j])
    BY <2>1, <2>2, FileNameIs
  <2> HIDE DEF name
  <2>4. SubSeq(t, name, Len(t)) = Components(t)[Len(Components(t))]
    BY <2>1, <2>3, NameIsLastComponent
  <2>5. ASSUME ext # NoPointer, \A i \in 1..name - 1 : t[i] # Period
        PROVE  /\ ext > name
               /\ ext < Len(t)
               /\ \A i \in ext + 1..Len(t) : t[i] \in Letters
    <3>1. /\ ext \in 2..Len(t) - 1
          /\ t[ext] = Period
          /\ ~is_path_separator(t[ext - 1])
          /\ \A j \in ext + 1..Len(t) : t[j] # Period
      BY <2>1, <2>5, ExtensionIs
    <3> HIDE DEF ext
    <3>2. Len(t) \in Nat /\ ext \in Nat /\ name \in Nat
      BY <2>1, <2>3, <3>1
    <3>3. ~(ext < name)
      <4> SUFFICES ASSUME ext < name PROVE FALSE
        OBVIOUS
      <4>1. ext \in 1..name - 1
        BY <3>1, <3>2
      <4> QED BY <2>5, <3>1, <4>1
    <3>4. ext # name
      BY <2>3, <3>1
    <3>5. ASSUME NEW i \in ext + 1..Len(t) PROVE t[i] \in Letters
      <4>1. i \in 1..Len(t) /\ i \in name..Len(t)
        BY <3>2, <3>3
      <4>2. t[i] \in Chars /\ ~is_path_separator(t[i]) /\ t[i] # Period
        BY <2>1, <2>3, <3>1, <4>1
      <4> QED BY <4>2 DEF Chars, is_path_separator
    <3> QED BY <3>1, <3>2, <3>3, <3>4, <3>5
  <2> QED BY <2>4, <2>5
<1>2. IInv => NameAndExtension
  BY <1>1
<1> QED BY InitIInv, IInvStep, <1>2, PTL DEF Spec

-----------------------------------------------------------------------------
(***************************************************************************)
(* Descendants                                                             *)
(***************************************************************************)

\* How many backslashes a clean path has in front.
LEMMA DeduplicatedLead ==
  ASSUME NEW n \in Seq(Chars), SkipSeparators(n, 1) <= Len(n),
         \A i \in 1..Len(n) : n[i] # Slash
  PROVE  LET w == WithoutDuplicates(n)
         IN  SkipSeparators(w, 1) = Lead(n) + 1 /\ Lead(n) + 1 <= Len(w)
<1> DEFINE m == SkipSeparators(n, 1)
           w == WithoutDuplicates(n)
<1>1. Len(n) \in Nat /\ 1 \in 1..Len(n) + 1
  OBVIOUS
<1>2. /\ m \in 1..Len(n)
      /\ \A k \in 1..m - 1 : is_path_separator(n[k])
      /\ ~is_path_separator(n[m])
  BY <1>1, SkipSeparatorsIs
<1>3. Lead(n) = IF m > 2 THEN 2 ELSE m - 1
  BY DEF Lead
<1>4. w \in Seq(Chars) /\ Len(w) >= 1 /\ w[1] = n[1]
  BY <1>1, <1>2, WithoutDuplicatesIs
<1>5. \A r \in 1..Len(n) : Copied(n)[r] = <<n[r]>> \o Copied(n)[IF is_path_separator(n[r])
                                                              THEN SkipSeparators(n, r + 1)
                                                              ELSE r + 1]
  BY CopiedIs
<1>6. \A r \in 1..Len(n) + 1 : CopyIsRight(n, r, Copied(n)[r])
  BY CopiedIsRight
<1>7. is_path_separator(Backslash) /\ Backslash \in Chars
      /\ \A k \in 1..Len(n) : is_path_separator(n[k]) => n[k] = Backslash
  BY DEF is_path_separator, Chars
<1> HIDE DEF m
<1>8. CASE m = 1
  <2> HIDE DEF w
  <2>1. ~is_path_separator(w[1]) /\ 1 \in 1..Len(w) + 1
    BY <1>2, <1>4, <1>8
  <2>2. SkipSeparators(w, 1) = 1
    <3>1. \A k \in 1..1 - 1 : is_path_separator(w[k])
      OBVIOUS
    <3> QED BY <1>4, <2>1, <3>1, SkipSeparatorsOnly
  <2> QED BY <1>3, <1>4, <1>8, <2>2 DEF w
<1>9. CASE m = 2
  <2> DEFINE d == Copied(n)[2]
  <2>1. is_path_separator(n[1]) /\ ~is_path_separator(n[2]) /\ 2 \in 1..Len(n) /\ n[1] \in Chars
    BY <1>1, <1>2, <1>9
  <2>2. SkipSeparators(n, 1 + 1) = 2
    <3>1. 2 \in 2..Len(n) + 1 /\ 2 \in 1..Len(n) + 1 /\ \A k \in 2..2 - 1 : is_path_separator(n[k])
      BY <1>1, <2>1
    <3> QED BY <2>1, <3>1, SkipSeparatorsOnly
  <2>3. w = <<n[1]>> \o d
    <3>1. 1 \in 1..Len(n)
      BY <1>1, <2>1
    <3>2. Copied(n)[1] = <<n[1]>> \o d
      BY <1>5, <2>1, <2>2, <3>1
    <3>3. n[2] # Backslash
      BY <1>7, <2>1
    <3> QED BY <3>2, <3>3 DEF WithoutDuplicates
  <2>4. d \in Seq(Chars) /\ Len(d) >= 1 /\ d[1] = n[2]
    BY <1>1, <1>6, <2>1 DEF CopyIsRight
  <2> HIDE DEF d, w
  <2>5. Len(w) = Len(d) + 1 /\ w[2] = d[2 - 1]
    <3>1. 2 \in 2..Len(d) + 1
      BY <2>4
    <3> QED BY <2>1, <2>3, <2>4, <3>1, Cons
  <2>6. SkipSeparators(w, 1) = 2
    <3>1. 2 \in 1..Len(w) + 1 /\ 1 \in 1..Len(w) + 1
          /\ \A k \in 1..2 - 1 : is_path_separator(w[k])
      BY <1>4, <2>1, <2>4, <2>5
    <3>2. ~is_path_separator(w[2])
      BY <2>1, <2>4, <2>5
    <3> QED BY <1>4, <3>1, <3>2, SkipSeparatorsOnly
  <2>7. 2 <= Len(w) /\ Lead(n) + 1 = 2
    BY <1>3, <1>9, <2>4, <2>5
  <2> QED BY <2>6, <2>7 DEF w
<1>10. CASE m > 2
  <2> DEFINE c == Copied(n)[2]
             d == Copied(n)[m]
  <2>1. /\ 1 \in 1..m - 1 /\ 2 \in 1..m - 1 /\ 1 \in 1..Len(n) /\ 2 \in 1..Len(n)
        /\ m \in 1..Len(n) + 1
    BY <1>1, <1>2, <1>10
  <2>2. is_path_separator(n[1]) /\ is_path_separator(n[2]) /\ n[1] = Backslash /\ n[2] = Backslash
    BY <1>2, <1>7, <2>1
  <2>3. SkipSeparators(n, 2 + 1) = m
    <3>1. 3 \in 1..Len(n) + 1 /\ m \in 3..Len(n) + 1
          /\ \A k \in 3..m - 1 : is_path_separator(n[k])
      BY <1>1, <1>2, <1>10
    <3> QED BY <1>2, <3>1, SkipSeparatorsOnly
  <2>4. c = <<Backslash>> \o d
    BY <1>5, <2>1, <2>2, <2>3
  <2>5. w = <<Backslash>> \o c
    <3>1. Len(n) >= 2
      BY <1>1, <2>1
    <3> QED BY <2>2, <3>1 DEF WithoutDuplicates
  <2>6. d \in Seq(Chars) /\ Len(d) >= 1 /\ d[1] = n[m]
    <3>1. CopyIsRight(n, m, d) /\ m <= Len(n)
      BY <1>1, <1>2, <1>6, <2>1
    <3> HIDE DEF d
    <3> QED BY <3>1 DEF CopyIsRight
  <2> HIDE DEF c, d, w
  <2>7. c \in Seq(Chars) /\ Len(c) = Len(d) + 1 /\ c[1] = Backslash /\ c[2] = d[2 - 1]
    <3>1. 2 \in 2..Len(d) + 1
      BY <2>6
    <3> QED BY <1>7, <2>4, <2>6, <3>1, Cons
  <2>8. Len(w) = Len(c) + 1 /\ w[1] = Backslash /\ w[2] = c[2 - 1] /\ w[3] = c[3 - 1]
    <3>1. 2 \in 2..Len(c) + 1 /\ 3 \in 2..Len(c) + 1
      BY <2>6, <2>7
    <3> QED BY <1>7, <2>5, <2>7, <3>1, Cons
  <2>9. SkipSeparators(w, 1) = 3
    <3>1. 3 \in 1..Len(w) + 1 /\ 1 \in 1..Len(w) + 1
      BY <1>4, <2>6, <2>7, <2>8
    <3>2. ASSUME NEW k \in 1..3 - 1 PROVE is_path_separator(w[k])
      <4>1. k = 1 \/ k = 2
        OBVIOUS
      <4> QED BY <1>7, <2>7, <2>8, <4>1
    <3>3. ~is_path_separator(w[3])
      BY <1>2, <2>6, <2>7, <2>8
    <3> QED BY <1>4, <3>1, <3>2, <3>3, SkipSeparatorsOnly
  <2>10. 3 <= Len(w) /\ Lead(n) + 1 = 3
    BY <1>3, <1>10, <2>6, <2>7, <2>8
  <2> QED BY <2>9, <2>10 DEF w
<1> QED BY <1>2, <1>8, <1>9, <1>10

LEMMA CleanLead ==
  ASSUME NEW t \in Seq(Chars), Components(t) # <<>>
  PROVE  /\ SkipSeparators(Tidy(t), 1) = Lead(Normalized(t)) + 1
         /\ Lead(Normalized(t)) + 1 \in 1..Len(Tidy(t))
<1> DEFINE n == Normalized(t)
           w == WithoutDuplicates(n)
           c == WithoutTrailing(w)
           a == SkipSeparators(w, 1)
<1>1. n \in Seq(Chars) /\ (\A i \in 1..Len(n) : n[i] # Slash) /\ Components(n) # <<>>
  BY NormalizedIs, NormalizedComponents
<1> HIDE DEF n
<1>2. Len(n) \in Nat /\ 1 \in 1..Len(n) + 1 /\ SkipSeparators(n, 1) \in 1..Len(n) + 1
  BY <1>1, SkipSeparatorsIs
<1>3. SkipSeparators(n, 1) <= Len(n)
  BY <1>1, <1>2, ComponentsAreNames DEF Components
<1>4. a = Lead(n) + 1 /\ a <= Len(w)
  BY <1>1, <1>3, DeduplicatedLead
<1>5. w \in Seq(Chars)
  BY <1>1, WithoutDuplicatesIs
<1> HIDE DEF w
<1>6. /\ c \in Seq(Chars) /\ \A i \in 1..Len(c) : c[i] = w[i]
      /\ HasTrailingSeparator(w) => Len(c) = Len(w) - 1 /\ Len(w) >= 1
      /\ ~HasTrailingSeparator(w) => c = w
  BY <1>5, WithoutTrailingIs
<1> HIDE DEF c
<1>7. /\ a \in 1..Len(w) /\ Len(w) \in Nat /\ Len(c) \in Nat
      /\ \A k \in 1..a - 1 : is_path_separator(w[k])
      /\ ~is_path_separator(w[a])
  <2>1. 1 \in 1..Len(w) + 1 /\ Len(w) \in Nat
    BY <1>5
  <2>2. a \in 1..Len(w) + 1
        /\ (\A k \in 1..a - 1 : is_path_separator(w[k]))
        /\ (a <= Len(w) => ~is_path_separator(w[a]))
    BY <1>5, <2>1, SkipSeparatorsIs
  <2> HIDE DEF a
  <2> QED BY <1>4, <1>6, <2>1, <2>2
<1> HIDE DEF a
<1>8. a \in 1..Len(c)
  <2>1. HasTrailingSeparator(w) => a # Len(w)
    BY <1>7 DEF HasTrailingSeparator
  <2> QED BY <1>6, <1>7, <2>1
<1>9. SkipSeparators(c, 1) = a
  <2>1. 1 \in 1..Len(c) + 1 /\ a \in 1..Len(c) + 1 /\ ~is_path_separator(c[a])
    BY <1>6, <1>7, <1>8
  <2>2. ASSUME NEW k \in 1..a - 1 PROVE is_path_separator(c[k])
    <3>1. k \in 1..Len(c)
      BY <1>7, <1>8
    <3> QED BY <1>6, <1>7, <3>1
  <2> QED BY <1>6, <2>1, <2>2, SkipSeparatorsOnly
<1> QED BY <1>4, <1>8, <1>9 DEF Tidy, c, w, n

\* In a clean path a component goes to the end or to a backslash with the next behind it.
LEMMA CleanSegment ==
  ASSUME NEW x, IsClean(x), NEW i \in 1..Len(x), ~is_path_separator(x[i])
  PROVE  \E e \in i + 1..Len(x) + 1 :
           LET rest == ComponentsFrom(x)[IF e > Len(x) THEN e ELSE e + 1]
           IN  /\ ComponentsFrom(x)[i] = <<SubSeq(x, i, e - 1)>> \o rest
               /\ rest \in Seq(Names)
               /\ e > Len(x) <=> rest = <<>>
               /\ e <= Len(x) => /\ e + 1 \in i + 1..Len(x)
                                 /\ x[e] = Backslash
                                 /\ ~is_path_separator(x[e + 1])
<1> DEFINE e == SkipSegment(x, i)
           r == SkipSeparators(x, e)
<1>1. x \in Seq(Chars) /\ Len(x) \in Nat /\ ~is_path_separator(x[Len(x)]) /\ i \in 1..Len(x) + 1
  BY DEF IsClean
<1>2. SkipSeparators(x, i) = i
  <2>1. i \in i..Len(x) + 1 /\ \A k \in i..i - 1 : is_path_separator(x[k])
    BY <1>1
  <2> QED BY <1>1, <2>1, SkipSeparatorsOnly
<1>3. e \in i + 1..Len(x) + 1 /\ r \in e..Len(x) + 1
  <2>1. SkipSeparators(x, i) <= Len(x)
    BY <1>1, <1>2
  <2> QED BY <1>1, <1>2, <2>1, NextPlace
<1>4. ComponentsFrom(x)[i] = <<SubSeq(x, i, e - 1)>> \o ComponentsFrom(x)[r]
  <2>1. ~(i > Len(x))
    BY <1>1
  <2> QED BY <1>1, <1>2, <2>1, ComponentsFromIs
<1>5. e <= Len(x) => is_path_separator(x[e])
  BY <1>1, SkipSegmentIs
<1> HIDE DEF e
<1>6. e \in 1..Len(x) + 1
  BY <1>1, <1>3
<1>7. /\ \A k \in e..r - 1 : is_path_separator(x[k])
      /\ r <= Len(x) => ~is_path_separator(x[r])
  BY <1>1, <1>6, SkipSeparatorsIs
<1> HIDE DEF r
<1> DEFINE rest == ComponentsFrom(x)[r]
<1>8. r \in 1..Len(x) + 1
  BY <1>1, <1>3, <1>6
<1>9. rest \in Seq(Names)
  BY <1>1, <1>8, ComponentsAreNames
<1>10. SkipSeparators(x, r) = r
  <2>1. r \in r..Len(x) + 1 /\ \A k \in r..r - 1 : is_path_separator(x[k])
    BY <1>1, <1>8
  <2> QED BY <1>1, <1>7, <1>8, <2>1, SkipSeparatorsOnly
<1>11. rest = <<>> <=> r > Len(x)
  BY <1>1, <1>8, <1>10, ComponentsAreNames
<1> HIDE DEF rest
<1>12. CASE e > Len(x)
  <2>1. e = Len(x) + 1 /\ r = e
    BY <1>1, <1>3, <1>6, <1>12
  <2>2. ~(e <= Len(x)) /\ r > Len(x)
    BY <1>1, <2>1
  <2>3. rest = <<>> /\ ComponentsFrom(x)[IF e > Len(x) THEN e ELSE e + 1] = rest
    BY <1>11, <1>12, <2>1, <2>2 DEF rest
  <2>4. ComponentsFrom(x)[i] = <<SubSeq(x, i, e - 1)>> \o rest
    BY <1>4 DEF rest
  <2> QED BY <1>3, <1>9, <1>12, <2>2, <2>3, <2>4
<1>13. CASE ~(e > Len(x))
  <2>1. e \in 2..Len(x) /\ is_path_separator(x[e]) /\ e # Len(x)
    BY <1>1, <1>3, <1>5, <1>13
  <2>2. e \in 2..Len(x) - 1 /\ e + 1 \in i + 1..Len(x) /\ e \in 1..Len(x)
    BY <1>1, <1>3, <2>1
  <2>3. ~is_path_separator(x[e + 1]) /\ x[e] = Backslash
    BY <2>1, <2>2 DEF IsClean, is_path_separator
  <2>4. r = e + 1
    <3>1. r # e
      <4>1. e <= Len(x)
        BY <1>1, <2>1
      <4> QED BY <1>7, <2>1, <4>1
    <3>2. ~(r > e + 1)
      <4> SUFFICES ASSUME r > e + 1 PROVE FALSE
        OBVIOUS
      <4>1. e + 1 \in e..r - 1
        BY <1>6, <1>8
      <4> QED BY <1>7, <2>3, <4>1
    <3> QED BY <1>3, <1>6, <1>8, <3>1, <3>2
  <2>5. rest # <<>> /\ ComponentsFrom(x)[IF e > Len(x) THEN e ELSE e + 1] = rest
    <3>1. ~(r > Len(x))
      BY <1>1, <2>2, <2>4
    <3> QED BY <1>11, <1>13, <2>4, <3>1 DEF rest
  <2>6. ComponentsFrom(x)[i] = <<SubSeq(x, i, e - 1)>> \o rest
    BY <1>4 DEF rest
  <2> QED BY <1>3, <1>9, <1>13, <2>2, <2>3, <2>5, <2>6
<1> QED BY <1>12, <1>13

\* One list of names goes on where the other ends.
Longer(names, more) ==
  Len(names) < Len(more) /\ \A n \in 1..Len(names) : names[n] = more[n]

LEMMA LongerCons ==
  ASSUME NEW a \in Names, NEW b \in Names, NEW p \in Seq(Names), NEW q \in Seq(Names),
         Longer(<<a>> \o p, <<b>> \o q)
  PROVE  a = b /\ Longer(p, q)
<1> DEFINE c == <<a>> \o p
           d == <<b>> \o q
<1>1. Len(c) = Len(p) + 1 /\ c[1] = a /\ \A i \in 2..Len(p) + 1 : c[i] = p[i - 1]
  BY ConsOf
<1>2. Len(d) = Len(q) + 1 /\ d[1] = b /\ \A i \in 2..Len(q) + 1 : d[i] = q[i - 1]
  BY ConsOf
<1>3. Len(c) < Len(d) /\ \A n \in 1..Len(c) : c[n] = d[n]
  BY DEF Longer
<1> HIDE DEF c, d
<1>4. Len(p) \in Nat /\ Len(q) \in Nat
  OBVIOUS
<1>5. a = b /\ Len(p) < Len(q)
  <2>1. 1 \in 1..Len(c)
    BY <1>1, <1>4
  <2> QED BY <1>1, <1>2, <1>3, <1>4, <2>1
<1>6. ASSUME NEW n \in 1..Len(p) PROVE p[n] = q[n]
  <2>1. n + 1 \in 2..Len(p) + 1 /\ n + 1 \in 2..Len(q) + 1 /\ n + 1 \in 1..Len(c)
        /\ (n + 1) - 1 = n
    BY <1>1, <1>4, <1>5
  <2> QED BY <1>1, <1>2, <1>3, <2>1
<1> QED BY <1>5, <1>6 DEF Longer

\* One text goes on where the other ends.
Continues(x, y) == Len(x) < Len(y) /\ \A k \in 1..Len(x) : x[k] = y[k]

\* Two clean paths are the same up to a place where a component starts in each, and from there
\* the second has the components of the first and more.
Matching(x, y, i) ==
  /\ i <= Len(y)
  /\ \A k \in 1..i - 1 : x[k] = y[k]
  /\ ~is_path_separator(x[i]) /\ ~is_path_separator(y[i])
  /\ Longer(ComponentsFrom(x)[i], ComponentsFrom(y)[i])

\* Then the second continues the first, or they match up to the next component.
LEMMA MatchingStep ==
  ASSUME NEW x, NEW y, IsClean(x), IsClean(y), NEW i \in 1..Len(x), Matching(x, y, i)
  PROVE  Continues(x, y) \/ \E j \in i + 1..Len(x) : Matching(x, y, j)
<1>1. /\ x \in Seq(Chars) /\ y \in Seq(Chars) /\ Len(x) \in Nat /\ Len(y) \in Nat
      /\ i \in 1..Len(y) /\ ~is_path_separator(x[i]) /\ ~is_path_separator(y[i])
  BY DEF IsClean, Matching
<1> DEFINE X(e) == ComponentsFrom(x)[IF e > Len(x) THEN e ELSE e + 1]
           Y(e) == ComponentsFrom(y)[IF e > Len(y) THEN e ELSE e + 1]
<1>2. PICK e \in i + 1..Len(x) + 1 :
        /\ ComponentsFrom(x)[i] = <<SubSeq(x, i, e - 1)>> \o X(e)
        /\ X(e) \in Seq(Names)
        /\ e > Len(x) <=> X(e) = <<>>
        /\ e <= Len(x) => e + 1 \in i + 1..Len(x) /\ x[e] = Backslash
                          /\ ~is_path_separator(x[e + 1])
  BY <1>1, CleanSegment
<1>3. PICK f \in i + 1..Len(y) + 1 :
        /\ ComponentsFrom(y)[i] = <<SubSeq(y, i, f - 1)>> \o Y(f)
        /\ Y(f) \in Seq(Names)
        /\ f > Len(y) <=> Y(f) = <<>>
        /\ f <= Len(y) => f + 1 \in i + 1..Len(y) /\ y[f] = Backslash
                          /\ ~is_path_separator(y[f + 1])
  BY <1>1, CleanSegment
<1> DEFINE a == SubSeq(x, i, e - 1)
           b == SubSeq(y, i, f - 1)
<1>4. e - 1 \in i - 1..Len(x) /\ f - 1 \in i - 1..Len(y) /\ i \in 1..Len(x) + 1
      /\ i \in 1..Len(y) + 1 /\ (e - 1) - i + 1 = e - i /\ (f - 1) - i + 1 = f - i
      /\ e - i >= 1 /\ f - i >= 1 /\ e \in Nat /\ f \in Nat /\ i \in Nat
  BY <1>1
<1>5. a \in Seq(Chars) /\ Len(a) = e - i /\ \A k \in 1..e - i : a[k] = x[i + k - 1]
  BY <1>1, <1>4, PartIs
<1>6. b \in Seq(Chars) /\ Len(b) = f - i /\ \A k \in 1..f - i : b[k] = y[i + k - 1]
  BY <1>1, <1>4, PartIs
<1> HIDE DEF a, b, X, Y
<1>7. a \in Names /\ b \in Names
  BY <1>4, <1>5, <1>6 DEF Names
<1>8. a = b /\ Longer(X(e), Y(f))
  <2>1. Longer(<<a>> \o X(e), <<b>> \o Y(f))
    BY <1>2, <1>3 DEF Matching, a, b
  <2> QED BY <1>2, <1>3, <1>7, <2>1, LongerCons
<1>9. e = f
  BY <1>4, <1>5, <1>6, <1>8
<1>10. ASSUME NEW k \in 1..e - 1 PROVE x[k] = y[k]
  <2>1. CASE k < i
    <3>1. k \in 1..i - 1
      BY <1>4, <2>1
    <3> QED BY <3>1 DEF Matching
  <2>2. CASE ~(k < i)
    <3>1. k - i + 1 \in 1..e - i /\ k - i + 1 \in 1..f - i /\ i + (k - i + 1) - 1 = k
      BY <1>4, <1>9, <2>2
    <3> QED BY <1>5, <1>6, <1>8, <3>1
  <2> QED BY <2>1, <2>2
<1>11. f <= Len(y)
  <2>1. Y(f) # <<>>
    BY <1>2, <1>3, <1>8 DEF Longer
  <2> QED BY <1>1, <1>3, <1>4, <2>1
<1>12. CASE e > Len(x)
  <2>1. e = Len(x) + 1
    BY <1>1, <1>4, <1>12
  <2> QED BY <1>1, <1>4, <1>9, <1>10, <1>11, <2>1 DEF Continues
<1>13. CASE ~(e > Len(x))
  <2>1. e <= Len(x)
    BY <1>1, <1>4, <1>13
  <2>2. /\ e + 1 \in i + 1..Len(x) /\ e + 1 <= Len(y) /\ x[e] = y[e]
        /\ ~is_path_separator(x[e + 1]) /\ ~is_path_separator(y[e + 1])
    BY <1>1, <1>2, <1>3, <1>4, <1>9, <1>11, <2>1
  <2>3. ASSUME NEW k \in 1..(e + 1) - 1 PROVE x[k] = y[k]
    <3>1. k \in 1..e - 1 \/ k = e
      BY <1>4
    <3> QED BY <1>10, <2>2, <3>1
  <2>4. ~(f > Len(y))
    BY <1>1, <1>4, <1>11
  <2>5. Longer(ComponentsFrom(x)[e + 1], ComponentsFrom(y)[e + 1])
    BY <1>8, <1>9, <1>13, <2>4 DEF X, Y
  <2>6. Matching(x, y, e + 1)
    BY <2>2, <2>3, <2>5 DEF Matching
  <2> QED BY <2>2, <2>6
<1> QED BY <1>12, <1>13

LEMMA MatchingContinues ==
  ASSUME NEW x, NEW y, IsClean(x), IsClean(y), NEW i \in 1..Len(x), Matching(x, y, i)
  PROVE  Continues(x, y)
<1> DEFINE S == {k \in 1..Len(x) : Matching(x, y, k) => Continues(x, y)}
<1>1. Len(x) \in Nat
  BY DEF IsClean
<1>2. ASSUME NEW k \in 1..Len(x), \A j \in k + 1..Len(x) : j \in S
      PROVE  k \in S
  BY <1>2, MatchingStep
<1>3. S = 1..Len(x)
  <2>1. S \in SUBSET (1..Len(x))
    OBVIOUS
  <2> HIDE DEF S
  <2> QED BY <1>1, <1>2, <2>1, BackwardInduction
<1> QED BY <1>3

\* path_is_descendant finds a path below another, both of any length and with whatever
\* separators they are written, where Windows finds nothing to simplify in them.
THEOREM BelowIsDescendant ==
  ASSUME NEW t \in Texts, NEW u \in Texts, IsCanonical(t), IsCanonical(u),
         Components(u) # <<>>, Lead(Normalized(t)) = Lead(Normalized(u)), IsBelow(t, u)
  PROVE  IsDescendant(t, u)
<1>0. /\ t \in Seq(Chars) /\ Len(t) < Capacity
      /\ u \in Seq(Chars) /\ Len(u) < Capacity
  BY TextsAre
<1> DEFINE x == Tidy(u)
           y == Tidy(t)
           i == Lead(Normalized(u)) + 1
<1>1. Components(t) \in Seq(Names) /\ Components(u) \in Seq(Names)
  <2>1. 1 \in 1..Len(t) + 1 /\ 1 \in 1..Len(u) + 1
    BY <1>0
  <2> QED BY <1>0, <2>1, ComponentsAreNames DEF Components
<1>2. Components(t) # <<>> /\ Longer(Components(u), Components(t))
  BY <1>1 DEF IsBelow, Longer
<1>3. t # <<>> /\ u # <<>>
  <2>1. \A v \in Seq(Chars) : v = <<>> => Components(v) = <<>>
    <3> SUFFICES ASSUME NEW v \in Seq(Chars), v = <<>> PROVE Components(v) = <<>>
      OBVIOUS
    <3>1. \A k \in 1..Len(v) : is_path_separator(v[k])
      OBVIOUS
    <3> QED BY <3>1, SeparatorsName
  <2> QED BY <1>0, <1>2, <2>1
<1>4. IsClean(x) /\ IsClean(y)
  BY <1>0, <1>2, TidyIsClean
<1>5. /\ SkipSeparators(x, 1) = i /\ i \in 1..Len(x)
      /\ SkipSeparators(y, 1) = i /\ i \in 1..Len(y)
  BY <1>0, <1>2, CleanLead
<1>6. Components(x) = Components(u) /\ Components(y) = Components(t)
  BY <1>0, TidyComponents
<1>13. Cleaned(u) = x /\ Cleaned(t) = y
  BY <1>0, CleanedIsTidy
<1> HIDE DEF x, y, i
<1>7. /\ x \in Seq(Chars) /\ y \in Seq(Chars) /\ x # <<>> /\ y # <<>>
      /\ Len(x) \in Nat /\ Len(y) \in Nat /\ ~HasTrailingSeparator(x)
  BY <1>4 DEF IsClean, HasTrailingSeparator
<1>8. Matching(x, y, i)
  <2>1. 1 \in 1..Len(x) + 1 /\ 1 \in 1..Len(y) + 1 /\ i <= Len(x) /\ i <= Len(y)
    BY <1>5, <1>7
  <2>2. (\A k \in 1..i - 1 : is_path_separator(x[k])) /\ ~is_path_separator(x[i])
    BY <1>5, <1>7, <2>1, SkipSeparatorsIs
  <2>3. (\A k \in 1..i - 1 : is_path_separator(y[k])) /\ ~is_path_separator(y[i])
    BY <1>5, <1>7, <2>1, SkipSeparatorsIs
  <2>4. ASSUME NEW k \in 1..i - 1 PROVE x[k] = y[k]
    <3>1. k \in 1..Len(x) /\ k \in 1..Len(y)
      BY <1>5, <1>7
    <3> QED BY <1>4, <2>2, <2>3, <3>1 DEF IsClean, is_path_separator
  <2>5. ComponentsFrom(x)[i] = Components(u) /\ ComponentsFrom(y)[i] = Components(t)
    BY <1>5, <1>6, <1>7, <2>1, ComponentsFromSkip DEF Components
  <2> QED BY <1>2, <2>1, <2>2, <2>3, <2>4, <2>5 DEF Matching
<1>9. Len(x) < Len(y) /\ \A k \in 1..Len(x) : x[k] = y[k]
  BY <1>4, <1>5, <1>8, MatchingContinues DEF Continues
<1> DEFINE n == CommonPrefixLength(x, y)
<1>10. /\ n \in 0..Len(x)
       /\ n < Len(x) /\ n < Len(y) => x[n + 1] # y[n + 1]
  BY <1>7, CommonPrefixLengthIs
<1> HIDE DEF n
<1>11. n = Len(x)
  <2> SUFFICES ASSUME n # Len(x) PROVE FALSE
    OBVIOUS
  <2>1. n + 1 \in 1..Len(x) /\ n < Len(x) /\ n < Len(y)
    BY <1>7, <1>9, <1>10
  <2> QED BY <1>9, <1>10, <2>1
<1>12. Len(x) # Len(y)
  BY <1>7, <1>9
<1> QED BY <1>3, <1>7, <1>11, <1>12, <1>13 DEF IsDescendant, n

\* path_is_descendant finds every path below the parents asked about.
THEOREM DescendantsAreFound == Spec => []DescendantsFound
<1>1. ASSUME IInv PROVE DescendantsFound
  <2>1. Contents \in Texts
    BY <1>1, IInvIs, TextIs, TextsAre, CapacityAssumption DEF Contents, Paths
  <2>2. \A parent \in Parents : parent \in Texts /\ IsCanonical(parent)
    BY Zenon DEF Parents
  <2> QED BY <2>1, <2>2, BelowIsDescendant DEF DescendantsFound
<1>2. IInv => DescendantsFound
  BY <1>1
<1> QED BY InitIInv, IInvStep, <1>2, PTL DEF Spec

=============================================================================
