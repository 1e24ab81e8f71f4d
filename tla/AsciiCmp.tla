------------------------------ MODULE AsciiCmp ------------------------------
(***************************************************************************)
(* unicode::ascii_cmp (unicode.cpp) and its callers: the tests of a path   *)
(* for a prefix, in Path's predicates and path_remove_dup_separators       *)
(* (filesystem.cpp).                                                       *)
(*                                                                         *)
(* Neither string has a length the function knows: it walks two pointers   *)
(* and must stop each at its terminator.  A char is signed.  The build is  *)
(* one without assertions: with them is_ascii, which is true of nothing    *)
(* but zero and negative characters, stops every call.                     *)
(***************************************************************************)
EXTENDS Integers, Sequences

CONSTANTS
  Strings,   \* the strings that are tested
  Tests      \* the calls: each has the string to compare with and a length

Char == -128..127

NUL == 0

Text == Seq(Char \ {NUL})

ASSUME StringsAssumption == Strings \subseteq Text

ASSUME TestsAssumption ==
  /\ "none" \notin DOMAIN Tests
  /\ \A t \in DOMAIN Tests : Tests[t].ascii \in Text /\ Tests[t].len \in Nat \ {0}

\* The calls of the program, with the codes of their characters.
PrefixTests ==
  [extended       |-> [ascii |-> <<92, 92, 63, 92>>, len |-> 4],
   unc            |-> [ascii |-> <<92, 92, 63, 92, 85, 78, 67, 92>>, len |-> 8],
   two_separators |-> [ascii |-> <<92, 92>>, len |-> 2],
   two_slashes    |-> [ascii |-> <<47, 47>>, len |-> 2]]

VARIABLES
  s,        \* the path's characters
  call,     \* the test that runs, or "none"
  p1, p2,   \* the places in s and in ascii the pointers are at
  n,        \* the characters compared
  answers   \* what each test has returned, or "none"

vars == <<s, call, p1, p2, n, answers>>

TypeOK ==
  /\ s \in Strings
  /\ call \in DOMAIN Tests \union {"none"}
  /\ p1 \in Nat /\ p2 \in Nat /\ n \in Nat
  /\ answers \in [DOMAIN Tests -> {"none", "false", "true"}]

Init ==
  /\ s \in Strings
  /\ call = "none"
  /\ p1 = 1 /\ p2 = 1 /\ n = 0
  /\ answers = [t \in DOMAIN Tests |-> "none"]

\* What a pointer at place p of text reads: its terminator follows its last character.
At(text, p) == IF p <= Len(text) THEN text[p] ELSE NUL

\* A caller tests s.
Call(t) ==
  /\ call = "none"
  /\ answers[t] = "none"
  /\ call' = t
  /\ p1' = 1 /\ p2' = 1 /\ n' = 0
  /\ UNCHANGED <<s, answers>>

Return(answer) ==
  /\ answers' = [answers EXCEPT ![call] = answer]
  /\ call' = "none"
  /\ UNCHANGED <<s, p1, p2, n>>

Advance ==
  /\ n' = n + 1 /\ p1' = p1 + 1 /\ p2' = p2 + 1
  /\ UNCHANGED <<s, call, answers>>

Differs ==
  \/ At(s, p1) = NUL
  \/ At(Tests[call].ascii, p2) = NUL
  \/ At(s, p1) # At(Tests[call].ascii, p2)

\* Fault: the last character is not compared.
CompareOneLess ==
  /\ call # "none"
  /\ IF n >= Tests[call].len - 1 THEN Return("true")
     ELSE IF Differs THEN Return("false")
     ELSE Advance

\* One round of the loop, or the return after it.
Compare ==
  /\ call # "none"
  /\ IF n >= Tests[call].len THEN Return("true")
     ELSE IF Differs THEN Return("false")
     ELSE Advance

Next == Compare \/ \E t \in DOMAIN Tests : Call(t)

Spec == Init /\ [][Next]_vars

-----------------------------------------------------------------------------
(***************************************************************************)
(* Properties                                                              *)
(***************************************************************************)

\* Where the loop reads, neither pointer is behind its string's terminator.
ReadsInBounds ==
  call # "none" /\ n < Tests[call].len =>
    /\ p1 <= Len(s) + 1
    /\ p2 <= Len(Tests[call].ascii) + 1

\* The first len characters of both strings are there, and are the same.
SharesPrefix(text, ascii, len) ==
  /\ len <= Len(text) /\ len <= Len(ascii)
  /\ \A i \in 1..len : text[i] = ascii[i]

\* Every answer is the right one: of two strings the shorter of which has fewer than len
\* characters it is "false", as unicode.h:127-129 promises.
AnswersAreRight ==
  \A t \in DOMAIN Tests :
    answers[t] # "none" =>
      (answers[t] = "true" <=> SharesPrefix(s, Tests[t].ascii, Tests[t].len))

\* A UNC path is an extended path, which starts with two separators: callers that ask in any
\* order never get answers that contradict each other.
PrefixesNest ==
  /\ answers.unc = "true" => answers.extended # "false"
  /\ answers.extended = "true" => answers.two_separators # "false"
  /\ "true" \notin {answers.two_separators, answers.extended, answers.unc} \/ answers.two_slashes # "true"

=============================================================================
