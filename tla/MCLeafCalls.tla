---------------------------- MODULE MCLeafCalls ----------------------------
EXTENDS LeafCalls, TLC

\* The program's calls, and one with more characters to compare than its string has, which
\* the function's comment allows.
MCTests == PrefixTests @@ ("short" :> [ascii |-> <<92>>, len |-> 3])

\* A UNC path, a Linux one with two slashes, and neither.
Bases == {PrefixTests.unc.ascii \o <<65>>, <<47, 47, 65>>}

\* A slash, a question mark, a separator, a letter and a byte of UTF-8.
Replacements == {47, 63, 92, 65, -61}

Changed ==
  UNION {{[base EXCEPT ![i] = c] : i \in DOMAIN base, c \in Replacements} : base \in Bases}

\* The bases with at most one character changed, cut off anywhere.
MCStrings == UNION {{SubSeq(text, 1, k) : k \in 0..Len(text)} : text \in Changed}

\* Every number of Linux, the two it leaves out, and two that are none.
MCErrnos == 0..134

\* Two signs and a number that is no unit of multiplication.
MCCoordinates == {-1, 0, 2}

=============================================================================
