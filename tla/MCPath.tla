------------------------------- MODULE MCPath -------------------------------
EXTENDS Path, SequencesExt

MCLetters == {"a"}

\* Results of each length, the last longer than the buffer.
MCResults ==
  { <<>>, <<"a">>, <<"a", "\\", "a">>, <<"\\", "\\", "a", "\\">>,
    <<"a", "\\", "a", ".", "a">> }

\* A path with "." and ".." taken out, as PathCchCanonicalize does, and a single separator if
\* no component is left.
MCCanonical(t) ==
  LET Simplify(names, c) ==
        CASE c = <<".">>      -> names
          [] c = <<".", ".">> -> IF names = <<>> THEN names ELSE Front(names)
          [] OTHER            -> Append(names, c)
      Join(text, c) == IF text = <<>> THEN c ELSE text \o <<Backslash>> \o c
      names == FoldLeft(Simplify, <<>>, Components(t))
      lead == SubSeq(t, 1, SkipSeparators(t, 1) - 1)
  IN IF t # <<>> /\ IsCanonical(t) THEN t
     ELSE IF names = <<>> THEN <<Backslash>> ELSE lead \o FoldLeft(Join, <<>>, names)

=============================================================================
