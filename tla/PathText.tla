------------------------------ MODULE PathText ------------------------------
(***************************************************************************)
(* The functions of core/platform/filesystem.cpp that read a path, and     *)
(* what those that rewrite one make of its text, as on Windows.  A path is *)
(* the sequence of characters before its null-terminator; a pointer into   *)
(* it is an index, Len(t) + 1 being the terminator and NoPointer nullptr.  *)
(***************************************************************************)
EXTENDS Integers, Sequences

CONSTANTS
  Letters,         \* the characters that mean nothing to these functions or to Windows: of a
                   \* name, not of a drive (`:'), an extended prefix (`?') or a pattern (`*')
  Canonical(_)     \* what PathCchCanonicalize gives back for a path

Slash == "/"
Backslash == "\\"
Period == "."

ASSUME LettersAssumption == Letters \intersect {Slash, Backslash, Period} = {}

Chars == Letters \union {Slash, Backslash, Period}

NoPointer == 0

is_path_separator(c) == c \in {Slash, Backslash}

\* The first index from i on at which t has no separator, and at which it has one.
SkipSeparators(t, i) ==
  CHOOSE j \in i..Len(t) + 1 :
    /\ \A k \in i..j - 1 : is_path_separator(t[k])
    /\ j <= Len(t) => ~is_path_separator(t[j])

SkipSegment(t, i) ==
  CHOOSE j \in i..Len(t) + 1 :
    /\ \A k \in i..j - 1 : ~is_path_separator(t[k])
    /\ j <= Len(t) => is_path_separator(t[j])

LastOf(t, Test(_)) ==
  IF \A i \in DOMAIN t : ~Test(t[i])
  THEN NoPointer
  ELSE CHOOSE i \in DOMAIN t : Test(t[i]) /\ \A j \in i + 1..Len(t) : ~Test(t[j])

-----------------------------------------------------------------------------
(***************************************************************************)
(* What rewrites a path                                                    *)
(***************************************************************************)

\* path_normalize
Normalized(t) == [i \in DOMAIN t |-> IF t[i] = Slash THEN Backslash ELSE t[i]]

\* Fault of path_remove_dup_separators: a separator swallows the character after it.
CopiedSkipping(t) ==
  LET copied[r \in 1..Len(t) + 2] ==
        IF r > Len(t) THEN <<>>
        ELSE <<t[r]>> \o copied[IF is_path_separator(t[r])
                                THEN SkipSeparators(t, r + 1) + 1
                                ELSE r + 1]
  IN copied

\* The loop of path_remove_dup_separators: what it copies with its read pointer at r and on.
Copied(t) ==
  LET copied[r \in 1..Len(t) + 1] ==
        IF r > Len(t) THEN <<>>
        ELSE <<t[r]>> \o copied[IF is_path_separator(t[r])
                                THEN SkipSeparators(t, r + 1)
                                ELSE r + 1]
  IN copied

\* path_remove_dup_separators, which spares the first of two leading backslashes.
WithoutDuplicates(t) ==
  IF Len(t) >= 2 /\ t[1] = Backslash /\ t[2] = Backslash
  THEN <<Backslash>> \o Copied(t)[2]
  ELSE Copied(t)[1]

\* path_remove_trailing_separator; only Linux spares the root.
WithoutTrailing(t) ==
  IF t # <<>> /\ is_path_separator(t[Len(t)]) THEN SubSeq(t, 1, Len(t) - 1) ELSE t

\* path_canonicalize, which keeps the empty path from Windows.
Canonicalized(t) == IF t = <<>> THEN <<>> ELSE Canonical(t)

\* Fault of path_clean: the trailing separator goes before the duplicates do.
CleanedTrailingFirst(t) == Canonicalized(WithoutDuplicates(WithoutTrailing(Normalized(t))))

\* path_clean before it calls path_canonicalize.
Tidy(t) == WithoutTrailing(WithoutDuplicates(Normalized(t)))

\* path_clean, where no call fails.
Cleaned(t) == Canonicalized(Tidy(t))

-----------------------------------------------------------------------------
(***************************************************************************)
(* What reads a path                                                       *)
(***************************************************************************)

\* path_has_trailing_separator
HasTrailingSeparator(t) == t # <<>> /\ is_path_separator(t[Len(t)])

\* path_find_extension
FindExtension(t) ==
  LET IsPeriod(c) == c = Period
      dot == LastOf(t, IsPeriod)
  IN IF \/ dot \in {NoPointer, 1, Len(t)}
        \/ is_path_separator(t[dot - 1])
     THEN NoPointer
     ELSE dot

\* Fault of path_find_file_name: the last separator counts as the name's first character.
FindFileNameEarly(t) ==
  LET sep == LastOf(t, is_path_separator)
  IN IF t = <<>> \/ sep = Len(t) THEN NoPointer
     ELSE IF sep = NoPointer THEN 1 ELSE sep

\* path_find_file_name
FindFileName(t) ==
  LET sep == LastOf(t, is_path_separator)
  IN IF t = <<>> \/ sep = Len(t) THEN NoPointer ELSE sep + 1

\* path_common_prefix_length
CommonPrefixLength(t, u) ==
  CHOOSE n \in 0..Len(t) :
    /\ n <= Len(u)
    /\ \A i \in 1..n : t[i] = u[i]
    /\ n < Len(t) /\ n < Len(u) => t[n + 1] # u[n + 1]

\* path_common_prefix
CommonPrefix(t, u) == SubSeq(t, 1, CommonPrefixLength(t, u))

\* Fault of path_is_descendant: the parent is taken as it was written.
IsDescendantOfUncleaned(child, parent) ==
  LET len == CommonPrefixLength(parent, Cleaned(child))
  IN /\ parent # <<>> /\ Cleaned(child) # <<>>
     /\ len = Len(parent)
     /\ len # Len(Cleaned(child))

\* path_is_descendant
IsDescendant(child, parent) ==
  LET clean_child == Cleaned(child)
      clean_parent == Cleaned(parent)
      prefix == CommonPrefixLength(clean_parent, clean_child)
      len == IF HasTrailingSeparator(clean_parent) /\ prefix > 1 THEN prefix + 1 ELSE prefix
  IN /\ child # <<>> /\ parent # <<>>
     /\ clean_child # <<>> /\ clean_parent # <<>>
     /\ len = Len(clean_parent)
     /\ len # Len(clean_child)

\* path_get_component: where the component at or after i starts.
GetComponent(t, i) ==
  IF i = NoPointer \/ SkipSeparators(t, i) > Len(t)
  THEN NoPointer
  ELSE SkipSeparators(t, i)

\* Path_Component::name
ComponentName(t, i) == SubSeq(t, i, SkipSegment(t, i) - 1)

\* path_find_next_component
FindNextComponent(t, i) ==
  IF i > Len(t) THEN NoPointer ELSE SkipSeparators(t, SkipSegment(t, i))

\* The names path_get_component and Path_Component::next walk through from i on.
ComponentsFrom(t) ==
  LET from[i \in 1..Len(t) + 1] ==
        IF GetComponent(t, i) = NoPointer
        THEN <<>>
        ELSE LET loc == GetComponent(t, i)
             IN <<ComponentName(t, loc)>> \o from[FindNextComponent(t, loc)]
  IN from

Components(t) == ComponentsFrom(t)[1]

\* No component is "." or ".." or ends in a period.
IsCanonical(t) ==
  \A n \in DOMAIN Components(t) : Components(t)[n][Len(Components(t)[n])] # Period

=============================================================================
