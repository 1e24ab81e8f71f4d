-------------------------------- MODULE Path --------------------------------
(***************************************************************************)
(* fs::Path (core/platform/filesystem.h and .cpp, with the functions of    *)
(* filesystem_win32.cpp): a fixed buffer, the cached size of its text, and *)
(* the functions that write to it.  The cache is kept on an honor system:  *)
(* whoever writes to the buffer says so with size_dirty or update_size.    *)
(* What lies behind the null-terminator is kept too, since a function that *)
(* trusts a wrong size reads and writes there.                             *)
(*                                                                         *)
(* The Windows functions that compute a path are external; of their result *)
(* only its length and its separators matter here.  PathCchCanonicalize is *)
(* any function that leaves alone a path with nothing to simplify.  The    *)
(* build is one without assertions: with them, ascii_cmp stops the         *)
(* program.  A write behind the buffer is undefined; nothing is said of    *)
(* what comes after it.                                                    *)
(***************************************************************************)
EXTENDS PathText

CONSTANTS
  Capacity,    \* RK_MAX_PATH
  Results      \* texts that come from elsewhere: what the Windows functions give back, and
               \* what callers have, of any length

NUL == "NUL"

ASSUME CapacityAssumption == Capacity \in Nat \ {0, 1}

ASSUME ResultsAssumption == Results \subseteq Seq(Chars) /\ NUL \notin Letters

\* Texts that fit.
Texts == UNION {[1..n -> Chars] : n \in 0..Capacity - 1}

ASSUME CanonicalAssumption ==
  \A t \in Texts :
    /\ Canonical(t) \in Seq(Chars)
    /\ t # <<>> /\ IsCanonical(t) => Canonical(t) = t

dirty_flag == -1

VARIABLES
  path,     \* a Path: the buffer m_path and m_size
  untold,   \* history: the function that last changed the text and left the size, if no
            \* other has put it right, or "none"
  overrun   \* the function that has written behind the buffer, or "none"

vars == <<path, untold, overrun>>

Buffers == [1..Capacity -> Chars \union {NUL}]

\* The text in a buffer, and a buffer with a text written over what it held.
Text(buffer) ==
  SubSeq(buffer, 1, (CHOOSE i \in 1..Capacity :
                       buffer[i] = NUL /\ \A j \in 1..i - 1 : buffer[j] # NUL) - 1)

Written(buffer, t) ==
  [i \in 1..Capacity |-> IF i <= Len(t) THEN t[i]
                         ELSE IF i = Len(t) + 1 THEN NUL ELSE buffer[i]]

TypeOK ==
  /\ path \in [m_path : Buffers, m_size : {dirty_flag} \union 0..Capacity - 1]
  /\ \E i \in 1..Capacity : path.m_path[i] = NUL
  /\ untold \in {"none", "get_current_directory", "path_compact", "narrow"}
  /\ overrun \in {"none", "constructor", "path_common_prefix", "path_add_trailing_separator"}

\* Path::Path(char const*): the buffer is not initialised behind the text, here with one
\* character throughout.
Constructed(t, rest) == [m_path |-> Written([i \in 1..Capacity |-> rest], t), m_size |-> Len(t)]

\* Where the text does not fit the constructor logs it, asserts, and copies on.
Init ==
  /\ \E t \in Texts \union Results, rest \in Chars \union {NUL} :
       IF Len(t) < Capacity
       THEN path = Constructed(t, rest) /\ overrun = "none"
       ELSE path = Constructed(<<>>, rest) /\ overrun = "constructor"
  /\ untold = "none"

-----------------------------------------------------------------------------
(***************************************************************************)
(* The functions of filesystem.cpp, from a Path to the Path they leave     *)
(***************************************************************************)

\* size(), which caches what it counts.
Sized(p) == IF p.m_size = dirty_flag THEN [p EXCEPT !.m_size = Len(Text(p.m_path))] ELSE p

\* back(), the character before the end the size gives.
Back(p) == p.m_path[Sized(p).m_size]

path_normalize(p) ==
  IF Sized(p).m_size > 0
  THEN [Sized(p) EXCEPT !.m_path = Written(p.m_path, Normalized(Text(p.m_path)))]
  ELSE Sized(p)

\* Fault: the size is not marked dirty.
RemoveDupSeparatorsUntold(p) ==
  IF Sized(p).m_size = 0
  THEN Sized(p)
  ELSE [m_path |-> Written(p.m_path, WithoutDuplicates(Text(p.m_path))),
        m_size |-> Sized(p).m_size]

path_remove_dup_separators(p) ==
  IF Sized(p).m_size = 0
  THEN Sized(p)
  ELSE [m_path |-> Written(p.m_path, WithoutDuplicates(Text(p.m_path))),
        m_size |-> dirty_flag]

path_remove_trailing_separator(p) ==
  IF Sized(p).m_size > 0 /\ is_path_separator(Back(p))
  THEN [m_path |-> [p.m_path EXCEPT ![Sized(p).m_size] = NUL], m_size |-> dirty_flag]
  ELSE Sized(p)

\* Fault: one more character is taken to be free than there is.
AddTrailingOverflowing(p, before) ==
  LET size == Sized(p).m_size
  IN IF \/ is_path_separator(IF size = 0 THEN before ELSE Back(p))
        \/ Capacity - size < 1
     THEN Sized(p)
     ELSE [m_path |-> [p.m_path EXCEPT ![size + 1] = Backslash, ![size + 2] = NUL],
           m_size |-> size + 1]

\* Of an empty path it reads the byte before the buffer.
path_add_trailing_separator(p, before) ==
  LET size == Sized(p).m_size
  IN IF \/ is_path_separator(IF size = 0 THEN before ELSE Back(p))
        \/ Capacity - size - 1 < 1
     THEN Sized(p)
     ELSE [m_path |-> [p.m_path EXCEPT ![size + 1] = Backslash, ![size + 2] = NUL],
           m_size |-> size + 1]

\* path_clean up to the call of path_canonicalize.
Tidied(p) ==
  path_remove_trailing_separator(path_remove_dup_separators(path_normalize(p)))

-----------------------------------------------------------------------------

\* Nothing is written behind the buffer, and nothing has been.
Within == overrun = "none" /\ UNCHANGED overrun

\* What a call leaves puts the size right if it is marked dirty.
Becomes(p) ==
  /\ path' = p
  /\ untold' = IF p.m_size = dirty_flag THEN "none" ELSE untold
  /\ Within

Overruns(function) ==
  /\ overrun = "none"
  /\ overrun' = function
  /\ UNCHANGED <<path, untold>>

Normalize == Becomes(path_normalize(path))

RemoveDupSeparators == Becomes(path_remove_dup_separators(path))

RemoveTrailingSeparator == Becomes(path_remove_trailing_separator(path))

\* A separator at the end of the buffer has its terminator behind it.
AddTrailingSeparator ==
  \E before \in {Backslash, NUL} :
    LET p == path_add_trailing_separator(path, before)
    IN IF p.m_size < Capacity
       THEN Becomes(p)
       ELSE Overruns("path_add_trailing_separator")

\* path_clean: the canonical path comes in a new Path, the empty one with its size, or the
\* call fails and leaves the path half clean.
Clean ==
  LET tidied == Tidied(path)
      t == Text(tidied.m_path)
      clean == Canonicalized(t)
  IN \/ Becomes(tidied)
     \/ /\ Len(clean) < Capacity
        /\ \E rest \in {NUL, Backslash} :
             path' = IF t = <<>> THEN Constructed(clean, rest)
                     ELSE [Constructed(clean, rest) EXCEPT !.m_size = dirty_flag]
        /\ untold' = "none"
        /\ Within

\* path_common_prefix into this Path, which it takes to have room.
CommonPrefixInto ==
  \E t, u \in Results :
    IF Len(CommonPrefix(t, u)) < Capacity
    THEN Becomes([m_path |-> Written(path.m_path, CommonPrefix(t, u)), m_size |-> dirty_flag])
    ELSE Overruns("path_common_prefix")

-----------------------------------------------------------------------------
(***************************************************************************)
(* The functions of filesystem_win32.cpp                                   *)
(***************************************************************************)

\* path_append writes to the path before it calls Windows: a '/' at its end.  (Of an empty
\* path it looks at the byte before the buffer.)
BackNormalized(p) ==
  IF Sized(p).m_size > 0 /\ Back(p) = Slash
  THEN [Sized(p) EXCEPT !.m_path[Sized(p).m_size] = Backslash]
  ELSE Sized(p)

\* path_append, path_add_extension, path_combine or path_canonicalize gives its result, too
\* long for `narrow' or not, or fails before.
Compute ==
  \E p \in {path, BackNormalized(path)}, t \in Results :
    \/ /\ Len(t) < Capacity
       /\ Becomes([m_path |-> Written(p.m_path, t), m_size |-> dirty_flag])
    \/ Becomes(p)
    \/ /\ Len(t) >= Capacity
       /\ path' = [p EXCEPT !.m_path = Written(p.m_path, SubSeq(t, 1, Capacity - 1))]
       /\ untold' = "narrow"
       /\ Within

\* get_current_directory and path_compact write a result and leave the size.
WriteUntold ==
  \E t \in Results :
    /\ Len(t) < Capacity
    /\ path' = [path EXCEPT !.m_path = Written(path.m_path, t)]
    /\ untold' \in {"get_current_directory", "path_compact"}
    /\ Within

Next ==
  \/ Normalize
  \/ RemoveDupSeparators
  \/ RemoveTrailingSeparator
  \/ AddTrailingSeparator
  \/ Clean
  \/ CommonPrefixInto
  \/ Compute
  \/ WriteUntold

Spec == Init /\ [][Next]_vars

-----------------------------------------------------------------------------
(***************************************************************************)
(* Properties                                                              *)
(***************************************************************************)

Contents == Text(path.m_path)

\* Of the functions that write to a path all but two stay in its buffer, whatever they are
\* called with, in whatever order and with a size that a call before has left wrong; and a
\* terminator is always in it, at which those that read the text stop.  The two are the
\* constructor, which only logs and asserts that its text fits (filesystem.cpp:22-28), and
\* path_common_prefix, which does not ask (filesystem.cpp:285-291).
WritesFit ==
  /\ overrun \in {"none", "constructor", "path_common_prefix"}
  /\ \E i \in 1..Capacity : path.m_path[i] = NUL

\* The cached size is the text's whenever it is not marked dirty, after any calls, but for
\* get_current_directory, path_compact and a failed narrow, which leave it to the next call
\* that marks it.  (The test file asks for this: test_filesystem.cpp:16-17.)
SizeCoherent == untold = "none" => path.m_size \in {dirty_flag, Len(Contents)}

\* Making a path tidy never changes what it names: its components stay the same.  So does
\* cleaning it, where there is no "." or ".." and no period at a component's end for Windows
\* to simplify.
Tidying == Normalize \/ RemoveDupSeparators \/ RemoveTrailingSeparator
           \/ AddTrailingSeparator \/ (Clean /\ IsCanonical(Contents))

ComponentsKept ==
  [][Tidying /\ untold = "none" => Components(Contents') = Components(Contents)]_vars

\* Of a path in which Windows finds nothing to simplify and that is not all separators, the
\* clean one has the one separator, none at its end and no two in a row but in front, and is
\* not changed by cleaning it again.
CleanIsFinal ==
  LET clean == Cleaned(Contents)
  IN Components(Contents) # <<>> /\ IsCanonical(Contents) =>
       /\ Cleaned(clean) = clean
       /\ ~HasTrailingSeparator(clean)
       /\ \A i \in DOMAIN clean : clean[i] # Slash
       /\ \A i \in 2..Len(clean) - 1 : ~(clean[i] = Backslash /\ clean[i + 1] = Backslash)

Lead(t) == IF SkipSeparators(t, 1) > 2 THEN 2 ELSE SkipSeparators(t, 1) - 1

IsBelow(t, u) ==
  /\ Len(Components(u)) < Len(Components(t))
  /\ \A n \in DOMAIN Components(u) : Components(t)[n] = Components(u)[n]

\* Parents to ask about, none that PathCchCanonicalize would change.
Parents == {t \in Texts : Len(t) \in 1..2 /\ IsCanonical(t)}

\* path_is_descendant finds every path below a parent, however both are written: with
\* which separators, how many of them, with one at the end or without.
DescendantsFound ==
  \A parent \in Parents :
    /\ IsCanonical(Contents)
    /\ Components(parent) # <<>>
    /\ Lead(Normalized(Contents)) = Lead(Normalized(parent))
    /\ IsBelow(Contents, parent)
    => IsDescendant(Contents, parent)

\* The file name is the last component; and where only it has periods, the extension is in
\* it, behind its first character, and holds no other period.  (Of "a.b/c" it is ".b/c".)
NameAndExtension ==
  LET name == FindFileName(Contents)
      ext == FindExtension(Contents)
  IN name # NoPointer =>
       /\ SubSeq(Contents, name, Len(Contents)) = Components(Contents)[Len(Components(Contents))]
       /\ ext # NoPointer /\ (\A i \in 1..name - 1 : Contents[i] # Period) =>
            /\ ext > name
            /\ ext < Len(Contents)
            /\ \A i \in ext + 1..Len(Contents) : Contents[i] \in Letters

=============================================================================
