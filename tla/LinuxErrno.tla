----------------------------- MODULE LinuxErrno -----------------------------
(***************************************************************************)
(* platform::linux::log_last_error (platform.cpp) and                      *)
(* linux_errno_to_short_str (linux_include.h), which looks a number up in  *)
(* the list of linux_errs.h, entry by entry, and collects the names it     *)
(* finds in an array of a fixed size.  The functions of                    *)
(* filesystem_linux.cpp call it for every call that fails.                 *)
(*                                                                         *)
(* A name is told by its place in the list.  The numbers are Linux's.      *)
(***************************************************************************)
EXTENDS Naturals, Sequences

CONSTANT Errnos   \* what errno may be

VARIABLES
  err,      \* log_last_error's copy of errno
  entry,    \* the entry of the list that comes next
  desc,     \* Linux_Error_Short_Strs::desc, Null where it holds no name
  idx,      \* the place in desc that is written next
  warned,   \* what the lookup has warned of
  logged    \* the names in the line that was logged, or <<Null>>

vars == <<err, entry, desc, idx, warned, logged>>

Entries == 1..134

\* The list follows Linux's numbers without their gaps: EWOULDBLOCK and EDEADLOCK stand where
\* Linux has none, and ENOTSUP, the number of EOPNOTSUPP, comes at the end.
Number(i) == IF i = 41 THEN 11 ELSE IF i = 58 THEN 35 ELSE IF i = 134 THEN 95 ELSE i

MaxSize == 3

Null == 0

TypeOK ==
  /\ err \in Errnos
  /\ entry \in 1..135
  /\ DOMAIN desc = 1..MaxSize
  /\ idx \in 0..MaxSize
  /\ warned \in {"none", "unknown", "more"}
  /\ logged \in Seq(Entries \union {Null})

Init ==
  /\ err \in Errnos
  /\ entry = 1
  /\ desc = [i \in 1..MaxSize |-> Null]
  /\ idx = 0
  /\ warned = "none"
  /\ logged = <<Null>>

Searching == entry \in Entries /\ warned # "more"

\* Fault: the place is not advanced.
LookInPlace ==
  /\ Searching
  /\ IF Number(entry) = err
     THEN desc' = [desc EXCEPT ![idx + 1] = entry]
     ELSE UNCHANGED desc
  /\ entry' = entry + 1
  /\ UNCHANGED <<err, idx, warned, logged>>

\* LINUX_ERR of the next entry: the third name ends the search with a warning that there are
\* more.
Look ==
  /\ Searching
  /\ IF Number(entry) = err
     THEN /\ desc' = [desc EXCEPT ![idx + 1] = entry]
          /\ idx' = idx + 1
          /\ warned' = IF idx' >= MaxSize THEN "more" ELSE warned
     ELSE UNCHANGED <<desc, idx, warned>>
  /\ entry' = entry + 1
  /\ UNCHANGED <<err, logged>>

\* The end of the list, for a number that is not in it.
Unknown ==
  /\ entry \notin Entries /\ idx = 0 /\ warned = "none"
  /\ warned' = "unknown"
  /\ UNCHANGED <<err, entry, desc, idx, logged>>

\* log_last_error joins the names up to the first place without one.
LogNames ==
  /\ ~Searching /\ (idx = 0 => warned = "unknown")
  /\ logged = <<Null>>
  /\ logged' = SubSeq(desc, 1, CHOOSE k \in 0..MaxSize :
                                  /\ \A i \in 1..k : desc[i] # Null
                                  /\ k < MaxSize => desc[k + 1] = Null)
  /\ UNCHANGED <<err, entry, desc, idx, warned>>

Next == Look \/ Unknown \/ LogNames

Spec == Init /\ [][Next]_vars

-----------------------------------------------------------------------------
(***************************************************************************)
(* Properties                                                              *)
(***************************************************************************)

\* The names in the log are names of the number, the list's first before the others; a number
\* that has a name has one there, and one that has none is warned of.  That the first "takes
\* precedence" (linux_include.h:12) is so far true that it comes first: the others are logged
\* behind it.
FirstNameLeads ==
  logged # <<Null>> =>
    /\ \A i \in DOMAIN logged : Number(logged[i]) = err
    /\ \A n \in Entries : Number(n) = err => logged # <<>> /\ logged[1] <= n
    /\ logged = <<>> <=> warned = "unknown"

=============================================================================
