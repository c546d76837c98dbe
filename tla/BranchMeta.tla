----------------------------- MODULE BranchMeta -----------------------------
(***************************************************************************)
(* branch_meta.rs: what .tokensave/branch-meta.json holds, and the methods *)
(* of BranchMeta on it.  An entry is abstracted to the database file it    *)
(* names; its parent and its two timestamps decide nothing modelled here.  *)
(***************************************************************************)
CONSTANTS
  Branch,        \* branch names
  File,          \* database files in .tokensave and .tokensave/branches
  NoFile,        \* the db_file of a branch without an entry
  TokensaveDb,   \* tokensave.db, which init creates for the default branch
  PlainFile,     \* branches/<sanitized name>.db; several branches may share it
  HashedFile     \* branches/<sanitized name>-<hash of the full name>.db

\* Four bytes of SHA-256 are taken to tell branches apart, and no branch is
\* named like the hashed file of another.
ASSUME BranchAssumption ==
  /\ NoFile \notin File
  /\ TokensaveDb \in File
  /\ PlainFile \in [Branch -> File \ {TokensaveDb}]
  /\ HashedFile \in [Branch -> File \ {TokensaveDb}]
  /\ \A b \in Branch, o \in Branch :
       /\ HashedFile[b] # PlainFile[o]
       /\ HashedFile[b] = HashedFile[o] => b = o

Meta == [default : Branch, file : [Branch -> File \cup {NoFile}]]

Tracked(m) == {b \in Branch : m.file[b] # NoFile}

\* What commands that ran one by one leave behind, renames of hashed files
\* apart: init gives tokensave.db to one branch, which need not be the default
\* any more, and the others have a file of their own name.
Settled(m) ==
  /\ m.default \in Tracked(m)
  /\ \A b \in Tracked(m) :
       /\ m.file[b] \in {TokensaveDb, PlainFile[b], HashedFile[b]}
       /\ \A o \in Tracked(m) \ {b} : m.file[o] # m.file[b]

AddBranch(m, b, f) == [m EXCEPT !.file[b] = f]

RemoveBranches(m, S) ==
  [m EXCEPT !.file = [b \in Branch |-> IF b \in S THEN NoFile ELSE m.file[b]]]

\* The previous default stays as an ordinary entry.
SetDefault(m, b) == [m EXCEPT !.default = b]

\* The only caller renames the default entry, to a name that has none.
RenameDefault(m, b) ==
  [default |-> b,
   file |-> [m.file EXCEPT ![b] = m.file[m.default], ![m.default] = NoFile]]

-----------------------------------------------------------------------------
\* Mutant of UniqueFile: the readable name for everybody.
UniqueFile_Plain(m, b) == PlainFile[b]

\* The readable name is checked against the other entries; the hashed one is not.
UniqueFile(m, b) ==
  IF \E o \in Tracked(m) \ {b} : m.file[o] = PlainFile[b]
  THEN HashedFile[b]
  ELSE PlainFile[b]
=============================================================================
