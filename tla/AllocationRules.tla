-------------------------- MODULE AllocationRules --------------------------
(***************************************************************************)
(* output/output_allocator.py: how the name of an output file is decided.  *)
(* Names stand for relative paths inside one output directory.  Two names  *)
(* collide when they have the same collision key (NFC and casefold,        *)
(* storage/filesystem.py), whether or not the file system tells them       *)
(* apart.  A renamed candidate may be the base name of another image.      *)
(***************************************************************************)
EXTENDS Integers

CONSTANTS Names,      \* relative paths an image may be given, and their renames
          Keys,       \* collision keys
          KeyOf,      \* collision_key(name)
          MaxSuffix,  \* the 9999 of _unique_candidate
          Renamed,    \* Renamed[n][i]: _renamed_candidate(n, i)
          First,      \* First[S]: the first name of S in directory order
          None

ASSUME NamesAssumption ==
  /\ None \notin Names
  /\ KeyOf \in [Names -> Keys]
  /\ MaxSuffix \in Nat
  /\ Renamed \in [Names -> [1..MaxSuffix -> Names]]
  /\ \A S \in SUBSET Names : S # {} => First[S] \in S

\* output.existing_file
Modes == {"skip", "error", "rename", "overwrite"}

SameKey(k) == {n \in Names : KeyOf[n] = k}

\* The spellings child_paths() returns, one kept per key by setdefault().
Scan(files) ==
  [k \in Keys |-> LET found == SameKey(k) \cap files
                  IN IF found = {} THEN None ELSE First[found]]

(* What a decision depends on is a view v with the fields                    *)
(*   mode       the collision mode,                                          *)
(*   known      the spelling cached for each key, None when there is none,   *)
(*   reserved   the keys with an open reservation,                           *)
(*   committed  the keys this operation has written,                         *)
(*   files      the names that exist in the directory.                       *)

\* _existing_collision: the cached spelling if it still exists, else the
\* candidate's own spelling if that exists.
Existing(v, n) ==
  IF v.known[KeyOf[n]] \in v.files THEN v.known[KeyOf[n]]
  ELSE IF n \in v.files THEN n ELSE None

Free(v, n) == KeyOf[n] \notin v.reserved /\ Existing(v, n) = None
Present(v, n) == KeyOf[n] \notin v.reserved /\ Existing(v, n) # None

\* allocate_relative, by what it ends in.
Skips(v, base) == v.mode = "skip" /\ Present(v, base)

Conflicts(v, base) == v.mode = "error" /\ ~Free(v, base)

Overwrites(v, base) ==
  v.mode = "overwrite" /\ Present(v, base) /\ KeyOf[base] \notin v.committed

WantsUnique(v, base) ==
  \/ v.mode = "rename" /\ ~Free(v, base)
  \/ v.mode = "overwrite" /\ KeyOf[base] \in v.reserved
  \/ v.mode = "overwrite" /\ Present(v, base) /\ KeyOf[base] \in v.committed

\* Only skip waits until an open reservation is decided.
Waits(v, base) == v.mode = "skip" /\ KeyOf[base] \in v.reserved

\* _unique_candidate: the lowest suffix whose name is free.
IsUnique(v, base, i) ==
  /\ Free(v, Renamed[base][i])
  /\ \A j \in 1..(i - 1) : ~Free(v, Renamed[base][j])

\* No suffix is left: OutputAllocationError.
Exhausted(v, base) ==
  WantsUnique(v, base) /\ \A i \in 1..MaxSuffix : ~Free(v, Renamed[base][i])

\* The name n is reserved for writing.
Reserves(v, base, n) ==
  \/ Free(v, base) /\ n = base
  \/ Overwrites(v, base) /\ n = Existing(v, base)
  \/ WantsUnique(v, base) /\ \E i \in 1..MaxSuffix : IsUnique(v, base, i) /\ n = Renamed[base][i]

=============================================================================
