---------------------------- MODULE StateMerge ------------------------------
(***************************************************************************)
(* How a save of the user configuration combines three values of a field:  *)
(* what this instance loaded (base), what it holds now (current) and what  *)
(* the file holds by now (onDisk), in src/src/user_config.rs.              *)
(***************************************************************************)
EXTENDS Integers

\* Mutant of MergeCounterDelta: a plain subtraction.
MergeCounterDelta_Unsaturated(base, current, onDisk) == onDisk + (current - base)

\* Counters: this instance's change is added; the subtraction saturates.
MergeCounterDelta(base, current, onDisk) ==
  IF current >= base THEN onDisk + (current - base)
  ELSE IF onDisk >= base - current THEN onDisk - (base - current)
  ELSE 0

\* Mutant of MergeMonotonic: a changed time wins, older or not.
MergeMonotonic_LastWriter(base, current, onDisk) ==
  IF current = base THEN onDisk ELSE current

\* Timestamps: a changed one may only move the file's forward.
MergeMonotonic(base, current, onDisk) ==
  IF current = base \/ onDisk > current THEN onDisk ELSE current

\* A set of names: the instance's removals and additions, applied to the file.
MergeInstalledAgents(base, current, onDisk) ==
  (onDisk \ (base \ current)) \cup (current \ base)

\* A preference of config.toml: the instance's value if it changed it.
MergePreference(base, current, onDisk) ==
  IF current = base THEN onDisk ELSE current

MergeState(base, current, onDisk) ==
  [pending |-> MergeCounterDelta(base.pending, current.pending, onDisk.pending),
   uploadAt |-> MergeMonotonic(base.uploadAt, current.uploadAt, onDisk.uploadAt),
   agents |-> MergeInstalledAgents(base.agents, current.agents, onDisk.agents)]
=============================================================================
