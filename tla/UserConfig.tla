---------------------------- MODULE UserConfig ------------------------------
(***************************************************************************)
(* The user configuration of one machine (src/src/user_config.rs): two     *)
(* files, state.toml and config.toml, that every tokensave process loads   *)
(* into a UserConfig instance, edits in memory and saves again.  A load    *)
(* and a save hold the sidecar lock across both files; between them other  *)
(* instances save.  Each save merges this instance's edits, told from the  *)
(* baseline it remembers, into what the files hold by then.                *)
(*                                                                         *)
(* Of state.toml: the pending counter, one timestamp and the agents; of    *)
(* config.toml: boolean preferences.  Not modelled: legacy state keys in   *)
(* config.toml, loads that cannot open the lock, symlinked files.          *)
(***************************************************************************)
EXTENDS StateMerge

CONSTANTS Instance, Agent, Preference,
          Absent,     \* no such file; as a baseline: nothing was loaded
          Garbage,    \* a file that does not parse
          MaxEdits    \* bound: edits and corruptions, of all instances

StateFile == [pending : Nat, uploadAt : Nat, agents : SUBSET Agent]
ConfigFile == [Preference -> BOOLEAN]

ASSUME FileAssumption ==
  /\ {Absent, Garbage} \cap (StateFile \cup ConfigFile) = {}
  /\ Absent # Garbage
  /\ Agent \cap Preference = {}
  /\ MaxEdits \in Nat

VARIABLES
  state, config,  \* the two files
  phase,          \* per instance: not loaded yet, in memory, or gone with its process
  mem,            \* per instance: its values
  base,           \* per instance: loaded_state and loaded_config
  clock,
  edits,          \* edits and corruptions so far
  added,    \* history: tokens an instance added since its last durable write
  edited,   \* history: agents and preferences it changed since then
  booked,   \* history: tokens durably added to the state.toml in place
  blind     \* history: an instance that loaded no state.toml replaced one

vars == <<state, config, phase, mem, base, clock, edits, added, edited, booked, blind>>

DefaultState == [pending |-> 0, uploadAt |-> 0, agents |-> {}]
DefaultConfig == [f \in Preference |-> TRUE]

Readable(file) == file \notin {Absent, Garbage}

TypeOK ==
  /\ state \in StateFile \cup {Absent, Garbage}
  /\ config \in ConfigFile \cup {Absent, Garbage}
  /\ phase \in [Instance -> {"new", "live", "gone"}]
  /\ mem \in [Instance -> [state : StateFile, config : ConfigFile]]
  /\ base \in [Instance -> [state : StateFile \cup {Absent},
                            config : ConfigFile \cup {Absent}]]
  /\ clock \in Nat /\ edits \in Nat
  /\ added \in [Instance -> Nat]
  /\ edited \in [Instance -> SUBSET (Agent \cup Preference)]
  /\ booked \in Nat
  /\ blind \in BOOLEAN

Init ==
  /\ state = Absent /\ config = Absent
  /\ phase = [i \in Instance |-> "new"]
  /\ mem = [i \in Instance |-> [state |-> DefaultState, config |-> DefaultConfig]]
  /\ base = [i \in Instance |-> [state |-> Absent, config |-> Absent]]
  /\ clock = 0 /\ edits = 0
  /\ added = [i \in Instance |-> 0]
  /\ edited = [i \in Instance |-> {}]
  /\ booked = 0
  /\ blind = FALSE

Files == <<state, config>>
History == <<added, edited, booked, blind>>

-----------------------------------------------------------------------------
(* load: a file that does not parse is moved aside and the defaults used.  *)
Load(i) ==
  /\ phase[i] = "new"
  /\ phase' = [phase EXCEPT ![i] = "live"]
  /\ state' = IF state = Garbage THEN Absent ELSE state
  /\ config' = IF config = Garbage THEN Absent ELSE config
  /\ mem' = [mem EXCEPT ![i] =
       [state |-> IF Readable(state) THEN state ELSE DefaultState,
        config |-> IF Readable(config) THEN config ELSE DefaultConfig]]
  /\ base' = [base EXCEPT ![i] = [state |-> state', config |-> config']]
  /\ UNCHANGED <<clock, edits, History>>

\* The process ends, saved or not.
Drop(i) ==
  /\ phase[i] = "live"
  /\ phase' = [phase EXCEPT ![i] = "gone"]
  /\ added' = [added EXCEPT ![i] = 0]
  /\ edited' = [edited EXCEPT ![i] = {}]
  /\ mem' = [mem EXCEPT ![i] = [state |-> DefaultState, config |-> DefaultConfig]]
  /\ base' = [base EXCEPT ![i] = [state |-> Absent, config |-> Absent]]
  /\ UNCHANGED <<Files, clock, edits, booked, blind>>

-----------------------------------------------------------------------------
(* Edits in memory.                                                        *)

CountEdit == edits < MaxEdits /\ edits' = edits + 1

Toggle(S, x) == (S \cup {x}) \ (S \cap {x})

AddTokens(i) ==
  /\ phase[i] = "live" /\ CountEdit
  /\ mem' = [mem EXCEPT ![i].state.pending = @ + 1]
  /\ added' = [added EXCEPT ![i] = @ + 1]
  /\ UNCHANGED <<Files, phase, base, clock, edited, booked, blind>>

StampUpload(i) ==
  /\ phase[i] = "live" /\ CountEdit
  /\ clock' = clock + 1
  /\ mem' = [mem EXCEPT ![i].state.uploadAt = clock + 1]
  /\ UNCHANGED <<Files, phase, base, History>>

\* Installing an agent, or uninstalling it.
ToggleAgent(i, a) ==
  /\ phase[i] = "live" /\ CountEdit
  /\ mem' = [mem EXCEPT ![i].state.agents = Toggle(@, a)]
  /\ edited' = [edited EXCEPT ![i] = Toggle(@, a)]
  /\ UNCHANGED <<Files, phase, base, clock, added, booked, blind>>

TogglePreference(i, f) ==
  /\ phase[i] = "live" /\ CountEdit
  /\ mem' = [mem EXCEPT ![i].config[f] = ~@]
  /\ edited' = [edited EXCEPT ![i] = Toggle(@, f)]
  /\ UNCHANGED <<Files, phase, base, clock, added, booked, blind>>

-----------------------------------------------------------------------------
(* save: state.toml first, then config.toml if one of its fields changed.  *)

MergedState(i) ==
  IF base[i].state = Absent THEN mem[i].state
  ELSE MergeState(base[i].state, mem[i].state,
                  IF Readable(state) THEN state ELSE DefaultState)

MergedConfig(i) ==
  IF base[i].config = Absent THEN mem[i].config
  ELSE [f \in Preference |->
          MergePreference(base[i].config[f], mem[i].config[f], config[f])]

NeedsConfig(i) == mem[i].config # base[i].config

\* Mutant of CanMerge: a state.toml that does not parse counts as missing.
CanMerge_GarbageIsMissing(i) ==
  base[i].config # Absent /\ NeedsConfig(i) => Readable(config)

\* Without a baseline nothing is reread; with one, a file that went bad makes
\* the save fail before anything is written.
CanMerge(i) ==
  /\ base[i].state # Absent => state # Garbage
  /\ base[i].config # Absent /\ NeedsConfig(i) => Readable(config)

\* The write of state.toml, and what the instance and the history make of it.
WriteState(i) ==
  /\ state' = MergedState(i)
  /\ added' = [added EXCEPT ![i] = 0]
  /\ booked' = booked + added[i]
  /\ blind' = (blind \/ (base[i].state = Absent /\ state # Absent))
  /\ UNCHANGED <<phase, mem, clock, edits>>

\* Mutant of SaveBoth: the baseline becomes what was written, not what this
\* instance holds.
SaveBoth_BaselineFromFile(i) ==
  /\ phase[i] = "live" /\ CanMerge(i)
  /\ WriteState(i)
  /\ config' = IF NeedsConfig(i) THEN MergedConfig(i) ELSE config
  /\ base' = [base EXCEPT ![i] = [state |-> mem[i].state,
                                  config |-> IF NeedsConfig(i) THEN config'
                                             ELSE base[i].config]]
  /\ edited' = [edited EXCEPT ![i] = {}]

SaveBoth(i) ==
  /\ phase[i] = "live" /\ CanMerge(i)
  /\ WriteState(i)
  /\ config' = IF NeedsConfig(i) THEN MergedConfig(i) ELSE config
  /\ base' = [base EXCEPT ![i] = mem[i]]
  /\ edited' = [edited EXCEPT ![i] = {}]

\* Mutant of SaveStateOnly: the save failed, so the baseline stays.
SaveStateOnly_KeepsBaseline(i) ==
  /\ phase[i] = "live" /\ CanMerge(i) /\ NeedsConfig(i)
  /\ WriteState(i)
  /\ edited' = [edited EXCEPT ![i] = @ \ Agent]
  /\ UNCHANGED <<config, base>>

\* config.toml could not be written, or the process died before it was: the
\* state is durable all the same.
SaveStateOnly(i) ==
  /\ phase[i] = "live" /\ CanMerge(i) /\ NeedsConfig(i)
  /\ WriteState(i)
  /\ base' = [base EXCEPT ![i].state = mem[i].state]
  /\ edited' = [edited EXCEPT ![i] = @ \ Agent]
  /\ UNCHANGED config

-----------------------------------------------------------------------------
(* A hand edit or a disk that garbles a file; its tokens go with it.       *)
Corrupt ==
  /\ CountEdit
  /\ \/ /\ Readable(state)
        /\ state' = Garbage /\ booked' = 0
        /\ UNCHANGED config
     \/ /\ Readable(config)
        /\ config' = Garbage
        /\ UNCHANGED <<state, booked>>
  /\ UNCHANGED <<phase, mem, base, clock, added, edited, blind>>

Edit(i) ==
  \/ AddTokens(i) \/ StampUpload(i)
  \/ \E a \in Agent : ToggleAgent(i, a)
  \/ \E f \in Preference : TogglePreference(i, f)

Next ==
  \/ \E i \in Instance : Load(i) \/ Drop(i) \/ Edit(i) \/ SaveBoth(i) \/ SaveStateOnly(i)
  \/ Corrupt

Spec == Init /\ [][Next]_vars

-----------------------------------------------------------------------------
(* Properties.  A state.toml that was written over blindly, by an instance *)
(* whose load had found none, is the code's one exception to each.         *)

(***************************************************************************)
(* "pending-token deltas accumulate rather than overwrite each other": the *)
(* counter in the file is the sum of what every instance durably added,    *)
(* each addition once, across failed saves, retries and interleavings.     *)
(***************************************************************************)
PendingIsSum ==
  ~blind => /\ Readable(state) => state.pending = booked
            /\ ~Readable(state) => booked = 0

(***************************************************************************)
(* A save changes in the files exactly what its instance edited since its  *)
(* last durable write, and sets it to the instance's value: an agent or a  *)
(* preference another instance changed in the meantime is left alone, also *)
(* by the saves after the one that met it.                                 *)
(***************************************************************************)
SavesExactlyOwnEdits ==
  [][\A i \in Instance : SaveBoth(i) \/ SaveStateOnly(i) =>
       /\ Readable(state) /\ ~blind' =>
            \A a \in Agent :
              a \in state'.agents <=>
                a \in (IF a \in edited[i] THEN mem[i].state.agents ELSE state.agents)
       /\ Readable(config) /\ config' # config =>
            \/ base[i].config = Absent
            \/ \A f \in Preference :
                 config'[f] = IF f \in edited[i] THEN mem[i].config[f] ELSE config[f]]_vars

(***************************************************************************)
(* The time of the last upload never goes back in the file, so the daily   *)
(* gate is not reopened by a save that comes late.                         *)
(***************************************************************************)
UploadTimeNeverGoesBack ==
  [][Readable(state) /\ Readable(state') /\ ~blind' =>
       state'.uploadAt >= state.uploadAt]_vars

(***************************************************************************)
(* A state.toml that does not parse is never written over: it is moved     *)
(* aside by a load, or the save fails and leaves it.                       *)
(***************************************************************************)
GarbageNeverOverwritten ==
  [][state = Garbage /\ state' # Garbage => state' = Absent \/ blind']_vars
=============================================================================
