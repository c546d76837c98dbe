-------------------------- MODULE StateFileProofs ---------------------------
(***************************************************************************)
(* The two uses of state.toml, for every number of processes and without a *)
(* bound that matters.                                                     *)
(*                                                                         *)
(* Part 1, UserConfig: what a save merges.  EditsInv is what makes its     *)
(* invariants inductive: what an instance holds differs from its baseline  *)
(* by exactly the edits it has not yet made durable.  It is the reason the *)
(* baseline has to move with every durable write, and to this instance's   *)
(* own values.                                                             *)
(*                                                                         *)
(* Part 2: sums of a function over a finite set of processes.              *)
(*                                                                         *)
(* Part 3, TokenLedger: the balance.  StepInv says what a process in the   *)
(* middle of a flush holds, compared with what it loaded and what it owes; *)
(* from it follows by how much its next step moves the balance.            *)
(***************************************************************************)
EXTENDS UserConfig, TokenLedger, FiniteSetTheorems, WellFoundedInduction, TLAPS

-----------------------------------------------------------------------------
(* Part 1: the user configuration.                                         *)

BaseState(i) == IF base[i].state = Absent THEN DefaultState ELSE base[i].state
BaseConfig(i) == IF base[i].config = Absent THEN DefaultConfig ELSE base[i].config

EditsOf(i) ==
  /\ mem[i].state.pending = BaseState(i).pending + added[i]
  /\ \A a \in Agent :
       a \in edited[i] <=> ((a \in mem[i].state.agents) # (a \in BaseState(i).agents))
  /\ \A f \in Preference :
       f \in edited[i] <=> mem[i].config[f] # BaseConfig(i)[f]

EditsInv == \A i \in Instance : EditsOf(i)

\* An instance that was not loaded yet has edited nothing.
NewInv == \A i \in Instance : phase[i] = "new" => added[i] = 0 /\ edited[i] = {}

IInv == TypeOK /\ EditsInv /\ NewInv /\ PendingIsSum

-----------------------------------------------------------------------------
(* The merge operators.                                                    *)

\* Two instances that only added to a counter: the file ends with both sums,
\* whichever of them saves first.
THEOREM CounterSavesCommute ==
  ASSUME NEW b1 \in Nat, NEW c1 \in Nat, c1 >= b1,
         NEW b2 \in Nat, NEW c2 \in Nat, c2 >= b2, NEW d \in Nat
  PROVE  /\ MergeCounterDelta(b1, c1, MergeCounterDelta(b2, c2, d))
              = MergeCounterDelta(b2, c2, MergeCounterDelta(b1, c1, d))
         /\ MergeCounterDelta(b1, c1, MergeCounterDelta(b2, c2, d))
              = d + (c1 - b1) + (c2 - b2)
BY DEF MergeCounterDelta

\* A second save of an instance that changed nothing since its first leaves
\* every field of the file as others left it.
THEOREM RetryIsIdempotent ==
  ASSUME NEW c \in StateFile, NEW d \in StateFile
  PROVE  MergeState(c, c, d) = d
<1>1. MergeCounterDelta(c.pending, c.pending, d.pending) = d.pending
  BY DEF MergeCounterDelta, StateFile
<1>2. MergeMonotonic(c.uploadAt, c.uploadAt, d.uploadAt) = d.uploadAt
  BY DEF MergeMonotonic
<1>3. MergeInstalledAgents(c.agents, c.agents, d.agents) = d.agents
  BY DEF MergeInstalledAgents, StateFile
<1> QED BY <1>1, <1>2, <1>3 DEF MergeState, StateFile

LEMMA MergeType ==
  ASSUME NEW b \in StateFile, NEW c \in StateFile, NEW d \in StateFile
  PROVE  MergeState(b, c, d) \in StateFile
BY DEF MergeState, StateFile, MergeCounterDelta, MergeMonotonic, MergeInstalledAgents

LEMMA MergeMovesTimeForward ==
  ASSUME NEW b \in StateFile, NEW c \in StateFile, NEW d \in StateFile
  PROVE  MergeState(b, c, d).uploadAt >= d.uploadAt
BY DEF MergeState, StateFile, MergeMonotonic

-----------------------------------------------------------------------------
LEMMA DefaultType == DefaultState \in StateFile /\ DefaultConfig \in ConfigFile
BY DEF DefaultState, DefaultConfig, StateFile, ConfigFile

LEMMA MergedTypes ==
  ASSUME TypeOK, NEW i \in Instance, CanMerge(i)
  PROVE  /\ MergedState(i) \in StateFile
         /\ NeedsConfig(i) => MergedConfig(i) \in ConfigFile
<1>1. MergedState(i) \in StateFile
  BY MergeType, DefaultType, FileAssumption DEF MergedState, Readable, TypeOK
<1>2. ASSUME NeedsConfig(i) PROVE MergedConfig(i) \in ConfigFile
  <2>1. CASE base[i].config = Absent
    BY <2>1 DEF MergedConfig, TypeOK
  <2>2. CASE base[i].config # Absent
    <3>1. config \in ConfigFile /\ base[i].config \in ConfigFile /\ mem[i].config \in ConfigFile
      BY <1>2, <2>2, FileAssumption DEF CanMerge, TypeOK, Readable
    <3> QED BY <2>2, <3>1 DEF MergedConfig, MergePreference, ConfigFile
  <2> QED BY <2>1, <2>2
<1> QED BY <1>1, <1>2

\* Replacing one field of one instance's values.
LEMMA HeldTypes ==
  ASSUME NEW m \in [state : StateFile, config : ConfigFile]
  PROVE  /\ \A n \in Nat : [m EXCEPT !.state.pending = n] \in [state : StateFile, config : ConfigFile]
         /\ \A n \in Nat : [m EXCEPT !.state.uploadAt = n] \in [state : StateFile, config : ConfigFile]
         /\ \A A \in SUBSET Agent :
              [m EXCEPT !.state.agents = A] \in [state : StateFile, config : ConfigFile]
         /\ \A f \in Preference, v \in BOOLEAN :
              [m EXCEPT !.config[f] = v] \in [state : StateFile, config : ConfigFile]
<1>1. m.state \in StateFile /\ m.config \in ConfigFile
  OBVIOUS
<1>2. \A s \in StateFile : [m EXCEPT !.state = s] \in [state : StateFile, config : ConfigFile]
  OBVIOUS
<1>3. \A c \in ConfigFile : [m EXCEPT !.config = c] \in [state : StateFile, config : ConfigFile]
  OBVIOUS
<1>4. /\ \A n \in Nat : [m.state EXCEPT !.pending = n] \in StateFile
      /\ \A n \in Nat : [m.state EXCEPT !.uploadAt = n] \in StateFile
      /\ \A A \in SUBSET Agent : [m.state EXCEPT !.agents = A] \in StateFile
  BY <1>1 DEF StateFile
<1>5. \A f \in Preference, v \in BOOLEAN : [m.config EXCEPT ![f] = v] \in ConfigFile
  BY <1>1 DEF ConfigFile
<1> QED BY <1>2, <1>3, <1>4, <1>5

LEMMA TypeInit == Init => TypeOK
<1> SUFFICES ASSUME Init PROVE TypeOK
  OBVIOUS
<1>1. mem \in [Instance -> [state : StateFile, config : ConfigFile]]
  BY DefaultType DEF Init
<1>2. base \in [Instance -> [state : StateFile \cup {Absent}, config : ConfigFile \cup {Absent}]]
  BY DEF Init
<1> QED BY <1>1, <1>2 DEF Init, TypeOK

LEMMA TypeStep == TypeOK /\ [Next]_vars => TypeOK'
<1> SUFFICES ASSUME TypeOK, [Next]_vars PROVE TypeOK'
  OBVIOUS
<1> USE DEF TypeOK, Files, History
<1>1. ASSUME NEW i \in Instance, Load(i) PROVE TypeOK'
  <2>1. /\ state' \in StateFile \cup {Absent} /\ config' \in ConfigFile \cup {Absent}
        /\ (IF Readable(state) THEN state ELSE DefaultState) \in StateFile
        /\ (IF Readable(config) THEN config ELSE DefaultConfig) \in ConfigFile
    BY <1>1, DefaultType DEF Load, Readable
  <2> QED BY <1>1, <2>1 DEF Load
<1>2. ASSUME NEW i \in Instance, Drop(i) PROVE TypeOK'
  BY <1>2, DefaultType DEF Drop
<1>3. ASSUME NEW i \in Instance, Edit(i) PROVE TypeOK'
  <2>1. CASE AddTokens(i)
    <3>1. mem[i].state.pending + 1 \in Nat
      BY DEF StateFile
    <3>2. mem' = [mem EXCEPT ![i] = [mem[i] EXCEPT !.state.pending = mem[i].state.pending + 1]]
      BY <2>1 DEF AddTokens
    <3>3. mem' \in [Instance -> [state : StateFile, config : ConfigFile]]
      BY <3>1, <3>2, HeldTypes
    <3> QED BY <2>1, <3>3 DEF AddTokens, CountEdit
  <2>2. CASE StampUpload(i)
    BY <2>2, HeldTypes DEF StampUpload, CountEdit
  <2>3. ASSUME NEW a \in Agent, ToggleAgent(i, a) PROVE TypeOK'
    <3>1. Toggle(mem[i].state.agents, a) \in SUBSET Agent
      BY DEF StateFile, Toggle
    <3>2. mem' = [mem EXCEPT ![i] = [mem[i] EXCEPT !.state.agents = Toggle(mem[i].state.agents, a)]]
      BY <2>3 DEF ToggleAgent
    <3>3. mem' \in [Instance -> [state : StateFile, config : ConfigFile]]
      BY <3>1, <3>2, HeldTypes
    <3> QED BY <2>3, <3>3 DEF ToggleAgent, CountEdit, Toggle
  <2>4. ASSUME NEW f \in Preference, TogglePreference(i, f) PROVE TypeOK'
    <3>1. (~mem[i].config[f]) \in BOOLEAN
      OBVIOUS
    <3>2. mem' = [mem EXCEPT ![i] = [mem[i] EXCEPT !.config[f] = ~mem[i].config[f]]]
      BY <2>4 DEF TogglePreference
    <3>3. mem' \in [Instance -> [state : StateFile, config : ConfigFile]]
      BY <3>1, <3>2, HeldTypes
    <3> QED BY <2>4, <3>3 DEF TogglePreference, CountEdit, Toggle
  <2> QED BY <1>3, <2>1, <2>2, <2>3, <2>4 DEF Edit
<1>4. ASSUME NEW i \in Instance, SaveBoth(i) PROVE TypeOK'
  BY <1>4, MergedTypes DEF SaveBoth, WriteState
<1>5. ASSUME NEW i \in Instance, SaveStateOnly(i) PROVE TypeOK'
  BY <1>5, MergedTypes DEF SaveStateOnly, WriteState
<1>6. CASE Corrupt
  BY <1>6 DEF Corrupt, CountEdit
<1>7. CASE UNCHANGED vars
  BY <1>7 DEF vars
<1> QED BY <1>1, <1>2, <1>3, <1>4, <1>5, <1>6, <1>7 DEF Next

-----------------------------------------------------------------------------
(* What an instance holds is its baseline and its edits.                   *)

LEMMA OthersKeepEdits ==
  ASSUME NEW j \in Instance, EditsOf(j),
         mem'[j] = mem[j], base'[j] = base[j], added'[j] = added[j], edited'[j] = edited[j]
  PROVE  EditsOf(j)'
BY DEF EditsOf, BaseState, BaseConfig

LEMMA EditsStep == TypeOK /\ EditsInv /\ NewInv /\ [Next]_vars => EditsInv' /\ NewInv'
<1> SUFFICES ASSUME TypeOK, EditsInv, NewInv, [Next]_vars PROVE EditsInv' /\ NewInv'
  OBVIOUS
<1> USE DEF TypeOK, EditsInv, Files, History
<1>1. ASSUME NEW i \in Instance, Load(i) PROVE EditsInv' /\ NewInv'
  <2>1. EditsOf(i)'
    <3>1. added'[i] = 0 /\ edited'[i] = {}
      BY <1>1 DEF Load, NewInv
    <3>2. mem'[i].state = BaseState(i)' /\ mem'[i].config = BaseConfig(i)'
      BY <1>1, FileAssumption DEF Load, BaseState, BaseConfig, Readable
    <3>3. BaseState(i)'.pending \in Nat
      BY <3>2, <1>1, DefaultType DEF Load, StateFile, Readable
    <3> QED BY <3>1, <3>2, <3>3 DEF EditsOf
  <2>2. \A j \in Instance \ {i} : EditsOf(j)'
    BY <1>1, OthersKeepEdits DEF Load
  <2> QED BY <1>1, <2>1, <2>2 DEF Load, NewInv
<1>2. ASSUME NEW i \in Instance, Drop(i) PROVE EditsInv' /\ NewInv'
  <2>1. EditsOf(i)'
    BY <1>2 DEF Drop, EditsOf, BaseState, BaseConfig, DefaultState, DefaultConfig
  <2>2. \A j \in Instance \ {i} : EditsOf(j)'
    BY <1>2, OthersKeepEdits DEF Drop
  <2> QED BY <1>2, <2>1, <2>2 DEF Drop, NewInv
<1>3. ASSUME NEW i \in Instance, Edit(i) PROVE EditsInv' /\ NewInv'
  <2>1. \A j \in Instance \ {i} : EditsOf(j)'
    BY <1>3, OthersKeepEdits
    DEF Edit, AddTokens, StampUpload, ToggleAgent, TogglePreference
  <2>2. NewInv'
    BY <1>3 DEF Edit, AddTokens, StampUpload, ToggleAgent, TogglePreference, NewInv
  <2>3. EditsOf(i)
    OBVIOUS
  <2>4. /\ mem[i].state \in StateFile /\ mem[i].config \in ConfigFile
        /\ BaseState(i) \in StateFile /\ BaseConfig(i) \in ConfigFile
    BY DefaultType DEF BaseState, BaseConfig
  <2>5. base' = base => BaseState(i)' = BaseState(i) /\ BaseConfig(i)' = BaseConfig(i)
    BY DEF BaseState, BaseConfig
  <2>6. CASE AddTokens(i)
    <3>1. /\ mem'[i].state = [mem[i].state EXCEPT !.pending = mem[i].state.pending + 1]
          /\ mem'[i].config = mem[i].config
          /\ added'[i] = added[i] + 1 /\ UNCHANGED <<base, edited>>
      BY <2>6 DEF AddTokens
    <3>2. mem[i].state.pending \in Nat /\ BaseState(i).pending \in Nat /\ added[i] \in Nat
      BY <2>4 DEF StateFile
    <3>3. /\ mem'[i].state.pending = mem[i].state.pending + 1
          /\ mem'[i].state.agents = mem[i].state.agents
      BY <3>1, <2>4 DEF StateFile
    <3>4. mem'[i].state.pending = BaseState(i)'.pending + added'[i]
      <4>1. mem[i].state.pending = BaseState(i).pending + added[i]
        BY <2>3 DEF EditsOf
      <4>2. BaseState(i)'.pending = BaseState(i).pending
        BY <2>5, <3>1
      <4> QED BY <4>1, <4>2, <3>1, <3>2, <3>3
    <3>5. EditsOf(i)'
      BY <2>3, <2>5, <3>1, <3>3, <3>4 DEF EditsOf
    <3> QED BY <3>5, <2>1, <2>2
  <2>7. CASE StampUpload(i)
    <3>1. /\ mem'[i].state = [mem[i].state EXCEPT !.uploadAt = clock + 1]
          /\ mem'[i].config = mem[i].config /\ UNCHANGED <<base, edited, added>>
      BY <2>7 DEF StampUpload
    <3>2. /\ mem'[i].state.pending = mem[i].state.pending
          /\ mem'[i].state.agents = mem[i].state.agents
      BY <3>1, <2>4 DEF StateFile
    <3>3. EditsOf(i)'
      BY <2>3, <2>5, <3>1, <3>2 DEF EditsOf
    <3> QED BY <3>3, <2>1, <2>2
  <2>8. ASSUME NEW a \in Agent, ToggleAgent(i, a) PROVE EditsInv' /\ NewInv'
    <3>1. /\ mem'[i].state = [mem[i].state EXCEPT !.agents = Toggle(mem[i].state.agents, a)]
          /\ mem'[i].config = mem[i].config /\ UNCHANGED <<base, added>>
          /\ edited'[i] = Toggle(edited[i], a)
      BY <2>8 DEF ToggleAgent, Toggle
    <3>2. mem'[i].state.pending = mem[i].state.pending
          /\ mem'[i].state.agents = Toggle(mem[i].state.agents, a)
      BY <3>1, <2>4 DEF StateFile
    <3>3. EditsOf(i)'
      BY <2>3, <2>5, <3>1, <3>2, FileAssumption DEF EditsOf, Toggle
    <3> QED BY <3>3, <2>1, <2>2
  <2>9. ASSUME NEW f \in Preference, TogglePreference(i, f) PROVE EditsInv' /\ NewInv'
    <3>1. /\ mem'[i].config = [mem[i].config EXCEPT ![f] = ~mem[i].config[f]]
          /\ mem'[i].state = mem[i].state /\ UNCHANGED <<base, added>>
          /\ edited'[i] = Toggle(edited[i], f)
      BY <2>9 DEF TogglePreference, Toggle
    <3>2. \A g \in Preference :
            mem'[i].config[g] = IF g = f THEN ~mem[i].config[f] ELSE mem[i].config[g]
      BY <3>1, <2>4 DEF ConfigFile
    <3>3. \A g \in Preference :
            g \in edited'[i] <=> (IF g = f THEN f \notin edited[i] ELSE g \in edited[i])
      BY <3>1 DEF Toggle
    <3>4. \A g \in Preference : mem[i].config[g] \in BOOLEAN /\ BaseConfig(i)[g] \in BOOLEAN
      BY <2>4 DEF ConfigFile
    <3>5. \A g \in Preference : g \in edited'[i] <=> mem'[i].config[g] # BaseConfig(i)'[g]
      BY <2>3, <2>5, <3>1, <3>2, <3>3, <3>4 DEF EditsOf
    <3>6. EditsOf(i)'
      BY <2>3, <2>5, <3>1, <3>5, FileAssumption DEF EditsOf, Toggle
    <3> QED BY <3>6, <2>1, <2>2
  <2> QED BY <1>3, <2>6, <2>7, <2>8, <2>9 DEF Edit
<1>4. ASSUME NEW i \in Instance, SaveBoth(i) PROVE EditsInv' /\ NewInv'
  <2>1. EditsOf(i)'
    <3>1. base'[i] = mem[i] /\ mem'[i] = mem[i] /\ added'[i] = 0 /\ edited'[i] = {}
      BY <1>4 DEF SaveBoth, WriteState
    <3>2. /\ mem[i].state # Absent /\ mem[i].config # Absent
          /\ mem[i].state.pending \in Nat
      BY FileAssumption DEF StateFile
    <3> QED BY <3>1, <3>2 DEF EditsOf, BaseState, BaseConfig
  <2>2. \A j \in Instance \ {i} : EditsOf(j)'
    BY <1>4, OthersKeepEdits DEF SaveBoth, WriteState
  <2> QED BY <1>4, <2>1, <2>2 DEF SaveBoth, WriteState, NewInv
<1>5. ASSUME NEW i \in Instance, SaveStateOnly(i) PROVE EditsInv' /\ NewInv'
  <2>1. EditsOf(i)'
    <3>1. /\ base'[i].state = mem[i].state /\ base'[i].config = base[i].config
          /\ mem'[i] = mem[i] /\ added'[i] = 0 /\ edited'[i] = edited[i] \ Agent
      BY <1>5 DEF SaveStateOnly, WriteState
    <3>2. mem[i].state # Absent /\ mem[i].state.pending \in Nat
      BY FileAssumption DEF StateFile
    <3>3. BaseState(i)' = mem[i].state /\ BaseConfig(i)' = BaseConfig(i)
      BY <3>1, <3>2 DEF BaseState, BaseConfig
    <3> QED BY <3>1, <3>2, <3>3, FileAssumption DEF EditsOf
  <2>2. \A j \in Instance \ {i} : EditsOf(j)'
    BY <1>5, OthersKeepEdits DEF SaveStateOnly, WriteState
  <2> QED BY <1>5, <2>1, <2>2 DEF SaveStateOnly, WriteState, NewInv
<1>6. CASE Corrupt \/ UNCHANGED vars
  <2>1. UNCHANGED <<mem, base, added, edited, phase>>
    BY <1>6 DEF Corrupt, vars
  <2> QED BY <2>1, OthersKeepEdits DEF NewInv
<1> QED BY <1>1, <1>2, <1>3, <1>4, <1>5, <1>6 DEF Next

-----------------------------------------------------------------------------
(* What a save makes of the counter.                                       *)

LEMMA WriteAddsOnce ==
  ASSUME TypeOK, EditsInv, PendingIsSum, NEW i \in Instance, CanMerge(i), WriteState(i)
  PROVE  PendingIsSum'
<1> SUFFICES ASSUME ~blind' PROVE state'.pending = booked' /\ Readable(state')
  BY DEF PendingIsSum
<1>1. ~blind /\ (base[i].state = Absent => state = Absent)
  BY DEF WriteState
<1>2. state' \in StateFile /\ Readable(state')
  BY MergedTypes, FileAssumption DEF WriteState, Readable
<1>3. /\ mem[i].state.pending = BaseState(i).pending + added[i]
      /\ booked' = booked + added[i] /\ added[i] \in Nat /\ booked \in Nat
  BY DEF EditsInv, EditsOf, WriteState, TypeOK
<1>4. CASE base[i].state = Absent
  <2>1. booked = 0 /\ state' = mem[i].state
    BY <1>1, <1>4 DEF PendingIsSum, Readable, WriteState, MergedState
  <2> QED BY <1>2, <1>3, <1>4, <2>1 DEF BaseState, DefaultState
<1>5. CASE base[i].state # Absent
  <2> DEFINE onDisk == IF Readable(state) THEN state ELSE DefaultState
  <2>1. onDisk \in StateFile /\ onDisk.pending = booked
    BY <1>1, <1>5, DefaultType DEF PendingIsSum, Readable, TypeOK, DefaultState
  <2>2. base[i].state \in StateFile /\ mem[i].state \in StateFile
    BY <1>5 DEF TypeOK
  <2>3. state'.pending
          = MergeCounterDelta(base[i].state.pending, mem[i].state.pending, onDisk.pending)
    BY <1>5 DEF WriteState, MergedState, MergeState
  <2>4. base[i].state.pending \in Nat /\ mem[i].state.pending \in Nat
        /\ mem[i].state.pending = base[i].state.pending + added[i]
    BY <2>2, <1>3, <1>5 DEF StateFile, BaseState
  <2> HIDE DEF onDisk
  <2> QED BY <1>2, <1>3, <2>1, <2>3, <2>4 DEF MergeCounterDelta
<1> QED BY <1>4, <1>5

LEMMA SumStep == TypeOK /\ EditsInv /\ PendingIsSum /\ [Next]_vars => PendingIsSum'
<1> SUFFICES ASSUME TypeOK, EditsInv, PendingIsSum, [Next]_vars PROVE PendingIsSum'
  OBVIOUS
<1>1. ASSUME NEW i \in Instance, SaveBoth(i) \/ SaveStateOnly(i) PROVE PendingIsSum'
  BY <1>1, WriteAddsOnce DEF SaveBoth, SaveStateOnly
<1>2. ASSUME NEW i \in Instance, Load(i) PROVE PendingIsSum'
  BY <1>2 DEF Load, PendingIsSum, Readable, History
<1>3. ASSUME NEW i \in Instance, Drop(i) \/ Edit(i) PROVE PendingIsSum'
  BY <1>3 DEF Drop, Edit, AddTokens, StampUpload, ToggleAgent, TogglePreference,
              PendingIsSum, Files, History
<1>4. CASE Corrupt
  BY <1>4 DEF Corrupt, PendingIsSum, Readable, History
<1>5. CASE UNCHANGED vars
  BY <1>5 DEF vars, PendingIsSum
<1> QED BY <1>1, <1>2, <1>3, <1>4, <1>5 DEF Next

-----------------------------------------------------------------------------
LEMMA IInvInit == Init => IInv
<1> SUFFICES ASSUME Init PROVE IInv
  OBVIOUS
<1>1. TypeOK
  BY TypeInit
<1>2. EditsInv /\ NewInv
  <2>1. ASSUME NEW i \in Instance PROVE EditsOf(i)
    <3>1. /\ mem[i].state = DefaultState /\ mem[i].config = DefaultConfig
          /\ BaseState(i) = DefaultState /\ BaseConfig(i) = DefaultConfig
          /\ added[i] = 0 /\ edited[i] = {}
      BY DEF Init, BaseState, BaseConfig
    <3> QED BY <3>1 DEF EditsOf, DefaultState
  <2> QED BY <2>1 DEF Init, EditsInv, NewInv
<1>3. PendingIsSum
  BY DEF Init, PendingIsSum, Readable
<1> QED BY <1>1, <1>2, <1>3 DEF IInv

LEMMA Inductive == Spec => []IInv
<1>1. IInv /\ [Next]_vars => IInv'
  BY TypeStep, EditsStep, SumStep DEF IInv
<1> QED BY IInvInit, <1>1, PTL DEF Spec

\* Files, baselines and instances keep their types.
THEOREM ConfigTypeCorrect == Spec => []TypeOK
<1>1. IInv => TypeOK
  BY DEF IInv
<1> QED BY <1>1, Inductive, PTL

\* Every token an instance durably added is in the file once, for any number
\* of instances, failed saves and retries.
THEOREM PendingAccumulates == Spec => []PendingIsSum
<1>1. IInv => PendingIsSum
  BY DEF IInv
<1> QED BY <1>1, Inductive, PTL

\* Whatever order instances save in, the time of the last upload in the file
\* moves forward.
THEOREM UploadTimeMovesForward == Spec => UploadTimeNeverGoesBack
<1>1. IInv /\ [Next]_vars =>
        [Readable(state) /\ Readable(state') /\ ~blind' =>
           state'.uploadAt >= state.uploadAt]_vars
  <2> SUFFICES ASSUME IInv, [Next]_vars, Readable(state), Readable(state'), ~blind'
               PROVE  state'.uploadAt >= state.uploadAt
    OBVIOUS
  <2>1. state \in StateFile
    BY DEF IInv, TypeOK, Readable
  <2>2. state' = state => state'.uploadAt >= state.uploadAt
    BY <2>1 DEF StateFile
  <2>3. ASSUME NEW i \in Instance, SaveBoth(i) \/ SaveStateOnly(i)
        PROVE  state'.uploadAt >= state.uploadAt
    <3>1. base[i].state \in StateFile /\ mem[i].state \in StateFile
      BY <2>1, <2>3, FileAssumption DEF IInv, TypeOK, SaveBoth, SaveStateOnly, WriteState
    <3>2. state' = MergeState(base[i].state, mem[i].state, state)
      BY <2>3, <3>1, FileAssumption
      DEF SaveBoth, SaveStateOnly, WriteState, MergedState
    <3> QED BY <2>1, <3>1, <3>2, MergeMovesTimeForward
  <2>4. ASSUME NEW i \in Instance, Load(i) \/ Drop(i) \/ Edit(i) PROVE state' = state
    BY <2>4 DEF Load, Drop, Edit, AddTokens, StampUpload, ToggleAgent,
                TogglePreference, Files, Readable
  <2>5. CASE Corrupt \/ UNCHANGED vars
    BY <2>2, <2>5 DEF Corrupt, Readable, vars
  <2> QED BY <2>2, <2>3, <2>4, <2>5 DEF Next
<1> QED BY <1>1, Inductive, PTL DEF Spec, UploadTimeNeverGoesBack

\* No save ever replaces a state.toml that does not parse, unless it never
\* looked for one.
THEOREM GarbageIsKept == Spec => GarbageNeverOverwritten
<1>1. IInv /\ [Next]_vars =>
        [state = Garbage /\ state' # Garbage => state' = Absent \/ blind']_vars
  <2> SUFFICES ASSUME IInv, [Next]_vars, state = Garbage, state' # Garbage
               PROVE  state' = Absent \/ blind'
    OBVIOUS
  <2>1. ASSUME NEW i \in Instance, SaveBoth(i) \/ SaveStateOnly(i) PROVE blind'
    BY <2>1, FileAssumption DEF SaveBoth, SaveStateOnly, WriteState, CanMerge
  <2>2. ASSUME NEW i \in Instance, Load(i) PROVE state' = Absent
    BY <2>2 DEF Load
  <2>3. ASSUME NEW i \in Instance, Drop(i) \/ Edit(i) PROVE FALSE
    BY <2>3 DEF Drop, Edit, AddTokens, StampUpload, ToggleAgent, TogglePreference, Files
  <2>4. CASE Corrupt \/ UNCHANGED vars
    BY <2>4 DEF Corrupt, Readable, vars
  <2> QED BY <2>1, <2>2, <2>3, <2>4 DEF Next
<1> QED BY <1>1, Inductive, PTL DEF Spec, GarbageNeverOverwritten

\* A save applies this instance's edits and nothing else, however many other
\* instances saved since it loaded and however often it saved itself.
THEOREM SavesApplyOwnEdits == Spec => SavesExactlyOwnEdits
<1> DEFINE Exact(i) ==
      /\ Readable(state) /\ ~blind' =>
           \A a \in Agent :
             a \in state'.agents <=>
               a \in (IF a \in edited[i] THEN mem[i].state.agents ELSE state.agents)
      /\ Readable(config) /\ config' # config =>
           \/ base[i].config = Absent
           \/ \A f \in Preference :
                config'[f] = IF f \in edited[i] THEN mem[i].config[f] ELSE config[f]
<1>1. ASSUME IInv, NEW i \in Instance, SaveBoth(i) \/ SaveStateOnly(i) PROVE Exact(i)
  <2>1. EditsOf(i) /\ WriteState(i)
    BY <1>1 DEF IInv, EditsInv, SaveBoth, SaveStateOnly
  <2>2. ASSUME Readable(state), ~blind', NEW a \in Agent
        PROVE  a \in state'.agents <=>
                 a \in (IF a \in edited[i] THEN mem[i].state.agents ELSE state.agents)
    <3>1. base[i].state # Absent
      BY <2>1, <2>2 DEF WriteState, Readable
    <3>2. state'.agents
            = MergeInstalledAgents(base[i].state.agents, mem[i].state.agents, state.agents)
      BY <2>1, <2>2, <3>1 DEF WriteState, MergedState, MergeState
    <3> QED BY <2>1, <3>1, <3>2 DEF EditsOf, BaseState, MergeInstalledAgents
  <2>3. ASSUME Readable(config), config' # config, base[i].config # Absent, NEW f \in Preference
        PROVE  config'[f] = IF f \in edited[i] THEN mem[i].config[f] ELSE config[f]
    <3>1. config' = MergedConfig(i)
      BY <1>1, <2>3 DEF SaveBoth, SaveStateOnly
    <3>2. config'[f] = MergePreference(base[i].config[f], mem[i].config[f], config[f])
      BY <3>1, <2>3 DEF MergedConfig
    <3> QED BY <2>1, <2>3, <3>2 DEF EditsOf, BaseConfig, MergePreference
  <2> QED BY <2>2, <2>3
<1>2. IInv /\ [Next]_vars =>
        [\A i \in Instance : SaveBoth(i) \/ SaveStateOnly(i) => Exact(i)]_vars
  BY <1>1
<1> QED BY <1>2, Inductive, PTL DEF Spec, SavesExactlyOwnEdits

-----------------------------------------------------------------------------
(* Part 2: sums.                                                           *)

\* What the community modules' sum is: a recursive function of the subsets.
LEMMA SumUnfold ==
  ASSUME NEW f, NEW S
  PROVE  SumFunctionOnSet(f, S) =
           (LET iter[s \in SUBSET S] ==
                 IF s = {} THEN 0
                 ELSE LET x == CHOOSE x \in s : TRUE
                      IN  f[x] + iter[s \ {x}]
            IN iter[S])
  BY DEF SumFunctionOnSet, FoldFunctionOnSet, MapThenFoldSet

\* Induction over the subsets of a finite set, without an operator parameter:
\* what has to hold of them is the set T.
LEMMA SubsetInduction ==
  ASSUME NEW S, IsFiniteSet(S), NEW T,
         \A U \in SUBSET S :
           (\A V \in SUBSET U : V # U => V \in T) => U \in T
  PROVE  SUBSET S \subseteq T
<1> DEFINE Bad == (SUBSET S) \ T
<1> SUFFICES ASSUME Bad # {} PROVE FALSE
  OBVIOUS
<1>1. IsWellFoundedOn(StrictSubsetOrdering(S), SUBSET S)
  <2>1. FiniteSubsetsOf(S) = SUBSET S
    BY FS_FiniteSubsetsOfFinite
  <2>2. IsWellFoundedOn(StrictSubsetOrdering(S), FiniteSubsetsOf(S))
    BY FS_StrictSubsetOrderingWellFounded
  <2> QED
    BY <2>1, <2>2
<1>2. Bad \subseteq SUBSET S
  OBVIOUS
<1> HIDE DEF Bad
<1>3. PICK U \in Bad : \A V \in Bad : <<V, U>> \notin StrictSubsetOrdering(S)
  BY <1>1, <1>2, WFMin
<1>4. \A V \in SUBSET U : V # U => V \in T
  BY <1>3 DEF StrictSubsetOrdering, Bad
<1> QED
  BY <1>3, <1>4 DEF Bad

\* g is defined on the subsets of S by that recursion.
Solves(g, f, S) ==
  g = [s \in SUBSET S |->
         IF s = {} THEN 0
         ELSE LET x == CHOOSE x \in s : TRUE IN f[x] + g[s \ {x}]]

\* Two such functions agree wherever both are defined.
LEMMA SolutionsAgree ==
  ASSUME NEW f, NEW S, IsFiniteSet(S), NEW g, NEW h, NEW G, NEW H,
         S \subseteq G, S \subseteq H, Solves(g, f, G), Solves(h, f, H)
  PROVE  g[S] = h[S]
<1> DEFINE T == {s \in SUBSET S : g[s] = h[s]}
<1>1. ASSUME NEW U \in SUBSET S, \A V \in SUBSET U : V # U => V \in T
      PROVE  U \in T
  <2>1. CASE U = {}
    BY <2>1 DEF Solves
  <2>2. CASE U # {}
    <3> DEFINE x == CHOOSE x \in U : TRUE
    <3>1. x \in U
      BY <2>2
    <3>2. g[U \ {x}] = h[U \ {x}]
      BY <1>1, <3>1
    <3>3. U \in SUBSET G /\ U \in SUBSET H
      OBVIOUS
    <3>4. g[U] = f[x] + g[U \ {x}]
      BY <2>2, <3>3 DEF Solves
    <3>5. h[U] = f[x] + h[U \ {x}]
      BY <2>2, <3>3 DEF Solves
    <3> QED
      BY <3>2, <3>4, <3>5
  <2> QED
    BY <2>1, <2>2
<1> HIDE DEF T
<1>2. SUBSET S \subseteq T
  BY <1>1, SubsetInduction
<1> QED
  BY <1>2 DEF T

\* There is one: below a set, the values of smaller ones put together.
LEMMA SolutionExists ==
  ASSUME NEW f, NEW S, IsFiniteSet(S)
  PROVE  \E g : Solves(g, f, S)
<1> DEFINE T == {s \in SUBSET S : \E g : Solves(g, f, s)}
<1>1. ASSUME NEW U \in SUBSET S, \A V \in SUBSET U : V # U => V \in T
      PROVE  U \in T
  <2> DEFINE sol(V) == CHOOSE g : Solves(g, f, V)
             below == [V \in SUBSET U |-> sol(V)[V]]
             x == CHOOSE x \in U : TRUE
             g == [V \in SUBSET U |->
                     IF V = {} THEN 0
                     ELSE IF V = U THEN f[x] + below[U \ {x}] ELSE below[V]]
  <2>1. ASSUME NEW V \in SUBSET U, V # U
        PROVE  Solves(sol(V), f, V)
    BY <1>1, <2>1
  <2> HIDE DEF sol
  <2>2. ASSUME NEW V \in SUBSET U, V # {}
        PROVE  g[V] = f[CHOOSE y \in V : TRUE] + g[V \ {CHOOSE y \in V : TRUE}]
    <3> DEFINE y == CHOOSE y \in V : TRUE
               W == V \ {y}
    <3>1. y \in V
      BY <2>2
    <3>2. W \in SUBSET U /\ W # U /\ W # V /\ W \subseteq V
      BY <3>1
    <3>3. Solves(sol(W), f, W)
      BY <2>1, <3>2
    <3>4. g[W] = sol(W)[W]
      <4>1. CASE W = {}
        <5>1. sol(W)[W] = 0
          BY <3>3, <4>1 DEF Solves
        <5> QED
          BY <5>1, <4>1, <3>2
      <4> QED
        BY <4>1, <3>2
    <3>5. CASE V = U
      BY <3>4, <3>5, <3>2, <2>2
    <3>6. CASE V # U
      <4>1. Solves(sol(V), f, V)
        BY <2>1, <3>6
      <4>2. g[V] = sol(V)[V]
        BY <3>6, <2>2
      <4>3. V \in SUBSET V
        OBVIOUS
      <4>4. sol(V)[V] = f[y] + sol(V)[W]
        BY <4>1, <2>2, <4>3 DEF Solves
      <4>5. IsFiniteSet(W)
        BY <3>2, FS_Subset
      <4>6. sol(V)[W] = sol(W)[W]
        BY <4>1, <3>3, <4>5, <3>2, SolutionsAgree
      <4> QED
        BY <4>2, <4>4, <4>6, <3>4
    <3> QED
      BY <3>5, <3>6
  <2>3. g[{}] = 0
    OBVIOUS
  <2>4. g = [V \in SUBSET U |-> g[V]]
    OBVIOUS
  <2> HIDE DEF g
  <2>5. Solves(g, f, U)
    BY <2>2, <2>3, <2>4 DEF Solves
  <2> QED
    BY <2>5
<1> HIDE DEF T
<1>2. SUBSET S \subseteq T
  BY <1>1, SubsetInduction
<1> QED
  BY <1>2 DEF T

\* So the sum is what its definition says.
LEMMA SumIsSolution ==
  ASSUME NEW f, NEW S, IsFiniteSet(S)
  PROVE  \E g : Solves(g, f, S) /\ SumFunctionOnSet(f, S) = g[S]
<1> DEFINE it == CHOOSE g : Solves(g, f, S)
<1>1. Solves(it, f, S)
  BY SolutionExists
<1>2. SumFunctionOnSet(f, S) = it[S]
  BY SumUnfold DEF Solves
<1> QED
  BY <1>1, <1>2
-----------------------------------------------------------------------------

LEMMA SumEmpty == ASSUME NEW f PROVE SumFunctionOnSet(f, {}) = 0
<1>1. PICK g : Solves(g, f, {}) /\ SumFunctionOnSet(f, {}) = g[{}]
  BY FS_EmptySet, SumIsSolution
<1> QED
  BY <1>1 DEF Solves

\* The equation the definition is meant to satisfy.
LEMMA SumFirst ==
  ASSUME NEW f, NEW S, IsFiniteSet(S), S # {}
  PROVE  LET x == CHOOSE x \in S : TRUE
         IN SumFunctionOnSet(f, S) = f[x] + SumFunctionOnSet(f, S \ {x})
<1> DEFINE x == CHOOSE x \in S : TRUE
<1>1. PICK g : Solves(g, f, S) /\ SumFunctionOnSet(f, S) = g[S]
  BY SumIsSolution
<1>2. IsFiniteSet(S \ {x})
  BY FS_RemoveElement
<1>3. PICK h : Solves(h, f, S \ {x}) /\ SumFunctionOnSet(f, S \ {x}) = h[S \ {x}]
  BY <1>2, SumIsSolution
<1>4. h[S \ {x}] = g[S \ {x}]
  <2> HIDE DEF x
  <2> QED
    BY <1>1, <1>2, <1>3, SolutionsAgree
<1>5. g[S] = f[x] + g[S \ {x}]
  <2>1. S \in SUBSET S
    OBVIOUS
  <2> QED
    BY <1>1, <2>1 DEF Solves
<1> QED
  BY <1>1, <1>3, <1>4, <1>5

\* A sum of integers is one.
LEMMA SumType ==
  ASSUME NEW f, NEW S, IsFiniteSet(S), \A x \in S : f[x] \in Int
  PROVE  SumFunctionOnSet(f, S) \in Int
<1> DEFINE T == {s \in SUBSET S : SumFunctionOnSet(f, s) \in Int}
<1>1. ASSUME NEW U \in SUBSET S, \A V \in SUBSET U : V # U => V \in T
      PROVE  U \in T
  <2>1. CASE U = {}
    BY <2>1, SumEmpty
  <2>2. CASE U # {}
    <3> DEFINE x == CHOOSE x \in U : TRUE
    <3>1. x \in U
      BY <2>2
    <3>2. U \ {x} \in T
      BY <1>1, <3>1
    <3>3. IsFiniteSet(U)
      BY FS_Subset
    <3>4. SumFunctionOnSet(f, U) = f[x] + SumFunctionOnSet(f, U \ {x})
      BY <2>2, <3>3, SumFirst
    <3> QED
      BY <3>1, <3>2, <3>4
  <2> QED
    BY <2>1, <2>2
<1> HIDE DEF T
<1>2. SUBSET S \subseteq T
  BY <1>1, SubsetInduction
<1> QED
  BY <1>2 DEF T

\* The order of the elements does not matter: any of them can be taken out first.
LEMMA SumWithout ==
  ASSUME NEW f, NEW S, IsFiniteSet(S), \A x \in S : f[x] \in Int, NEW e \in S
  PROVE  SumFunctionOnSet(f, S) = f[e] + SumFunctionOnSet(f, S \ {e})
<1> DEFINE T == {s \in SUBSET S : \A y \in s :
                   SumFunctionOnSet(f, s) = f[y] + SumFunctionOnSet(f, s \ {y})}
<1>1. ASSUME NEW U \in SUBSET S, \A V \in SUBSET U : V # U => V \in T
      PROVE  U \in T
  <2>1. SUFFICES ASSUME NEW y \in U
                 PROVE SumFunctionOnSet(f, U) = f[y] + SumFunctionOnSet(f, U \ {y})
    OBVIOUS
  <2> DEFINE x == CHOOSE x \in U : TRUE
  <2>2. x \in U
    OBVIOUS
  <2>3. IsFiniteSet(U)
    BY FS_Subset
  <2>4. SumFunctionOnSet(f, U) = f[x] + SumFunctionOnSet(f, U \ {x})
    BY <2>3, SumFirst
  <2> HIDE DEF x
  <2>5. CASE x = y
    BY <2>4, <2>5
  <2>6. CASE x # y
    <3>1. U \ {x} \in T /\ U \ {y} \in T
      BY <1>1, <2>2, <2>1
    <3>2. SumFunctionOnSet(f, U \ {x}) = f[y] + SumFunctionOnSet(f, (U \ {x}) \ {y})
      BY <3>1, <2>6, <2>1
    <3>3. SumFunctionOnSet(f, U \ {y}) = f[x] + SumFunctionOnSet(f, (U \ {y}) \ {x})
      BY <3>1, <2>6, <2>2
    <3>4. (U \ {x}) \ {y} = (U \ {y}) \ {x}
      OBVIOUS
    <3>5. IsFiniteSet((U \ {y}) \ {x}) /\ (U \ {y}) \ {x} \in SUBSET S
      BY <2>3, FS_Subset
    <3>6. SumFunctionOnSet(f, (U \ {y}) \ {x}) \in Int
      BY <3>5, SumType
    <3>7. f[x] \in Int /\ f[y] \in Int
      BY <2>1, <2>2
    <3>8. SumFunctionOnSet(f, U \ {x}) = f[y] + SumFunctionOnSet(f, (U \ {y}) \ {x})
      BY <3>2, <3>4
    <3> QED
      BY <2>4, <3>3, <3>6, <3>7, <3>8
  <2> QED
    BY <2>5, <2>6
<1> HIDE DEF T
<1>2. SUBSET S \subseteq T
  BY <1>1, SubsetInduction
<1>3. S \in T
  BY <1>2
<1> QED
  BY <1>3 DEF T

\* The sum sees the function on its set only.
LEMMA SumAgrees ==
  ASSUME NEW f, NEW g, NEW S, IsFiniteSet(S), \A x \in S : f[x] = g[x]
  PROVE  SumFunctionOnSet(f, S) = SumFunctionOnSet(g, S)
<1> DEFINE T == {s \in SUBSET S : SumFunctionOnSet(f, s) = SumFunctionOnSet(g, s)}
<1>1. ASSUME NEW U \in SUBSET S, \A V \in SUBSET U : V # U => V \in T
      PROVE  U \in T
  <2>1. CASE U = {}
    BY <2>1, SumEmpty
  <2>2. CASE U # {}
    <3> DEFINE x == CHOOSE x \in U : TRUE
    <3>1. x \in U
      BY <2>2
    <3>2. U \ {x} \in T
      BY <1>1, <3>1
    <3>3. IsFiniteSet(U)
      BY FS_Subset
    <3>4. SumFunctionOnSet(f, U) = f[x] + SumFunctionOnSet(f, U \ {x})
      BY <2>2, <3>3, SumFirst
    <3>5. SumFunctionOnSet(g, U) = g[x] + SumFunctionOnSet(g, U \ {x})
      BY <2>2, <3>3, SumFirst
    <3> QED
      BY <3>1, <3>2, <3>4, <3>5
  <2> QED
    BY <2>1, <2>2
<1> HIDE DEF T
<1>2. SUBSET S \subseteq T
  BY <1>1, SubsetInduction
<1> QED
  BY <1>2 DEF T

\* One process moves: the total moves by as much as its own term.
LEMMA SumMoves ==
  ASSUME NEW S, IsFiniteSet(S), NEW f \in [S -> Int], NEW g \in [S -> Int], NEW e \in S,
         \A x \in S \ {e} : g[x] = f[x]
  PROVE  SumFunction(g) = SumFunction(f) + (g[e] - f[e])
<1>1. IsFiniteSet(S \ {e})
  BY FS_RemoveElement
<1>2. SumFunctionOnSet(f, S) = f[e] + SumFunctionOnSet(f, S \ {e})
  BY SumWithout
<1>3. SumFunctionOnSet(g, S) = g[e] + SumFunctionOnSet(g, S \ {e})
  BY SumWithout
<1>4. SumFunctionOnSet(f, S \ {e}) = SumFunctionOnSet(g, S \ {e})
  BY <1>1, SumAgrees
<1>5. SumFunctionOnSet(f, S \ {e}) \in Int
  BY <1>1, SumType
<1>6. SumFunction(f) = SumFunctionOnSet(f, S) /\ SumFunction(g) = SumFunctionOnSet(g, S)
  BY DEF SumFunction
<1> QED
  BY <1>2, <1>3, <1>4, <1>5, <1>6

\* Terms that are all zero.
LEMMA SumZero ==
  ASSUME NEW S, IsFiniteSet(S), NEW f \in [S -> Int], \A x \in S : f[x] = 0
  PROVE  SumFunction(f) = 0
<1> DEFINE T == {s \in SUBSET S : SumFunctionOnSet(f, s) = 0}
<1>1. ASSUME NEW U \in SUBSET S, \A V \in SUBSET U : V # U => V \in T
      PROVE  U \in T
  <2>1. CASE U = {}
    BY <2>1, SumEmpty
  <2>2. CASE U # {}
    <3>1. PICK x \in U : TRUE
      BY <2>2
    <3>2. U \ {x} \in T
      BY <1>1, <3>1
    <3>3. IsFiniteSet(U)
      BY FS_Subset
    <3>4. SumFunctionOnSet(f, U) = f[x] + SumFunctionOnSet(f, U \ {x})
      BY <3>3, SumWithout
    <3> QED
      BY <3>2, <3>4
  <2> QED
    BY <2>1, <2>2
<1> HIDE DEF T
<1>2. SUBSET S \subseteq T
  BY <1>1, SubsetInduction
<1>3. SumFunctionOnSet(f, S) = 0
  BY <1>2 DEF T
<1> QED
  BY <1>3 DEF SumFunction

-----------------------------------------------------------------------------
(* Part 3: the token ledger.                                               *)

ServerLabels == {"new", "register", "idle", "toDb", "toRow", "gate", "load", "post", "save",
                 "exitDb", "exitRow", "exitLoad", "exitPost", "exitSave", "gone"}
CommandLabels == {"new", "post", "save", "readDb", "readRow", "writeRow", "addLoad",
                  "addSave", "gone"}

\* What a process has not yet taken off its own account.
OwedBy(p) == IF p \in Server THEN saved[p] - flushed[p] ELSE 0

\* The pending count a flush computed: what it loaded and what it owes.
ToUpload(p) == BasePending(p) + OwedBy(p)

\* Between its load and its upload a flush holds the whole count and has sent nothing.
BeforePost(p) == sent[p] = 0 /\ cfg[p].pending = ToUpload(p) /\ ToUpload(p) > 0

\* Before its save it holds the count or has sent exactly it.
BeforeSave(p) ==
  \/ sent[p] = 0 /\ cfg[p].pending = ToUpload(p)
  \/ sent[p] = ToUpload(p) /\ sent[p] > 0 /\ cfg[p].pending = 0

ServerInv(s) ==
  /\ pc[s] \in ServerLabels
  /\ pc[s] \in {"new", "register", "gone"} => saved[s] = flushed[s]
  /\ pc[s] \in {"post", "save"} => seen[s] = saved[s]
  /\ pc[s] \in {"load", "post", "save", "exitPost", "exitSave"} => saved[s] > flushed[s]
  /\ pc[s] \in {"post", "exitPost"} => BeforePost(s)
  /\ pc[s] \in {"save", "exitSave"} => BeforeSave(s)
  /\ pc[s] \notin {"save", "exitSave"} => sent[s] = 0

CommandInv(c) ==
  /\ pc[c] \in CommandLabels
  /\ pc[c] = "post" => BeforePost(c)
  /\ pc[c] = "save" => BeforeSave(c)
  /\ pc[c] # "save" => sent[c] = 0
  /\ pc[c] \in {"addLoad", "addSave"} => seen[c] > previous[c]
  /\ pc[c] = "addSave" => cfg[c].pending = BasePending(c) + (seen[c] - previous[c])

\* A baseline is a file that was there; the file is never deleted.
BaselineInv == file = NoFile => \A p \in Proc : baseline[p] = NoFile

StepInv ==
  /\ LedgerTypeOK
  /\ pc \in [Proc -> ServerLabels \cup CommandLabels]
  /\ \A s \in Server : ServerInv(s)
  /\ \A c \in Command : CommandInv(c)
  /\ BaselineInv

-----------------------------------------------------------------------------
(* What a step of one process leaves alone, and what it moves.             *)

OthersUnchanged(p) ==
  /\ \A q \in Proc \ {p} :
       /\ pc'[q] = pc[q] /\ cfg'[q] = cfg[q] /\ baseline'[q] = baseline[q]
       /\ sent'[q] = sent[q] /\ seen'[q] = seen[q]
  /\ \A s \in Server \ {p} : saved'[s] = saved[s] /\ flushed'[s] = flushed[s]
  /\ \A c \in Command \ {p} : previous'[c] = previous[c]

\* By how much a step of p moves the balance.
Moved(p) ==
  (service' - service) + (FileTokens' - FileTokens)
    + (OwedBy(p)' - OwedBy(p)) - (sent'[p] - sent[p])

\* A step that moves it by less than was earned is named in lost, one that
\* moves it by more in doubled.
Accounted(p) ==
  /\ lost' = {} => lost = {} /\ Moved(p) >= earned' - earned
  /\ doubled' = {} => doubled = {} /\ Moved(p) <= earned' - earned

\* The types the arithmetic below needs.
LEMMA FileTokensType == ASSUME LedgerTypeOK PROVE FileTokens \in Nat
  BY DEF LedgerTypeOK, FileTokens, State

LEMMA ProcessType ==
  ASSUME LedgerTypeOK, NEW p \in Proc
  PROVE  /\ cfg[p] \in State /\ cfg[p].pending \in Nat
         /\ BasePending(p) \in Nat /\ OwedBy(p) \in Nat /\ sent[p] \in Nat
<1>1. OwedBy(p) \in Nat
  BY DEF LedgerTypeOK, OwedBy
<1>2. BasePending(p) \in Nat
  BY DEF LedgerTypeOK, BasePending, State
<1> QED
  BY <1>1, <1>2 DEF LedgerTypeOK, State

LEMMA MergedIsState ==
  ASSUME LedgerTypeOK, BaselineInv, NEW p \in Proc
  PROVE  Merged(p) \in State
<1>1. CASE baseline[p] = NoFile
  BY <1>1 DEF LedgerTypeOK, Merged
<1>2. CASE baseline[p] # NoFile
  <2>1. file \in State /\ baseline[p] \in State /\ cfg[p] \in State
    BY <1>2 DEF LedgerTypeOK, BaselineInv
  <2> QED
    BY <1>2, <2>1 DEF Merged, State, MergeCounterDelta, MergeMonotonic
<1> QED
  BY <1>1, <1>2

\* A save of what was loaded and a delta adds the delta, unless it replaces a file.
LEMMA SaveAdds ==
  ASSUME LedgerTypeOK, BaselineInv, NEW p \in Proc, NEW d \in Nat,
         cfg[p].pending = BasePending(p) + d, Saved(p)
  PROVE  /\ FileTokens' - FileTokens <= d
         /\ ~BlindSave(p) => FileTokens' - FileTokens = d
<1>1. Merged(p) \in State /\ file' = Merged(p) /\ FileTokens' = Merged(p).pending
  BY MergedIsState, LedgerAssumption DEF Saved, FileTokens
<1>2. CASE baseline[p] = NoFile
  BY <1>1, <1>2, FileTokensType, ProcessType
  DEF Merged, BasePending, BlindSave, FileTokens
<1>3. CASE baseline[p] # NoFile
  <2>1. file # NoFile /\ baseline[p].pending \in Nat
    BY <1>3 DEF LedgerTypeOK, BaselineInv, State
  <2>2. Merged(p).pending = FileTokens + d
    BY <1>3, <2>1, ProcessType DEF Merged, BasePending, FileTokens, MergeCounterDelta
  <2> QED
    BY <1>1, <2>2, FileTokensType
<1> QED
  BY <1>2, <1>3

\* A save after the upload takes off what was loaded, unless another upload of
\* the same count already did.
LEMMA SaveTakesOff ==
  ASSUME LedgerTypeOK, BaselineInv, NEW p \in Proc, cfg[p].pending = 0, Saved(p)
  PROVE  /\ ~BlindSave(p) => FileTokens' - FileTokens >= -BasePending(p)
         /\ ~SameUploadedTwice(p) => FileTokens' - FileTokens <= -BasePending(p)
<1>1. Merged(p) \in State /\ file' = Merged(p) /\ FileTokens' = Merged(p).pending
  BY MergedIsState, LedgerAssumption DEF Saved, FileTokens
<1>2. CASE baseline[p] = NoFile
  BY <1>1, <1>2, FileTokensType DEF Merged, BasePending, BlindSave, FileTokens
<1>3. CASE baseline[p] # NoFile
  <2>1. file # NoFile /\ baseline[p].pending \in Nat
    BY <1>3 DEF LedgerTypeOK, BaselineInv, State
  <2>2. Merged(p).pending = MergeCounterDelta(BasePending(p), 0, FileTokens)
    BY <1>3, <2>1 DEF Merged, BasePending, FileTokens
  <2> QED
    BY <1>1, <1>3, <2>1, <2>2, FileTokensType
    DEF MergeCounterDelta, BasePending, SameUploadedTwice, FileTokens
<1> QED
  BY <1>2, <1>3

-----------------------------------------------------------------------------
(* The balance and the step of one process.                                *)

\* The balance moves by what the step of one process moves.
LEMMA BalanceMoves ==
  ASSUME LedgerTypeOK, LedgerTypeOK', NEW p \in Proc, OthersUnchanged(p)
  PROVE  Balance \in Int /\ Balance' = Balance + Moved(p)
<1>0. IsFiniteSet(Server) /\ IsFiniteSet(Proc)
  BY LedgerAssumption, FS_Union DEF Proc
<1> DEFINE owed == [s \in Server |-> saved[s] - flushed[s]]
           owedNext == [s \in Server |-> saved'[s] - flushed'[s]]
<1>1. owed \in [Server -> Int] /\ owedNext \in [Server -> Int]
  BY DEF LedgerTypeOK
<1>2. Owed = SumFunction(owed) /\ Owed' = SumFunction(owedNext)
  BY DEF Owed
<1>3. \A s \in Server : owed[s] = saved[s] - flushed[s] /\ owedNext[s] = saved'[s] - flushed'[s]
  OBVIOUS
<1> HIDE DEF owed, owedNext
<1>4. Owed \in Int
  BY <1>0, <1>1, <1>2, SumType DEF SumFunction
<1>5. Owed' = Owed + (OwedBy(p)' - OwedBy(p))
  <2>1. CASE p \in Server
    <3>1. \A s \in Server \ {p} : owedNext[s] = owed[s]
      BY <1>3 DEF OthersUnchanged
    <3>2. SumFunction(owedNext) = SumFunction(owed) + (owedNext[p] - owed[p])
      BY <1>0, <1>1, <2>1, <3>1, SumMoves
    <3> QED
      BY <1>2, <1>3, <2>1, <3>2 DEF OwedBy
  <2>2. CASE p \notin Server
    <3>1. owedNext = owed
      BY <2>2 DEF OthersUnchanged, owed, owedNext
    <3> QED
      BY <1>2, <1>4, <2>2, <3>1 DEF OwedBy
  <2> QED
    BY <2>1, <2>2
<1>6. sent \in [Proc -> Int] /\ sent' \in [Proc -> Int]
  BY DEF LedgerTypeOK
<1>7. Uploaded \in Int
  BY <1>0, <1>6, SumType DEF Uploaded, SumFunction
<1>8. Uploaded' = Uploaded + (sent'[p] - sent[p])
  <2>1. \A q \in Proc \ {p} : sent'[q] = sent[q]
    BY DEF OthersUnchanged
  <2>2. SumFunction(sent') = SumFunction(sent) + (sent'[p] - sent[p])
    BY <1>0, <1>6, <2>1, SumMoves
  <2> QED
    BY <2>2 DEF Uploaded
<1>9. FileTokens \in Nat /\ FileTokens' \in Nat
  BY FileTokensType DEF LedgerTypeOK, FileTokens, State
<1>10. /\ service \in Nat /\ service' \in Nat /\ sent[p] \in Nat /\ sent'[p] \in Nat
       /\ OwedBy(p) \in Nat /\ OwedBy(p)' \in Nat
  BY ProcessType DEF LedgerTypeOK, OwedBy
<1> QED
  BY <1>4, <1>5, <1>7, <1>8, <1>9, <1>10 DEF Balance, Moved

-----------------------------------------------------------------------------
(* The steps that move no tokens but the earned ones.                      *)

LocalStep(p) ==
  /\ LedgerTypeOK'
  /\ pc' \in [Proc -> ServerLabels \cup CommandLabels]
  /\ BaselineInv'
  /\ p \in Server => ServerInv(p)'
  /\ p \in Command => CommandInv(p)'
  /\ OthersUnchanged(p)
  /\ Accounted(p)

\* A step that leaves the file and the service alone and owes what it earned.
LEMMA QuietStep ==
  ASSUME StepInv, LedgerTypeOK', NEW p \in Proc, UNCHANGED <<file, service, doubled, lost>>,
         sent'[p] = sent[p], OwedBy(p)' - OwedBy(p) = earned' - earned,
         \A q \in Proc : baseline'[q] \in {baseline[q], file, NoFile}
  PROVE  BaselineInv' /\ Accounted(p)
<1>1. BaselineInv'
  BY DEF StepInv, BaselineInv
<1>2. FileTokens' = FileTokens /\ FileTokens \in Nat
  BY FileTokensType DEF FileTokens, StepInv
<1>3. service \in Nat /\ sent[p] \in Nat /\ earned \in Nat /\ earned' \in Nat
  BY DEF StepInv, LedgerTypeOK
<1> QED
  BY <1>1, <1>2, <1>3 DEF Accounted, Moved

LEMMA ServersAreNoCommands ==
  /\ \A s \in Server : s \in Proc /\ s \notin Command
  /\ \A c \in Command : c \in Proc /\ c \notin Server
  BY LedgerAssumption DEF Proc

LEMMA OpenStep == ASSUME StepInv, NEW s \in Server, Open(s) PROVE LocalStep(s)
<1> USE DEF Open, Goto, ledger, totals, locals, reads, history
<1>0. s \in Proc /\ LedgerTypeOK /\ ServerInv(s)
  BY ServersAreNoCommands DEF StepInv
<1>1. LedgerTypeOK'
  BY <1>0 DEF LedgerTypeOK, ServerInv
<1>2. pc' \in [Proc -> ServerLabels \cup CommandLabels]
  BY <1>0 DEF StepInv, ServerLabels, CommandLabels
<1>3. ServerInv(s)'
  BY <1>0, <1>1 DEF ServerInv, LedgerTypeOK, StepInv, ServerLabels,
     BeforePost, BeforeSave, ToUpload, OwedBy, BasePending
<1>4. OthersUnchanged(s)
  BY <1>0 DEF OthersUnchanged, StepInv, LedgerTypeOK
<1>5. OwedBy(s)' - OwedBy(s) = earned' - earned
  BY <1>0, ServersAreNoCommands DEF OwedBy, LedgerTypeOK, ServerInv
<1>6. BaselineInv' /\ Accounted(s)
  BY <1>0, <1>1, <1>5, QuietStep
<1> QED
  BY <1>1, <1>2, <1>3, <1>4, <1>6, ServersAreNoCommands DEF LocalStep

LEMMA RegisterStep == ASSUME StepInv, NEW s \in Server, Register(s) PROVE LocalStep(s)
<1> USE DEF Register, Goto, ledger, totals, locals, reads, history
<1>0. s \in Proc /\ LedgerTypeOK /\ ServerInv(s)
  BY ServersAreNoCommands DEF StepInv
<1>1. LedgerTypeOK'
  BY <1>0 DEF LedgerTypeOK, ServerInv
<1>2. pc' \in [Proc -> ServerLabels \cup CommandLabels]
  BY <1>0 DEF StepInv, ServerLabels, CommandLabels
<1>3. ServerInv(s)'
  BY <1>0, <1>1 DEF ServerInv, LedgerTypeOK, StepInv, ServerLabels,
     BeforePost, BeforeSave, ToUpload, OwedBy, BasePending
<1>4. OthersUnchanged(s)
  BY <1>0 DEF OthersUnchanged, StepInv, LedgerTypeOK
<1>5. OwedBy(s)' - OwedBy(s) = earned' - earned
  BY <1>0, ServersAreNoCommands DEF OwedBy, LedgerTypeOK, ServerInv
<1>6. BaselineInv' /\ Accounted(s)
  BY <1>0, <1>1, <1>5, QuietStep
<1> QED
  BY <1>1, <1>2, <1>3, <1>4, <1>6, ServersAreNoCommands DEF LocalStep

LEMMA CallStep == ASSUME StepInv, NEW s \in Server, Call(s) PROVE LocalStep(s)
<1> USE DEF Call, Goto, ledger, totals, locals, reads, history
<1>0. s \in Proc /\ LedgerTypeOK /\ ServerInv(s)
  BY ServersAreNoCommands DEF StepInv
<1>1. LedgerTypeOK'
  BY <1>0 DEF LedgerTypeOK, ServerInv
<1>2. pc' \in [Proc -> ServerLabels \cup CommandLabels]
  BY <1>0 DEF StepInv, ServerLabels, CommandLabels
<1>3. ServerInv(s)'
  BY <1>0, <1>1 DEF ServerInv, LedgerTypeOK, StepInv, ServerLabels,
     BeforePost, BeforeSave, ToUpload, OwedBy, BasePending
<1>4. OthersUnchanged(s)
  BY <1>0 DEF OthersUnchanged, StepInv, LedgerTypeOK
<1>5. OwedBy(s)' - OwedBy(s) = earned' - earned
  BY <1>0, ServersAreNoCommands DEF OwedBy, LedgerTypeOK, ServerInv
<1>6. BaselineInv' /\ Accounted(s)
  BY <1>0, <1>1, <1>5, QuietStep
<1> QED
  BY <1>1, <1>2, <1>3, <1>4, <1>6, ServersAreNoCommands DEF LocalStep

LEMMA ToDbStep == ASSUME StepInv, NEW s \in Server, ToDb(s) PROVE LocalStep(s)
<1> USE DEF ToDb, Goto, ledger, totals, locals, reads, history
<1>0. s \in Proc /\ LedgerTypeOK /\ ServerInv(s)
  BY ServersAreNoCommands DEF StepInv
<1>1. LedgerTypeOK'
  BY <1>0 DEF LedgerTypeOK, ServerInv
<1>2. pc' \in [Proc -> ServerLabels \cup CommandLabels]
  BY <1>0 DEF StepInv, ServerLabels, CommandLabels
<1>3. ServerInv(s)'
  BY <1>0, <1>1 DEF ServerInv, LedgerTypeOK, StepInv, ServerLabels,
     BeforePost, BeforeSave, ToUpload, OwedBy, BasePending
<1>4. OthersUnchanged(s)
  BY <1>0 DEF OthersUnchanged, StepInv, LedgerTypeOK
<1>5. OwedBy(s)' - OwedBy(s) = earned' - earned
  BY <1>0, ServersAreNoCommands DEF OwedBy, LedgerTypeOK, ServerInv
<1>6. BaselineInv' /\ Accounted(s)
  BY <1>0, <1>1, <1>5, QuietStep
<1> QED
  BY <1>1, <1>2, <1>3, <1>4, <1>6, ServersAreNoCommands DEF LocalStep

LEMMA ToRowStep == ASSUME StepInv, NEW s \in Server, ToRow(s) PROVE LocalStep(s)
<1> USE DEF ToRow, Goto, ledger, totals, locals, reads, history
<1>0. s \in Proc /\ LedgerTypeOK /\ ServerInv(s)
  BY ServersAreNoCommands DEF StepInv
<1>1. LedgerTypeOK'
  BY <1>0 DEF LedgerTypeOK, ServerInv
<1>2. pc' \in [Proc -> ServerLabels \cup CommandLabels]
  BY <1>0 DEF StepInv, ServerLabels, CommandLabels
<1>3. ServerInv(s)'
  BY <1>0, <1>1 DEF ServerInv, LedgerTypeOK, StepInv, ServerLabels,
     BeforePost, BeforeSave, ToUpload, OwedBy, BasePending
<1>4. OthersUnchanged(s)
  BY <1>0 DEF OthersUnchanged, StepInv, LedgerTypeOK
<1>5. OwedBy(s)' - OwedBy(s) = earned' - earned
  BY <1>0, ServersAreNoCommands DEF OwedBy, LedgerTypeOK, ServerInv
<1>6. BaselineInv' /\ Accounted(s)
  BY <1>0, <1>1, <1>5, QuietStep
<1> QED
  BY <1>1, <1>2, <1>3, <1>4, <1>6, ServersAreNoCommands DEF LocalStep

LEMMA GateStep == ASSUME StepInv, NEW s \in Server, Gate(s) PROVE LocalStep(s)
<1> USE DEF Gate, Goto, ledger, totals, locals, reads, history
<1>0. s \in Proc /\ LedgerTypeOK /\ ServerInv(s)
  BY ServersAreNoCommands DEF StepInv
<1>1. LedgerTypeOK'
  BY <1>0 DEF LedgerTypeOK, ServerInv
<1>2. pc' \in [Proc -> ServerLabels \cup CommandLabels]
  BY <1>0 DEF StepInv, ServerLabels, CommandLabels
<1>3. ServerInv(s)'
  BY <1>0, <1>1 DEF ServerInv, LedgerTypeOK, StepInv, ServerLabels,
     BeforePost, BeforeSave, ToUpload, OwedBy, BasePending
<1>4. OthersUnchanged(s)
  BY <1>0 DEF OthersUnchanged, StepInv, LedgerTypeOK
<1>5. OwedBy(s)' - OwedBy(s) = earned' - earned
  BY <1>0, ServersAreNoCommands DEF OwedBy, LedgerTypeOK, ServerInv
<1>6. BaselineInv' /\ Accounted(s)
  BY <1>0, <1>1, <1>5, QuietStep
<1> QED
  BY <1>1, <1>2, <1>3, <1>4, <1>6, ServersAreNoCommands DEF LocalStep

LEMMA ShutdownStep == ASSUME StepInv, NEW s \in Server, Shutdown(s) PROVE LocalStep(s)
<1> USE DEF Shutdown, Goto, ledger, totals, locals, reads, history
<1>0. s \in Proc /\ LedgerTypeOK /\ ServerInv(s)
  BY ServersAreNoCommands DEF StepInv
<1>1. LedgerTypeOK'
  BY <1>0 DEF LedgerTypeOK, ServerInv
<1>2. pc' \in [Proc -> ServerLabels \cup CommandLabels]
  BY <1>0 DEF StepInv, ServerLabels, CommandLabels
<1>3. ServerInv(s)'
  BY <1>0, <1>1 DEF ServerInv, LedgerTypeOK, StepInv, ServerLabels,
     BeforePost, BeforeSave, ToUpload, OwedBy, BasePending
<1>4. OthersUnchanged(s)
  BY <1>0 DEF OthersUnchanged, StepInv, LedgerTypeOK
<1>5. OwedBy(s)' - OwedBy(s) = earned' - earned
  BY <1>0, ServersAreNoCommands DEF OwedBy, LedgerTypeOK, ServerInv
<1>6. BaselineInv' /\ Accounted(s)
  BY <1>0, <1>1, <1>5, QuietStep
<1> QED
  BY <1>1, <1>2, <1>3, <1>4, <1>6, ServersAreNoCommands DEF LocalStep

LEMMA ReadDbStep == ASSUME StepInv, NEW c \in Command, ReadDb(c) PROVE LocalStep(c)
<1> USE DEF ReadDb, Goto, ledger, totals, locals, reads, history
<1>0. c \in Proc /\ LedgerTypeOK /\ CommandInv(c)
  BY ServersAreNoCommands DEF StepInv
<1>1. LedgerTypeOK'
  BY <1>0 DEF LedgerTypeOK, CommandInv
<1>2. pc' \in [Proc -> ServerLabels \cup CommandLabels]
  BY <1>0 DEF StepInv, ServerLabels, CommandLabels
<1>3. CommandInv(c)'
  BY <1>0, <1>1 DEF CommandInv, LedgerTypeOK, StepInv, CommandLabels,
     BeforePost, BeforeSave, ToUpload, OwedBy, BasePending
<1>4. OthersUnchanged(c)
  BY <1>0 DEF OthersUnchanged, StepInv, LedgerTypeOK
<1>5. OwedBy(c)' - OwedBy(c) = earned' - earned
  BY <1>0, ServersAreNoCommands DEF OwedBy, LedgerTypeOK
<1>6. BaselineInv' /\ Accounted(c)
  BY <1>0, <1>1, <1>5, QuietStep
<1> QED
  BY <1>1, <1>2, <1>3, <1>4, <1>6, ServersAreNoCommands DEF LocalStep

LEMMA ReadRowStep == ASSUME StepInv, NEW c \in Command, ReadRow(c) PROVE LocalStep(c)
<1> USE DEF ReadRow, Goto, ledger, totals, locals, reads, history
<1>0. c \in Proc /\ LedgerTypeOK /\ CommandInv(c)
  BY ServersAreNoCommands DEF StepInv
<1>1. LedgerTypeOK'
  BY <1>0 DEF LedgerTypeOK, CommandInv
<1>2. pc' \in [Proc -> ServerLabels \cup CommandLabels]
  BY <1>0 DEF StepInv, ServerLabels, CommandLabels
<1>3. CommandInv(c)'
  BY <1>0, <1>1 DEF CommandInv, LedgerTypeOK, StepInv, CommandLabels,
     BeforePost, BeforeSave, ToUpload, OwedBy, BasePending
<1>4. OthersUnchanged(c)
  BY <1>0 DEF OthersUnchanged, StepInv, LedgerTypeOK
<1>5. OwedBy(c)' - OwedBy(c) = earned' - earned
  BY <1>0, ServersAreNoCommands DEF OwedBy, LedgerTypeOK
<1>6. BaselineInv' /\ Accounted(c)
  BY <1>0, <1>1, <1>5, QuietStep
<1> QED
  BY <1>1, <1>2, <1>3, <1>4, <1>6, ServersAreNoCommands DEF LocalStep

-----------------------------------------------------------------------------
(* Loads and uploads.                                                      *)

LEMMA WithType ==
  ASSUME LedgerTypeOK, NEW d \in Nat
  PROVE  With(d) \in State /\ With(d).pending = FileTokens + d
<1>1. Loaded \in State /\ Loaded.pending = FileTokens
  BY DEF LedgerTypeOK, Loaded, NoState, State, FileTokens
<1> QED
  BY <1>1 DEF With, State

\* A load of p: it holds the file's count and d, and remembers the file.
Taken(p, d, labels) ==
  /\ cfg' \in [Proc -> State] /\ baseline' \in [Proc -> State \cup {NoFile}]
  /\ pc' \in [Proc -> ServerLabels \cup CommandLabels]
  /\ cfg'[p].pending = FileTokens + d /\ BasePending(p)' = FileTokens /\ pc'[p] \in labels
  /\ \A q \in Proc \ {p} : cfg'[q] = cfg[q] /\ baseline'[q] = baseline[q] /\ pc'[q] = pc[q]
  /\ \A q \in Proc : baseline'[q] \in {baseline[q], file, NoFile}

LEMMA TakeStep ==
  ASSUME StepInv, NEW p \in Proc, NEW c \in State, NEW d, c.pending = FileTokens + d,
         NEW label \in ServerLabels \cup CommandLabels, Take(p, c, label), file' = file
  PROVE  Taken(p, d, {label})
<1>1. LedgerTypeOK
  BY DEF StepInv
<1>2. baseline'[p] = file /\ cfg'[p] = c
  BY <1>1 DEF Take, LedgerTypeOK
<1> QED
  BY <1>1, <1>2 DEF Taken, Take, Goto, StepInv, LedgerTypeOK, BasePending, FileTokens

LEMMA TakeToUploadStep ==
  ASSUME StepInv, NEW p \in Proc, NEW d \in Nat, NEW now \in Nat,
         NEW post \in ServerLabels \cup CommandLabels,
         NEW save \in ServerLabels \cup CommandLabels,
         TakeToUpload(p, With(d), now, post, save), file' = file, post # save
  PROVE  Taken(p, d, {post, save}) /\ (pc'[p] = post => FileTokens + d > 0)
<1> DEFINE c == With(d)
           stamped == [c EXCEPT !.attemptAt = now]
<1>1. c \in State /\ c.pending = FileTokens + d
  BY WithType DEF StepInv
<1>2. stamped \in State /\ stamped.pending = FileTokens + d
  BY <1>1 DEF State
<1>3. CASE UploadIsDue(c, now)
  <2>1. Take(p, stamped, post)
    BY <1>3 DEF TakeToUpload
  <2>2. c.pending > 0
    BY <1>3 DEF UploadIsDue
  <2> HIDE DEF c, stamped
  <2>3. Taken(p, d, {post})
    BY <1>2, <2>1, TakeStep
  <2> QED
    BY <1>1, <2>2, <2>3 DEF Taken
<1>4. CASE ~UploadIsDue(c, now)
  <2>1. Take(p, c, save)
    BY <1>4 DEF TakeToUpload
  <2> HIDE DEF c, stamped
  <2>2. Taken(p, d, {save})
    BY <1>1, <2>1, TakeStep
  <2> QED
    BY <2>2 DEF Taken
<1> QED
  BY <1>3, <1>4

LEMMA PostStep ==
  ASSUME StepInv, NEW p \in Proc, BeforePost(p), NEW next \in ServerLabels \cup CommandLabels,
         Post(p, next)
  PROVE  /\ LedgerTypeOK' /\ BaselineInv' /\ OthersUnchanged(p) /\ Accounted(p)
         /\ pc' \in [Proc -> ServerLabels \cup CommandLabels]
         /\ pc'[p] = next /\ BeforeSave(p)'
<1>0. LedgerTypeOK
  BY DEF StepInv
<1>1. LedgerTypeOK'
  <2>1. cfg[p].pending \in Nat /\ at[p] \in Nat
    BY <1>0, ProcessType DEF LedgerTypeOK
  <2>2. cfg' \in [Proc -> State]
    <3>1. CASE cfg' = [cfg EXCEPT ![p] = [@ EXCEPT !.pending = 0, !.uploadAt = at[p]]]
      BY <1>0, <2>1, <3>1 DEF LedgerTypeOK, State
    <3> QED
      BY <1>0, <3>1 DEF Post, LedgerTypeOK
  <2>3. service' \in Nat /\ sent' \in [Proc -> Nat]
    <3>1. service' = service \/ service' = service + cfg[p].pending
      BY DEF Post
    <3>2. sent' = sent \/ sent' = [sent EXCEPT ![p] = cfg[p].pending]
      BY DEF Post
    <3> QED
      BY <1>0, <2>1, <3>1, <3>2 DEF LedgerTypeOK
  <2> QED
    BY <1>0, <2>2, <2>3 DEF Post, LedgerTypeOK, totals, reads
<1>2. BaselineInv'
  BY DEF StepInv, BaselineInv, Post
<1>3. OthersUnchanged(p)
  BY <1>0 DEF OthersUnchanged, Post, Goto, StepInv, LedgerTypeOK, totals, reads
<1>4. pc' \in [Proc -> ServerLabels \cup CommandLabels] /\ pc'[p] = next
  BY DEF StepInv, Post, Goto
<1>5. OwedBy(p)' = OwedBy(p) /\ BasePending(p)' = BasePending(p) /\ FileTokens' = FileTokens
  BY DEF Post, OwedBy, BasePending, FileTokens, totals
<1>6. /\ FileTokens \in Nat /\ OwedBy(p) \in Nat /\ BasePending(p) \in Nat
      /\ service \in Nat /\ earned \in Nat /\ earned' = earned /\ lost' = lost
      /\ sent[p] = 0 /\ cfg[p].pending \in Nat /\ cfg[p].pending > 0
  BY <1>0, FileTokensType, ProcessType DEF LedgerTypeOK, Post, BeforePost
<1>7. CASE /\ service' = service + cfg[p].pending
           /\ sent' = [sent EXCEPT ![p] = cfg[p].pending]
           /\ cfg' = [cfg EXCEPT ![p] = [@ EXCEPT !.pending = 0, !.uploadAt = at[p]]]
           /\ UNCHANGED doubled
  <2>1. sent'[p] = cfg[p].pending /\ cfg'[p].pending = 0
    BY <1>0, <1>7 DEF LedgerTypeOK, State
  <2>2. BeforeSave(p)'
    BY <1>5, <2>1 DEF BeforeSave, BeforePost, ToUpload
  <2>3. Moved(p) = 0
    BY <1>5, <1>6, <1>7, <2>1 DEF Moved, BeforePost, ToUpload
  <2> QED
    BY <1>1, <1>2, <1>3, <1>4, <1>6, <1>7, <2>2, <2>3 DEF Accounted
<1>8. CASE UNCHANGED <<service, cfg, sent, doubled>>
  <2>1. BeforeSave(p)'
    BY <1>5, <1>8 DEF BeforeSave, BeforePost, ToUpload
  <2>2. Moved(p) = 0
    BY <1>5, <1>6, <1>8 DEF Moved, BeforePost
  <2> QED
    BY <1>1, <1>2, <1>3, <1>4, <1>6, <1>8, <2>1, <2>2 DEF Accounted
<1>9. CASE /\ service' = service + cfg[p].pending
           /\ doubled' = doubled \cup {"lost answer"}
           /\ UNCHANGED <<cfg, sent>>
  <2>1. BeforeSave(p)'
    BY <1>5, <1>9 DEF BeforeSave, BeforePost, ToUpload
  <2>2. Moved(p) = cfg[p].pending
    <3>1. sent'[p] = sent[p] /\ service' = service + cfg[p].pending
      BY <1>9
    <3> QED
      BY <1>5, <1>6, <3>1 DEF Moved
  <2>3. doubled' # {}
    BY <1>9
  <2> QED
    BY <1>1, <1>2, <1>3, <1>4, <1>6, <2>1, <2>2, <2>3 DEF Accounted
<1> QED
  BY <1>7, <1>8, <1>9 DEF Post

LEMMA FlushLoadStep == ASSUME StepInv, NEW s \in Server, FlushLoad(s) PROVE LocalStep(s)
<1> USE DEF ledger, totals, history
<1> DEFINE c == With(saved[s] - flushed[s])
           stamped == [c EXCEPT !.attemptAt = at[s]]
<1>0. s \in Proc /\ LedgerTypeOK /\ ServerInv(s) /\ s \notin Command
  BY ServersAreNoCommands DEF StepInv
<1>1. /\ OwedBy(s)' = OwedBy(s) /\ OwedBy(s) = saved[s] - flushed[s] /\ OwedBy(s) \in Nat
      /\ earned' = earned /\ earned \in Nat /\ sent' = sent /\ sent[s] = 0
      /\ FileTokens \in Nat
  BY <1>0, ProcessType, FileTokensType DEF FlushLoad, OwedBy, LedgerTypeOK, ServerInv
<1>2. c \in State /\ c.pending = FileTokens + OwedBy(s)
  BY <1>0, <1>1, WithType
<1>3. CASE UploadIsDue(c, at[s])
  <2>1. Take(s, stamped, "post") /\ seen' = [seen EXCEPT ![s] = saved[s]]
    BY <1>3 DEF FlushLoad
  <2>2. stamped \in State /\ stamped.pending = FileTokens + OwedBy(s)
    BY <1>0, <1>2 DEF State, LedgerTypeOK
  <2>3. c.pending > 0
    BY <1>3 DEF UploadIsDue
  <2> HIDE DEF c, stamped
  <2>4. Taken(s, OwedBy(s), {"post"})
    BY <1>0, <2>1, <2>2, TakeStep DEF FlushLoad, ServerLabels
  <2>5. LedgerTypeOK'
    BY <1>0, <2>1, <2>4 DEF FlushLoad, Taken, LedgerTypeOK
  <2>6. ServerInv(s)'
    <3>1. pc'[s] = "post" /\ seen'[s] = saved[s] /\ saved' = saved /\ flushed' = flushed
      BY <1>0, <2>1, <2>4 DEF FlushLoad, Taken, LedgerTypeOK
    <3>2. BeforePost(s)'
      BY <1>1, <1>2, <2>3, <2>4 DEF BeforePost, ToUpload, Taken
    <3>3. saved[s] > flushed[s]
      BY <1>0 DEF FlushLoad, ServerInv
    <3> QED
      BY <1>1, <3>1, <3>2, <3>3 DEF ServerInv, ServerLabels
  <2>7. OthersUnchanged(s)
    BY <1>0, <2>1, <2>4 DEF FlushLoad, Taken, OthersUnchanged, LedgerTypeOK
  <2>8. BaselineInv' /\ Accounted(s)
    BY <1>0, <1>1, <2>4, <2>5, QuietStep DEF FlushLoad, Taken
  <2> QED
    BY <1>0, <2>4, <2>5, <2>6, <2>7, <2>8 DEF LocalStep, Taken
<1>4. CASE ~UploadIsDue(c, at[s])
  <2>1. Goto(s, "idle") /\ UNCHANGED <<cfg, baseline, seen>>
    BY <1>4 DEF FlushLoad
  <2> HIDE DEF c
  <2>2. pc' \in [Proc -> ServerLabels \cup CommandLabels] /\ pc'[s] = "idle"
        /\ \A q \in Proc \ {s} : pc'[q] = pc[q]
    BY <1>0, <2>1 DEF Goto, StepInv, ServerLabels
  <2>3. LedgerTypeOK' /\ OthersUnchanged(s)
    BY <1>0, <2>1, <2>2 DEF FlushLoad, LedgerTypeOK, OthersUnchanged
  <2>4. ServerInv(s)'
    BY <1>0, <1>1, <2>1, <2>2 DEF ServerInv, ServerLabels
  <2>5. BaselineInv' /\ Accounted(s)
    BY <1>0, <1>1, <2>1, <2>3, QuietStep DEF FlushLoad
  <2> QED
    BY <1>0, <2>2, <2>3, <2>4, <2>5 DEF LocalStep
<1> QED
  BY <1>3, <1>4

LEMMA CommandLoadStep == ASSUME StepInv, NEW c \in Command, CommandLoad(c)
    PROVE LocalStep(c)
<1> USE DEF ledger, totals, reads, history
<1>0. c \in Proc /\ LedgerTypeOK /\ CommandInv(c) /\ c \notin Server
  BY ServersAreNoCommands DEF StepInv
<1>1. /\ OwedBy(c)' = 0 /\ OwedBy(c) = 0 /\ earned' = earned /\ earned \in Nat
      /\ sent' = sent /\ sent[c] = 0 /\ FileTokens \in Nat
  BY <1>0, FileTokensType DEF CommandLoad, OwedBy, LedgerTypeOK, CommandInv
<1>2. Taken(c, 0, {"post", "save"}) /\ (pc'[c] = "post" => FileTokens + 0 > 0)
  <2>1. time \in Nat /\ {"post", "save"} \subseteq CommandLabels
    BY <1>0 DEF LedgerTypeOK, CommandLabels
  <2>2. TakeToUpload(c, With(0), time, "post", "save") /\ file' = file
    BY DEF CommandLoad
  <2> QED
    BY <1>0, <2>1, <2>2, TakeToUploadStep
<1>3. LedgerTypeOK'
  BY <1>0, <1>2 DEF CommandLoad, Taken, LedgerTypeOK
<1>4. CommandInv(c)'
  BY <1>1, <1>2 DEF CommandInv, CommandLabels, Taken, BeforePost, BeforeSave, ToUpload
<1>5. OthersUnchanged(c)
  BY <1>0, <1>2 DEF CommandLoad, Taken, OthersUnchanged, LedgerTypeOK
<1>6. BaselineInv' /\ Accounted(c)
  BY <1>0, <1>1, <1>2, <1>3, QuietStep DEF CommandLoad, Taken
<1> QED
  BY <1>0, <1>2, <1>3, <1>4, <1>5, <1>6 DEF LocalStep, Taken

LEMMA AddLoadStep == ASSUME StepInv, NEW c \in Command, AddLoad(c) PROVE LocalStep(c)
<1> USE DEF ledger, totals, reads, history
<1>0. c \in Proc /\ LedgerTypeOK /\ CommandInv(c) /\ c \notin Server
  BY ServersAreNoCommands DEF StepInv
<1>1. /\ OwedBy(c)' = OwedBy(c) /\ earned' = earned /\ earned \in Nat /\ OwedBy(c) \in Nat
      /\ sent' = sent /\ sent[c] = 0 /\ UNCHANGED <<seen, previous>>
  BY <1>0, ProcessType DEF AddLoad, OwedBy, LedgerTypeOK, CommandInv
<1>2. seen[c] > previous[c] /\ seen[c] - previous[c] \in Nat
  BY <1>0 DEF AddLoad, LedgerTypeOK, CommandInv
<1>3. Taken(c, seen[c] - previous[c], {"addSave"})
  BY <1>0, <1>2, WithType, TakeStep DEF AddLoad, CommandLabels
<1>4. LedgerTypeOK'
  BY <1>0, <1>3 DEF AddLoad, Taken, LedgerTypeOK
<1>5. CommandInv(c)'
  BY <1>1, <1>2, <1>3 DEF CommandInv, CommandLabels, Taken
<1>6. OthersUnchanged(c)
  BY <1>0, <1>3 DEF AddLoad, Taken, OthersUnchanged, LedgerTypeOK
<1>7. BaselineInv' /\ Accounted(c)
  BY <1>0, <1>1, <1>3, <1>4, QuietStep DEF AddLoad, Taken
<1> QED
  BY <1>0, <1>3, <1>4, <1>5, <1>6, <1>7 DEF LocalStep, Taken

LEMMA FlushPostStep == ASSUME StepInv, NEW s \in Server, FlushPost(s) PROVE LocalStep(s)
<1>0. s \in Proc /\ ServerInv(s) /\ s \notin Command
  BY ServersAreNoCommands DEF StepInv
<1>1. BeforePost(s) /\ Post(s, "save")
  BY <1>0 DEF FlushPost, ServerInv
<1>2. /\ LedgerTypeOK' /\ BaselineInv' /\ OthersUnchanged(s) /\ Accounted(s)
      /\ pc' \in [Proc -> ServerLabels \cup CommandLabels]
      /\ pc'[s] = "save" /\ BeforeSave(s)'
  BY <1>0, <1>1, PostStep DEF ServerLabels
<1>3. ServerInv(s)'
  BY <1>0, <1>2 DEF ServerInv, ServerLabels, FlushPost, Post, totals, reads
<1> QED
  BY <1>0, <1>2, <1>3 DEF LocalStep

LEMMA ExitPostStep == ASSUME StepInv, NEW s \in Server, ExitPost(s) PROVE LocalStep(s)
<1>0. s \in Proc /\ ServerInv(s) /\ s \notin Command
  BY ServersAreNoCommands DEF StepInv
<1>1. BeforePost(s) /\ Post(s, "exitSave")
  BY <1>0 DEF ExitPost, ServerInv
<1>2. /\ LedgerTypeOK' /\ BaselineInv' /\ OthersUnchanged(s) /\ Accounted(s)
      /\ pc' \in [Proc -> ServerLabels \cup CommandLabels]
      /\ pc'[s] = "exitSave" /\ BeforeSave(s)'
  BY <1>0, <1>1, PostStep DEF ServerLabels
<1>3. ServerInv(s)'
  BY <1>0, <1>2 DEF ServerInv, ServerLabels, ExitPost, Post, totals, reads
<1> QED
  BY <1>0, <1>2, <1>3 DEF LocalStep

LEMMA CommandPostStep == ASSUME StepInv, NEW c \in Command, CommandPost(c)
    PROVE LocalStep(c)
<1>0. c \in Proc /\ CommandInv(c) /\ c \notin Server
  BY ServersAreNoCommands DEF StepInv
<1>1. BeforePost(c) /\ Post(c, "save")
  BY <1>0 DEF CommandPost, CommandInv
<1>2. /\ LedgerTypeOK' /\ BaselineInv' /\ OthersUnchanged(c) /\ Accounted(c)
      /\ pc' \in [Proc -> ServerLabels \cup CommandLabels]
      /\ pc'[c] = "save" /\ BeforeSave(c)'
  BY <1>0, <1>1, PostStep DEF CommandLabels
<1>3. CommandInv(c)'
  BY <1>0, <1>2 DEF CommandInv, CommandLabels, CommandPost, Post, totals, reads
<1> QED
  BY <1>0, <1>2, <1>3 DEF LocalStep

-----------------------------------------------------------------------------
(* Saves and ends.                                                         *)

\* What p held is gone.
LEMMA DropStep ==
  ASSUME StepInv, NEW p \in Proc, DropLocals(p)
  PROVE  /\ cfg' \in [Proc -> State] /\ baseline' \in [Proc -> State \cup {NoFile}]
         /\ sent' \in [Proc -> Nat] /\ seen' \in [Proc -> Nat] /\ sent'[p] = 0
         /\ \A q \in Proc : baseline'[q] \in {baseline[q], file, NoFile}
         /\ \A q \in Proc \ {p} : /\ cfg'[q] = cfg[q] /\ baseline'[q] = baseline[q]
                                 /\ sent'[q] = sent[q] /\ seen'[q] = seen[q]
<1>1. NoState \in State
  BY DEF NoState, State
<1> QED
  BY <1>1 DEF DropLocals, StepInv, LedgerTypeOK

LEMMA ExitStep ==
  ASSUME StepInv, NEW p \in Proc, Exit(p)
  PROVE  /\ cfg' \in [Proc -> State] /\ baseline' \in [Proc -> State \cup {NoFile}]
         /\ sent' \in [Proc -> Nat] /\ seen' \in [Proc -> Nat] /\ sent'[p] = 0
         /\ saved' \in [Server -> Nat] /\ flushed' \in [Server -> Nat]
         /\ \A s \in Server : flushed'[s] <= saved'[s]
         /\ at' \in [Proc -> Nat] /\ previous' \in [Command -> Nat]
         /\ \A q \in Proc : baseline'[q] \in {baseline[q], file, NoFile}
         /\ pc' \in [Proc -> ServerLabels \cup CommandLabels]
         /\ p \in Server => ServerInv(p)'
         /\ p \in Command => CommandInv(p)'
         /\ OthersUnchanged(p) /\ OwedBy(p)' = 0
<1>0. LedgerTypeOK
  BY DEF StepInv
<1>1. /\ cfg' \in [Proc -> State] /\ baseline' \in [Proc -> State \cup {NoFile}]
      /\ sent' \in [Proc -> Nat] /\ seen' \in [Proc -> Nat] /\ sent'[p] = 0
      /\ \A q \in Proc : baseline'[q] \in {baseline[q], file, NoFile}
      /\ \A q \in Proc \ {p} : /\ cfg'[q] = cfg[q] /\ baseline'[q] = baseline[q]
                              /\ sent'[q] = sent[q] /\ seen'[q] = seen[q]
  BY DropStep DEF Exit
<1>2. /\ saved' \in [Server -> Nat] /\ flushed' \in [Server -> Nat]
      /\ \A s \in Server : flushed'[s] <= saved'[s]
      /\ at' \in [Proc -> Nat] /\ previous' \in [Command -> Nat]
  BY <1>0 DEF Exit, LedgerTypeOK
<1>3. pc' \in [Proc -> ServerLabels \cup CommandLabels] /\ pc'[p] = "gone"
      /\ \A q \in Proc \ {p} : pc'[q] = pc[q]
  BY DEF StepInv, Exit, Goto, ServerLabels
<1>4. p \in Server => saved'[p] = 0 /\ flushed'[p] = 0
  BY DEF Exit
<1>5. p \in Server => ServerInv(p)'
  BY <1>1, <1>3, <1>4 DEF ServerInv, ServerLabels
<1>6. p \in Command => CommandInv(p)'
  BY <1>1, <1>3 DEF CommandInv, CommandLabels
<1>7. OthersUnchanged(p)
  <2>1. \A s \in Server \ {p} : saved'[s] = saved[s] /\ flushed'[s] = flushed[s]
    BY DEF Exit
  <2>2. \A c \in Command \ {p} : previous'[c] = previous[c]
    BY DEF Exit
  <2> QED
    BY <1>1, <1>3, <2>1, <2>2 DEF OthersUnchanged
<1>8. OwedBy(p)' = 0
  BY <1>4 DEF OwedBy
<1> QED
  BY <1>1, <1>2, <1>3, <1>5, <1>6, <1>7, <1>8

LEMMA WriteStep ==
  ASSUME StepInv, NEW p \in Proc, Saved(p) \/ file' = file,
         \A q \in Proc : baseline'[q] \in {baseline[q], file, NoFile}
  PROVE  file' \in State \cup {NoFile} /\ BaselineInv' /\ FileTokens' \in Nat
<1>1. Merged(p) \in State
  BY MergedIsState DEF StepInv
<1>2. file' \in State \cup {NoFile}
  BY <1>1 DEF StepInv, LedgerTypeOK, Saved
<1>3. file' = NoFile => file = NoFile
  BY <1>1, LedgerAssumption DEF Saved
<1>4. BaselineInv'
  BY <1>3 DEF StepInv, BaselineInv
<1> QED
  BY <1>2, <1>4 DEF FileTokens, State

\* What a save makes of the balance; d is what the process owes after it.
LEMMA SaveMoves ==
  ASSUME StepInv, NEW p \in Proc, BeforeSave(p), NEW d \in Nat, OwedBy(p)' = d,
         UNCHANGED <<service, earned>>, sent'[p] = 0, FileTokens' \in Nat
  PROVE  /\ Saved(p) /\ sent[p] > 0 /\ d = 0 =>
              /\ ~BlindSave(p) => Moved(p) >= 0
              /\ ~SameUploadedTwice(p) => Moved(p) <= 0
         /\ Saved(p) /\ sent[p] = 0 => Moved(p) <= d /\ (~BlindSave(p) => Moved(p) = d)
         /\ SaveFails /\ sent[p] > 0 /\ d = 0 => Moved(p) >= 0
         /\ SaveFails /\ sent[p] = 0 => Moved(p) = d - OwedBy(p)
<1>1. /\ LedgerTypeOK /\ BaselineInv /\ FileTokens \in Nat /\ service \in Nat
      /\ BasePending(p) \in Nat /\ OwedBy(p) \in Nat /\ sent[p] \in Nat
  BY FileTokensType, ProcessType DEF StepInv, LedgerTypeOK
<1>2. Moved(p) = (FileTokens' - FileTokens) + (d - OwedBy(p)) + sent[p]
  BY <1>1 DEF Moved
<1>3. SaveFails => FileTokens' = FileTokens
  BY DEF SaveFails, FileTokens
<1>4. CASE sent[p] = 0
  <2>1. cfg[p].pending = BasePending(p) + OwedBy(p)
    BY <1>1, <1>4 DEF BeforeSave, ToUpload
  <2>2. Saved(p) => /\ FileTokens' - FileTokens <= OwedBy(p)
                    /\ ~BlindSave(p) => FileTokens' - FileTokens = OwedBy(p)
    BY <1>1, <2>1, SaveAdds
  <2> QED
    BY <1>1, <1>2, <1>3, <1>4, <2>2
<1>5. CASE sent[p] > 0
  <2>1. cfg[p].pending = 0 /\ sent[p] = BasePending(p) + OwedBy(p)
    BY <1>1, <1>5 DEF BeforeSave, ToUpload
  <2>2. Saved(p) => /\ ~BlindSave(p) => FileTokens' - FileTokens >= -BasePending(p)
                    /\ ~SameUploadedTwice(p) => FileTokens' - FileTokens <= -BasePending(p)
    BY <1>1, <2>1, SaveTakesOff
  <2> QED
    BY <1>1, <1>2, <1>3, <1>5, <2>1, <2>2
<1> QED
  BY <1>1, <1>4, <1>5

LEMMA FlushSaveStep == ASSUME StepInv, NEW s \in Server, FlushSave(s) PROVE LocalStep(s)
<1>0. s \in Proc /\ LedgerTypeOK /\ ServerInv(s) /\ s \notin Command
  BY ServersAreNoCommands DEF StepInv
<1>1. /\ cfg' \in [Proc -> State] /\ baseline' \in [Proc -> State \cup {NoFile}]
      /\ sent' \in [Proc -> Nat] /\ seen' \in [Proc -> Nat] /\ sent'[s] = 0
      /\ \A q \in Proc : baseline'[q] \in {baseline[q], file, NoFile}
      /\ \A q \in Proc \ {s} : /\ cfg'[q] = cfg[q] /\ baseline'[q] = baseline[q]
                              /\ sent'[q] = sent[q] /\ seen'[q] = seen[q]
  BY <1>0, DropStep DEF FlushSave
<1>2. file' \in State \cup {NoFile} /\ BaselineInv' /\ FileTokens' \in Nat
  BY <1>0, <1>1, WriteStep DEF FlushSave, SaveFails
<1>3. /\ flushed' \in [Server -> Nat] /\ flushed'[s] <= saved[s] /\ saved' = saved
      /\ \A t \in Server \ {s} : flushed'[t] = flushed[t]
      /\ sent[s] > 0 => flushed'[s] = saved[s]
      /\ sent[s] = 0 => flushed'[s] = flushed[s]
  BY <1>0 DEF FlushSave, ServerInv, LedgerTypeOK
<1>4. LedgerTypeOK'
  BY <1>0, <1>1, <1>2, <1>3 DEF FlushSave, LedgerTypeOK
<1>5. pc' \in [Proc -> ServerLabels \cup CommandLabels] /\ pc'[s] = "idle"
      /\ \A q \in Proc \ {s} : pc'[q] = pc[q]
  BY <1>0 DEF FlushSave, Goto, StepInv, ServerLabels
<1>6. ServerInv(s)'
  BY <1>1, <1>5 DEF ServerInv, ServerLabels
<1>7. OthersUnchanged(s)
  BY <1>0, <1>1, <1>3, <1>5 DEF FlushSave, OthersUnchanged
<1>8. Accounted(s)
  <2> DEFINE d == IF sent[s] > 0 THEN 0 ELSE OwedBy(s)
  <2>1. OwedBy(s) \in Nat /\ sent[s] \in Nat /\ earned \in Nat
    BY <1>0, ProcessType DEF LedgerTypeOK
  <2>2. OwedBy(s)' = d
    BY <1>0, <1>3, <2>1 DEF OwedBy, LedgerTypeOK
  <2>3. d \in Nat /\ UNCHANGED <<service, earned>> /\ BeforeSave(s)
    BY <1>0, <2>1 DEF FlushSave, ServerInv
  <2>4. (sent[s] > 0 => d = 0) /\ (sent[s] = 0 => d = OwedBy(s))
    OBVIOUS
  <2> HIDE DEF d
  <2>5. /\ Saved(s) /\ sent[s] > 0 => /\ ~BlindSave(s) => Moved(s) >= 0
                                      /\ ~SameUploadedTwice(s) => Moved(s) <= 0
        /\ Saved(s) /\ sent[s] = 0 /\ ~BlindSave(s) => Moved(s) >= 0
        /\ SaveFails /\ sent[s] > 0 => Moved(s) >= 0
        /\ SaveFails /\ sent[s] = 0 => Moved(s) = 0
    BY <1>0, <1>1, <1>2, <2>1, <2>2, <2>3, <2>4, SaveMoves
  <2>6. CASE /\ Saved(s)
             /\ doubled' = doubled \cup {w \in {"retry", "race"} :
                              \/ w = "retry" /\ sent[s] = 0
                              \/ w = "race" /\ SameUploadedTwice(s)}
             /\ lost' = lost \cup {w \in {"blind"} : BlindSave(s)}
    <3>0. Saved(s)
      BY <2>6
    <3>1. lost' = {} => lost = {} /\ ~BlindSave(s)
      BY <2>6
    <3>2. doubled' = {} => doubled = {} /\ sent[s] # 0 /\ ~SameUploadedTwice(s)
      BY <2>6
    <3>3. lost' = {} => Moved(s) >= 0
      BY <2>1, <2>3, <2>5, <3>0, <3>1
    <3>4. doubled' = {} => Moved(s) <= 0
      BY <2>1, <2>3, <2>5, <3>0, <3>2
    <3>5. earned' - earned = 0
      BY <2>1, <2>3
    <3> QED
      BY <3>1, <3>2, <3>3, <3>4, <3>5 DEF Accounted
  <2>7. CASE /\ SaveFails
             /\ doubled' = doubled \cup {w \in {"unsaved"} : sent[s] > 0}
             /\ UNCHANGED lost
    <3>1. doubled' = {} => doubled = {} /\ ~(sent[s] > 0)
      BY <2>7
    <3> QED
      BY <2>1, <2>3, <2>5, <2>7, <3>1 DEF Accounted
  <2> QED
    BY <2>6, <2>7 DEF FlushSave
<1> QED
  BY <1>0, <1>2, <1>4, <1>5, <1>6, <1>7, <1>8 DEF LocalStep

LEMMA ExitLoadStep == ASSUME StepInv, NEW s \in Server, ExitLoad(s) PROVE LocalStep(s)
<1> USE DEF ledger, totals, reads, history
<1>0. s \in Proc /\ LedgerTypeOK /\ ServerInv(s) /\ s \notin Command
  BY ServersAreNoCommands DEF StepInv
<1>1. /\ OwedBy(s) = saved[s] - flushed[s] /\ OwedBy(s) \in Nat
      /\ UNCHANGED <<earned, doubled, lost, file, service>> /\ earned \in Nat
      /\ sent[s] = 0 /\ FileTokens \in Nat /\ time \in Nat
  BY <1>0, ProcessType, FileTokensType DEF ExitLoad, OwedBy, LedgerTypeOK, ServerInv
<1>2. CASE saved[s] > flushed[s]
  <2>1. /\ TakeToUpload(s, With(OwedBy(s)), time, "exitPost", "exitSave")
        /\ at' = [at EXCEPT ![s] = time]
        /\ UNCHANGED <<totals, sent, reads>>
    BY <1>1, <1>2 DEF ExitLoad
  <2>2. Taken(s, OwedBy(s), {"exitPost", "exitSave"})
    BY <1>0, <1>1, <2>1, TakeToUploadStep DEF ServerLabels
  <2>3. LedgerTypeOK'
    BY <1>0, <1>1, <2>1, <2>2 DEF ExitLoad, Taken, LedgerTypeOK
  <2>4. OwedBy(s)' = OwedBy(s)
    BY <2>1 DEF OwedBy
  <2>5. ServerInv(s)'
    <3>1. FileTokens + OwedBy(s) > 0 /\ sent'[s] = 0
      BY <1>0, <1>1, <1>2, <2>1 DEF LedgerTypeOK
    <3>2. BeforePost(s)' /\ BeforeSave(s)'
      BY <1>1, <2>2, <2>4, <3>1 DEF BeforePost, BeforeSave, ToUpload, Taken
    <3> QED
      BY <1>2, <2>1, <2>2, <3>1, <3>2 DEF ServerInv, ServerLabels, Taken
  <2>6. OthersUnchanged(s)
    BY <1>0, <2>1, <2>2 DEF ExitLoad, Taken, OthersUnchanged, LedgerTypeOK
  <2>7. BaselineInv' /\ Accounted(s)
    BY <1>0, <1>1, <2>1, <2>2, <2>3, <2>4, QuietStep DEF Taken
  <2> QED
    BY <1>0, <2>2, <2>3, <2>5, <2>6, <2>7 DEF LocalStep, Taken
<1>3. CASE ~(saved[s] > flushed[s])
  <2>1. Exit(s)
    BY <1>3 DEF ExitLoad
  <2>2. LedgerTypeOK'
    BY <1>0, <2>1, ExitStep DEF ExitLoad, LedgerTypeOK
  <2>3. OwedBy(s) = 0
    BY <1>0, <1>1, <1>3 DEF LedgerTypeOK
  <2>4. BaselineInv' /\ Accounted(s)
    BY <1>0, <1>1, <2>1, <2>2, <2>3, ExitStep, QuietStep
  <2> QED
    BY <1>0, <2>1, <2>2, <2>4, ExitStep DEF LocalStep
<1> QED
  BY <1>2, <1>3

LEMMA ExitSaveStep == ASSUME StepInv, NEW s \in Server, ExitSave(s) PROVE LocalStep(s)
<1>0. s \in Proc /\ LedgerTypeOK /\ ServerInv(s) /\ s \notin Command
  BY ServersAreNoCommands DEF StepInv
<1>1. Exit(s) /\ (Saved(s) \/ file' = file)
  BY DEF ExitSave, SaveFails
<1>2. file' \in State \cup {NoFile} /\ BaselineInv' /\ FileTokens' \in Nat
  BY <1>0, <1>1, ExitStep, WriteStep
<1>3. LedgerTypeOK'
  BY <1>0, <1>1, <1>2, ExitStep DEF ExitSave, LedgerTypeOK
<1>4. Accounted(s)
  <2>1. OwedBy(s) \in Nat /\ sent[s] \in Nat /\ earned \in Nat
    BY <1>0, ProcessType DEF LedgerTypeOK
  <2>2. OwedBy(s)' = 0 /\ sent'[s] = 0 /\ UNCHANGED <<service, earned>> /\ BeforeSave(s)
    BY <1>0, <1>1, ExitStep DEF ExitSave, ServerInv
  <2>3. /\ Saved(s) /\ sent[s] > 0 => /\ ~BlindSave(s) => Moved(s) >= 0
                                      /\ ~SameUploadedTwice(s) => Moved(s) <= 0
        /\ Saved(s) /\ sent[s] = 0 => Moved(s) <= 0 /\ (~BlindSave(s) => Moved(s) = 0)
        /\ SaveFails /\ sent[s] > 0 => Moved(s) >= 0
        /\ SaveFails /\ sent[s] = 0 => Moved(s) = 0 - OwedBy(s)
    BY <1>0, <1>2, <2>1, <2>2, SaveMoves
  <2>4. CASE /\ Saved(s)
             /\ doubled' = doubled \cup {w \in {"race"} : SameUploadedTwice(s)}
             /\ lost' = lost \cup {w \in {"blind"} : BlindSave(s)}
    <3>0. Saved(s)
      BY <2>4
    <3>1. lost' = {} => lost = {} /\ ~BlindSave(s)
      BY <2>4
    <3>2. doubled' = {} => doubled = {} /\ ~SameUploadedTwice(s)
      BY <2>4
    <3>3. lost' = {} => Moved(s) >= 0
      BY <2>1, <2>2, <2>3, <3>0, <3>1
    <3>4. doubled' = {} => Moved(s) <= 0
      BY <2>1, <2>2, <2>3, <3>0, <3>2
    <3>5. earned' - earned = 0
      BY <2>1, <2>2
    <3> QED
      BY <3>1, <3>2, <3>3, <3>4, <3>5 DEF Accounted
  <2>5. CASE /\ SaveFails
             /\ doubled' = doubled \cup {w \in {"unsaved"} : sent[s] > 0}
             /\ lost' = lost \cup {w \in {"unsaved"} : sent[s] = 0}
    <3>1. lost' = {} => lost = {} /\ sent[s] # 0
      BY <2>5
    <3>2. doubled' = {} => doubled = {} /\ ~(sent[s] > 0)
      BY <2>5
    <3> QED
      BY <2>1, <2>2, <2>3, <2>5, <3>1, <3>2 DEF Accounted
  <2> QED
    BY <2>4, <2>5 DEF ExitSave
<1> QED
  BY <1>0, <1>1, <1>2, <1>3, <1>4, ExitStep DEF LocalStep

LEMMA KillStep == ASSUME StepInv, NEW s \in Server, Kill(s) PROVE LocalStep(s)
<1>0. s \in Proc /\ LedgerTypeOK /\ ServerInv(s) /\ s \notin Command
  BY ServersAreNoCommands DEF StepInv
<1>1. Exit(s) /\ UNCHANGED <<db, row, file, service, time, earned>>
  BY DEF Kill, ledger
<1>2. file' \in State \cup {NoFile} /\ BaselineInv' /\ FileTokens' = FileTokens
  BY <1>0, <1>1, ExitStep, WriteStep DEF FileTokens
<1>3. LedgerTypeOK'
  BY <1>0, <1>1, <1>2, ExitStep DEF LedgerTypeOK
<1>4. Accounted(s)
  <2>1. /\ OwedBy(s) \in Nat /\ sent[s] \in Nat /\ earned \in Nat /\ service \in Nat
        /\ FileTokens \in Nat /\ BasePending(s) \in Nat /\ OwedBy(s) = saved[s] - flushed[s]
    BY <1>0, ProcessType, FileTokensType DEF LedgerTypeOK, OwedBy
  <2>2. Moved(s) = sent[s] - OwedBy(s)
    BY <1>0, <1>1, <1>2, <2>1, ExitStep DEF Moved
  <2>3. sent[s] > 0 => sent[s] >= OwedBy(s)
    BY <1>0, <2>1 DEF ServerInv, BeforeSave, ToUpload
  <2>4. lost' = {} => lost = {} /\ ~(sent[s] = 0 /\ saved[s] > flushed[s])
    BY DEF Kill
  <2>5. doubled' = {} => doubled = {} /\ ~(sent[s] > 0)
    BY DEF Kill
  <2>6. ~(saved[s] > flushed[s]) => OwedBy(s) = 0
    BY <1>0, <2>1 DEF LedgerTypeOK
  <2> QED
    BY <1>1, <2>1, <2>2, <2>3, <2>4, <2>5, <2>6 DEF Accounted
<1> QED
  BY <1>0, <1>1, <1>2, <1>3, <1>4, ExitStep DEF LocalStep

LEMMA CommandSaveStep == ASSUME StepInv, NEW c \in Command, CommandSave(c)
    PROVE LocalStep(c)
<1> USE DEF totals
<1>0. c \in Proc /\ LedgerTypeOK /\ CommandInv(c) /\ c \notin Server
  BY ServersAreNoCommands DEF StepInv
<1>1. /\ cfg' \in [Proc -> State] /\ baseline' \in [Proc -> State \cup {NoFile}]
      /\ sent' \in [Proc -> Nat] /\ seen' \in [Proc -> Nat] /\ sent'[c] = 0
      /\ \A q \in Proc : baseline'[q] \in {baseline[q], file, NoFile}
      /\ \A q \in Proc \ {c} : /\ cfg'[q] = cfg[q] /\ baseline'[q] = baseline[q]
                              /\ sent'[q] = sent[q] /\ seen'[q] = seen[q]
  BY <1>0, DropStep DEF CommandSave
<1>2. file' \in State \cup {NoFile} /\ BaselineInv' /\ FileTokens' \in Nat
  BY <1>0, <1>1, WriteStep DEF CommandSave, SaveFails
<1>3. LedgerTypeOK'
  BY <1>0, <1>1, <1>2 DEF CommandSave, LedgerTypeOK
<1>4. pc' \in [Proc -> ServerLabels \cup CommandLabels] /\ pc'[c] = "readDb"
      /\ \A q \in Proc \ {c} : pc'[q] = pc[q]
  BY <1>0 DEF CommandSave, Goto, StepInv, CommandLabels
<1>5. CommandInv(c)'
  BY <1>1, <1>4 DEF CommandInv, CommandLabels
<1>6. OthersUnchanged(c)
  BY <1>0, <1>1, <1>4 DEF CommandSave, OthersUnchanged
<1>7. Accounted(c)
  <2>1. sent[c] \in Nat /\ earned \in Nat /\ OwedBy(c) = 0 /\ OwedBy(c)' = 0
    BY <1>0, ProcessType DEF LedgerTypeOK, OwedBy
  <2>2. UNCHANGED <<service, earned>> /\ BeforeSave(c)
    BY <1>0 DEF CommandSave, CommandInv
  <2>3. /\ Saved(c) /\ sent[c] > 0 => /\ ~BlindSave(c) => Moved(c) >= 0
                                      /\ ~SameUploadedTwice(c) => Moved(c) <= 0
        /\ Saved(c) /\ sent[c] = 0 => Moved(c) <= 0 /\ (~BlindSave(c) => Moved(c) = 0)
        /\ SaveFails /\ sent[c] > 0 => Moved(c) >= 0
        /\ SaveFails /\ sent[c] = 0 => Moved(c) = 0
    BY <1>0, <1>1, <1>2, <2>1, <2>2, SaveMoves
  <2>4. CASE /\ Saved(c)
             /\ doubled' = doubled \cup {w \in {"race"} : SameUploadedTwice(c)}
             /\ lost' = lost \cup {w \in {"blind"} : BlindSave(c)}
    <3>0. Saved(c)
      BY <2>4
    <3>1. lost' = {} => lost = {} /\ ~BlindSave(c)
      BY <2>4
    <3>2. doubled' = {} => doubled = {} /\ ~SameUploadedTwice(c)
      BY <2>4
    <3>3. lost' = {} => Moved(c) >= 0
      BY <2>1, <2>2, <2>3, <3>0, <3>1
    <3>4. doubled' = {} => Moved(c) <= 0
      BY <2>1, <2>2, <2>3, <3>0, <3>2
    <3>5. earned' - earned = 0
      BY <2>1, <2>2
    <3> QED
      BY <3>1, <3>2, <3>3, <3>4, <3>5 DEF Accounted
  <2>5. CASE /\ SaveFails
             /\ doubled' = doubled \cup {w \in {"unsaved"} : sent[c] > 0}
             /\ UNCHANGED lost
    <3>1. doubled' = {} => doubled = {} /\ ~(sent[c] > 0)
      BY <2>5
    <3> QED
      BY <2>1, <2>2, <2>3, <2>5, <3>1 DEF Accounted
  <2> QED
    BY <2>4, <2>5 DEF CommandSave
<1> QED
  BY <1>0, <1>2, <1>3, <1>4, <1>5, <1>6, <1>7 DEF LocalStep

LEMMA WriteRowStep == ASSUME StepInv, NEW c \in Command, WriteRow(c) PROVE LocalStep(c)
<1> USE DEF totals, locals, reads, history
<1>0. c \in Proc /\ LedgerTypeOK /\ CommandInv(c) /\ c \notin Server
  BY ServersAreNoCommands DEF StepInv
<1>1. /\ UNCHANGED <<db, file, service, time, earned, doubled, lost>> /\ row' \in Nat
      /\ sent[c] = 0 /\ earned \in Nat /\ OwedBy(c) = 0
  BY <1>0 DEF WriteRow, LedgerTypeOK, CommandInv, OwedBy
<1>2. CASE seen[c] > previous[c]
  <2>1. Goto(c, "addLoad") /\ UNCHANGED <<totals, at, locals, reads>>
    BY <1>2 DEF WriteRow
  <2>2. LedgerTypeOK'
    BY <1>0, <1>1, <2>1 DEF LedgerTypeOK
  <2>3. pc' \in [Proc -> ServerLabels \cup CommandLabels] /\ pc'[c] = "addLoad"
        /\ \A q \in Proc \ {c} : pc'[q] = pc[q]
    BY <1>0, <2>1 DEF Goto, StepInv, CommandLabels
  <2>4. CommandInv(c)' /\ OthersUnchanged(c)
    BY <1>1, <1>2, <2>1, <2>3 DEF CommandInv, CommandLabels, OthersUnchanged
  <2>5. BaselineInv' /\ Accounted(c)
    BY <1>0, <1>1, <2>1, <2>2, QuietStep DEF OwedBy
  <2> QED
    BY <1>0, <2>2, <2>3, <2>4, <2>5 DEF LocalStep
<1>3. CASE ~(seen[c] > previous[c])
  <2>1. Exit(c)
    BY <1>3 DEF WriteRow
  <2>2. LedgerTypeOK'
    BY <1>0, <1>1, <2>1, ExitStep DEF LedgerTypeOK
  <2>3. BaselineInv' /\ Accounted(c)
    BY <1>0, <1>1, <2>1, <2>2, ExitStep, QuietStep
  <2> QED
    BY <1>0, <2>1, <2>2, <2>3, ExitStep DEF LocalStep
<1> QED
  BY <1>2, <1>3

LEMMA AddSaveStep == ASSUME StepInv, NEW c \in Command, AddSave(c) PROVE LocalStep(c)
<1>0. c \in Proc /\ LedgerTypeOK /\ CommandInv(c) /\ c \notin Server
  BY ServersAreNoCommands DEF StepInv
<1>1. Exit(c) /\ (Saved(c) \/ file' = file) /\ UNCHANGED <<db, row, service, time, earned>>
  BY DEF AddSave, SaveFails
<1>2. file' \in State \cup {NoFile} /\ BaselineInv' /\ FileTokens' \in Nat
  BY <1>0, <1>1, ExitStep, WriteStep
<1>3. LedgerTypeOK'
  BY <1>0, <1>1, <1>2, ExitStep DEF LedgerTypeOK
<1>4. Accounted(c)
  <2> DEFINE d == seen[c] - previous[c]
  <2>1. /\ d \in Nat /\ cfg[c].pending = BasePending(c) + d /\ sent[c] = 0 /\ OwedBy(c) = 0
        /\ earned \in Nat /\ service \in Nat /\ FileTokens \in Nat
    BY <1>0, FileTokensType DEF AddSave, CommandInv, LedgerTypeOK, OwedBy
  <2> HIDE DEF d
  <2>2. Moved(c) = FileTokens' - FileTokens
    BY <1>0, <1>1, <1>2, <2>1, ExitStep DEF Moved
  <2>3. CASE /\ Saved(c)
             /\ doubled' = doubled \cup {"row"}
             /\ lost' = lost \cup {w \in {"blind"} : BlindSave(c)}
    <3>1. ~BlindSave(c) => FileTokens' - FileTokens = d
      BY <1>0, <2>1, <2>3, SaveAdds DEF StepInv
    <3>2. doubled' # {} /\ (lost' = {} => lost = {} /\ ~BlindSave(c))
      BY <2>3
    <3> QED
      BY <1>1, <2>1, <2>2, <3>1, <3>2 DEF Accounted
  <2>4. CASE SaveFails /\ UNCHANGED <<doubled, lost>>
    <3>1. FileTokens' = FileTokens
      BY <2>4 DEF SaveFails, FileTokens
    <3> QED
      BY <1>1, <2>1, <2>2, <2>4, <3>1 DEF Accounted
  <2> QED
    BY <2>3, <2>4 DEF AddSave
<1> QED
  BY <1>0, <1>1, <1>2, <1>3, <1>4, ExitStep DEF LocalStep

-----------------------------------------------------------------------------
(* The invariant, and what follows from it.                                *)

LedgerInv == StepInv /\ NothingLost /\ NothingCountedTwice

LEMMA LedgerStarts == LedgerInit => LedgerInv
<1> SUFFICES ASSUME LedgerInit PROVE LedgerInv
  OBVIOUS
<1> USE DEF LedgerInit
<1>1. LedgerTypeOK
  <2>1. NoState \in State /\ Backlog \in State /\ Interval \in Nat
    BY LedgerAssumption DEF NoState, Backlog, State
  <2>2. earned \in Nat
    BY <2>1 DEF State
  <2> QED
    BY <2>1, <2>2 DEF LedgerTypeOK
<1>2. \A s \in Server : ServerInv(s)
  BY ServersAreNoCommands DEF ServerInv, ServerLabels
<1>3. \A c \in Command : CommandInv(c)
  BY ServersAreNoCommands DEF CommandInv, CommandLabels
<1>4. StepInv
  BY <1>1, <1>2, <1>3 DEF StepInv, BaselineInv, ServerLabels
<1>5. Balance = earned
  <2>1. IsFiniteSet(Server) /\ IsFiniteSet(Proc)
    BY LedgerAssumption, FS_Union DEF Proc
  <2> DEFINE owed == [s \in Server |-> saved[s] - flushed[s]]
  <2>2. owed \in [Server -> Int] /\ \A s \in Server : owed[s] = 0
    OBVIOUS
  <2>3. sent \in [Proc -> Int] /\ \A p \in Proc : sent[p] = 0
    OBVIOUS
  <2> HIDE DEF owed
  <2>4. SumFunction(owed) = 0 /\ SumFunction(sent) = 0
    BY <2>1, <2>2, <2>3, SumZero
  <2>5. Owed = 0 /\ Uploaded = 0
    BY <2>4 DEF Owed, Uploaded, owed
  <2>6. FileTokens = earned /\ service = 0 /\ earned \in Nat
    BY <1>1 DEF FileTokens, LedgerTypeOK
  <2> QED
    BY <2>5, <2>6 DEF Balance
<1> QED
  BY <1>1, <1>4, <1>5 DEF LedgerInv, NothingLost, NothingCountedTwice, LedgerTypeOK

\* A step of one process keeps the invariant: of itself by LocalStep, of the
\* others because it leaves their state alone.
LEMMA LocalStepKeeps ==
  ASSUME LedgerInv, NEW p \in Proc, LocalStep(p)
  PROVE  LedgerInv'
<1>0. StepInv
  BY DEF LedgerInv
<1>1. ASSUME NEW s \in Server PROVE ServerInv(s)'
  <2>1. CASE s = p
    BY <2>1 DEF LocalStep
  <2>2. CASE s # p
    <3>1. s \in Proc /\ ServerInv(s)
      BY <1>0, ServersAreNoCommands DEF StepInv
    <3> QED
      BY <2>2, <3>1 DEF LocalStep, OthersUnchanged, ServerInv, BeforePost, BeforeSave,
         ToUpload, BasePending, OwedBy
  <2> QED
    BY <2>1, <2>2
<1>2. ASSUME NEW c \in Command PROVE CommandInv(c)'
  <2>1. CASE c = p
    BY <2>1 DEF LocalStep
  <2>2. CASE c # p
    <3>1. c \in Proc /\ CommandInv(c) /\ c \notin Server
      BY <1>0, ServersAreNoCommands DEF StepInv
    <3> QED
      BY <2>2, <3>1 DEF LocalStep, OthersUnchanged, CommandInv, BeforePost, BeforeSave,
         ToUpload, BasePending, OwedBy
  <2> QED
    BY <2>1, <2>2
<1>3. StepInv'
  BY <1>1, <1>2 DEF StepInv, LocalStep
<1>4. Balance \in Int /\ Balance' = Balance + Moved(p)
  BY <1>0, BalanceMoves DEF LocalStep, StepInv
<1>5. earned \in Nat /\ earned' \in Nat /\ Moved(p) \in Int
  <2>1. FileTokens \in Nat /\ FileTokens' \in Nat
    BY <1>0, FileTokensType DEF LocalStep, StepInv, LedgerTypeOK, FileTokens, State
  <2>2. OwedBy(p) \in Nat /\ OwedBy(p)' \in Nat
    BY <1>0 DEF LocalStep, StepInv, LedgerTypeOK, OwedBy
  <2>3. /\ service \in Nat /\ service' \in Nat /\ sent[p] \in Nat /\ sent'[p] \in Nat
        /\ earned \in Nat /\ earned' \in Nat
    BY <1>0 DEF LocalStep, StepInv, LedgerTypeOK
  <2> QED
    BY <2>1, <2>2, <2>3 DEF Moved
<1>6. NothingLost'
  BY <1>4, <1>5 DEF NothingLost, LocalStep, Accounted, LedgerInv
<1>7. NothingCountedTwice'
  BY <1>4, <1>5 DEF NothingCountedTwice, LocalStep, Accounted, LedgerInv
<1> QED
  BY <1>3, <1>6, <1>7 DEF LedgerInv

LEMMA LedgerSteps == LedgerInv /\ [LedgerNext]_ledgerVars => LedgerInv'
<1> SUFFICES ASSUME LedgerInv, [LedgerNext]_ledgerVars PROVE LedgerInv'
  OBVIOUS
<1>0. StepInv
  BY DEF LedgerInv
<1>1. ASSUME NEW s \in Server, ServerStep(s) PROVE LedgerInv'
  <2>1. LocalStep(s)
    BY <1>0, <1>1, OpenStep, RegisterStep, CallStep, ToDbStep, ToRowStep, GateStep,
       FlushLoadStep, FlushPostStep, FlushSaveStep, ShutdownStep, ExitLoadStep, ExitPostStep,
       ExitSaveStep, KillStep
    DEF ServerStep
  <2> QED
    BY <2>1, LocalStepKeeps, ServersAreNoCommands
<1>2. ASSUME NEW c \in Command, CommandStep(c) PROVE LedgerInv'
  <2>1. LocalStep(c)
    BY <1>0, <1>2, CommandLoadStep, CommandPostStep, CommandSaveStep, ReadDbStep, ReadRowStep,
       WriteRowStep, AddLoadStep, AddSaveStep
    DEF CommandStep
  <2> QED
    BY <2>1, LocalStepKeeps, ServersAreNoCommands
<1>3. ASSUME Tick \/ UNCHANGED ledgerVars PROVE LedgerInv'
  <2>1. time' \in Nat
    BY <1>0, <1>3 DEF Tick, StepInv, LedgerTypeOK, ledgerVars
  <2>2. UNCHANGED <<ledger, pc, totals, at, locals, reads, history>>
    BY <1>3 DEF Tick, ledgerVars
  <2> USE DEF ledger, totals, locals, reads, history
  <2>3. StepInv'
    BY <1>0, <2>1, <2>2 DEF StepInv, LedgerTypeOK, ServerInv, CommandInv, BaselineInv,
       BeforePost, BeforeSave, ToUpload, BasePending, OwedBy
  <2>4. Balance' = Balance
    BY <2>2 DEF Balance, FileTokens, Owed, Uploaded
  <2> QED
    BY <2>2, <2>3, <2>4 DEF LedgerInv, NothingLost, NothingCountedTwice
<1> QED
  BY <1>1, <1>2, <1>3 DEF LedgerNext

LEMMA LedgerInvariant == LedgerSpec => []LedgerInv
<1> QED
  BY LedgerStarts, LedgerSteps, PTL DEF LedgerSpec

\* The ledger keeps its types, for any servers and commands: in particular no
\* server has flushed more than it saved, although the total it records as
\* flushed was read before the upload and the save.
THEOREM LedgerTypeCorrect == LedgerSpec => []LedgerTypeOK
<1>1. LedgerInv => LedgerTypeOK
  BY DEF LedgerInv, StepInv
<1> QED
  BY <1>1, LedgerInvariant, PTL

\* A credited token is counted, pending or still owed, however flushes, saves
\* and commands interleave, as long as none of the three ways to lose one
\* happened.
THEOREM NoTokenIsLost == LedgerSpec => []NothingLost
<1>1. LedgerInv => NothingLost
  BY DEF LedgerInv
<1> QED
  BY <1>1, LedgerInvariant, PTL

\* Nor is one counted twice, but in the ways that doubled names.
THEOREM NoTokenIsCountedTwice == LedgerSpec => []NothingCountedTwice
<1>1. LedgerInv => NothingCountedTwice
  BY DEF LedgerInv
<1> QED
  BY <1>1, LedgerInvariant, PTL

\* No process is running.
AllEnded == \A p \in Proc : pc[p] \in {"new", "gone"}

\* Once every process has ended, however long they ran beside each other, the
\* tokens are in the worldwide counter or in the file, each of them once, if
\* nothing went wrong in one of the named ways.
THEOREM EndedProcessesOweNothing ==
  LedgerSpec => [](AllEnded /\ lost = {} /\ doubled = {} => service + FileTokens = earned)
<1>1. LedgerInv =>
        (AllEnded /\ lost = {} /\ doubled = {} => service + FileTokens = earned)
  <2> SUFFICES ASSUME LedgerInv, AllEnded, lost = {}, doubled = {}
               PROVE  service + FileTokens = earned
    OBVIOUS
  <2>0. LedgerTypeOK /\ StepInv
    BY DEF LedgerInv, StepInv
  <2>1. IsFiniteSet(Server) /\ IsFiniteSet(Proc)
    BY LedgerAssumption, FS_Union DEF Proc
  <2> DEFINE owed == [s \in Server |-> saved[s] - flushed[s]]
  <2>2. owed \in [Server -> Int] /\ \A s \in Server : owed[s] = 0
    BY <2>0, ServersAreNoCommands DEF AllEnded, StepInv, ServerInv, LedgerTypeOK
  <2>3. sent \in [Proc -> Int] /\ \A p \in Proc : sent[p] = 0
    BY <2>0 DEF AllEnded, StepInv, ServerInv, CommandInv, LedgerTypeOK, Proc
  <2> HIDE DEF owed
  <2>4. SumFunction(owed) = 0 /\ SumFunction(sent) = 0
    BY <2>1, <2>2, <2>3, SumZero
  <2>5. Owed = 0 /\ Uploaded = 0
    BY <2>4 DEF Owed, Uploaded, owed
  <2>6. FileTokens \in Nat /\ service \in Nat /\ earned \in Nat
    BY <2>0, FileTokensType DEF LedgerTypeOK
  <2>7. Balance = service + FileTokens
    BY <2>5, <2>6 DEF Balance
  <2> QED
    BY <2>6, <2>7 DEF LedgerInv, NothingLost, NothingCountedTwice
<1> QED
  BY <1>1, LedgerInvariant, PTL
=============================================================================
