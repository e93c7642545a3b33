--------------------------- MODULE SettingsProofs ---------------------------
(***************************************************************************)
(* For every set of configurations and every choice of failures and        *)
(* accidents: the types, that config.json is never half-written, and that  *)
(* no accepted configuration archives into the folder it watches, or out   *)
(* of the folders it names.                                                *)
(***************************************************************************)
EXTENDS Configured, FiniteSetTheorems, WellFoundedInduction, TLAPS

Programs == {"off", "starting", "running"}
Steps == {"none", "write", "sync", "replace", "sync dir"}

TypeOK ==
    /\ program \in Programs
    /\ file \in Contents /\ cut \in SUBSET Contents
    /\ tmp \in [content : Contents, synced : BOOLEAN]
    /\ memory \in Configs /\ saving \in Configs
    /\ form \in Configs \union {Refused}
    /\ step \in Steps
    /\ incidents \in SUBSET {"damage", "misread", "not synced", "sync failed"}

\* The strengthening: what a save renames is whole, and reached the disk before; it
\* is then the file, until the save returns or the program ends.
Whole ==
    /\ step = "sync" => tmp.content = saving
    /\ step = "replace" => tmp.content = saving /\ tmp.synced
    /\ step = "sync dir" => file = saving
    /\ program = "off" => step = "none"

Inv == TypeOK /\ Whole /\ NeverHalfWritten

-----------------------------------------------------------------------------
(* The invariant, step by step.                                              *)

LEMMA InvInit == SettingsInit => Inv
<1> SUFFICES ASSUME SettingsInit PROVE Inv
  OBVIOUS
<1>1. TypeOK
  BY ConfigsAssumption DEF SettingsInit, TypeOK, Contents, NoTmp, Programs, Steps
<1>2. Whole
  BY DEF SettingsInit, Whole
<1>3. NeverHalfWritten
  BY ConfigsAssumption DEF SettingsInit, NeverHalfWritten
<1> QED
  BY <1>1, <1>2, <1>3 DEF Inv

LEMMA InvNext == Inv /\ [SettingsNext]_settingsVars => Inv'
<1> SUFFICES ASSUME Inv, [SettingsNext]_settingsVars PROVE Inv'
  OBVIOUS
<1> USE ConfigsAssumption DEF Inv, TypeOK, Whole, NeverHalfWritten, Contents, Programs, Steps, NoTmp
<1>1. CASE LoadAbsent
  BY <1>1 DEF LoadAbsent, WriteDefault, BeginSave, onDisk
<1>2. CASE LoadValid
  BY <1>2 DEF LoadValid, Ready, onDisk, save
<1>3. CASE ReadFails
  BY <1>3 DEF ReadFails, Ready, onDisk, save
<1>4. CASE LoadDamaged
  BY <1>4 DEF LoadDamaged, WriteDefault, BeginSave, Ready, save
<1>5. ASSUME NEW content \in Configs \union {Refused}, Edit(content) PROVE Inv'
  BY <1>5 DEF Edit, Idle, onDisk, save
<1>6. CASE Save
  BY <1>6 DEF Save, Idle, BeginSave, onDisk
<1>7. CASE LeaveDialog
  BY <1>7 DEF LeaveDialog, Idle, BeginSave, onDisk, save, history
<1>8. CASE Close
  BY <1>8 DEF Close, Idle, Stopped, onDisk, history
<1>9. CASE Write
  <2>1. program' \in Programs /\ (program' = "off" => step' = "none")
    BY <1>9 DEF Write, Fails
  <2>2. UNCHANGED <<file, cut, memory, form, saving, incidents>>
    BY <1>9 DEF Write, history
  <2>3. CASE /\ tmp' = [content |-> saving, synced |-> FALSE] /\ step' = "sync"
    <3>1. tmp' \in [content : Contents, synced : BOOLEAN] /\ tmp'.content = saving
      BY <2>3
    <3> QED
      BY <2>1, <2>2, <2>3, <3>1
  <2>4. CASE tmp' = [content |-> Damaged, synced |-> FALSE] /\ step' = "none"
    <3>1. tmp' \in [content : Contents, synced : BOOLEAN]
      BY <2>4
    <3> QED
      BY <2>1, <2>2, <2>4, <3>1
  <2> QED
    BY <1>9, <2>3, <2>4 DEF Write, Fails
<1>10. CASE Sync
  <2>1. program' \in Programs /\ (program' = "off" => step' = "none")
    BY <1>10 DEF Sync, Fails
  <2>2. UNCHANGED <<file, cut, memory, form, saving, incidents>>
    BY <1>10 DEF Sync, history
  <2>3. CASE tmp' = [tmp EXCEPT !.synced = TRUE] /\ step' = "replace"
    <3>1. tmp' \in [content : Contents, synced : BOOLEAN] /\ tmp'.content = saving /\ tmp'.synced
      BY <1>10, <2>3 DEF Sync
    <3> QED
      BY <2>1, <2>2, <2>3, <3>1
  <2>4. CASE UNCHANGED tmp /\ step' = "none"
    BY <2>1, <2>2, <2>4
  <2>5. \/ tmp' = [tmp EXCEPT !.synced = TRUE] /\ step' = "replace"
        \/ UNCHANGED tmp /\ step' = "none"
    BY <1>10, Zenon DEF Sync, Fails
  <2> QED
    BY <2>3, <2>4, <2>5
<1>11. CASE Replace
  <2>1. program' \in Programs /\ (program' = "off" => step' = "none")
    BY <1>11 DEF Replace, Fails
  <2>2. UNCHANGED <<memory, form, saving, incidents>>
    BY <1>11 DEF Replace, history
  <2>3. tmp.content = saving /\ tmp.synced
    BY <1>11 DEF Replace
  <2>4. CASE /\ file' = saving /\ cut' = cut \union {saving}
             /\ tmp' = NoTmp /\ step' = "sync dir"
    BY <2>1, <2>2, <2>4
  <2>5. CASE UNCHANGED <<file, cut, tmp>> /\ step' = "none"
    BY <2>1, <2>2, <2>5
  <2>6. \/ /\ file' = saving /\ cut' = cut \union {saving}
           /\ tmp' = NoTmp /\ step' = "sync dir"
        \/ UNCHANGED <<file, cut, tmp>> /\ step' = "none"
    BY <1>11, <2>3 DEF Replace, Fails, onDisk
  <2> QED
    BY <2>4, <2>5, <2>6
<1>12. CASE SyncDir
  <2>1. UNCHANGED <<file, tmp, saving>> /\ step' = "none" /\ program' \in Programs
    BY <1>12 DEF SyncDir, Saved, Fails
  <2>2. cut' \in {cut, {file}} /\ memory' \in {memory, saving} /\ form' \in {form, saving}
    BY <1>12 DEF SyncDir, Saved
  <2>3. /\ incidents' \in SUBSET {"damage", "misread", "not synced", "sync failed"}
        /\ "damage" \in incidents => "damage" \in incidents'
    BY <1>12 DEF SyncDir
  <2> QED
    BY <2>1, <2>2, <2>3
<1>13. CASE Crash
  BY <1>13 DEF Crash, Stopped, onDisk, history
<1>14. CASE PowerCut
  BY <1>14 DEF PowerCut, Stopped, history
<1>15. CASE Settle
  BY <1>15 DEF Settle, save, history
<1>16. CASE Damage
  BY <1>16 DEF Damage, save
<1>17. CASE UNCHANGED settingsVars
  BY <1>17 DEF settingsVars, onDisk, save, history
<1> QED
  BY <1>1, <1>2, <1>3, <1>4, <1>5, <1>6, <1>7, <1>8, <1>9, <1>10, <1>11, <1>12, <1>13, <1>14,
     <1>15, <1>16, <1>17 DEF SettingsNext, Start, User, SaveConfig, Accident

\* A save never exposes an empty or half-written file (save_config, store.py:44-59), for
\* any configurations, failures and accidents.
THEOREM HalfWrittenNever == SettingsSpec => []NeverHalfWritten
<1>1. Inv => NeverHalfWritten
  BY DEF Inv
<1> QED
  BY InvInit, InvNext, <1>1, PTL DEF SettingsSpec

\* Every variable keeps its type; above all, the snapshot is always an accepted
\* configuration (ConfigStore._config, store.py:84-112).
THEOREM SnapshotAccepted == SettingsSpec => [](memory \in Configs)
<1>1. Inv => memory \in Configs
  BY DEF Inv, TypeOK
<1> QED
  BY InvInit, InvNext, <1>1, PTL DEF SettingsSpec
-----------------------------------------------------------------------------
(* Memory and disk.                                                          *)

\* MemoryIsFile, but for the step in which a save has replaced the file and not the memory.
Aligned ==
    program = "running" /\ step # "sync dir" /\ file # Damaged
        /\ incidents \intersect {"misread", "sync failed"} = {}
    => memory = file

LEMMA AlignedNext == Inv /\ Aligned /\ [SettingsNext]_settingsVars => Aligned'
<1> SUFFICES ASSUME Inv, Aligned, [SettingsNext]_settingsVars PROVE Aligned'
  OBVIOUS
<1> USE DEF Aligned
<1>1. CASE Start
  <2>1. CASE LoadAbsent
    BY <2>1 DEF LoadAbsent, WriteDefault
  <2>2. CASE LoadValid
    BY <2>2 DEF LoadValid, Ready, onDisk
  <2>3. CASE ReadFails
    BY <2>3 DEF ReadFails
  <2>4. CASE LoadDamaged
    BY <2>4 DEF LoadDamaged, WriteDefault
  <2> QED
    BY <1>1, <2>1, <2>2, <2>3, <2>4 DEF Start
<1>2. CASE User
  <2>1. ASSUME NEW content \in Configs \union {Refused}, Edit(content) PROVE Aligned'
    BY <2>1 DEF Edit, Idle, onDisk, save
  <2>2. CASE Save
    BY <2>2 DEF Save, Idle, BeginSave, onDisk
  <2>3. CASE LeaveDialog
    BY <2>3 DEF LeaveDialog, Idle, BeginSave, onDisk, save, history
  <2>4. CASE Close
    BY <2>4 DEF Close, Stopped
  <2> QED
    BY <1>2, <2>1, <2>2, <2>3, <2>4 DEF User
<1>3. CASE Write
  <2>1. UNCHANGED <<file, memory, incidents>> /\ (program' = "running" => program = "running")
    BY <1>3 DEF Write, Fails, history
  <2> QED
    BY <1>3, <2>1 DEF Write
<1>4. CASE Sync
  <2>1. UNCHANGED <<file, memory, incidents>> /\ (program' = "running" => program = "running")
    BY <1>4 DEF Sync, Fails, history
  <2> QED
    BY <1>4, <2>1 DEF Sync
<1>5. CASE Replace
  <2>1. UNCHANGED <<memory, incidents>> /\ (program' = "running" => program = "running")
    BY <1>5 DEF Replace, Fails, history
  <2>2. step' = "sync dir" \/ UNCHANGED file
    BY <1>5 DEF Replace, onDisk
  <2> QED
    BY <1>5, <2>1, <2>2 DEF Replace
<1>6. CASE SyncDir
  <2>1. file = saving /\ UNCHANGED file
    BY <1>6 DEF SyncDir, Inv, Whole
  <2>2. memory' = saving \/ "sync failed" \in incidents'
    BY <1>6 DEF SyncDir, Saved
  <2> QED
    BY <2>1, <2>2
<1>7. CASE Accident
  BY <1>7 DEF Accident, Crash, PowerCut, Settle, Damage, Stopped, save, history
<1>8. CASE UNCHANGED settingsVars
  BY <1>8 DEF settingsVars, onDisk, save, history
<1> QED
  BY <1>1, <1>2, <1>3, <1>4, <1>5, <1>6, <1>7, <1>8 DEF SettingsNext, SaveConfig

\* A failed save leaves memory aligned with what is on disk (ConfigStore.update,
\* store.py:108-112), with the excuses of MemoryIsFile.
THEOREM MemoryAligned == SettingsSpec => []MemoryIsFile
<1>1. SettingsInit => Aligned
  BY DEF SettingsInit, Aligned
<1>2. Aligned => MemoryIsFile
  BY DEF Aligned, MemoryIsFile, Idle
<1> QED
  BY InvInit, InvNext, AlignedNext, <1>1, <1>2, PTL DEF SettingsSpec

\* SavedIsKept, and what carries it through a save: the file is among what a power cut may
\* leave, and what is being saved among the candidates.
Keeping ==
    /\ file \in cut
    /\ incidents \intersect {"damage", "not synced"} = {} =>
          /\ cut \ {Absent} \subseteq candidates
          /\ step # "none" => saving \in candidates
          /\ program = "running" => memory \in candidates \/ "misread" \in incidents

LEMMA KeepingNext == Inv /\ Keeping /\ [SettingsNext]_settingsVars => Keeping'
<1> SUFFICES ASSUME Inv, Keeping, [SettingsNext]_settingsVars PROVE Keeping'
  OBVIOUS
<1> USE DEF Keeping
<1>1. CASE LoadAbsent
  BY <1>1 DEF LoadAbsent, WriteDefault, BeginSave, onDisk
<1>2. CASE LoadValid
  <2>1. file \in cut \ {Absent}
    BY <1>2, ConfigsAssumption DEF LoadValid
  <2>2. step' = step /\ step = "none"
    BY <1>2 DEF LoadValid, Ready, save, Inv, Whole
  <2> QED
    BY <1>2, <2>1, <2>2 DEF LoadValid, Ready, onDisk
<1>3. CASE ReadFails
  BY <1>3 DEF ReadFails, Ready, onDisk, save
<1>4. CASE LoadDamaged
  <2>1. "damage" \in incidents /\ incidents' = incidents
    BY <1>4 DEF LoadDamaged, Inv, NeverHalfWritten, WriteDefault, BeginSave
  <2>2. file' \in cut'
    BY <1>4 DEF LoadDamaged
  <2> QED
    BY <2>1, <2>2
<1>5. ASSUME NEW content \in Configs \union {Refused}, Edit(content) PROVE Keeping'
  BY <1>5 DEF Edit, Idle, onDisk, save
<1>6. CASE Save
  BY <1>6 DEF Save, Idle, BeginSave, onDisk
<1>7. CASE LeaveDialog
  BY <1>7 DEF LeaveDialog, Idle, BeginSave, onDisk, save, history
<1>8. CASE Close
  BY <1>8 DEF Close, Stopped, onDisk, history
<1>9. CASE Write \/ Sync
  <2>1. UNCHANGED <<file, cut, memory, saving, candidates, incidents>>
    BY <1>9 DEF Write, Sync, history
  <2>2. step # "none" /\ (program' = "running" => program = "running")
    BY <1>9 DEF Write, Sync, Fails
  <2> QED
    BY <2>1, <2>2
<1>10. CASE Replace
  <2>1. UNCHANGED <<memory, saving, candidates, incidents>>
    BY <1>10 DEF Replace, history
  <2>2. step # "none" /\ (program' = "running" => program = "running")
    BY <1>10 DEF Replace, Fails
  <2>3. \/ file' = saving /\ cut' = cut \union {saving}
        \/ UNCHANGED <<file, cut>>
    BY <1>10 DEF Replace, onDisk, Inv, Whole
  <2> QED
    BY <2>1, <2>2, <2>3
<1>11. CASE SyncDir
  <2>1. file = saving /\ UNCHANGED <<file, saving>> /\ step # "none" /\ step' = "none"
    BY <1>11 DEF SyncDir, Inv, Whole, Saved, Fails
  <2>2. CASE cut' = {file} /\ memory' = saving /\ candidates' = {saving}
    BY <2>1, <2>2
  <2>3. CASE "not synced" \in incidents' /\ UNCHANGED cut
    BY <2>1, <2>3
  <2>4. CASE /\ incidents' = incidents \union {"sync failed"}
             /\ UNCHANGED <<cut, memory, candidates>>
             /\ program' = "running" => program = "running"
    BY <2>1, <2>4
  <2> QED
    BY <1>11, <2>2, <2>3, <2>4 DEF SyncDir, Saved, Fails
<1>12. CASE Crash
  BY <1>12 DEF Crash, Stopped, onDisk, history
<1>13. CASE PowerCut
  BY <1>13 DEF PowerCut, Stopped, history
<1>14. CASE Settle
  BY <1>14 DEF Settle, save, history
<1>15. CASE Damage
  BY <1>15 DEF Damage, save
<1>16. CASE UNCHANGED settingsVars
  BY <1>16 DEF settingsVars, onDisk, save, history
<1> QED
  BY <1>1, <1>2, <1>3, <1>4, <1>5, <1>6, <1>7, <1>8, <1>9, <1>10, <1>11, <1>12, <1>13, <1>14,
     <1>15, <1>16 DEF SettingsNext, Start, User, SaveConfig, Accident

\* A save that returned is kept (save_config, store.py:44-72): whatever fails and wherever
\* the machine stops, the file is the last configuration saved or one whose save began after
\* it, with the excuses of SavedIsKept.
THEOREM SavedKept == SettingsSpec => []SavedIsKept
<1>1. SettingsInit => Keeping
  BY DEF SettingsInit, Keeping
<1>2. Keeping => SavedIsKept
  BY DEF Keeping, SavedIsKept, Idle
<1> QED
  BY InvInit, InvNext, KeepingNext, <1>1, <1>2, PTL DEF SettingsSpec

-----------------------------------------------------------------------------
(* What replaces a configuration.                                            *)

\* Who saves what: the form its content, the dialog what was entered in it, the start its
\* default, and that only when there is no configuration to lose.
Saving ==
    step # "none" =>
        /\ origin \in {"start", "form", "dialog"}
        /\ origin = "form" => saving = form /\ program = "running"
        /\ origin = "dialog" => saving \in typed
        /\ origin = "start" => program = "starting" /\ (step # "sync dir" => file \notin Configs)

\* What the form holds was entered, or is the file it was loaded from, unless that could
\* not be read; after the dialog's save it is the old one until the save returns.
Entering ==
    /\ program = "running"
    /\ step = "sync dir" => origin = "form"
    /\ incidents \intersect {"misread", "sync failed"} = {}
    => form \in typed \union {Refused, file} \/ file \notin Configs

LEMMA SavingNext == Inv /\ Saving /\ [SettingsNext]_settingsVars => Saving'
<1> SUFFICES ASSUME Inv, Saving, [SettingsNext]_settingsVars PROVE Saving'
  OBVIOUS
<1> USE DEF Saving
<1>1. CASE Start
  <2>1. CASE LoadAbsent
    BY <2>1, ConfigsAssumption DEF LoadAbsent, WriteDefault, BeginSave, onDisk
  <2>2. CASE LoadValid \/ ReadFails
    BY <2>2 DEF LoadValid, ReadFails, Ready, save, Inv, Whole
  <2>3. CASE LoadDamaged
    <3>1. step = "none" /\ file = Damaged
      BY <2>3 DEF LoadDamaged, Inv, Whole
    <3>2. CASE file' = Absent /\ WriteDefault
      BY <3>2, ConfigsAssumption DEF WriteDefault, BeginSave
    <3>3. CASE Ready(Default)
      BY <3>1, <3>3 DEF Ready, save
    <3> QED
      BY <2>3, <3>2, <3>3 DEF LoadDamaged
  <2> QED
    BY <1>1, <2>1, <2>2, <2>3 DEF Start
<1>2. CASE User
  <2>1. ASSUME NEW content \in Configs \union {Refused}, Edit(content) PROVE Saving'
    BY <2>1 DEF Edit, Idle, save
  <2>2. CASE Save
    BY <2>2 DEF Save, Idle, BeginSave
  <2>3. CASE LeaveDialog
    BY <2>3 DEF LeaveDialog, Idle, BeginSave, save
  <2>4. CASE Close
    BY <2>4 DEF Close, Stopped
  <2> QED
    BY <1>2, <2>1, <2>2, <2>3, <2>4 DEF User
<1>3. CASE SaveConfig
  <2>1. CASE Write \/ Sync
    <3>1. UNCHANGED <<file, form, saving, origin, typed>> /\ step \in {"write", "sync"}
      BY <2>1 DEF Write, Sync, history
    <3>2. step' = "none" \/ (program' = program /\ step' # "sync dir")
      BY <2>1 DEF Write, Sync, Fails
    <3> QED
      BY <3>1, <3>2
  <2>2. CASE Replace
    <3>1. UNCHANGED <<form, saving, origin, typed>> /\ step = "replace"
      BY <2>2 DEF Replace, history
    <3>2. step' = "none" \/ (program' = program /\ step' = "sync dir")
      BY <2>2 DEF Replace, Fails
    <3> QED
      BY <3>1, <3>2
  <2>3. CASE SyncDir
    BY <2>3 DEF SyncDir, Saved, Fails
  <2> QED
    BY <1>3, <2>1, <2>2, <2>3 DEF SaveConfig
<1>4. CASE Accident
  <2>1. CASE Crash \/ PowerCut
    BY <2>1 DEF Crash, PowerCut, Stopped
  <2>2. CASE Settle
    BY <2>2 DEF Settle, save, history
  <2>3. CASE Damage
    BY <2>3 DEF Damage, save, Inv, Whole
  <2> QED
    BY <1>4, <2>1, <2>2, <2>3 DEF Accident
<1>5. CASE UNCHANGED settingsVars
  BY <1>5 DEF settingsVars, onDisk, save, history
<1> QED
  BY <1>1, <1>2, <1>3, <1>4, <1>5 DEF SettingsNext

LEMMA EnteringNext == Inv /\ Saving /\ Entering /\ [SettingsNext]_settingsVars => Entering'
<1> SUFFICES ASSUME Inv, Saving, Entering, [SettingsNext]_settingsVars PROVE Entering'
  OBVIOUS
<1> USE DEF Entering
<1>1. CASE Start
  <2>1. CASE LoadAbsent
    BY <2>1 DEF LoadAbsent, WriteDefault
  <2>2. CASE LoadValid
    BY <2>2 DEF LoadValid, Ready, onDisk
  <2>3. CASE ReadFails
    BY <2>3 DEF ReadFails
  <2>4. CASE LoadDamaged
    BY <2>4, ConfigsAssumption DEF LoadDamaged, WriteDefault
  <2> QED
    BY <1>1, <2>1, <2>2, <2>3, <2>4 DEF Start
<1>2. CASE User
  <2>1. ASSUME NEW content \in Configs \union {Refused}, Edit(content) PROVE Entering'
    BY <2>1 DEF Edit, Idle, onDisk, save
  <2>2. CASE Save
    BY <2>2 DEF Save, Idle, BeginSave, onDisk
  <2>3. CASE LeaveDialog
    <3>1. /\ program = "running" /\ step = "none" /\ step' # "sync dir"
          /\ UNCHANGED <<program, file, form, incidents>>
          /\ typed \subseteq typed'
      BY <2>3 DEF LeaveDialog, Idle, BeginSave, onDisk, save, history
    <3> QED
      BY <3>1
  <2>4. CASE Close
    BY <2>4 DEF Close, Stopped
  <2> QED
    BY <1>2, <2>1, <2>2, <2>3, <2>4 DEF User
<1>3. CASE SaveConfig
  <2>1. CASE Write \/ Sync
    <3>1. UNCHANGED <<file, form, typed, incidents>> /\ step \in {"write", "sync"}
      BY <2>1 DEF Write, Sync, history
    <3>2. program' = "running" => program = "running"
      BY <2>1 DEF Write, Sync, Fails
    <3> QED
      BY <3>1, <3>2
  <2>2. CASE Replace
    <3>1. UNCHANGED <<form, saving, origin, typed, incidents>> /\ step = "replace"
      BY <2>2 DEF Replace, history
    <3>2. program' = "running" => program = "running"
      BY <2>2 DEF Replace, Fails
    <3>3. CASE step' = "none" /\ file' = file
      BY <3>1, <3>2, <3>3
    <3>4. CASE step' = "sync dir" /\ file' = saving
      BY <3>1, <3>4 DEF Saving
    <3>5. \/ step' = "none" /\ file' = file
          \/ step' = "sync dir" /\ file' = saving
      BY <2>2 DEF Replace, Fails, onDisk, Inv, Whole
    <3> QED
      BY <3>3, <3>4, <3>5
  <2>3. CASE SyncDir
    <3>1. file' = saving /\ step = "sync dir"
      BY <2>3 DEF SyncDir, Inv, Whole
    <3>2. form' = saving \/ "sync failed" \in incidents'
      BY <2>3 DEF SyncDir, Saved, Saving
    <3> QED
      BY <3>1, <3>2
  <2> QED
    BY <1>3, <2>1, <2>2, <2>3 DEF SaveConfig
<1>4. CASE Accident
  <2>1. CASE Crash \/ PowerCut
    BY <2>1 DEF Crash, PowerCut, Stopped
  <2>2. CASE Settle
    BY <2>2 DEF Settle, save, history
  <2>3. CASE Damage
    BY <2>3 DEF Damage
  <2> QED
    BY <1>4, <2>1, <2>2, <2>3 DEF Accident
<1>5. CASE UNCHANGED settingsVars
  BY <1>5 DEF settingsVars, onDisk, save, history
<1> QED
  BY <1>1, <1>2, <1>3, <1>4, <1>5 DEF SettingsNext

LEMMA Replacing ==
    ASSUME Inv, Saving, Entering, [SettingsNext]_settingsVars,
           file \in Configs, file' # file, incidents \intersect {"misread", "sync failed"} = {}
    PROVE  file' \in typed \union cut \union {Damaged}
<1>1. CASE Replace
  <2>1. step = "replace" /\ file' = saving
    BY <1>1 DEF Replace, onDisk, Inv, Whole
  <2>2. origin \in {"form", "dialog"}
    BY <2>1 DEF Saving
  <2>3. CASE origin = "form"
    <3>1. form \in typed \union {Refused, file} /\ saving = form
      BY <2>1, <2>3 DEF Saving, Entering
    <3>2. saving # Refused
      BY ConfigsAssumption DEF Inv, TypeOK
    <3> QED
      BY <2>1, <3>1, <3>2
  <2>4. CASE origin = "dialog"
    BY <2>1, <2>4 DEF Saving
  <2> QED
    BY <2>2, <2>3, <2>4
<1>2. CASE Start
  BY <1>2, ConfigsAssumption DEF Start, LoadAbsent, LoadValid, ReadFails, LoadDamaged, onDisk
<1>3. CASE User
  BY <1>3 DEF User, Edit, Save, LeaveDialog, Close, onDisk
<1>4. CASE Write \/ Sync \/ SyncDir
  BY <1>4 DEF Write, Sync, SyncDir
<1>5. CASE Accident
  BY <1>5 DEF Accident, Crash, PowerCut, Settle, Damage, onDisk
<1>6. CASE UNCHANGED settingsVars
  BY <1>6 DEF settingsVars, onDisk
<1> QED
  BY <1>1, <1>2, <1>3, <1>4, <1>5, <1>6 DEF SettingsNext, SaveConfig

\* A valid configuration gives way only to one the user entered, to damage from outside or
\* to what a power cut had left on the disk (load_store, store.py:115-121): with the excuses of
\* OnlyTypedReplaces, no start of the program or of the monitor replaces it.
THEOREM TypedReplaces == SettingsSpec => OnlyTypedReplaces
<1>1. SettingsInit => Saving /\ Entering
  BY DEF SettingsInit, Saving, Entering
<1>2. Inv /\ Saving /\ Entering /\ [SettingsNext]_settingsVars
        => [(/\ file \in Configs /\ file' # file
             /\ incidents \intersect {"misread", "sync failed"} = {})
              => file' \in typed \union cut \union {Damaged}]_settingsVars
  BY Replacing
<1> QED
  BY InvInit, InvNext, SavingNext, EnteringNext, <1>1, <1>2, PTL
     DEF SettingsSpec, OnlyTypedReplaces

-----------------------------------------------------------------------------
(* Folders.                                                                  *)

\* Where a document goes is below a folder of the configuration; only if the watched
\* folder lies above or below that one can it be reached.
LEMMA BelowApart ==
  ASSUME NEW A, NEW B, NEW C, NEW root \in Seq(A), NEW rest \in Seq(B), NEW watched \in Seq(C),
         ~Within(root, watched), ~Within(watched, root)
  PROVE  ~Within(root \o rest, watched)
<1> DEFINE path == root \o rest
<1> SUFFICES ASSUME Within(path, watched) PROVE FALSE
  OBVIOUS
<1>1. /\ path \in Seq(A \union B) /\ Len(path) = Len(root) + Len(rest)
      /\ \A i \in 1..Len(root) : path[i] = root[i]
  OBVIOUS
<1>2. Len(watched) <= Len(path) /\ SubSeq(watched, 1, Len(watched)) = SubSeq(path, 1, Len(watched))
  BY DEF Within, IsPrefix
<1> HIDE DEF path
<1>3. \A i \in 1..Len(watched) : watched[i] = path[i]
  BY <1>1, <1>2
<1>4. CASE Len(watched) <= Len(root)
  <2>1. SubSeq(watched, 1, Len(watched)) = SubSeq(root, 1, Len(watched))
    BY <1>1, <1>3, <1>4
  <2> QED
    BY <2>1, <1>4 DEF Within, IsPrefix
<1>5. CASE Len(root) <= Len(watched)
  <2>1. SubSeq(root, 1, Len(root)) = SubSeq(watched, 1, Len(root))
    BY <1>1, <1>3, <1>5
  <2> QED
    BY <2>1, <1>5 DEF Within, IsPrefix
<1> QED
  BY <1>4, <1>5

LEMMA SubfoldersType ==
  ASSUME NEW config, NEW base, NEW doc, config.template \in Seq(STRING)
  PROVE  \E S : Subfolders(config, base, doc) \in Seq(S)
<1> DEFINE kept == Kept(config, base, doc)
           S == {Subfolders(config, base, doc)[n] : n \in 1..Cardinality(kept)}
<1>1. IsFiniteSet(kept)
  <2>1. kept \subseteq 1..Len(config.template)
    BY DEF Kept
  <2>2. IsFiniteSet(1..Len(config.template))
    BY FS_Interval
  <2> QED
    BY <2>1, <2>2, FS_Subset
<1>2. Cardinality(kept) \in Nat
  BY <1>1, FS_CardinalityType
<1>3. /\ DOMAIN Subfolders(config, base, doc) = 1..Cardinality(kept)
      /\ Subfolders(config, base, doc) = [n \in 1..Cardinality(kept) |-> Subfolders(config, base, doc)[n]]
  BY DEF Subfolders
<1> HIDE DEF kept
<1>4. Subfolders(config, base, doc) \in [1..Cardinality(kept) -> S]
  BY <1>3
<1>5. Subfolders(config, base, doc) \in Seq(S)
  BY <1>2, <1>4
<1> QED
  BY <1>5

LEMMA AppendBelow ==
  ASSUME NEW A, NEW B, NEW root \in Seq(A), NEW name, NEW rest \in Seq(B)
  PROVE  /\ <<name>> \o rest \in Seq({name} \union B)
         /\ Append(root, name) \o rest = root \o (<<name>> \o rest)
OBVIOUS

\* Every destination is the quarantine, or a folder of the configuration followed by names.
LEMMA Roots ==
  ASSUME NEW key \in Configs, NEW doc, NEW folder \in Destinations(Entered[key], doc)
  PROVE  LET config == Entered[key]
         IN \/ folder = config.quarantine
            \/ \E root \in {config.base, config.unknown, config.orders} : \E S : \E rest \in Seq(S) :
                  folder = root \o rest
<1> DEFINE config == Entered[key]
<1>1. /\ {config.base, config.unknown, config.orders} \subseteq Seq(Seq(STRING))
      /\ config.template \in Seq(STRING)
  BY EnteredAssumption
<1> HIDE DEF config
<1>2. ASSUME NEW base, NEW root \in {config.base, config.orders}, NEW name, base = Append(root, name)
      PROVE  \E S : \E rest \in Seq(S) : DestinationDir(config, base, doc) = root \o rest
  <2>1. PICK S : Subfolders(config, base, doc) \in Seq(S)
    BY <1>1, SubfoldersType
  <2>2. root \in Seq(Seq(STRING))
    BY <1>1
  <2>3. DestinationDir(config, base, doc) = root \o (<<name>> \o Subfolders(config, base, doc))
    BY <1>2, <2>1, <2>2, AppendBelow DEF DestinationDir
  <2>4. <<name>> \o Subfolders(config, base, doc) \in Seq({name} \union S)
    BY <2>1, <2>2, AppendBelow
  <2> QED
    BY <2>3, <2>4
<1>3. \E S : \E rest \in Seq(S) :
         DestinationDir(config, config.unknown, doc) = config.unknown \o rest
  <2>1. PICK S : Subfolders(config, config.unknown, doc) \in Seq(S)
    BY <1>1, SubfoldersType
  <2> QED
    BY <2>1 DEF DestinationDir
<1>4. CASE folder \in {DestinationDir(config, base, doc) :
                         base \in {ReviewFolder(config), DuplicatesFolder(config)}}
  BY <1>2, <1>4 DEF ReviewFolder, DuplicatesFolder, config
<1>5. CASE folder = ArchiveDir(config, doc)
  <2>1. \/ ArchiveBase(config, doc) = config.unknown
        \/ \E name : ArchiveBase(config, doc) = Append(config.base, name)
        \/ \E name : ArchiveBase(config, doc) = Append(config.orders, name)
    BY DEF ArchiveBase, OrdersBaseFor, FolderForCuit, SocietyFolder
  <2> QED
    BY <1>2, <1>3, <1>5, <2>1 DEF ArchiveDir, config
<1> QED
  BY <1>4, <1>5 DEF Destinations, config

LEMMA AcceptedApart == ApartConfigs = Configs
<1> SUFFICES ASSUME NEW key \in Configs, Beside(Entered[key]),
                    NEW doc \in Documents, NEW folder \in Destinations(Entered[key], doc)
             PROVE  ~Within(folder, Entered[key].input)
  BY DEF ApartConfigs, Apart
<1> DEFINE config == Entered[key]
<1>1. /\ {config.input, config.base, config.unknown, config.orders} \subseteq Seq(Seq(STRING))
      /\ Accepted(config)
  BY EnteredAssumption
<1>2. \A root \in {config.base, config.unknown, config.orders, config.quarantine} :
         ~Within(root, config.input)
  BY <1>1 DEF Accepted, Outputs
<1>3. \A root \in {config.base, config.unknown, config.orders} : ~Within(config.input, root)
  BY DEF Beside
<1>4. CASE folder = config.quarantine
  BY <1>2, <1>4
<1>5. ASSUME NEW root \in {config.base, config.unknown, config.orders},
             NEW S, NEW rest \in Seq(S), folder = root \o rest
      PROVE  ~Within(folder, config.input)
  <2>1. root \in Seq(Seq(STRING)) /\ config.input \in Seq(Seq(STRING))
    BY <1>1
  <2>2. ~Within(root, config.input) /\ ~Within(config.input, root)
    BY <1>2, <1>3
  <2> HIDE DEF config
  <2> QED
    BY <1>5, <2>1, <2>2, BelowApart
<1> QED
  BY <1>4, <1>5, Roots

\* No document is put into the folder that is watched, or below it, unless that folder lies
\* below one of the archive's (_reject_output_inside_input, model.py:77-83), for any
\* configurations and any documents.
THEOREM NothingIntoInput == SettingsSpec => []LeavesInput
<1>1. memory \in Configs => LeavesInput
  BY AcceptedApart DEF LeavesInput
<1> QED
  BY SnapshotAccepted, <1>1, PTL

-----------------------------------------------------------------------------
(* Names of folders.                                                         *)

\* A nonempty set of naturals has a least element.
LEMMA Least ==
  ASSUME NEW T \in SUBSET Nat, T # {}
  PROVE  \E n \in T : \A m \in T : n <= m
<1>1. IsWellFoundedOn(OpToRel(<, Nat), Nat)
  BY NatLessThanWellFounded
<1>2. PICK x \in T : \A y \in T : ~ (<<y, x>> \in OpToRel(<, Nat))
  BY <1>1, WFMin
<1>3. \A y \in Nat : y < x => <<y, x>> \in OpToRel(<, Nat)
  BY DEF OpToRel
<1>4. \A y \in T : ~(y < x)
  BY <1>2, <1>3
<1> QED
  BY <1>4

LEMMA MinFacts ==
  ASSUME NEW T \in SUBSET Nat, T # {}
  PROVE  Min(T) \in T /\ \A m \in T : Min(T) <= m
<1>1. \E n \in T : \A m \in T : n <= m
  BY Least
<1> QED
  BY <1>1 DEF Min

LEMMA MaxFacts ==
  ASSUME NEW n \in Nat, NEW T \in SUBSET (1..n), T # {}
  PROVE  Max(T) \in T /\ \A m \in T : Max(T) >= m
<1>1. \E k \in T : \A m \in T : k >= m
  <2> DEFINE U == {n - k : k \in T}
  <2>1. U \in SUBSET Nat /\ U # {}
    <3>1. \A k \in T : n - k \in Nat
      OBVIOUS
    <3> QED
      BY <3>1, Zenon
  <2>2. PICK u \in U : \A v \in U : u <= v
    <3> HIDE DEF U
    <3> QED BY <2>1, Least
  <2>3. PICK k \in T : u = n - k
    BY <2>2
  <2>4. \A m \in T : n - k <= n - m
    BY <2>2, <2>3
  <2> QED
    BY <2>4
<1> QED
  BY <1>1 DEF Max

\* There is an n-th index, as long as there are n indices.
LEMMA NthFacts ==
  ASSUME NEW size \in Nat, NEW indices \in SUBSET (1..size), NEW n \in 1..Cardinality(indices)
  PROVE  Nth(indices, n) \in indices
<1> DEFINE Upto(k) == {j \in indices : j <= k}
           T == {k \in 0..size : n <= Cardinality(Upto(k))}
<1>1. IsFiniteSet(indices)
  <2>1. IsFiniteSet(1..size)
    BY FS_Interval
  <2> QED
    BY <2>1, FS_Subset
<1>2. \A k \in 0..size : IsFiniteSet(Upto(k)) /\ Cardinality(Upto(k)) \in Nat
  BY <1>1, FS_Subset, FS_CardinalityType
<1>3. Upto(size) = indices /\ Upto(0) = {}
  <2>1. \A j \in indices : j <= size /\ ~(j <= 0)
    OBVIOUS
  <2>2. Upto(size) = indices
    BY <2>1, Zenon
  <2>3. Upto(0) = {}
    BY <2>1, Zenon
  <2> QED
    BY <2>2, <2>3
<1>4. Cardinality(indices) \in Nat
  BY <1>1, FS_CardinalityType
<1>5. size \in T
  BY <1>3, <1>4
<1>6. 0 \notin T
  BY <1>3, <1>4, FS_EmptySet
<1>7. PICK k \in T : \A m \in T : k <= m
  <2>1. T \subseteq 0..size
    BY Zenon
  <2> HIDE DEF T
  <2>2. T \in SUBSET Nat
    BY <2>1
  <2> QED
    BY <1>5, <2>2, Least
<1>8. k \in 1..size /\ k - 1 \in 0..size /\ k - 1 \notin T
  <2>1. T \subseteq 0..size
    BY Zenon
  <2> HIDE DEF T
  <2>2. k \in 0..size /\ k # 0
    BY <1>6, <1>7, <2>1
  <2> QED
    BY <1>7, <2>2
<1>9. k \in indices
  <2>1. SUFFICES ASSUME k \notin indices PROVE FALSE
    OBVIOUS
  <2>2. \A j \in indices : j <= k <=> j <= k - 1
    BY <1>8, <2>1
  <2>3. Upto(k) = Upto(k - 1)
    BY <2>2, Zenon
  <2>4. n <= Cardinality(Upto(k)) /\ ~(n <= Cardinality(Upto(k - 1)))
    BY <1>7, <1>8
  <2> HIDE DEF Upto
  <2> QED
    BY <2>3, <2>4
<1>10. Cardinality(Upto(k)) = Cardinality(Upto(k - 1)) + 1
  <2>1. Upto(k) = Upto(k - 1) \union {k}
    <3>1. \A j \in indices : j <= k <=> (j <= k - 1 \/ j = k)
      BY <1>8
    <3> QED
      BY <1>9, <3>1, Zenon
  <2>2. k \notin Upto(k - 1)
    BY <1>8
  <2>3. IsFiniteSet(Upto(k - 1))
    BY <1>2, <1>8
  <2> HIDE DEF Upto
  <2> QED
    BY <2>1, <2>2, <2>3, FS_AddElement
<1>11. Cardinality(Upto(k)) = n
  <2>1. n <= Cardinality(Upto(k)) /\ ~(n <= Cardinality(Upto(k - 1)))
    BY <1>7, <1>8
  <2>2. Cardinality(Upto(k - 1)) \in Nat
    BY <1>2, <1>8
  <2>3. n \in Nat
    BY <1>4
  <2> HIDE DEF Upto
  <2> QED
    BY <1>10, <2>1, <2>2, <2>3
<1> QED
  BY <1>9, <1>11 DEF Nth

\* Some of the elements of a sequence, in their order.
LEMMA AtFacts ==
  ASSUME NEW S, NEW seq \in Seq(S), NEW indices \in SUBSET DOMAIN seq
  PROVE  /\ At(seq, indices) \in Seq(S)
         /\ \A n \in DOMAIN At(seq, indices) : \E i \in indices : At(seq, indices)[n] = seq[i]
         /\ At(seq, indices) # <<>> => 1 \in DOMAIN At(seq, indices)
<1>1. Len(seq) \in Nat /\ DOMAIN seq = 1..Len(seq) /\ \A i \in DOMAIN seq : seq[i] \in S
  OBVIOUS
<1>2. \A n \in 1..Cardinality(indices) : Nth(indices, n) \in indices
  BY <1>1, NthFacts
<1>3. Cardinality(indices) \in Nat
  <2>1. IsFiniteSet(1..Len(seq))
    BY <1>1, FS_Interval
  <2>2. IsFiniteSet(indices)
    BY <1>1, <2>1, FS_Subset
  <2> QED
    BY <2>2, FS_CardinalityType
<1> DEFINE size == Cardinality(indices)
           at == [n \in 1..size |-> seq[Nth(indices, n)]]
<1>4. \A n \in 1..size : seq[Nth(indices, n)] \in S
  BY <1>1, <1>2
<1> HIDE DEF size
<1>5. at \in [1..size -> S]
  BY <1>4
<1>6. at \in Seq(S) /\ DOMAIN at = 1..size
  BY <1>3, <1>5 DEF size
<1>7. \A n \in 1..size : \E i \in indices : at[n] = seq[i]
  BY <1>2 DEF size
<1>8. at # <<>> => 1 \in 1..size
  BY <1>3, <1>6 DEF size
<1>9. At(seq, indices) = at
  BY DEF At, size
<1> HIDE DEF at
<1> QED
  BY <1>6, <1>7, <1>8, <1>9

\* A name without what Windows refuses in one.
Clean(text) == text \in Seq(STRING) /\ \A i \in DOMAIN text : text[i] # "/"

LEMMA ValidClean ==
  ASSUME NEW name \in Seq(STRING)
  PROVE  Clean(Valid(name))
<1> DEFINE indices == {i \in DOMAIN name : name[i] # "/"}
<1>1. indices \in SUBSET DOMAIN name /\ \A i \in indices : name[i] # "/"
  OBVIOUS
<1> HIDE DEF indices
<1>2. /\ At(name, indices) \in Seq(STRING)
      /\ \A n \in DOMAIN At(name, indices) : \E i \in indices : At(name, indices)[n] = name[i]
  BY <1>1, AtFacts
<1>3. Clean(At(name, indices))
  BY <1>1, <1>2 DEF Clean
<1> QED
  BY <1>3 DEF Valid, indices

LEMMA CollapsedClean ==
  ASSUME NEW text, Clean(text)
  PROVE  Clean(Collapsed(text))
<1> DEFINE indices == {i \in DOMAIN text : text[i] = " " => i = 1 \/ text[i - 1] # " "}
<1>1. indices \in SUBSET DOMAIN text /\ text \in Seq(STRING)
  BY DEF Clean
<1> HIDE DEF indices
<1>2. /\ At(text, indices) \in Seq(STRING)
      /\ \A n \in DOMAIN At(text, indices) : \E i \in indices : At(text, indices)[n] = text[i]
  BY <1>1, AtFacts
<1>3. Clean(At(text, indices))
  BY <1>1, <1>2 DEF Clean
<1> QED
  BY <1>3 DEF Collapsed, indices

LEMMA PartClean ==
  ASSUME NEW text, Clean(text), NEW first \in 1..Len(text) + 1, NEW last \in 0..Len(text)
  PROVE  /\ Clean(SubSeq(text, first, last))
         /\ first <= last => /\ SubSeq(text, first, last) # <<>>
                             /\ SubSeq(text, first, last)[1] = text[first]
                             /\ Last(SubSeq(text, first, last)) = text[last]
<1>1. text \in Seq(STRING)
  BY DEF Clean
<1>2. /\ SubSeq(text, first, last) \in Seq(STRING)
      /\ \A i \in DOMAIN SubSeq(text, first, last) :
            /\ i + first - 1 \in DOMAIN text
            /\ SubSeq(text, first, last)[i] = text[i + first - 1]
  BY <1>1
<1>3. first <= last => 1 \in DOMAIN SubSeq(text, first, last)
  BY <1>1
<1>4. first <= last => SubSeq(text, first, last) # <<>>
  BY <1>2, <1>3
<1>5. first <= last => SubSeq(text, first, last)[1] = text[first]
  BY <1>2, <1>3
<1>6. first <= last => Last(SubSeq(text, first, last)) = text[last]
  <2>1. first <= last => Len(SubSeq(text, first, last)) = last - first + 1
    BY <1>1
  <2>2. first <= last => SubSeq(text, first, last)[last - first + 1] = text[last]
    BY <1>1
  <2> QED
    BY <2>1, <2>2 DEF Last
<1>7. Clean(SubSeq(text, first, last))
  BY <1>2 DEF Clean
<1> QED
  BY <1>4, <1>5, <1>6, <1>7

LEMMA ShortenedClean ==
  ASSUME NEW text, Clean(text)
  PROVE  Clean(Shortened(text))
<1>1. Len(text) \in Nat /\ MaxComponent \in Nat
  <2>1. Len(text) \in Nat
    BY DEF Clean
  <2> QED
    BY <2>1, NamesAssumption
<1>2. Min({MaxComponent, Len(text)}) \in 0..Len(text)
  <2>1. {MaxComponent, Len(text)} \in SUBSET Nat
    BY <1>1
  <2>2. /\ Min({MaxComponent, Len(text)}) \in {MaxComponent, Len(text)}
        /\ Min({MaxComponent, Len(text)}) <= Len(text)
    BY <2>1, MinFacts
  <2> QED
    BY <1>1, <2>2
<1>3. 1 \in 1..Len(text) + 1
  BY <1>1
<1> QED
  BY <1>2, <1>3, PartClean DEF Shortened

\* What is left neither begins nor ends with a space or a dot.
Bare(text) == text[1] \notin Edges /\ Last(text) \notin Edges

LEMMA StripClean ==
  ASSUME NEW text, Clean(text)
  PROVE  Clean(Strip(text)) /\ (Strip(text) # <<>> => Bare(Strip(text)))
<1> DEFINE inner == {i \in DOMAIN text : text[i] \notin Edges}
<1>1. Len(text) \in Nat /\ DOMAIN text = 1..Len(text)
  BY DEF Clean
<1>2. CASE inner = {}
  <2>1. Strip(text) = <<>>
    BY <1>2 DEF Strip
  <2>2. Clean(<<>>)
    BY DEF Clean
  <2> QED
    BY <2>1, <2>2
<1>3. CASE inner # {}
  <2>1. inner \in SUBSET (1..Len(text)) /\ inner \in SUBSET Nat
    BY <1>1
  <2>2. \A i \in inner : text[i] \notin Edges
    OBVIOUS
  <2>3. Strip(text) = SubSeq(text, Min(inner), Max(inner))
    BY <1>3 DEF Strip
  <2> HIDE DEF inner
  <2>4. /\ Min(inner) \in inner /\ Max(inner) \in inner /\ Max(inner) >= Min(inner)
    BY <1>1, <1>3, <2>1, MinFacts, MaxFacts
  <2> DEFINE first == Min(inner)
             last == Max(inner)
  <2>5. first \in 1..Len(text) /\ last \in 1..Len(text) /\ last >= first
    BY <2>1, <2>4
  <2> HIDE DEF first, last
  <2>6. first \in 1..Len(text) + 1 /\ last \in 0..Len(text) /\ first <= last
    BY <1>1, <2>5
  <2>7. /\ Clean(SubSeq(text, first, last)) /\ SubSeq(text, first, last)[1] = text[first]
        /\ Last(SubSeq(text, first, last)) = text[last]
    BY <2>6, PartClean
  <2>8. /\ Clean(Strip(text)) /\ Strip(text)[1] = text[Min(inner)]
        /\ Last(Strip(text)) = text[Max(inner)]
    BY <2>3, <2>7 DEF first, last
  <2> QED
    BY <2>2, <2>4, <2>8 DEF Bare
<1> QED
  BY <1>2, <1>3

\* The name of a folder is one folder's, whatever it is made of.
LEMMA SanitizedProper ==
  ASSUME NEW name \in Seq(STRING)
  PROVE  /\ SanitizeComponent(name, Fallback) \in Seq(STRING)
         /\ Proper(SanitizeComponent(name, Fallback))
<1> DEFINE stripped == Strip(Shortened(Strip(Collapsed(Valid(name)))))
<1>1. Clean(stripped) /\ (stripped # <<>> => Bare(stripped))
  <2>1. Clean(Collapsed(Valid(name)))
    BY ValidClean, CollapsedClean
  <2>2. Clean(Shortened(Strip(Collapsed(Valid(name)))))
    BY <2>1, StripClean, ShortenedClean
  <2> QED
    BY <2>2, StripClean
<1>2. SanitizeComponent(name, Fallback) = IF stripped = <<>> THEN Fallback ELSE stripped
  BY DEF SanitizeComponent, OrElse
<1> HIDE DEF stripped
<1>3. Fallback \in Seq(STRING) /\ Proper(Fallback)
  BY NamesAssumption, FallbackAssumption DEF Proper
<1>4. ASSUME stripped # <<>> PROVE stripped \in Seq(STRING) /\ Proper(stripped)
  <2>1. stripped \in Seq(STRING) /\ \A i \in DOMAIN stripped : stripped[i] # "/"
    BY <1>1 DEF Clean
  <2>2. "/" \notin ToSet(stripped)
    BY <2>1 DEF ToSet
  <2>3. stripped[1] \notin Edges /\ Last(stripped) \notin Edges
    BY <1>1, <1>4 DEF Bare
  <2> QED
    BY <1>4, <2>1, <2>2, <2>3 DEF Proper
<1> QED
  BY <1>2, <1>3, <1>4

LEMMA NameOfType ==
  ASSUME NEW base \in Seq(Seq(STRING))
  PROVE  NameOf(base) \in Seq(STRING)
<1>1. CASE base = <<>>
  BY <1>1 DEF NameOf
<1>2. CASE base # <<>>
  <2>1. base[Len(base)] \in Seq(STRING)
    BY <1>2
  <2> QED
    BY <1>2, <2>1 DEF NameOf, Last
<1> QED
  BY <1>1, <1>2

LEMMA SocietyNames ==
  ASSUME NEW key \in Configs, NEW cuit, SocietiesFor(Entered[key], cuit) # <<>>
  PROVE  SocietiesFor(Entered[key], cuit)[1].name \in Seq(STRING)
<1> DEFINE societies == Entered[key].societies
           S == [cuit : STRING, name : Seq(STRING)]
           indices == {i \in DOMAIN societies : societies[i].cuit = cuit}
<1>1. societies \in Seq(S)
  BY EnteredAssumption
<1>2. SocietiesFor(Entered[key], cuit) = At(societies, indices)
  BY DEF SocietiesFor
<1>3. indices \in SUBSET DOMAIN societies
  OBVIOUS
<1> HIDE DEF societies, indices, S
<1>4. At(societies, indices)[1] \in S
  <2>1. At(societies, indices) \in Seq(S) /\ 1 \in DOMAIN At(societies, indices)
    BY <1>1, <1>2, <1>3, AtFacts
  <2> QED
    BY <2>1
<1> QED
  BY <1>2, <1>4 DEF S

LEMMA ArchiveBaseType ==
  ASSUME NEW key \in Configs, NEW doc
  PROVE  ArchiveBase(Entered[key], doc) \in Seq(Seq(STRING))
<1> DEFINE config == Entered[key]
           found == SocietiesFor(config, doc.buyer)
<1>1. config.base \in Seq(Seq(STRING)) /\ config.unknown \in Seq(Seq(STRING))
      /\ config.orders \in Seq(Seq(STRING))
  BY EnteredAssumption
<1>2. found # <<>> => found[1].name \in Seq(STRING)
  BY SocietyNames
<1>3. NoSocietyName \in Seq(STRING)
  BY NamesAssumption
<1>4. OrdersBaseFor(config, doc.buyer) \in Seq(Seq(STRING))
  <2> DEFINE name == IF found = <<>> THEN NoSocietyName ELSE found[1].name
  <2>1. name \in Seq(STRING)
    BY <1>2, <1>3
  <2>2. OrdersBaseFor(config, doc.buyer) = Append(config.orders, SanitizeComponent(name, Fallback))
    BY DEF OrdersBaseFor
  <2> HIDE DEF name, config
  <2>3. SanitizeComponent(name, Fallback) \in Seq(STRING)
    BY <2>1, SanitizedProper
  <2> QED
    BY <1>1, <2>2, <2>3
<1>5. FolderForCuit(config, doc.buyer) \in Seq(Seq(STRING))
  <2>1. CASE found = <<>>
    BY <1>1, <2>1 DEF FolderForCuit
  <2>2. CASE found # <<>>
    <3> DEFINE name == found[1].name
    <3>1. FolderForCuit(config, doc.buyer) = Append(config.base, SanitizeComponent(name, Fallback))
      BY <2>2 DEF FolderForCuit, SocietyFolder
    <3>2. name \in Seq(STRING)
      BY <1>2, <2>2
    <3> HIDE DEF name, config
    <3>3. SanitizeComponent(name, Fallback) \in Seq(STRING)
      BY <3>2, SanitizedProper
    <3> QED
      BY <1>1, <3>1, <3>3
  <2> QED
    BY <2>1, <2>2
<1> QED
  BY <1>4, <1>5 DEF ArchiveBase

\* What a segment of a template is filled with.
LEMMA FilledType ==
  ASSUME NEW key \in Configs, NEW doc \in Documents, NEW base \in Seq(Seq(STRING)),
         NEW segment \in ToSet(Entered[key].template)
  PROVE  Filled(segment, doc, base) \in Seq(STRING)
<1>1. segment \in Tokens \union DOMAIN Literal
  BY EnteredAssumption DEF Accepted
<1>2. doc.supplier \in Seq(STRING)
  BY DocumentsAssumption
<1>3. \A part \in 1..3 : Dated(doc, part) \in Seq(STRING)
  BY DocumentsAssumption, NamesAssumption DEF Dated
<1>4. NameOf(base) \in Seq(STRING)
  BY NameOfType
<1>5. CASE segment \in Tokens
  <2>1. /\ Dated(doc, 1) \in Seq(STRING) /\ Dated(doc, 2) \in Seq(STRING)
        /\ Dated(doc, 3) \in Seq(STRING)
    BY <1>3
  <2>2. CASE segment = "supplier"  BY <1>2, <2>2 DEF Filled
  <2>3. CASE segment = "society"  BY <1>4, <2>3 DEF Filled
  <2>4. CASE segment = "year"  BY <2>1, <2>4 DEF Filled
  <2>5. CASE segment = "month"  BY <2>1, <2>5 DEF Filled
  <2>6. CASE segment = "day"  BY <2>1, <2>6 DEF Filled
  <2> QED
    BY <1>5, <2>2, <2>3, <2>4, <2>5, <2>6 DEF Tokens
<1>6. CASE segment \notin Tokens
  <2>1. Literal[segment] \in Seq(STRING)
    BY <1>1, <1>6, NamesAssumption
  <2> QED
    BY <1>6, <2>1 DEF Filled, Tokens
<1> QED
  BY <1>5, <1>6

LEMMA AcceptedContained == ContainedConfigs = Configs
<1> SUFFICES ASSUME NEW key \in Configs, NEW doc \in Documents,
                    NEW component \in ToSet(Subfolders(Entered[key], ArchiveBase(Entered[key], doc), doc))
             PROVE  Proper(component)
  BY DEF ContainedConfigs, Contained
<1> DEFINE config == Entered[key]
           base == ArchiveBase(config, doc)
           kept == Kept(config, base, doc)
<1>1. config.template \in Seq(STRING)
  BY EnteredAssumption
<1>2. kept \in SUBSET (1..Len(config.template)) /\ Len(config.template) \in Nat
  BY <1>1 DEF Kept
<1>3. PICK n \in 1..Cardinality(kept) :
         component = SanitizeComponent(Filled(config.template[Nth(kept, n)], doc, base), Fallback)
  BY DEF Subfolders, ToSet
<1> HIDE DEF kept
<1>4. Nth(kept, n) \in 1..Len(config.template)
  BY <1>2, NthFacts
<1>5. config.template[Nth(kept, n)] \in ToSet(config.template)
  BY <1>1, <1>4 DEF ToSet
<1>6. Filled(config.template[Nth(kept, n)], doc, base) \in Seq(STRING)
  BY <1>5, ArchiveBaseType, FilledType
<1> QED
  BY <1>3, <1>6, SanitizedProper

\* The folder of an archived document is below the one that was chosen for it: no name of
\* a supplier or a company, and no template, leads out of it (sanitize_component and
\* destination_dir), for any accepted configurations and any documents.
THEOREM StaysBelowCorrect == SettingsSpec => []StaysBelow
<1>1. memory \in Configs => StaysBelow
  BY AcceptedContained DEF StaysBelow
<1> QED
  BY SnapshotAccepted, <1>1, PTL
=============================================================================
