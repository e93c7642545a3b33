------------------------------ MODULE Settings ------------------------------
(***************************************************************************)
(* config.json and who writes it: load_store when the program starts,      *)
(* ConfigStore.update when the user saves, starts the monitor or finishes  *)
(* the first-run dialog.  save_config is five calls of the operating       *)
(* system, each of which may fail, and the program or the machine may stop *)
(* between any two.  A configuration is a member of a set; what a field    *)
(* holds matters only to the validator, which refuses some forms.          *)
(***************************************************************************)
CONSTANTS
    Configs,    \* the valid configurations
    Default,    \* default_config()
    Absent,     \* no file
    Damaged,    \* a file that load_config cannot validate, half-written ones included
    Refused,    \* a form that collect_config refuses
    Failures,   \* calls that may raise OSError
    Accidents,  \* what may happen besides
    Windows     \* whether _fsync_dir does nothing

Calls == {"read", "backup", "write", "sync", "replace", "open dir", "sync dir"}
Contents == Configs \union {Absent, Damaged}

ASSUME ConfigsAssumption ==
    /\ Default \in Configs
    /\ Absent \notin Configs /\ Damaged \notin Configs /\ Refused \notin Configs
    /\ Absent # Damaged
ASSUME FailuresAssumption ==
    /\ Failures \subseteq Calls
    /\ Accidents \subseteq {"crash", "power cut", "damage"}
    /\ Windows \in BOOLEAN

VARIABLES
    program,     \* "off", "starting" or "running"
    file,        \* config.json
    cut,         \* what config.json may be after a power cut
    tmp,         \* config.json.tmp: its content, and whether that was synced
    memory,      \* ConfigStore._config
    form,        \* what the settings view holds
    firstRun,    \* the first-run dialog waits
    step,        \* the next call of save_config, or "none"
    saving,      \* what it saves
    origin,      \* who called: load_store, the form or the dialog
    candidates,  \* history: the last configuration saved, and those tried since
    typed,       \* history: the first configuration, and those the user entered
    incidents    \* history: a damaged file, a misread one, a directory not synced

onDisk == <<file, cut, tmp>>
save == <<step, saving, origin>>
history == <<candidates, typed, incidents>>
settingsVars == <<program, onDisk, memory, form, firstRun, save, history>>

NoTmp == [content |-> Absent, synced |-> TRUE]

SettingsInit ==
    /\ program = "off"
    /\ file \in Configs \union {Absent}
    /\ cut = {file}
    /\ tmp = NoTmp
    /\ memory = Default /\ form = Default
    /\ firstRun = FALSE
    /\ step = "none" /\ saving = Default /\ origin = "form"
    /\ candidates = {IF file = Absent THEN Default ELSE file}
    /\ typed = candidates
    /\ incidents = {}

Idle == program = "running" /\ step = "none"

BeginSave(config, from) ==
    /\ step' = "write" /\ saving' = config /\ origin' = from
    /\ candidates' = candidates \union {config}
    /\ UNCHANGED incidents

-----------------------------------------------------------------------------
(* The start of the program: load_store.                                   *)

\* The rest of the start when there is a file: the form shows what was loaded.
Ready(config) ==
    /\ program' = "running"
    /\ memory' = config /\ form' = config
    /\ firstRun' = FALSE
    /\ UNCHANGED <<save, candidates>>

\* ... and when there is none: the default is written first.
WriteDefault ==
    /\ program' = "starting"
    /\ memory' = Default
    /\ BeginSave(Default, "start")
    /\ UNCHANGED form

LoadAbsent ==
    /\ program = "off" /\ file = Absent
    /\ WriteDefault
    /\ firstRun' = TRUE
    /\ UNCHANGED <<onDisk, typed>>

LoadValid ==
    /\ program = "off" /\ file \in Configs
    /\ Ready(file)
    /\ incidents' = incidents \ {"misread", "sync failed"}
    /\ UNCHANGED <<onDisk, typed>>

\* A read error does not touch the file.
ReadFails ==
    /\ "read" \in Failures
    /\ program = "off" /\ file # Absent
    /\ Ready(Default)
    /\ incidents' = incidents \union {"misread"}
    /\ UNCHANGED <<onDisk, typed>>

\* Mutant: a file that cannot be read counts as one that is damaged.
LoadUnreadable ==
    /\ program = "off" /\ file # Absent
    /\ file' = Absent /\ cut' = cut \union {Absent}
    /\ WriteDefault
    /\ firstRun' = FALSE
    /\ UNCHANGED <<tmp, typed>>

\* _backup_corrupt_config moves a damaged file aside, or cannot.  A file that is not
\* UTF-8 raises UnicodeDecodeError at the read, where only OSError is caught: the
\* program ends with no backup, memory and file stay as they are, and no step is taken.
LoadDamaged ==
    /\ program = "off" /\ file = Damaged
    /\ \/ /\ file' = Absent
          /\ cut' = cut \union {Absent}
          /\ WriteDefault
          /\ firstRun' = FALSE
       \/ /\ "backup" \in Failures
          /\ Ready(Default)
          /\ UNCHANGED <<file, cut, incidents>>
    /\ UNCHANGED <<tmp, typed>>

-----------------------------------------------------------------------------
(* What the user does.                                                     *)

\* Typing, the dialogs for folders and companies, an import of companies.
Edit(content) ==
    /\ Idle /\ ~firstRun
    /\ content # form
    /\ form' = content
    /\ typed' = typed \union ({content} \intersect Configs)
    /\ UNCHANGED <<program, onDisk, memory, firstRun, save, candidates, incidents>>

\* Mutant: the snapshot is replaced before the file.
MemoryFirst ==
    /\ Idle /\ ~firstRun
    /\ form \in Configs
    /\ BeginSave(form, "form")
    /\ memory' = form
    /\ UNCHANGED <<program, onDisk, form, firstRun, typed>>

\* collect_and_save: the save button, the start of the monitor, a retry that starts it.
Save ==
    /\ Idle /\ ~firstRun
    /\ form \in Configs
    /\ BeginSave(form, "form")
    /\ UNCHANGED <<program, onDisk, memory, form, firstRun, typed>>

\* The first-run dialog is closed, or its configuration is saved.
LeaveDialog ==
    /\ Idle /\ firstRun
    /\ firstRun' = FALSE
    /\ \/ UNCHANGED <<save, history>>
       \/ \E config \in Configs :
             BeginSave(config, "dialog") /\ typed' = typed \union {config}
    /\ UNCHANGED <<program, onDisk, memory, form>>

\* The end of the process, and of all that was only in its memory.
Stopped ==
    /\ program' = "off" /\ step' = "none"
    /\ memory' = Default /\ form' = Default /\ saving' = Default
    /\ firstRun' = FALSE

Close ==
    /\ Idle
    /\ Stopped
    /\ UNCHANGED <<onDisk, origin, history>>

-----------------------------------------------------------------------------
(* save_config.                                                            *)

\* load_store lets the error end the program; persist shows it.
Fails(call) ==
    /\ call \in Failures
    /\ program' = IF origin = "start" THEN "off" ELSE program
    /\ step' = "none"

Write ==
    /\ step = "write"
    /\ \/ tmp' = [content |-> saving, synced |-> FALSE] /\ step' = "sync" /\ UNCHANGED program
       \/ tmp' = [content |-> Damaged, synced |-> FALSE] /\ Fails("write")
    /\ UNCHANGED <<file, cut, memory, form, firstRun, saving, origin, history>>

\* Mutant: the file is not synced before it is renamed.
SyncNothing ==
    /\ step = "sync"
    /\ step' = "replace"
    /\ UNCHANGED <<program, onDisk, memory, form, firstRun, saving, origin, history>>

Sync ==
    /\ step = "sync"
    /\ \/ tmp' = [tmp EXCEPT !.synced = TRUE] /\ step' = "replace" /\ UNCHANGED program
       \/ Fails("sync") /\ UNCHANGED tmp
    /\ UNCHANGED <<file, cut, memory, form, firstRun, saving, origin, history>>

\* os.replace: at once for every program, but a power cut may undo it, or keep the
\* name and lose a content that was not synced.
Replace ==
    /\ step = "replace"
    /\ \/ /\ file' = tmp.content
          /\ cut' = cut \union {IF tmp.synced THEN tmp.content ELSE Damaged}
          /\ tmp' = NoTmp
          /\ step' = "sync dir"
          /\ UNCHANGED program
       \/ Fails("replace") /\ UNCHANGED onDisk
    /\ UNCHANGED <<memory, form, firstRun, saving, origin, history>>

\* The save returned: the snapshot is replaced, load() follows the dialog's save, and
\* the start goes on.
Saved ==
    /\ step' = "none"
    /\ memory' = saving
    /\ program' = "running"
    /\ form' = IF origin = "form" THEN form ELSE saving
    /\ candidates' = {saving}

\* Mutant: the directory is not synced anywhere.
SyncNoDir ==
    /\ step = "sync dir"
    /\ Saved
    /\ incidents' = incidents \intersect {"damage"}
    /\ UNCHANGED <<onDisk, firstRun, saving, origin, typed>>

\* _fsync_dir: nothing on Windows or when the directory cannot be opened.
SyncDir ==
    /\ step = "sync dir"
    /\ \/ /\ ~Windows
          /\ cut' = {file}
          /\ incidents' = incidents \intersect {"damage"}
          /\ Saved
       \/ /\ Windows \/ "open dir" \in Failures
          /\ incidents' = (incidents \intersect {"damage"}) \union {"not synced"}
          /\ Saved
          /\ UNCHANGED cut
       \/ /\ ~Windows
          /\ Fails("sync dir")
          /\ incidents' = incidents \union {"sync failed"}
          /\ UNCHANGED <<cut, memory, form, candidates>>
    /\ UNCHANGED <<file, tmp, firstRun, saving, origin, typed>>

-----------------------------------------------------------------------------
(* Accidents.                                                              *)

Crash ==
    /\ "crash" \in Accidents
    /\ program # "off"
    /\ Stopped
    /\ UNCHANGED <<onDisk, origin, history>>

\* What had not reached the disk is gone.
PowerCut ==
    /\ "power cut" \in Accidents
    /\ file' \in cut
    /\ cut' = {file'}
    /\ tmp' = NoTmp
    /\ Stopped
    /\ UNCHANGED <<origin, history>>

\* Sooner or later the system writes a rename down by itself.
Settle ==
    /\ cut # {file}
    /\ cut' = {file}
    /\ UNCHANGED <<program, file, tmp, memory, form, firstRun, save, history>>

\* Something else spoils the file; its configuration is not asked for any more.
Damage ==
    /\ "damage" \in Accidents
    /\ program = "off" /\ file \in Configs
    /\ file' = Damaged /\ cut' = {Damaged}
    /\ candidates' = {Default}
    /\ incidents' = incidents \union {"damage"}
    /\ UNCHANGED <<program, tmp, memory, form, firstRun, save, typed>>

-----------------------------------------------------------------------------
Start == LoadAbsent \/ LoadValid \/ ReadFails \/ LoadDamaged
User == (\E content \in Configs \union {Refused} : Edit(content)) \/ Save \/ LeaveDialog \/ Close
SaveConfig == Write \/ Sync \/ Replace \/ SyncDir
Accident == Crash \/ PowerCut \/ Settle \/ Damage

SettingsNext == Start \/ User \/ SaveConfig \/ Accident

SettingsSpec == SettingsInit /\ [][SettingsNext]_settingsVars

-----------------------------------------------------------------------------
(* Properties.                                                             *)

\* A save never exposes an empty or half-written file, wherever the program or the
\* machine stops.
NeverHalfWritten == "damage" \notin incidents => Damaged \notin cut \union {file}

\* A save that returned is kept: whatever fails and wherever the machine stops, the
\* file is the last configuration saved or one whose save began after it, and so is
\* the snapshot the worker reads unless config.json could not be read.  Excused: a
\* save that returned although the directory could not be opened, until the next one.
SavedIsKept ==
    incidents \intersect {"damage", "not synced"} = {} =>
        /\ cut \ {Absent} \subseteq candidates
        /\ Idle => memory \in candidates \/ "misread" \in incidents

\* A failed save leaves memory aligned with what is on disk.  Excused, until the next
\* load or save that returns: a file that could not be read, one that is damaged, and
\* a save whose last call, the fsync of the directory, raised.
MemoryIsFile ==
    Idle /\ file # Damaged /\ incidents \intersect {"misread", "sync failed"} = {}
        => memory = file

\* A valid configuration gives way only to one the user entered, to damage from outside
\* or, in a power cut, to what had reached the disk: no start of the program or of the
\* monitor replaces it.  Excused: a session whose start could not read the file, or
\* whose first-run save raised after the file was replaced, for its form is the default.
OnlyTypedReplaces ==
    [][(/\ file \in Configs /\ file' # file
        /\ incidents \intersect {"misread", "sync failed"} = {})
          => file' \in typed \union cut \union {Damaged}]_settingsVars
=============================================================================
