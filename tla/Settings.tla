------------------------------ MODULE Settings ------------------------------
(***************************************************************************)
(* The persistent settings of the inverter: the value editor of the panel, *)
(* the table of settings in memory and in flash, the transaction that      *)
(* writes the whole table, and the boot that reads it back.                *)
(*                                                                         *)
(* The panel task edits one setting at a time.  Enter applies it and saves *)
(* the complete table under s_save_mutex: every key, a marker, a checksum  *)
(* of one captured snapshot, the marker again, a commit and a read-back.   *)
(* After boot one deferred task may save as well.  Writes reach the flash  *)
(* one by one, any of them may fail, the device may lose power between two *)
(* of them, the inverter is started and stopped and an emergency may       *)
(* disable the output at any moment, the editor being open or not.         *)
(*                                                                         *)
(* Eight of the keys of g_settings stand for the table, in its order: one  *)
(* that other tasks change (inverter_active), the battery type and the     *)
(* cutoff that a type regenerates, one applied while it is adjusted (the   *)
(* hour of the clock) with the key it sets besides (time_set), the output  *)
(* frequency that the frequency setting drives, one with a copy in use     *)
(* elsewhere (the current limit), and the frequency setting itself.        *)
(***************************************************************************)
EXTENDS Integers

CONSTANTS
    Default,        \* the default of every key, as in g_settings
    MaxEdits,       \* bound: editor sessions
    MaxMishaps      \* bound: flash operations that fail, power losses, restarts,
                    \* factory resets, starts, stops and emergencies of the inverter

Active  == 1
Type    == 2
Cutoff  == 3
Hour    == 4                       \* man_hour
TimeSet == 5                       \* time_set
OutFreq == 6                       \* out_freq
Limit   == 7
Freq    == 8                       \* frequency_range
Key     == 1..8
Editable == {Type, Cutoff, Hour, Limit, Freq}
Missing == -1                      \* a key the namespace does not hold
TooHigh == 4                       \* a value beyond what any editor allows

\* A frequency is 0, below 50 Hz, from 50 Hz on, or the 200 Hz a boot clamps to.
Domain == <<0..1, 1..2, 0..4, {0, 1, TooHigh}, 0..1, 1..2, {0, 1, 2, TooHigh}, 0..4>>
Snapshot == {s \in [Key -> 0..4] : \A k \in Key : s[k] \in Domain[k]}
NoSnapshot == [k \in Key |-> Missing]

ASSUME DefaultAssumption == Default \in Snapshot
ASSUME BoundsAssumption  == {MaxEdits, MaxMishaps} \subseteq Nat

Standard(t)    == t                \* the cutoff of a freshly generated profile
CutoffRange(t) == {t, t + 1}       \* what the editor and the boot accept
LimitRange     == 1..2
FreqRange      == 1..2             \* what the output can be set to
BootLimit      == 1                \* the limit in force before settings load
ResetLimit     == 1                \* what reload_default_settings() sets

\* What a key may be set to in the editor, when the battery has type t.
Range(k, t) == IF k = Cutoff THEN CutoffRange(t)
               ELSE IF k = Limit THEN LimitRange
               ELSE IF k = Freq THEN FreqRange
               ELSE Domain[k] \ {TooHigh}

VARIABLES
    flash,       \* [vals, marker, crc, ns]: the namespace of the settings
    mem,         \* the fields g_settings points at
    limit,       \* sys_state.current_limit, the copy the protection uses
    editor,      \* the open editor and what it remembers, or Closed
    panel,       \* what the panel task is doing
    saver,       \* the holder of s_save_mutex and how far its save is
    deferred,    \* the deferred save: no, pending, waiting, running
    synced,      \* limit was loaded or set with its setting and not zeroed since
    stored,      \* the table last saved and verified (NoSnapshot: none)
    attempts,    \* the tables some save has started to write since then
    edits, mishaps

device == <<flash, mem, limit, editor, panel, saver, deferred>>
history == <<synced, stored, attempts>>
bounds == <<edits, mishaps>>
vars == <<device, history, bounds>>

Closed == [key |-> 0, shown |-> 0, changed |-> FALSE, pending |-> FALSE,
           backup |-> 0, begin |-> NoSnapshot, limit |-> 0]
Nobody == [who |-> "nobody", phase |-> "free", at |-> 1, bad |-> FALSE,
           expected |-> NoSnapshot]
Purposes == {"edit", "clear", "restart"}     \* of a save the panel asks for
Phases == {"free", "open", "write", "stage", "crc", "mark", "commit", "verify"}

-----------------------------------------------------------------------------
(* What the flash says *)

\* nvs_load_all(): a key that is not there takes its default.
Loaded(f) == [k \in Key |-> IF f.vals[k] = Missing THEN Default[k] ELSE f.vals[k]]

\* The marker alone is believed.  (mutant)
Trusted_NoChecksum(f) == f.marker \in {"previous", "current"}

\* A complete transaction of this version whose checksum describes the values,
\* or one of the version before, which had none to check.
Trusted(f) == f.marker = "previous" \/ (f.marker = "current" /\ f.crc = Loaded(f))
Corrupt(f) == f.marker = "current" /\ f.crc # Loaded(f)

\* validate_and_clamp_settings()
ClampLimit(v) == IF v < 1 THEN 1 ELSE IF v > 2 THEN 2 ELSE v
ClampFreq(v)  == IF v < 2 THEN 2 ELSE IF v > 3 THEN 3 ELSE v

\* Memory after load_settings(): defaults for a corrupt table, but the battery
\* type is read again from flash by battery_load_profile(), and a cutoff is
\* taken over only when it is trusted and fits the regenerated profile.  A
\* frequency setting outside 50..200 Hz is clamped, the output frequency is not
\* set to it.
BootMem(f) ==
    LET base == IF Corrupt(f) THEN Default ELSE Loaded(f)
        type == IF f.vals[Type] # Missing THEN f.vals[Type] ELSE base[Type]
    IN  [base EXCEPT ![Type] = type,
                     ![Cutoff] = IF Trusted(f) /\ base[Cutoff] \in CutoffRange(type)
                                 THEN base[Cutoff] ELSE Standard(type),
                     ![Freq] = ClampFreq(@)]

\* Without the namespace nothing is loaded: the zeros of init_system_state()
\* and the fallback battery profile stay, and its 50 Hz.
Unset == [k \in Key |-> IF k \in {Type, Cutoff} THEN 1 ELSE IF k = OutFreq THEN 2 ELSE 0]

LoadedLimit(f) == IF Trusted(f) THEN Loaded(f)[Limit] ELSE BootLimit
LoadedFreq(f)  == IF Corrupt(f) THEN Default[Freq] ELSE Loaded(f)[Freq]

NewDevice == [vals |-> NoSnapshot, marker |-> "none", crc |-> NoSnapshot, ns |-> FALSE]
OldFirmware == [vals |-> Default, marker |-> "previous", crc |-> NoSnapshot, ns |-> TRUE]

Init ==
    /\ flash \in {NewDevice, OldFirmware}
    /\ mem = Unset /\ limit = 0
    /\ editor = Closed /\ panel = "off" /\ saver = Nobody /\ deferred = "no"
    /\ synced = FALSE /\ stored = NoSnapshot /\ attempts = {}
    /\ edits = 0 /\ mishaps = 0

-----------------------------------------------------------------------------
(* Start and stop *)

\* init_menu_system(): load, validate, and remember whether the table has to be
\* written again.  security_init() then creates the namespace.
Boot ==
    /\ panel = "off"
    /\ panel' = "menu"
    /\ flash' = [flash EXCEPT !.ns = TRUE]
    /\ IF flash.ns
       THEN /\ mem' = BootMem(flash)
            /\ limit' = ClampLimit(LoadedLimit(flash))
            /\ deferred' = IF \/ flash.marker \in {"staged", "previous"}
                              \/ Corrupt(flash) \/ LoadedLimit(flash) \notin LimitRange
                              \/ LoadedFreq(flash) # ClampFreq(LoadedFreq(flash))
                           THEN "pending" ELSE "no"
            /\ synced' = (Trusted(flash) /\ LoadedLimit(flash) \in LimitRange)
       ELSE /\ mem' = Unset /\ limit' = BootLimit
            /\ deferred' = "no" /\ synced' = FALSE
    /\ UNCHANGED <<editor, saver, stored, attempts, bounds>>

\* The device stops: only the flash is left.
Off ==
    /\ panel' = "off" /\ mem' = Unset /\ limit' = 0
    /\ editor' = Closed /\ saver' = Nobody /\ deferred' = "no" /\ synced' = FALSE

PowerLoss ==
    /\ panel # "off" /\ mishaps < MaxMishaps
    /\ Off /\ mishaps' = mishaps + 1
    /\ UNCHANGED <<flash, stored, attempts, edits>>

\* perform_factory_reset(): the whole partition is erased and the device
\* restarts; when the lock or the erase fails it goes on as it is.
FactoryReset ==
    /\ panel = "menu" /\ mishaps < MaxMishaps
    /\ mishaps' = mishaps + 1
    /\ \/ /\ saver.phase \in {"free", "open"}
          /\ flash' = NewDevice /\ stored' = NoSnapshot /\ attempts' = {}
          /\ Off
       \/ /\ limit' = BootLimit /\ synced' = FALSE
          /\ mem' = [mem EXCEPT ![OutFreq] = 2]
          /\ UNCHANGED <<flash, editor, panel, saver, deferred, stored, attempts>>
    /\ UNCHANGED edits

-----------------------------------------------------------------------------
(* The editor *)

\* What apply_*() does to the table and to the limit in force.  Some settings
\* write a second key: a type regenerates the profile, an hour declares the
\* clock set, and a frequency becomes the output's unless it is out of range.
Applied(m, k, v) ==
    [i \in Key |-> IF i = k THEN v
                   ELSE IF i = Cutoff /\ k = Type THEN Standard(v)
                   ELSE IF i = TimeSet /\ k = Hour THEN 1
                   ELSE IF i = OutFreq /\ k = Freq /\ v \in FreqRange THEN v
                   ELSE m[i]]
AppliedLimit(k, v) == IF k = Limit THEN v ELSE limit

Clamp(v, t) == IF v < t THEN t ELSE IF v > t + 1 THEN t + 1 ELSE v

\* begin_setting_edit(): the candidate, the backup and what a failed save needs.
BeginEdit(k) ==
    /\ panel = "menu" /\ edits < MaxEdits
    /\ LET v == IF k = Cutoff THEN Clamp(mem[k], mem[Type]) ELSE mem[k] IN
       editor' = [key |-> k, shown |-> v, changed |-> FALSE, pending |-> FALSE,
                  backup |-> v, begin |-> mem, limit |-> limit]
    /\ panel' = "editing" /\ edits' = edits + 1
    /\ UNCHANGED <<flash, mem, limit, saver, deferred, history, mishaps>>

\* increase_value(), decrease_value(): a critical setting waits for Enter, the
\* others are applied at once.
Adjust(v) ==
    /\ panel = "editing"
    /\ v \in Range(editor.key, editor.begin[Type]) \ {editor.shown}
    /\ editor' = [editor EXCEPT !.shown = v, !.changed = TRUE,
                                !.pending = (editor.key # Hour)]
    /\ mem' = IF editor.key = Hour THEN Applied(mem, Hour, v) ELSE mem
    /\ UNCHANGED <<flash, limit, panel, saver, deferred, history, bounds>>

\* exit_value_edit_mode(FALSE): a change is answered by applying the backup, for
\* the settings that are applied live; a second key that the setting writes is
\* written again, not restored.
Revert ==
    /\ panel' = "menu" /\ editor' = Closed
    /\ IF editor.changed /\ editor.key # Type
       THEN /\ mem' = Applied(mem, editor.key, editor.backup)
            /\ limit' = AppliedLimit(editor.key, editor.backup)
       ELSE UNCHANGED <<mem, limit>>
    /\ UNCHANGED <<flash, saver, deferred, history, bounds>>

\* Back, the menu timeout and the power button leave without saving.
Cancel == panel = "editing" /\ Revert

\* handle_value_confirmation() refuses a current limit out of range; the other
\* settings have no check of their own.
Rejected == editor.key = Limit /\ editor.shown \notin LimitRange

ApplyAndSave ==
    /\ mem' = Applied(mem, editor.key, editor.shown)
    /\ limit' = AppliedLimit(editor.key, editor.shown)
    /\ panel' = "edit"
    /\ UNCHANGED <<flash, editor, saver, deferred, history, bounds>>

Enter ==
    /\ panel = "editing"
    /\ \/ editor.pending /\ Rejected /\ Revert
       \/ ~(editor.pending /\ Rejected) /\ editor.changed /\ ApplyAndSave
       \/ /\ ~editor.changed
          /\ panel' = "menu" /\ editor' = Closed
          /\ UNCHANGED <<flash, mem, limit, saver, deferred, history, bounds>>

\* A double click on a pending change saves it unchecked.
DoubleClick == panel = "editing" /\ editor.pending /\ ApplyAndSave

\* Keys ks go back to what they were when the editor was opened.
Restored(ks) == [k \in Key |-> IF k \in ks THEN editor.begin[k] ELSE mem[k]]

\* The limit in force is forgotten.  (mutant)
Rollback_TableOnly ==
    /\ mem' = Restored({editor.key, Type, Cutoff, OutFreq})
    /\ UNCHANGED limit

\* What a new type or frequency wrote besides is kept.  (mutant)
Rollback_KeyOnly ==
    /\ mem' = Restored({editor.key})
    /\ limit' = editor.limit

\* settings_restore_current_snapshot(): the key, and with the runtime snapshot
\* the battery profile, the output frequency and the limit in force.  The flag
\* that the clock was set is in neither.
Rollback ==
    /\ mem' = Restored({editor.key, Type, Cutoff, OutFreq})
    /\ limit' = editor.limit

-----------------------------------------------------------------------------
(* Other tasks *)

\* The inverter is started or stopped: inverter_active is one of the settings.
TogglePower ==
    /\ panel # "off" /\ mishaps < MaxMishaps
    /\ mishaps' = mishaps + 1
    /\ mem' = [mem EXCEPT ![Active] = 1 - @]
    /\ UNCHANGED <<flash, limit, editor, panel, saver, deferred, history, edits>>

\* inverter_set_output_voltage() writes through the descriptor of whatever editor
\* is open; a choice from a list is not kept there.
Overwritten(v) == IF panel = "editing" /\ editor.key # Type
                  THEN [editor EXCEPT !.shown = v] ELSE editor

\* inverter_power_on() and shutdown_inverter() set the output voltage to 220 or 0
\* a while before the relay switches; from the web page with an editor open too.
SetOutput(v) ==
    /\ panel = "editing" /\ mishaps < MaxMishaps
    /\ mishaps' = mishaps + 1
    /\ editor' = Overwritten(v)
    /\ UNCHANGED <<flash, mem, limit, panel, saver, deferred, history, edits>>

\* inverter_emergency_disable(): the limit and the output voltage become 0.
Emergency ==
    /\ panel # "off" /\ mishaps < MaxMishaps
    /\ mishaps' = mishaps + 1
    /\ limit' = 0 /\ synced' = FALSE
    /\ mem' = [mem EXCEPT ![Active] = 0]
    /\ editor' = Overwritten(0)
    /\ UNCHANGED <<flash, panel, saver, deferred, stored, attempts, edits>>

\* Clear Settings: erase the namespace, set the runtime defaults, save.
ClearSettings ==
    /\ panel = "menu" /\ edits < MaxEdits
    /\ edits' = edits + 1
    /\ panel' = "clear" /\ limit' = ResetLimit /\ synced' = FALSE
    /\ mem' = [mem EXCEPT ![OutFreq] = 2]
    /\ \/ /\ saver.phase \in {"free", "open"}
          /\ flash' = [flash EXCEPT !.vals = NoSnapshot, !.marker = "none", !.crc = NoSnapshot]
          /\ stored' = NoSnapshot /\ attempts' = {}
          /\ UNCHANGED mishaps
       \/ /\ saver.phase \notin {"free", "open"}
          /\ UNCHANGED <<flash, stored, attempts, mishaps>>
       \/ /\ mishaps < MaxMishaps /\ mishaps' = mishaps + 1
          /\ UNCHANGED <<flash, stored, attempts>>
    /\ UNCHANGED <<editor, saver, deferred>>

\* perform_system_restart(FALSE) saves first.
Restart ==
    /\ panel = "menu" /\ mishaps < MaxMishaps
    /\ mishaps' = mishaps + 1 /\ panel' = "restart"
    /\ UNCHANGED <<flash, mem, limit, editor, saver, deferred, history, edits>>

\* app_runtime_start_deferred_settings_persistence(), after a start that passed.
StartDeferred ==
    /\ panel # "off" /\ deferred = "pending"
    /\ deferred' = "waiting"
    /\ UNCHANGED <<flash, mem, limit, editor, panel, saver, history, bounds>>

-----------------------------------------------------------------------------
(* save_settings() *)

Waiting(w) == IF w = "panel" THEN panel \in Purposes ELSE deferred = "waiting"

\* A save of task w ends: the mutex is given and the caller goes on.
Finish(w, ok) ==
    IF w = "deferred"
    THEN deferred' = "no" /\ UNCHANGED <<mem, limit, editor, panel, synced>>
    ELSE IF panel = "restart" THEN Off
    ELSE /\ panel' = "menu" /\ editor' = Closed
         /\ IF panel = "edit" /\ ~ok THEN Rollback ELSE UNCHANGED <<mem, limit>>
         /\ UNCHANGED <<deferred, synced>>

Release(w, ok) == Finish(w, ok) /\ saver' = Nobody

Acquire(w) ==
    /\ Waiting(w) /\ saver = Nobody
    /\ saver' = [Nobody EXCEPT !.who = w, !.phase = "open"]
    /\ deferred' = IF w = "deferred" THEN "running" ELSE deferred
    /\ UNCHANGED <<flash, mem, limit, editor, panel, history, bounds>>

\* The other task has held the mutex for four seconds.
GiveUp(w) ==
    /\ Waiting(w) /\ saver.who \notin {"nobody", w}
    /\ IF w = "panel" /\ panel = "restart"
       THEN Off
       ELSE Finish(w, FALSE) /\ UNCHANGED saver
    /\ UNCHANGED <<flash, stored, attempts, bounds>>

\* storage_nvs_open(), then the one capture everything else is derived from.
Open ==
    /\ saver.phase = "open"
    /\ saver' = [saver EXCEPT !.phase = "write", !.expected = mem]
    /\ attempts' = attempts \cup {mem}
    /\ UNCHANGED <<flash, mem, limit, editor, panel, deferred, synced, stored, bounds>>

\* nvs_save_snapshot() writes key after key and goes on after a failure; the
\* first error is reported at the end.
WriteKey ==
    /\ saver.phase = "write" /\ saver.at \in Key
    /\ \/ /\ flash' = [flash EXCEPT !.vals[saver.at] = saver.expected[saver.at]]
          /\ saver' = [saver EXCEPT !.at = @ + 1]
          /\ UNCHANGED mishaps
       \/ /\ mishaps < MaxMishaps
          /\ mishaps' = mishaps + 1
          /\ saver' = [saver EXCEPT !.at = @ + 1, !.bad = TRUE]
          /\ UNCHANGED flash
    /\ UNCHANGED <<mem, limit, editor, panel, deferred, history, edits>>

Written ==
    /\ saver.phase = "write" /\ saver.at \notin Key
    /\ IF saver.bad
       THEN Release(saver.who, FALSE)
       ELSE saver' = [saver EXCEPT !.phase = "stage"]
            /\ UNCHANGED <<mem, limit, editor, panel, deferred, synced>>
    /\ UNCHANGED <<flash, stored, attempts, bounds>>

Goto(phase) ==
    /\ saver' = [saver EXCEPT !.phase = phase]
    /\ UNCHANGED <<mem, limit, editor, panel, deferred, history, bounds>>

\* The checksum is taken of the live settings.  (mutant)
WriteCrc_Live == /\ saver.phase = "crc" /\ Goto("mark")
                 /\ flash' = [flash EXCEPT !.crc = mem]

StageMarker == /\ saver.phase = "stage" /\ Goto("crc")
               /\ flash' = [flash EXCEPT !.marker = "staged"]
WriteCrc == /\ saver.phase = "crc" /\ Goto("mark")
            /\ flash' = [flash EXCEPT !.crc = saver.expected]
WriteMarker == /\ saver.phase = "mark" /\ Goto("commit")
               /\ flash' = [flash EXCEPT !.marker = "current"]
Commit == saver.phase = "commit" /\ Goto("verify") /\ UNCHANGED flash

\* nvs_verify_settings() found every value: the caller reports a saved setting.
Verify ==
    /\ saver.phase = "verify" /\ flash.vals = saver.expected
    /\ Release(saver.who, TRUE)
    /\ stored' = saver.expected /\ attempts' = {}
    /\ UNCHANGED <<flash, bounds>>

\* Any step but the writing of keys gives up at its first error, and so does a
\* read-back that finds another value.
StepFails ==
    /\ saver.phase \in {"open", "stage", "crc", "mark", "commit", "verify"}
    /\ \/ saver.phase = "verify" /\ flash.vals # saver.expected /\ UNCHANGED mishaps
       \/ mishaps < MaxMishaps /\ mishaps' = mishaps + 1
    /\ Release(saver.who, FALSE)
    /\ UNCHANGED <<flash, stored, attempts, edits>>

SaveStep == \/ Open \/ WriteKey \/ Written \/ StageMarker \/ WriteCrc \/ WriteMarker
            \/ Commit \/ Verify \/ StepFails

Tasks == {"panel", "deferred"}

Next ==
    \/ Boot \/ PowerLoss \/ FactoryReset \/ Restart
    \/ \E k \in Editable : BeginEdit(k)
    \/ \E v \in 0..3 : Adjust(v)
    \/ Cancel \/ Enter \/ DoubleClick
    \/ \E v \in {0, TooHigh} : SetOutput(v)
    \/ TogglePower \/ Emergency \/ ClearSettings \/ StartDeferred
    \/ \E w \in Tasks : Acquire(w) \/ GiveUp(w)
    \/ SaveStep

Spec == Init /\ [][Next]_vars

-----------------------------------------------------------------------------
(* Properties *)

TypeOK ==
    /\ flash.vals \in [Key -> -1..4] /\ flash.crc \in [Key -> -1..4]
    /\ flash.marker \in {"none", "staged", "previous", "current"}
    /\ flash.ns \in BOOLEAN
    /\ mem \in Snapshot /\ limit \in 0..4
    /\ editor.key \in 0..8 /\ editor.shown \in 0..4 /\ editor.backup \in 0..4
    /\ editor.changed \in BOOLEAN /\ editor.pending \in BOOLEAN
    /\ editor.begin \in Snapshot \cup {NoSnapshot} /\ editor.limit \in 0..4
    /\ panel \in {"off", "menu", "editing"} \cup Purposes
    /\ saver.who \in Tasks \cup {"nobody"} /\ saver.phase \in Phases
    /\ saver.at \in 1..9 /\ saver.bad \in BOOLEAN
    /\ saver.expected \in Snapshot \cup {NoSnapshot}
    /\ deferred \in {"no", "pending", "waiting", "running"}
    /\ synced \in BOOLEAN
    /\ stored \in Snapshot \cup {NoSnapshot} /\ attempts \subseteq Snapshot

\* A table that was saved and verified is what the next boot finds and trusts,
\* for as long as no later save has begun: power losses, failed edits, a running
\* inverter and the writing of other settings do not spoil it.
StoredSurvives ==
    stored # NoSnapshot /\ attempts = {} => Trusted(flash) /\ Loaded(flash) = stored

\* Whatever the boot trusts is one table that was captured as a whole: an
\* interrupted or partly failed save is never taken for a saved one.
TrustedIsWhole ==
    flash.marker = "current" /\ Trusted(flash) => Loaded(flash) \in attempts \cup {stored}

\* The limit the protection uses is the one the menu shows, from a trusted boot
\* on, through edits that are saved, refused, undone or rolled back.
LimitFollowsSettings == synced => limit = mem[Limit]

\* A setting as an edit that came to nothing leaves it.  The edited one is what
\* the editor showed at first if it was cancelled, and otherwise what it was when
\* the editor opened, like all the others but two: an hour that was adjusted has
\* left the clock declared set, and a cancelled frequency is the output's now.
Cancelled == editor.changed /\ panel = "editing"
LeftBy(k) ==
    IF k = editor.key /\ Cancelled THEN editor.backup
    ELSE IF k = TimeSet /\ editor.key = Hour /\ editor.changed THEN 1
    ELSE IF k = OutFreq /\ editor.key = Freq /\ Cancelled /\ editor.backup \in FreqRange
    THEN editor.backup
    ELSE editor.begin[k]

\* When the editor closes while the device runs, either the table in memory has
\* been saved as it is, or every setting is what LeftBy says: nothing of a new
\* type, cutoff, limit or frequency stays behind a cancelled or failed edit, and
\* of an hour nothing but time_set.  Other tasks change Active.
EditAllOrNothing ==
    [][editor.key # 0 /\ editor'.key = 0 /\ panel' # "off" =>
         \/ \A k \in Key \ {Active} : stored'[k] = mem'[k]
         \/ \A k \in Key \ {Active} : mem'[k] = LeftBy(k)]_vars

\* The save lock is held by a task that is in save_settings(), whichever step of
\* its save failed: no later save is made to wait for nobody.
LockHeldWhileSaving ==
    /\ saver.who = "panel" => panel \in Purposes
    /\ saver.who = "deferred" => deferred = "running"
=============================================================================
