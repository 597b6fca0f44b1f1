--------------------------- MODULE Settings_proofs ---------------------------
(***************************************************************************)
(* What a boot finds in flash, for every default table and any number of   *)
(* edits, failures, stops and emergencies: a table that was saved and      *)
(* verified is there until a later save begins, and whatever is trusted    *)
(* was captured as a whole.                                                *)
(*                                                                         *)
(* The invariant follows the transaction step by step: which keys already  *)
(* hold the captured value, from which step on the checksum describes      *)
(* them, and that the checksum in flash is never anything but a captured   *)
(* table or none.                                                          *)
(*                                                                         *)
(* The editor is followed by a second invariant: what it opened on, what   *)
(* it may have changed since, and what the panel's save captured.          *)
(***************************************************************************)
EXTENDS Settings, TLAPS

Busy == {"write", "stage", "crc", "mark", "commit", "verify"}

\* The keys written so far hold what was captured, unless a write failed.
WriteInv ==
    /\ saver.phase = "open" => saver.at = 1
    /\ saver.phase = "write" =>
        \A k \in Key : k < saver.at => saver.bad \/ flash.vals[k] = saver.expected[k]

\* From the staging of the marker on every value is there, from the writing of
\* the checksum on it describes them, and the marker follows it.
StageInv ==
    /\ saver.phase \in {"stage", "crc", "mark", "commit", "verify"} =>
           flash.vals = saver.expected
    /\ saver.phase \in {"mark", "commit", "verify"} => flash.crc = saver.expected
    /\ saver.phase \in {"commit", "verify"} => flash.marker = "current"

\* A save that writes is one of the attempts, and the checksum in flash is of a
\* table some save captured.
AttemptInv ==
    /\ saver.phase \in Busy => saver.expected \in attempts
    /\ flash.crc \in attempts \cup {stored, NoSnapshot}

\* With no attempt since, the stored table is in flash with its checksum.
StoredInv ==
    attempts = {} /\ stored # NoSnapshot =>
        flash.vals = stored /\ flash.crc = stored /\ flash.marker = "current"

-----------------------------------------------------------------------------
(* Types *)

Partial == {v \in [Key -> -1..4] : \A k \in Key : v[k] \in Domain[k] \cup {Missing}}
Markers == {"none", "staged", "previous", "current"}
Flash == [vals : Partial, marker : Markers, crc : Snapshot \cup {NoSnapshot},
          ns : BOOLEAN]
Editor == [key : 0..8, shown : 0..4, changed : BOOLEAN, pending : BOOLEAN,
           backup : 0..4, begin : Snapshot \cup {NoSnapshot}, limit : 0..4]
Saver == [who : Tasks \cup {"nobody"}, phase : Phases, at : 1..9, bad : BOOLEAN,
          expected : Snapshot \cup {NoSnapshot}]

TypeInv ==
    /\ flash \in Flash
    /\ mem \in Snapshot /\ limit \in 0..4
    /\ editor \in Editor
    /\ panel \in {"off", "menu", "editing"} \cup Purposes
    /\ saver \in Saver
    /\ deferred \in {"no", "pending", "waiting", "running"}
    /\ synced \in BOOLEAN
    /\ stored \in Snapshot \cup {NoSnapshot} /\ attempts \subseteq Snapshot

\* The open editor is on a setting and shows values that setting can take, and
\* a save that writes has captured a table.
EditorInv ==
    panel \in {"editing", "edit"} =>
        /\ editor.key \in Editable
        /\ editor.shown \in Domain[editor.key] /\ editor.backup \in Domain[editor.key]
        /\ editor.begin \in Snapshot
CaptureInv ==
    /\ saver.phase \in Busy => saver.expected \in Snapshot
    /\ saver.phase # "free" => saver.who \in Tasks

\* The domains, one by one.
LEMMA Domains ==
  /\ Domain[1] = 0..1 /\ Domain[2] = 1..2 /\ Domain[3] = 0..4 /\ Domain[4] = {0, 1, 4}
  /\ Domain[5] = 0..1 /\ Domain[6] = 1..2 /\ Domain[7] = {0, 1, 2, 4} /\ Domain[8] = 0..4
BY DEF Domain, TooHigh

\* The keys, as the provers see them.
LEMMA KeyNumbers ==
  /\ Active = 1 /\ Type = 2 /\ Cutoff = 3 /\ Hour = 4 /\ TimeSet = 5 /\ OutFreq = 6
  /\ Limit = 7 /\ Freq = 8 /\ Key = 1..8 /\ Editable = {2, 3, 4, 7, 8}
BY DEF Active, Type, Cutoff, Hour, TimeSet, OutFreq, Limit, Freq, Key, Editable

LEMMA DomainBounds == \A k \in Key : Domain[k] \subseteq 0..4
BY Domains DEF Key

\* Setting one key to a value of its domain gives a table.
LEMMA SetKey ==
  ASSUME NEW s \in Snapshot, NEW k \in Key, NEW v \in Domain[k]
  PROVE  [s EXCEPT ![k] = v] \in Snapshot
BY DomainBounds DEF Snapshot

\* So does applying a setting.
LEMMA AppliedType ==
  ASSUME NEW s \in Snapshot, NEW k \in Key, NEW v \in Domain[k]
  PROVE  Applied(s, k, v) \in Snapshot
<1>1. \A i \in Key : s[i] \in Domain[i]
  BY DEF Snapshot
<1>2. \A i \in Key : Applied(s, k, v)[i] \in Domain[i]
  <2> SUFFICES ASSUME NEW i \in Key PROVE Applied(s, k, v)[i] \in Domain[i]
    OBVIOUS
  <2>1. CASE i = Cutoff /\ k = Type
    BY <2>1, Domains, KeyNumbers DEF Applied, Standard
  <2>2. CASE i = TimeSet /\ k = Hour
    BY <2>2, Domains, KeyNumbers DEF Applied
  <2>3. CASE i = OutFreq /\ k = Freq
    BY <1>1, <2>3, Domains, KeyNumbers DEF Applied, FreqRange
  <2>4. CASE ~(i = Cutoff /\ k = Type) /\ ~(i = TimeSet /\ k = Hour) /\ ~(i = OutFreq /\ k = Freq)
    BY <1>1, <2>4 DEF Applied
  <2> QED
    BY <2>1, <2>2, <2>3, <2>4
<1>3. Applied(s, k, v) = [i \in Key |-> Applied(s, k, v)[i]]
  BY DEF Applied
<1> QED
  BY <1>2, <1>3, DomainBounds DEF Snapshot

\* Loading fills the missing keys in, whatever the flash holds.
LEMMA LoadedType ==
  ASSUME NEW f, f.vals \in Partial
  PROVE  Loaded(f) \in Snapshot
BY DefaultAssumption, DomainBounds DEF Loaded, Partial, Snapshot

LEMMA UnsetType == Unset \in Snapshot
BY Domains DEF Unset, Snapshot, Key, Type, Cutoff, OutFreq

LEMMA NoSnapshotType == NoSnapshot \in Partial /\ NoSnapshot \notin Snapshot
BY DEF NoSnapshot, Partial, Snapshot, Missing, Key

LEMMA SnapshotPartial == Snapshot \subseteq Partial
BY DEF Snapshot, Partial

LEMMA NewDeviceType == NewDevice \in Flash
BY NoSnapshotType, Zenon DEF NewDevice, Markers, Flash

LEMMA BootMemType ==
  ASSUME NEW f, f.vals \in Partial
  PROVE  BootMem(f) \in Snapshot
<1> DEFINE base == IF Corrupt(f) THEN Default ELSE Loaded(f)
           type == IF f.vals[Type] # Missing THEN f.vals[Type] ELSE base[Type]
           cutoff == IF Trusted(f) /\ base[Cutoff] \in CutoffRange(type)
                     THEN base[Cutoff] ELSE Standard(type)
           freq == ClampFreq(base[Freq])
           typed == [base EXCEPT ![2] = type]
           cut == [typed EXCEPT ![3] = cutoff]
<1>1. base \in Snapshot
  BY LoadedType, DefaultAssumption
<1>2. type \in Domain[2]
  BY <1>1 DEF Partial, Snapshot, Type, Key
<1>3. cutoff \in Domain[3]
  <2>1. base[3] \in Domain[3]
    BY <1>1 DEF Snapshot, Key
  <2>2. type \in Domain[3]
    BY <1>2, Domains
  <2> HIDE DEF base, type
  <2> QED
    BY <2>1, <2>2 DEF Standard, Cutoff
<1>4. freq \in Domain[8]
  <2>1. base[8] \in 0..4
    BY <1>1, Domains DEF Snapshot, Key
  <2> HIDE DEF base
  <2> QED
    BY <2>1, Domains DEF ClampFreq, Freq
<1>5. typed \in Snapshot
  <2> HIDE DEF base, type
  <2> QED
    BY <1>1, <1>2, SetKey DEF Key
<1>6. cut \in Snapshot
  <2> HIDE DEF typed, cutoff
  <2> QED
    BY <1>3, <1>5, SetKey DEF Key
<1>7. [cut EXCEPT ![8] = freq] \in Snapshot
  <2> HIDE DEF cut, freq
  <2> QED
    BY <1>4, <1>6, SetKey DEF Key
<1>8. BootMem(f) = [cut EXCEPT ![8] = freq]
  <2>1. base \in [Key -> 0..4] /\ 8 \in Key
    BY <1>1 DEF Snapshot, Key
  <2> HIDE DEF base
  <2> QED
    BY <2>1 DEF BootMem, Type, Cutoff, Freq, base
<1> QED
  BY <1>7, <1>8

TypesInv == TypeInv /\ EditorInv /\ CaptureInv

LEMMA LimitType ==
  ASSUME NEW k \in Key, NEW v \in Domain[k], limit \in 0..4
  PROVE  AppliedLimit(k, v) \in 0..4
BY Domains DEF AppliedLimit, Limit

LEMMA OffTypes == Off => mem' \in Snapshot /\ limit' \in 0..4 /\ editor' \in Editor
                         /\ panel' = "off" /\ saver' \in Saver /\ deferred' = "no"
                         /\ synced' = FALSE /\ saver'.phase = "free"
BY UnsetType DEF Off, Editor, Saver, Closed, Nobody, Phases, Tasks

LEMMA NobodyType == Nobody \in Saver
<1>1. 1 \in 1..9
  OBVIOUS
<1> QED
  BY <1>1, Zenon DEF Saver, Nobody, Tasks, Phases

LEMMA TypesInit == Init => TypesInv
<1> SUFFICES ASSUME Init PROVE TypesInv
  OBVIOUS
<1>1. flash \in Flash
  <2>1. CASE flash = NewDevice
    BY <2>1, NewDeviceType
  <2>2. CASE flash = OldFirmware
    BY <2>2, SnapshotPartial, DefaultAssumption, Zenon DEF OldFirmware, Markers, Flash
  <2> QED
    BY <2>1, <2>2, Zenon DEF Init
<1>2. editor \in Editor
  <2>1. 0 \in 0..8 /\ 0 \in 0..4
    OBVIOUS
  <2> QED
    BY <2>1, Zenon DEF Init, Editor, Closed
<1>3. saver \in Saver
  BY NobodyType DEF Init
<1> QED
  BY <1>1, <1>2, <1>3, UnsetType
     DEF Init, TypesInv, TypeInv, EditorInv, CaptureInv, Editor, Saver, Closed, Nobody, Phases,
         Busy, Tasks

\* What a save leaves of the table when it ends, saved or not.
LEMMA FinishTypes ==
  ASSUME TypesInv, NEW w \in Tasks, NEW ok \in BOOLEAN, Waiting(w) \/ saver.who = w, Finish(w, ok),
         saver.who = w => (w = "panel" => panel \in Purposes)
  PROVE  /\ mem' \in Snapshot /\ limit' \in 0..4 /\ editor' \in Editor
         /\ panel' \in {"off", "menu", "editing"} \cup Purposes
         /\ deferred' \in {"no", "pending", "waiting", "running"} /\ synced' \in BOOLEAN
         /\ EditorInv'
<1>1. CASE w = "deferred"
  BY <1>1, Zenon DEF TypesInv, TypeInv, EditorInv, Finish
<1>2. CASE w # "deferred" /\ panel = "restart"
  BY <1>2, OffTypes, Zenon DEF Finish, EditorInv
<1>3. CASE w # "deferred" /\ panel # "restart"
  <2>1. panel' = "menu" /\ editor' = Closed /\ deferred' = deferred /\ synced' = synced
    BY <1>3 DEF Finish
  <2>2. CASE panel = "edit" /\ ~ok
    <3>1. Rollback
      BY <1>3, <2>2 DEF Finish
    <3>2. editor.begin \in Snapshot /\ editor.limit \in 0..4 /\ mem \in Snapshot
      BY <2>2 DEF TypesInv, TypeInv, EditorInv, Editor
    <3>3. mem' \in Snapshot
      BY <3>1, <3>2 DEF Rollback, Restored, Snapshot
    <3> QED
      BY <2>1, <3>1, <3>2, <3>3 DEF Rollback, TypesInv, TypeInv, EditorInv, Editor, Closed
  <2>3. CASE ~(panel = "edit" /\ ~ok)
    BY <1>3, <2>1, <2>3 DEF Finish, TypesInv, TypeInv, EditorInv, Editor, Closed
  <2> QED
    BY <2>2, <2>3
<1> QED
  BY <1>1, <1>2, <1>3

-----------------------------------------------------------------------------
(* Every step keeps the types; the save lock is typed along with them. *)

\* A device that is off has no save under way.
OffInv == panel = "off" => saver = Nobody /\ deferred = "no"

Typed == TypesInv /\ LockHeldWhileSaving /\ OffInv

LEMMA BootTypes == Typed /\ Boot => Typed'
<1> SUFFICES ASSUME Typed, Boot PROVE Typed'
  OBVIOUS
<1>1. flash' \in Flash
  BY DEF Typed, TypesInv, TypeInv, Flash, Boot
<1>2. mem' \in Snapshot
  BY BootMemType, UnsetType DEF Typed, TypesInv, TypeInv, Flash, Boot
<1>3. limit' \in 0..4
  <2>1. Loaded(flash)[7] \in 0..4
    BY LoadedType, Domains DEF Typed, TypesInv, TypeInv, Flash, Snapshot, Key
  <2> QED
    BY <2>1 DEF Boot, LoadedLimit, ClampLimit, BootLimit, Limit
<1>4. synced' \in BOOLEAN /\ deferred' \in {"no", "pending", "waiting", "running"}
  BY Zenon DEF Boot
<1> QED
  BY <1>1, <1>2, <1>3, <1>4 DEF Typed, TypesInv, TypeInv, EditorInv, CaptureInv, Boot,
     LockHeldWhileSaving, OffInv, Nobody, history, bounds, Purposes

LEMMA OffTyped ==
  ASSUME Typed, Off,
         flash' \in {flash, NewDevice}, stored' \in {stored, NoSnapshot}, attempts' \in {attempts, {}}
  PROVE  Typed'
<1>1. flash' \in Flash
  BY NewDeviceType, Zenon DEF Typed, TypesInv, TypeInv
<1>2. saver' = Nobody
  BY DEF Off
<1>3. TypesInv'
  <2>1. EditorInv'
    BY OffTypes, Zenon DEF EditorInv
  <2>2. CaptureInv'
    BY OffTypes DEF CaptureInv, Busy
  <2>3. stored' \in Snapshot \cup {NoSnapshot} /\ attempts' \subseteq Snapshot
    BY DEF Typed, TypesInv, TypeInv
  <2>4. synced' \in BOOLEAN
    BY OffTypes, Zenon
  <2> QED
    BY <1>1, <2>1, <2>2, <2>3, <2>4, OffTypes, Zenon DEF TypesInv, TypeInv
<1>4. LockHeldWhileSaving' /\ OffInv'
  BY <1>2, OffTypes DEF LockHeldWhileSaving, OffInv, Nobody
<1> QED
  BY <1>1, <1>3, <1>4 DEF Typed

LEMMA PowerLossTypes == Typed /\ PowerLoss => Typed'
BY OffTyped, Zenon DEF PowerLoss

\* Setting the output frequency to the default gives a table.
LEMMA OutputReset == ASSUME mem \in Snapshot PROVE [mem EXCEPT ![OutFreq] = 2] \in Snapshot
BY SetKey, Domains DEF OutFreq, Key

LEMMA FactoryResetTypes == Typed /\ FactoryReset => Typed'
<1> SUFFICES ASSUME Typed, FactoryReset PROVE Typed'
  OBVIOUS
<1>1. CASE flash' = NewDevice /\ stored' = NoSnapshot /\ attempts' = {} /\ Off
  BY <1>1, OffTyped, Zenon
<1>2. CASE /\ limit' = BootLimit /\ synced' = FALSE
           /\ mem' = [mem EXCEPT ![OutFreq] = 2]
           /\ UNCHANGED <<flash, editor, panel, saver, deferred, stored, attempts>>
  <2>1. limit' \in 0..4
    BY <1>2 DEF BootLimit
  <2>2. synced' \in BOOLEAN
    BY <1>2, Zenon
  <2>3. mem' \in Snapshot
    BY <1>2, OutputReset DEF Typed, TypesInv, TypeInv
  <2> QED
    BY <1>2, <2>1, <2>2, <2>3 DEF Typed, TypesInv, TypeInv, EditorInv, CaptureInv,
       LockHeldWhileSaving, OffInv, Editor
<1> QED
  BY <1>1, <1>2, Zenon DEF FactoryReset

LEMMA BeginEditTypes == ASSUME NEW k \in Editable, Typed, BeginEdit(k) PROVE Typed'
<1>1. mem[k] \in Domain[k] /\ mem[2] \in 1..2 /\ k \in Key /\ k \in 0..8 /\ Domain[3] = 0..4
  BY Domains, KeyNumbers DEF Typed, TypesInv, TypeInv, Snapshot
<1> DEFINE v == IF k = Cutoff THEN Clamp(mem[k], mem[Type]) ELSE mem[k]
<1>2. v \in Domain[k]
  BY <1>1 DEF Clamp, Type, Cutoff
<1>3. v \in 0..4
  <2> HIDE DEF v
  <2> QED
    BY <1>1, <1>2, DomainBounds
<1>4. editor' \in Editor /\ editor'.key = k /\ editor'.shown = v /\ editor'.backup = v
      /\ editor'.begin = mem
  <2> HIDE DEF v
  <2> QED
    <3>1. editor' = [key |-> k, shown |-> v, changed |-> FALSE, pending |-> FALSE,
                     backup |-> v, begin |-> mem, limit |-> limit]
      BY DEF BeginEdit, v
    <3> QED
      BY <1>1, <1>3, <3>1 DEF Editor, Typed, TypesInv, TypeInv
<1> HIDE DEF v
<1> QED
  BY <1>1, <1>2, <1>4 DEF BeginEdit, Typed, TypesInv, TypeInv, EditorInv, CaptureInv,
     LockHeldWhileSaving, OffInv, history, Purposes

LEMMA AdjustTypes == ASSUME NEW v \in 0..3, Typed, Adjust(v) PROVE Typed'
<1>1. editor \in Editor /\ editor.key \in Editable /\ editor.begin \in Snapshot
  BY DEF Adjust, Typed, TypesInv, TypeInv, EditorInv
<1>2. v \in Domain[editor.key]
  <2>1. editor.begin[2] \in 1..2
    BY <1>1, Domains DEF Snapshot, Key
  <2> QED
    BY <1>1, <2>1, Domains, KeyNumbers DEF Adjust, Range, CutoffRange, LimitRange, FreqRange
<1>3. mem' \in Snapshot
  BY <1>1, <1>2, AppliedType, KeyNumbers DEF Adjust, Typed, TypesInv, TypeInv
<1>4. /\ editor' \in Editor /\ editor'.key = editor.key /\ editor'.shown = v
      /\ editor'.backup = editor.backup /\ editor'.begin = editor.begin
  <2>1. v \in 0..4 /\ (editor.key # Hour) \in BOOLEAN
    OBVIOUS
  <2> QED
    BY <1>1, <2>1 DEF Adjust, Editor
<1> QED
  BY <1>1, <1>2, <1>3, <1>4 DEF Adjust, Typed, TypesInv, TypeInv, EditorInv, CaptureInv,
     LockHeldWhileSaving, OffInv, history, Purposes

LEMMA RevertTypes == ASSUME panel = "editing", Typed, Revert PROVE Typed'
<1>1. editor \in Editor /\ editor.key \in Key /\ editor.backup \in Domain[editor.key]
  BY KeyNumbers DEF Typed, TypesInv, TypeInv, EditorInv
<1>2. mem' \in Snapshot /\ limit' \in 0..4
  BY <1>1, AppliedType, LimitType DEF Revert, Typed, TypesInv, TypeInv
<1>3. editor' \in Editor
  BY NoSnapshotType DEF Revert, Closed, Editor
<1> QED
  BY <1>2, <1>3 DEF Revert, Typed, TypesInv, TypeInv, EditorInv, CaptureInv,
     LockHeldWhileSaving, OffInv, history, Purposes

LEMMA ApplyTypes == ASSUME panel = "editing", Typed, ApplyAndSave PROVE Typed'
<1>1. editor \in Editor /\ editor.key \in Key /\ editor.shown \in Domain[editor.key]
  BY KeyNumbers DEF Typed, TypesInv, TypeInv, EditorInv
<1>2. mem' \in Snapshot /\ limit' \in 0..4
  BY <1>1, AppliedType, LimitType DEF ApplyAndSave, Typed, TypesInv, TypeInv
<1> QED
  BY <1>2 DEF ApplyAndSave, Typed, TypesInv, TypeInv, EditorInv, CaptureInv,
     LockHeldWhileSaving, OffInv, history, Purposes

LEMMA EnterTypes == Typed /\ Enter => Typed'
<1> SUFFICES ASSUME Typed, Enter PROVE Typed'
  OBVIOUS
<1>1. CASE Revert
  BY <1>1, RevertTypes, Zenon DEF Enter
<1>2. CASE ApplyAndSave
  BY <1>2, ApplyTypes, Zenon DEF Enter
<1>3. CASE /\ panel' = "menu" /\ editor' = Closed
           /\ UNCHANGED <<flash, mem, limit, saver, deferred, history, bounds>>
  <2>1. editor' \in Editor
    BY <1>3 DEF Closed, Editor
  <2> QED
    BY <1>3, <2>1 DEF Enter, Typed, TypesInv, TypeInv, EditorInv, CaptureInv,
       LockHeldWhileSaving, OffInv, history, Purposes
<1> QED
  BY <1>1, <1>2, <1>3, Zenon DEF Enter

\* The value an output voltage leaves in an open editor is one its key can take.
LEMMA OverwrittenTypes ==
  ASSUME Typed, NEW v \in {0, TooHigh}, editor' = Overwritten(v), panel' = panel
  PROVE  /\ editor' \in Editor /\ EditorInv'
         /\ UNCHANGED <<editor.key, editor.backup, editor.begin, editor.changed, editor.pending,
                       editor.limit>>
<1>1. editor \in Editor /\ v \in 0..4
  BY DEF Typed, TypesInv, TypeInv, TooHigh
<1>2. /\ editor' \in Editor
      /\ UNCHANGED <<editor.key, editor.backup, editor.begin, editor.changed, editor.pending,
                    editor.limit>>
  BY <1>1 DEF Overwritten, Editor
<1>3. EditorInv'
  <2> SUFFICES ASSUME panel \in {"editing", "edit"} PROVE editor'.shown \in Domain[editor.key]
    BY <1>2 DEF EditorInv, Typed, TypesInv
  <2>1. editor.key \in Editable /\ editor.shown \in Domain[editor.key]
    BY DEF EditorInv, Typed, TypesInv
  <2>2. editor.key # Type => v \in Domain[editor.key]
    BY <2>1, Domains, KeyNumbers DEF TooHigh
  <2> QED
    BY <1>1, <2>1, <2>2 DEF Overwritten, Editor
<1> QED
  BY <1>2, <1>3

LEMMA SetOutputTypes == ASSUME NEW v \in {0, TooHigh}, Typed, SetOutput(v) PROVE Typed'
<1>1. editor' \in Editor /\ EditorInv'
  BY OverwrittenTypes DEF SetOutput
<1> QED
  BY <1>1 DEF SetOutput, Typed, TypesInv, TypeInv, CaptureInv, LockHeldWhileSaving, OffInv, history

LEMMA PowerTypes == Typed /\ (TogglePower \/ Emergency) => Typed'
<1>1. ASSUME Typed, TogglePower PROVE Typed'
  <2>1. mem[1] \in 0..1
    BY <1>1, Domains DEF Typed, TypesInv, TypeInv, Snapshot, Key
  <2> DEFINE v == 1 - mem[1]
  <2>2. mem' \in Snapshot
    <3>1. v \in Domain[1] /\ mem \in Snapshot /\ mem' = [mem EXCEPT ![1] = v]
      BY <1>1, <2>1, Domains DEF TogglePower, Typed, TypesInv, TypeInv, Active
    <3> HIDE DEF v
    <3>2. 1 \in Key
      BY DEF Key
    <3> QED
      BY <3>1, <3>2, SetKey, Zenon
  <2> QED
    BY <1>1, <2>2 DEF TogglePower, Typed, TypesInv, TypeInv, EditorInv, CaptureInv,
       LockHeldWhileSaving, OffInv, history
<1>2. ASSUME Typed, Emergency PROVE Typed'
  <2>1. mem' \in Snapshot
    <3>1. 0 \in Domain[1] /\ mem \in Snapshot /\ mem' = [mem EXCEPT ![1] = 0]
      BY <1>2, Domains DEF Emergency, Typed, TypesInv, TypeInv, Active
    <3>2. 1 \in Key
      BY DEF Key
    <3> QED
      BY <3>1, <3>2, SetKey, Zenon
  <2>2. editor' \in Editor /\ EditorInv'
    BY <1>2, OverwrittenTypes DEF Emergency
  <2>4. TypeInv'
    <3>1. synced' \in BOOLEAN
      BY <1>2, Zenon DEF Emergency
    <3> QED
      BY <1>2, <2>1, <2>2, <3>1 DEF Emergency, Typed, TypesInv, TypeInv
  <2> QED
    BY <1>2, <2>2, <2>4 DEF Emergency, Typed, TypesInv, CaptureInv, LockHeldWhileSaving, OffInv
<1> QED
  BY <1>1, <1>2

LEMMA ClearSettingsTypes == Typed /\ ClearSettings => Typed'
<1> SUFFICES ASSUME Typed, ClearSettings PROVE Typed'
  OBVIOUS
<1>1. flash' \in Flash /\ stored' \in Snapshot \cup {NoSnapshot} /\ attempts' \subseteq Snapshot
  BY NoSnapshotType DEF ClearSettings, Typed, TypesInv, TypeInv, Flash, Markers
<1>2. TypeInv'
  <2>1. synced' \in BOOLEAN
    BY Zenon DEF ClearSettings
  <2>2. mem' \in Snapshot
    BY OutputReset DEF ClearSettings, Typed, TypesInv, TypeInv
  <2> QED
    BY <1>1, <2>1, <2>2 DEF ClearSettings, Typed, TypesInv, TypeInv, ResetLimit, Purposes
<1> QED
  BY <1>2 DEF ClearSettings, Typed, TypesInv, EditorInv, CaptureInv, LockHeldWhileSaving, OffInv,
     Purposes

LEMMA RestartTypes == Typed /\ Restart => Typed'
BY DEF Restart, Typed, TypesInv, TypeInv, EditorInv, CaptureInv, LockHeldWhileSaving, OffInv,
   Purposes, history

LEMMA StartDeferredTypes == Typed /\ StartDeferred => Typed'
BY DEF StartDeferred, Typed, TypesInv, TypeInv, EditorInv, CaptureInv, LockHeldWhileSaving, OffInv,
   history, bounds

LEMMA AcquireTypes == ASSUME NEW w \in Tasks, Typed, Acquire(w) PROVE Typed'
<1>1. saver' \in Saver /\ saver'.who = w /\ saver'.phase = "open"
  <2>1. saver' = [who |-> w, phase |-> "open", at |-> 1, bad |-> FALSE, expected |-> NoSnapshot]
    BY DEF Acquire, Nobody
  <2>2. 1 \in 1..9
    OBVIOUS
  <2> QED
    BY <2>1, <2>2, Zenon DEF Saver, Phases, Tasks
<1>2. deferred' \in {"no", "pending", "waiting", "running"}
  BY DEF Acquire, Typed, TypesInv, TypeInv
<1>3. LockHeldWhileSaving'
  BY <1>1 DEF Acquire, Waiting, LockHeldWhileSaving, Tasks
<1>4. panel # "off"
  BY DEF Acquire, Waiting, Purposes, Typed, OffInv
<1> QED
  BY <1>1, <1>2, <1>3, <1>4 DEF Acquire, Typed, TypesInv, TypeInv, EditorInv, CaptureInv, OffInv,
     history, bounds, Busy

\* When the save of task w ends, or is not begun, and the mutex is free or held
\* by the other task.
LEMMA EndTypes ==
  ASSUME Typed, NEW w \in Tasks, NEW ok \in BOOLEAN, Waiting(w) \/ saver.who = w, Finish(w, ok),
         saver' = Nobody \/ (saver' = saver /\ saver.who \notin {"nobody", w}),
         flash' = flash, stored' \in {stored, saver.expected}, attempts' \in {attempts, {}},
         saver.expected \in Snapshot \/ stored' = stored
  PROVE  Typed'
<1>1. saver.who = w => (w = "panel" => panel \in Purposes)
  BY DEF Typed, LockHeldWhileSaving
<1>2. /\ mem' \in Snapshot /\ limit' \in 0..4 /\ editor' \in Editor
      /\ panel' \in {"off", "menu", "editing"} \cup Purposes
      /\ deferred' \in {"no", "pending", "waiting", "running"} /\ synced' \in BOOLEAN
      /\ EditorInv'
  BY <1>1, FinishTypes DEF Typed
<1>3. saver' \in Saver /\ CaptureInv'
  <2>1. saver \in Saver /\ CaptureInv
    BY DEF Typed, TypesInv, TypeInv
  <2>2. CASE saver' = Nobody
    <3>1. Nobody.phase = "free"
      BY DEF Nobody
    <3> QED
      BY <2>2, <3>1, NobodyType DEF CaptureInv, Busy
  <2>3. CASE saver' = saver
    BY <2>1, <2>3, Zenon DEF CaptureInv
  <2> QED
    BY <2>2, <2>3
<1>4. TypeInv'
  BY <1>2, <1>3 DEF TypeInv, Typed, TypesInv
<1>5. LockHeldWhileSaving' /\ OffInv'
  <2>1. CASE saver' = Nobody
    BY <2>1 DEF Finish, Off, Typed, OffInv, LockHeldWhileSaving, Nobody, Waiting, Tasks, Purposes, TypesInv, TypeInv
  <2>2. CASE saver' = saver /\ saver.who \notin {"nobody", w}
    BY <2>2 DEF Finish, Off, Typed, OffInv, LockHeldWhileSaving, Nobody, Waiting, Tasks, Purposes, TypesInv, TypeInv, Saver
  <2> QED
    BY <2>1, <2>2
<1> QED
  BY <1>2, <1>3, <1>4, <1>5 DEF Typed, TypesInv

LEMMA GiveUpTypes == ASSUME NEW w \in Tasks, Typed, GiveUp(w) PROVE Typed'
<1>1. CASE w = "panel" /\ panel = "restart"
  BY <1>1, OffTyped, Zenon DEF GiveUp
<1>2. CASE ~(w = "panel" /\ panel = "restart")
  BY <1>2, EndTypes, Zenon DEF GiveUp
<1> QED
  BY <1>1, <1>2

\* The fields of the save under way are typed when the rest is left alone.
LEMMA SaverTypes ==
  ASSUME Typed, saver.phase # "free", saver'.who = saver.who, saver' \in Saver, flash' \in Flash,
         UNCHANGED <<mem, limit, editor, panel, deferred, synced, stored>>,
         attempts' \subseteq Snapshot, saver'.expected \in Snapshot
  PROVE  Typed'
BY DEF Typed, TypesInv, TypeInv, EditorInv, CaptureInv, LockHeldWhileSaving, OffInv, Nobody

LEMMA OpenTypes == Typed /\ Open => Typed'
<1> SUFFICES ASSUME Typed, Open PROVE Typed'
  OBVIOUS
<1>1. saver' \in Saver /\ saver'.expected = mem
  BY DEF Open, Typed, TypesInv, TypeInv, Saver, Phases
<1> QED
  BY <1>1, SaverTypes DEF Open, Typed, TypesInv, TypeInv

LEMMA GotoTypes ==
  ASSUME Typed, NEW phase \in Busy, saver.phase \in Busy, Goto(phase), flash' \in Flash
  PROVE  Typed'
<1>1. saver' \in Saver /\ saver'.expected = saver.expected /\ saver'.who = saver.who
  BY DEF Goto, Typed, TypesInv, TypeInv, Saver, Phases, Busy
<1>2. saver.expected \in Snapshot
  BY DEF Typed, TypesInv, CaptureInv
<1> QED
  BY <1>1, <1>2, SaverTypes DEF Goto, Typed, TypesInv, TypeInv, Busy, history

LEMMA WriteKeyTypes == Typed /\ WriteKey => Typed'
<1> SUFFICES ASSUME Typed, WriteKey PROVE Typed'
  OBVIOUS
<1>1. saver.expected \in Snapshot
  BY DEF WriteKey, Typed, TypesInv, CaptureInv, Busy
<1>2. saver' \in Saver /\ saver'.expected = saver.expected /\ saver'.who = saver.who
  <2>1. saver \in Saver /\ saver.at + 1 \in 1..9
    BY DEF WriteKey, Typed, TypesInv, TypeInv, Key
  <2>2. \/ saver' = [saver EXCEPT !.at = saver.at + 1]
        \/ saver' = [[saver EXCEPT !.at = saver.at + 1] EXCEPT !.bad = TRUE]
    BY DEF WriteKey
  <2> DEFINE n == saver.at + 1
  <2> HIDE DEF n
  <2> QED
    BY <2>1, <2>2 DEF Saver
<1>3. flash' \in Flash
  <2> DEFINE k == saver.at
             x == saver.expected[k]
  <2>1. flash \in Flash /\ k \in Key /\ x \in Domain[k] /\ x \in 0..4
    BY <1>1, DomainBounds DEF WriteKey, Typed, TypesInv, TypeInv, Snapshot
  <2>2. flash' = flash \/ flash' = [flash EXCEPT !.vals = [flash.vals EXCEPT ![k] = x]]
    BY DEF WriteKey, Typed, TypesInv, TypeInv, Flash
  <2>3. [flash.vals EXCEPT ![k] = x] \in Partial
    <3> HIDE DEF k, x
    <3> QED
      BY <2>1 DEF Flash, Partial
  <2> HIDE DEF k, x
  <2> QED
    BY <2>1, <2>2, <2>3 DEF Flash
<1> QED
  BY <1>1, <1>2, <1>3, SaverTypes DEF WriteKey, Typed, TypesInv, TypeInv, history

LEMMA WrittenTypes == Typed /\ Written => Typed'
<1> SUFFICES ASSUME Typed, Written PROVE Typed'
  OBVIOUS
<1>1. CASE saver.bad
  <2>1. saver.who \in Tasks
    BY DEF Written, Typed, TypesInv, CaptureInv
  <2> QED
    BY <1>1, <2>1, EndTypes, Zenon DEF Written, Release
<1>2. CASE ~saver.bad
  <2>1. Goto("stage") /\ flash' = flash
    BY <1>2 DEF Written, Goto, history, bounds
  <2> QED
    BY <2>1, GotoTypes DEF Written, Busy, Typed, TypesInv, TypeInv
<1> QED
  BY <1>1, <1>2

LEMMA MarkTypes == Typed /\ (StageMarker \/ WriteCrc \/ WriteMarker \/ Commit) => Typed'
<1> SUFFICES ASSUME Typed, StageMarker \/ WriteCrc \/ WriteMarker \/ Commit PROVE Typed'
  OBVIOUS
<1>1. saver.phase \in Busy /\ flash \in Flash /\ saver.expected \in Snapshot
  BY DEF StageMarker, WriteCrc, WriteMarker, Commit, Busy, Typed, TypesInv, TypeInv, CaptureInv
<1>2. flash' \in Flash
  BY <1>1 DEF StageMarker, WriteCrc, WriteMarker, Commit, Flash, Markers
<1>3. \E phase \in Busy : Goto(phase)
  BY DEF StageMarker, WriteCrc, WriteMarker, Commit, Busy
<1> QED
  BY <1>1, <1>2, <1>3, GotoTypes

LEMMA VerifyTypes == Typed /\ (Verify \/ StepFails) => Typed'
<1> SUFFICES ASSUME Typed, Verify \/ StepFails PROVE Typed'
  OBVIOUS
<1>1. saver.who \in Tasks
  BY DEF Verify, StepFails, Typed, TypesInv, CaptureInv
<1> QED
  BY <1>1, EndTypes, Zenon DEF Verify, StepFails, Release, Typed, TypesInv, CaptureInv, Busy

LEMMA TypedStep == Typed /\ [Next]_vars => Typed'
<1> SUFFICES ASSUME Typed, [Next]_vars PROVE Typed'
  OBVIOUS
<1>1. CASE UNCHANGED vars
  BY <1>1, Zenon DEF vars, device, history, Typed, TypesInv, TypeInv, EditorInv, CaptureInv,
     LockHeldWhileSaving, OffInv
<1>2. CASE Boot \/ PowerLoss \/ FactoryReset \/ Restart
  BY <1>2, BootTypes, PowerLossTypes, FactoryResetTypes, RestartTypes
<1>3. CASE \/ \E k \in Editable : BeginEdit(k)
           \/ \E v \in 0..3 : Adjust(v)
  BY <1>3, BeginEditTypes, AdjustTypes, Zenon
<1>4. CASE Cancel \/ Enter \/ DoubleClick
  BY <1>4, RevertTypes, ApplyTypes, EnterTypes, Zenon DEF Cancel, DoubleClick
<1>5. CASE TogglePower \/ Emergency \/ ClearSettings \/ StartDeferred
  BY <1>5, PowerTypes, ClearSettingsTypes, StartDeferredTypes
<1>8. CASE \E v \in {0, TooHigh} : SetOutput(v)
  BY <1>8, SetOutputTypes, Zenon
<1>6. CASE \E w \in Tasks : Acquire(w) \/ GiveUp(w)
  BY <1>6, AcquireTypes, GiveUpTypes, Zenon
<1>7. CASE SaveStep
  BY <1>7, OpenTypes, WriteKeyTypes, WrittenTypes, MarkTypes, VerifyTypes, Zenon DEF SaveStep
<1> QED
  BY <1>1, <1>2, <1>3, <1>4, <1>5, <1>6, <1>7, <1>8, Zenon DEF Next

-----------------------------------------------------------------------------
(* The transaction *)

SaveInv == WriteInv /\ StageInv /\ AttemptInv /\ StoredInv

LEMMA SaveInit == Init => SaveInv
BY DEF Init, SaveInv, WriteInv, StageInv, AttemptInv, StoredInv, Nobody, Busy, NewDevice, OldFirmware

\* Whatever leaves the values, the marker, the checksum and the save alone.
LEMMA SaveUntouched ==
  ASSUME SaveInv, flash'.vals = flash.vals, flash'.marker = flash.marker, flash'.crc = flash.crc,
         UNCHANGED <<saver, stored, attempts>>
  PROVE  SaveInv'
BY DEF SaveInv, WriteInv, StageInv, AttemptInv, StoredInv

\* No save is under way any more, the flash is as it was.
LEMMA SaveEnded ==
  ASSUME SaveInv, saver' = Nobody, UNCHANGED <<flash, stored, attempts>>
  PROVE  SaveInv'
<1>1. Nobody.phase = "free"
  BY DEF Nobody
<1> QED
  BY <1>1 DEF SaveInv, WriteInv, StageInv, AttemptInv, StoredInv, Busy

\* The settings have been erased while no save was writing.
LEMMA SaveErased ==
  ASSUME saver'.phase = "free" \/ (saver'.phase = "open" /\ saver'.at = 1),
         stored' = NoSnapshot, flash'.crc = NoSnapshot
  PROVE  SaveInv'
BY DEF SaveInv, WriteInv, StageInv, AttemptInv, StoredInv, Busy

LEMMA SaveMenu == ASSUME Typed, SaveInv, Boot \/ PowerLoss \/ FactoryReset \/ ClearSettings PROVE SaveInv'
<1>1. CASE Boot
  BY <1>1, SaveUntouched DEF Boot, Typed, TypesInv, TypeInv, Flash
<1>2. CASE PowerLoss
  BY <1>2, SaveEnded DEF PowerLoss, Off
<1>3. CASE FactoryReset
  <2>1. CASE flash' = NewDevice /\ stored' = NoSnapshot /\ Off
    BY <2>1, SaveErased DEF Off, Nobody, NewDevice
  <2>2. CASE UNCHANGED <<flash, saver, stored, attempts>>
    BY <2>2, SaveUntouched
  <2> QED
    BY <1>3, <2>1, <2>2, Zenon DEF FactoryReset
<1>4. CASE ClearSettings
  <2>1. CASE UNCHANGED <<flash, stored, attempts>>
    BY <1>4, <2>1, SaveUntouched DEF ClearSettings
  <2>2. CASE /\ flash' = [flash EXCEPT !.vals = NoSnapshot, !.marker = "none", !.crc = NoSnapshot]
             /\ stored' = NoSnapshot /\ saver.phase \in {"free", "open"}
    <3>1. flash'.crc = NoSnapshot
      BY <2>2 DEF Typed, TypesInv, TypeInv, Flash
    <3> QED
      BY <1>4, <2>2, <3>1, SaveErased DEF ClearSettings, SaveInv, WriteInv
  <2> QED
    BY <1>4, <2>1, <2>2, Zenon DEF ClearSettings
<1> QED
  BY <1>1, <1>2, <1>3, <1>4

LEMMA SaveEdit ==
  ASSUME SaveInv, \/ Restart \/ Cancel \/ Enter \/ DoubleClick
                  \/ TogglePower \/ Emergency \/ StartDeferred
                  \/ \E v \in {0, TooHigh} : SetOutput(v)
                  \/ \E k \in Editable : BeginEdit(k)
                  \/ \E v \in 0..3 : Adjust(v)
  PROVE  SaveInv'
BY SaveUntouched DEF Restart, Cancel, Enter, DoubleClick, Revert, ApplyAndSave, TogglePower, Emergency, SetOutput,
   StartDeferred, BeginEdit, Adjust, history

LEMMA SaveLock ==
  ASSUME SaveInv, NEW w \in Tasks, Acquire(w) \/ GiveUp(w)
  PROVE  SaveInv'
<1>1. CASE Acquire(w)
  BY <1>1 DEF Acquire, SaveInv, WriteInv, StageInv, AttemptInv, StoredInv, Nobody, Busy, history
<1>2. CASE GiveUp(w)
  <2>1. CASE saver' = saver
    BY <1>2, <2>1, SaveUntouched DEF GiveUp
  <2>2. CASE Off
    BY <1>2, <2>2, SaveEnded DEF GiveUp, Off
  <2> QED
    BY <1>2, <2>1, <2>2, Zenon DEF GiveUp
<1> QED
  BY <1>1, <1>2

LEMMA SaveOpen == ASSUME Typed, SaveInv, Open PROVE SaveInv'
<1>1. /\ saver'.phase = "write" /\ saver'.at = 1 /\ saver'.expected = mem /\ mem \in attempts'
      /\ flash' = flash /\ stored' = stored /\ attempts \subseteq attempts'
  BY DEF Open, SaveInv, WriteInv, Typed, TypesInv, TypeInv, Saver
<1> QED
  BY <1>1 DEF SaveInv, WriteInv, StageInv, AttemptInv, StoredInv, Key

LEMMA SaveWriteKey == ASSUME Typed, SaveInv, WriteKey PROVE SaveInv'
<1> DEFINE n == saver.at
           x == saver.expected[n]
<1>1. /\ flash.vals \in Partial /\ n \in Key /\ saver.phase = "write"
      /\ saver \in Saver /\ flash \in Flash
  BY DEF WriteKey, Typed, TypesInv, TypeInv, Flash
<1>2. /\ saver'.phase = "write" /\ saver'.at = n + 1 /\ saver'.expected = saver.expected
      /\ saver.bad => saver'.bad
  BY <1>1 DEF WriteKey, Saver
<1>3. /\ flash'.crc = flash.crc /\ flash'.marker = flash.marker
      /\ \/ flash'.vals = [flash.vals EXCEPT ![n] = x]
         \/ flash'.vals = flash.vals /\ saver'.bad
  BY <1>1 DEF WriteKey, Saver, Flash
<1>4. WriteInv'
  <2> SUFFICES ASSUME NEW k \in Key, k < n + 1, ~saver'.bad
               PROVE  flash'.vals[k] = saver.expected[k]
    BY <1>2 DEF WriteInv
  <2>1. flash'.vals = [flash.vals EXCEPT ![n] = x]
    BY <1>3
  <2>2. CASE k = n
    BY <1>1, <2>1, <2>2 DEF Partial
  <2>3. CASE k # n
    <3>1. flash.vals[k] = saver.expected[k]
      BY <1>1, <1>2, <2>3 DEF SaveInv, WriteInv, Key
    <3> QED
      BY <1>1, <2>1, <2>3, <3>1 DEF Partial
  <2> QED
    BY <2>2, <2>3
<1> HIDE DEF n, x
<1>5. stored' = stored /\ attempts' = attempts /\ saver.expected \in attempts
  BY <1>1 DEF WriteKey, history, SaveInv, AttemptInv, Busy
<1> QED
  BY <1>2, <1>3, <1>4, <1>5 DEF SaveInv, StageInv, AttemptInv, StoredInv

LEMMA SaveWritten == ASSUME Typed, SaveInv, Written PROVE SaveInv'
<1>1. CASE saver.bad
  BY <1>1, SaveEnded DEF Written, Release
<1>2. CASE ~saver.bad
  <2>1. saver \in Saver /\ flash.vals \in [Key -> -1..4] /\ saver.expected \in [Key -> 0..4]
    BY DEF Written, Typed, TypesInv, TypeInv, CaptureInv, Busy, Flash, Partial, Snapshot
  <2>2. \A k \in Key : flash.vals[k] = saver.expected[k]
    BY <1>2, <2>1 DEF Written, SaveInv, WriteInv, Key, Saver
  <2>3. flash.vals = saver.expected
    BY <2>1, <2>2
  <2>4. saver'.phase = "stage" /\ saver'.expected = saver.expected
    BY <1>2, <2>1 DEF Written, Saver
  <2>5. saver.expected \in attempts
    BY DEF Written, SaveInv, AttemptInv, Busy
  <2> QED
    BY <2>3, <2>4, <2>5 DEF Written, SaveInv, WriteInv, StageInv, AttemptInv, StoredInv
<1> QED
  BY <1>1, <1>2

LEMMA SaveMark ==
  ASSUME Typed, SaveInv, StageMarker \/ WriteCrc \/ WriteMarker \/ Commit
  PROVE  SaveInv'
<1>1. saver \in Saver /\ flash \in Flash /\ saver.expected \in attempts
  BY DEF StageMarker, WriteCrc, WriteMarker, Commit, Typed, TypesInv, TypeInv, SaveInv, AttemptInv, Busy
<1>2. UNCHANGED <<stored, attempts>>
  BY DEF StageMarker, WriteCrc, WriteMarker, Commit, Goto, history
<1>3. CASE StageMarker
  <2>1. /\ saver'.phase = "crc" /\ saver'.expected = saver.expected
        /\ flash'.vals = flash.vals /\ flash'.crc = flash.crc
    BY <1>1, <1>3 DEF StageMarker, Goto, Saver, Flash
  <2> QED
    BY <1>1, <1>2, <1>3, <2>1
       DEF StageMarker, SaveInv, WriteInv, StageInv, AttemptInv, StoredInv
<1>4. CASE WriteCrc
  <2>1. /\ saver'.phase = "mark" /\ saver'.expected = saver.expected
        /\ flash'.vals = flash.vals /\ flash'.crc = saver.expected
    BY <1>1, <1>4 DEF WriteCrc, Goto, Saver, Flash
  <2> QED
    BY <1>1, <1>2, <1>4, <2>1
       DEF WriteCrc, SaveInv, WriteInv, StageInv, AttemptInv, StoredInv
<1>5. CASE WriteMarker
  <2>1. /\ saver'.phase = "commit" /\ saver'.expected = saver.expected
        /\ flash'.vals = flash.vals /\ flash'.crc = flash.crc /\ flash'.marker = "current"
    BY <1>1, <1>5 DEF WriteMarker, Goto, Saver, Flash
  <2> QED
    BY <1>1, <1>2, <1>5, <2>1
       DEF WriteMarker, SaveInv, WriteInv, StageInv, AttemptInv, StoredInv
<1>6. CASE Commit
  <2>1. saver'.phase = "verify" /\ saver'.expected = saver.expected /\ flash' = flash
    BY <1>1, <1>6 DEF Commit, Goto, Saver
  <2> QED
    BY <1>1, <1>2, <1>6, <2>1
       DEF Commit, SaveInv, WriteInv, StageInv, AttemptInv, StoredInv
<1> QED
  BY <1>3, <1>4, <1>5, <1>6

LEMMA SaveVerify == ASSUME Typed, SaveInv, Verify \/ StepFails PROVE SaveInv'
<1>1. CASE Verify
  <2>1. saver' = Nobody /\ Nobody.phase = "free"
    BY <1>1 DEF Verify, Release, Nobody
  <2>2. flash.vals = saver.expected /\ flash.crc = saver.expected /\ flash.marker = "current"
    BY <1>1 DEF Verify, SaveInv, StageInv
  <2> QED
    BY <1>1, <2>1, <2>2 DEF Verify, SaveInv, WriteInv, StageInv, AttemptInv, StoredInv, Busy
<1>2. CASE StepFails
  BY <1>2, SaveEnded DEF StepFails, Release
<1> QED
  BY <1>1, <1>2

LEMMA SaveStepInv == Typed /\ SaveInv /\ [Next]_vars => SaveInv'
<1> SUFFICES ASSUME Typed, SaveInv, [Next]_vars PROVE SaveInv'
  OBVIOUS
<1>1. CASE UNCHANGED vars
  BY <1>1, SaveUntouched DEF vars, device, history
<1>2. CASE Boot \/ PowerLoss \/ FactoryReset \/ ClearSettings
  BY <1>2, SaveMenu
<1>3. CASE \/ Restart \/ Cancel \/ Enter \/ DoubleClick
           \/ TogglePower \/ Emergency \/ StartDeferred
           \/ \E v \in {0, TooHigh} : SetOutput(v)
           \/ \E k \in Editable : BeginEdit(k)
           \/ \E v \in 0..3 : Adjust(v)
  BY <1>3, SaveEdit
<1>4. CASE \E w \in Tasks : Acquire(w) \/ GiveUp(w)
  BY <1>4, SaveLock, Zenon
<1>5. CASE SaveStep
  BY <1>5, SaveOpen, SaveWriteKey, SaveWritten, SaveMark, SaveVerify, Zenon DEF SaveStep
<1> QED
  BY <1>1, <1>2, <1>3, <1>4, <1>5, Zenon DEF Next

-----------------------------------------------------------------------------
(* What follows *)

Inv == Typed /\ SaveInv

LEMMA Invariant == Spec => []Inv
<1>1. Init => Inv
  <2>1. Init => LockHeldWhileSaving /\ OffInv
    BY DEF Init, LockHeldWhileSaving, OffInv, Nobody
  <2> QED
    BY <2>1, TypesInit, SaveInit DEF Inv, Typed
<1>2. Inv /\ [Next]_vars => Inv'
  BY TypedStep, SaveStepInv DEF Inv
<1> QED
  BY <1>1, <1>2, PTL DEF Spec

\* A full table read back is the table itself.
LEMMA LoadedWhole == ASSUME NEW f, f.vals \in Snapshot PROVE Loaded(f) = f.vals
<1>1. \A k \in Key : f.vals[k] \in 0..4 /\ f.vals[k] # Missing
  BY DEF Snapshot, Missing
<1> QED
  BY <1>1 DEF Loaded, Snapshot

\* Only values of the right kind are in flash and in memory, whichever write
\* failed and whenever the power went: in particular every table a boot loads
\* is a table of settings.
THEOREM TypesHold == Spec => []TypeOK
<1>1. Inv => TypeOK
  <2> SUFFICES ASSUME TypeInv PROVE TypeOK
    BY DEF Inv, Typed, TypesInv
  <2>1. flash.vals \in [Key -> -1..4] /\ flash.crc \in [Key -> -1..4]
    BY NoSnapshotType DEF TypeInv, Flash, Partial, Snapshot
  <2>2. /\ flash.marker \in Markers /\ flash.ns \in BOOLEAN
        /\ editor.changed \in BOOLEAN /\ editor.pending \in BOOLEAN /\ saver.bad \in BOOLEAN
    BY Zenon DEF TypeInv, Flash, Editor, Saver
  <2>3. /\ editor.key \in 0..8 /\ editor.shown \in 0..4 /\ editor.backup \in 0..4
        /\ editor.begin \in Snapshot \cup {NoSnapshot} /\ editor.limit \in 0..4
        /\ limit \in 0..4
    BY DEF TypeInv, Editor
  <2>4. /\ saver.who \in Tasks \cup {"nobody"} /\ saver.phase \in Phases
        /\ saver.at \in 1..9 /\ saver.expected \in Snapshot \cup {NoSnapshot}
    BY DEF TypeInv, Saver
  <2> QED
    BY <2>1, <2>2, <2>3, <2>4 DEF TypeOK, TypeInv, Markers
<1> QED
  BY <1>1, Invariant, PTL

\* A table that was saved and verified by save_settings() is what the next boot
\* finds and trusts, until a later save begins to write.
THEOREM StoredTableSurvives == Spec => []StoredSurvives
<1>1. Inv => StoredSurvives
  <2> SUFFICES ASSUME Inv, stored # NoSnapshot, attempts = {}
               PROVE  Trusted(flash) /\ Loaded(flash) = stored
    BY DEF StoredSurvives
  <2>1. flash.vals = stored /\ flash.crc = stored /\ flash.marker = "current" /\ stored \in Snapshot
    BY DEF Inv, SaveInv, StoredInv, Typed, TypesInv, TypeInv
  <2> QED
    BY <2>1, LoadedWhole DEF Trusted
<1> QED
  BY <1>1, Invariant, PTL

\* What load_settings() trusts was captured by one save as a whole.
THEOREM TrustedTableIsWhole == Spec => []TrustedIsWhole
<1>1. Inv => TrustedIsWhole
  <2> SUFFICES ASSUME Inv, flash.marker = "current", Trusted(flash)
               PROVE  Loaded(flash) \in attempts \cup {stored}
    BY DEF TrustedIsWhole
  <2>1. flash.crc = Loaded(flash)
    BY DEF Trusted
  <2>2. Loaded(flash) \in Snapshot
    BY LoadedType DEF Inv, Typed, TypesInv, TypeInv, Flash
  <2> QED
    BY <2>1, <2>2, NoSnapshotType DEF Inv, SaveInv, AttemptInv
<1> QED
  BY <1>1, Invariant, PTL

\* Every return of save_settings() gives s_save_mutex back.
THEOREM SaveLockIsReleased == Spec => []LockHeldWhileSaving
<1>1. Inv => LockHeldWhileSaving
  BY DEF Inv, Typed
<1> QED
  BY <1>1, Invariant, PTL

-----------------------------------------------------------------------------
(* The editor: what it remembers is enough to undo what it did *)

Editing == panel \in {"editing", "edit"}
Others == Key \ {Active}

EditorOpen == editor.key # 0 <=> Editing

\* While the editor is open the table differs from the one it opened on in the
\* setting it shows only, and in what that one writes besides; before Enter only
\* in one that is applied live.
EditorTracks ==
    /\ panel = "editing" => \A k \in Others :
          \/ mem[k] = editor.begin[k]
          \/ k \in {Hour, TimeSet} /\ editor.key = Hour /\ editor.changed
    /\ panel = "edit" => \A k \in Others :
          \/ mem[k] = editor.begin[k] \/ k = editor.key
          \/ k = Cutoff /\ editor.key = Type
          \/ k = TimeSet /\ editor.key = Hour
          \/ k = OutFreq /\ editor.key = Freq
    /\ Editing /\ editor.key = Hour /\ editor.changed => mem[TimeSet] = 1

\* An hour is saved once it was changed, and it never waits for a confirmation.
HourInv ==
    /\ panel = "editing" /\ editor.pending => editor.key # Hour
    /\ panel = "edit" /\ editor.key = Hour => editor.changed

\* The backup is the value the editor opened on (a cutoff is clamped first), and
\* the limit it remembers is the one of its table, unless that was out of step.
BackupInv ==
    Editing => /\ editor.key # Cutoff => editor.backup = editor.begin[editor.key]
               /\ synced => editor.limit = editor.begin[Limit]

\* What the panel's save captured is still the table: only Active has moved on.
CapturedInv ==
    saver.who = "panel" /\ saver.phase \in Busy =>
        \A k \in Others : saver.expected[k] = mem[k]

EditInv == EditorOpen /\ EditorTracks /\ HourInv /\ BackupInv /\ LimitFollowsSettings /\ CapturedInv

LEMMA EditInit == Init => EditInv
BY DEF Init, EditInv, EditorOpen, EditorTracks, HourInv, BackupInv, LimitFollowsSettings, CapturedInv, Editing,
   Closed, Nobody

\* With the editor closed and no save of the panel's writing, only the limit
\* has to agree.
LEMMA EditClosed ==
  ASSUME editor'.key = 0, panel' \notin {"editing", "edit"}, synced' => limit' = mem'[Limit],
         saver'.who = "panel" => saver'.phase \notin Busy
  PROVE  EditInv'
BY DEF EditInv, EditorOpen, EditorTracks, HourInv, BackupInv, LimitFollowsSettings, CapturedInv, Editing

\* Whatever leaves the editor and the table alone.
LEMMA EditUntouched ==
  ASSUME EditInv, UNCHANGED <<mem, limit, editor, panel, synced>>,
         \/ UNCHANGED <<saver.who, saver.phase, saver.expected>>
         \/ saver'.who = "panel" => saver'.phase \notin Busy
         \/ saver'.expected = mem
         \/ /\ saver.phase \in Busy
            /\ UNCHANGED <<saver.who, saver.expected>>
  PROVE  EditInv'
BY DEF EditInv, EditorOpen, EditorTracks, HourInv, BackupInv, LimitFollowsSettings, CapturedInv, Editing

LEMMA ClosedKey == Closed.key = 0
BY DEF Closed

LEMMA EditOff == Off => EditInv'
BY EditClosed, ClosedKey DEF Off, Nobody

LEMMA EditBoot == Typed /\ EditInv /\ Boot => EditInv'
<1> SUFFICES ASSUME Typed, EditInv, Boot PROVE EditInv'
  OBVIOUS
<1>1. synced' => limit' = mem'[7]
  <2>1. ASSUME Trusted(flash), LoadedLimit(flash) \in LimitRange, flash.ns
        PROVE  limit' = mem'[7]
    <3>1. ~Corrupt(flash)
      BY <2>1 DEF Trusted, Corrupt
    <3>2. BootMem(flash)[7] = Loaded(flash)[7]
      BY <2>1, <3>1, LoadedType DEF BootMem, Type, Cutoff, Freq, Typed, TypesInv, TypeInv, Flash, Snapshot, Key
    <3>3. Loaded(flash)[7] \in 0..4
      BY LoadedType, Domains DEF Typed, TypesInv, TypeInv, Flash, Snapshot, Key
    <3> QED
      BY <2>1, <3>2, <3>3 DEF Boot, LoadedLimit, ClampLimit, LimitRange, Limit
  <2> QED
    BY <2>1, Zenon DEF Boot
<1>2. editor.key = 0 /\ editor' = editor /\ panel' = "menu" /\ saver' = Nobody
  BY DEF Boot, EditInv, EditorOpen, Editing, Typed, OffInv
<1> QED
  BY <1>1, <1>2, EditClosed DEF Limit, Nobody

LEMMA EditFactoryReset == Typed /\ EditInv /\ FactoryReset => EditInv'
<1> SUFFICES ASSUME Typed, EditInv, FactoryReset PROVE EditInv'
  OBVIOUS
<1>1. CASE Off
  BY <1>1, EditOff
<1>2. CASE /\ synced' = FALSE
           /\ UNCHANGED <<flash, editor, panel, saver, deferred, stored, attempts>>
  <2>1. panel = "menu" /\ editor.key = 0 /\ saver.who # "panel"
    BY DEF FactoryReset, EditInv, EditorOpen, Editing, Typed, LockHeldWhileSaving, Purposes
  <2> QED
    BY <1>2, <2>1, EditClosed
<1> QED
  BY <1>1, <1>2, Zenon DEF FactoryReset

LEMMA EditBegin ==
  ASSUME Typed, EditInv, NEW k \in Editable, BeginEdit(k)
  PROVE  EditInv'
<1> DEFINE v == IF k = Cutoff THEN Clamp(mem[k], mem[Type]) ELSE mem[k]
<1>1. /\ editor'.key = k /\ editor'.begin = mem /\ editor'.limit = limit /\ editor'.backup = v
      /\ ~editor'.changed /\ ~editor'.pending
      /\ panel' = "editing" /\ k # 0
  BY KeyNumbers DEF BeginEdit
<1>2. k # Cutoff => v = mem[k]
  OBVIOUS
<1>3. saver'.who = "panel" => FALSE
  BY DEF BeginEdit, Typed, LockHeldWhileSaving, Purposes
<1> HIDE DEF v
<1> QED
  BY <1>1, <1>2, <1>3 DEF BeginEdit, EditInv, EditorOpen, EditorTracks, HourInv, BackupInv,
     LimitFollowsSettings, CapturedInv, Editing, history

\* Applying a setting changes that setting, and with a type the cutoff, with an
\* hour the flag that the clock was set, with a frequency the output's; the limit
\* in force follows the setting.
LEMMA AppliedKeys ==
  ASSUME NEW m \in Snapshot, NEW k \in Editable, NEW v
  PROVE  /\ Applied(m, k, v)[k] = v
         /\ k = Hour => Applied(m, k, v)[TimeSet] = 1
         /\ k = Freq => Applied(m, k, v)[OutFreq] = IF v \in FreqRange THEN v ELSE m[OutFreq]
         /\ \A i \in Key :
               \/ Applied(m, k, v)[i] = m[i] \/ i = k
               \/ i = Cutoff /\ k = Type
               \/ i = TimeSet /\ k = Hour
               \/ i = OutFreq /\ k = Freq
BY KeyNumbers DEF Applied, Snapshot

LEMMA AppliedInStep ==
  ASSUME NEW k \in Editable, NEW v, mem \in Snapshot, limit = mem[Limit]
  PROVE  AppliedLimit(k, v) = Applied(mem, k, v)[Limit]
<1>1. CASE k = Limit
  BY <1>1, AppliedKeys DEF AppliedLimit
<1>2. CASE k # Limit
  BY <1>2, KeyNumbers DEF AppliedLimit, Applied
<1> QED
  BY <1>1, <1>2

LEMMA EditAdjust ==
  ASSUME Typed, EditInv, NEW v \in 0..3, Adjust(v)
  PROVE  EditInv'
<1>1. editor \in Editor /\ mem \in Snapshot /\ editor.key \in Editable /\ panel = "editing"
  BY DEF Adjust, Typed, TypesInv, TypeInv, EditorInv
<1>2. /\ editor'.key = editor.key /\ editor'.backup = editor.backup /\ editor'.changed = TRUE
      /\ editor'.begin = editor.begin /\ editor'.limit = editor.limit
      /\ editor'.pending => editor.key # Hour
  BY <1>1 DEF Adjust, Editor
<1>3. /\ UNCHANGED <<limit, panel, saver, synced>>
      /\ mem' = IF editor.key = Hour THEN Applied(mem, Hour, v) ELSE mem
  BY DEF Adjust, history
<1>4. \A k \in Key : mem'[k] = mem[k] \/ (k \in {Hour, TimeSet} /\ editor.key = Hour)
  BY <1>3, KeyNumbers DEF Applied
<1>5. editor.key = Hour => mem'[TimeSet] = 1
  BY <1>3, KeyNumbers DEF Applied
<1>6. saver'.who = "panel" => FALSE
  BY <1>1, <1>3 DEF Typed, LockHeldWhileSaving, Purposes
<1>7. EditorTracks'
  BY <1>1, <1>2, <1>3, <1>4, <1>5, KeyNumbers DEF EditInv, EditorTracks, Others
<1>8. mem'[Limit] = mem[Limit]
  BY <1>4, KeyNumbers
<1> QED
  BY <1>1, <1>2, <1>3, <1>6, <1>7, <1>8 DEF EditInv, EditorOpen, HourInv, BackupInv,
     LimitFollowsSettings, CapturedInv, Editing

\* Every setting is what an edit that came to nothing leaves.
Undone == \A k \in Others : mem'[k] = LeftBy(k)

LEMMA RevertUndoes ==
  ASSUME Typed, EditInv, panel = "editing", Revert
  PROVE  EditInv' /\ Undone
<1>1. editor \in Editor /\ mem \in Snapshot /\ editor.key \in Editable
  BY DEF Typed, TypesInv, TypeInv, EditorInv
<1>2. editor'.key = 0 /\ panel' = "menu" /\ UNCHANGED <<saver, synced>>
  BY ClosedKey DEF Revert, history
<1>3. saver'.who # "panel"
  BY <1>2 DEF Typed, LockHeldWhileSaving, Purposes
<1>4. CASE editor.changed /\ editor.key # Type
  <2>1. /\ mem' = Applied(mem, editor.key, editor.backup)
        /\ limit' = AppliedLimit(editor.key, editor.backup)
    BY <1>4 DEF Revert
  <2> DEFINE e == editor.key
  <2>2. /\ mem'[e] = editor.backup
        /\ e = Hour => mem'[TimeSet] = 1
        /\ e = Freq => mem'[OutFreq] = IF editor.backup \in FreqRange THEN editor.backup
                                      ELSE mem[OutFreq]
        /\ \A i \in Key : \/ mem'[i] = mem[i] \/ i = e
                          \/ i = TimeSet /\ e = Hour
                          \/ i = OutFreq /\ e = Freq
    <3>1. e \in Editable /\ e # Type /\ mem' = Applied(mem, e, editor.backup)
      BY <1>1, <1>4, <2>1
    <3> HIDE DEF e
    <3> QED
      BY <1>1, <3>1, AppliedKeys
  <2>3. synced' => limit' = mem'[Limit]
    BY <1>1, <1>2, <2>1, AppliedInStep, KeyNumbers DEF EditInv, LimitFollowsSettings
  <2>4. Undone
    <3> SUFFICES ASSUME NEW k \in Others PROVE mem'[k] = LeftBy(k)
      BY DEF Undone
    <3>1. Cancelled
      BY <1>4 DEF Cancelled
    <3>2. mem[k] = editor.begin[k] \/ (k \in {Hour, TimeSet} /\ e = Hour)
      BY DEF EditInv, EditorTracks
    <3>3. k \in Key
      BY DEF Others
    <3> HIDE DEF e
    <3>4. mem'[k] = IF k = e THEN editor.backup
                    ELSE IF k = TimeSet /\ e = Hour THEN 1
                    ELSE IF k = OutFreq /\ e = Freq /\ editor.backup \in FreqRange
                    THEN editor.backup
                    ELSE editor.begin[k]
      BY <2>2, <3>2, <3>3, KeyNumbers
    <3> QED
      BY <1>4, <3>1, <3>4 DEF LeftBy, e
  <2> QED
    BY <1>2, <1>3, <2>3, <2>4, EditClosed
<1>5. CASE ~(editor.changed /\ editor.key # Type)
  <2>1. mem' = mem /\ limit' = limit
    BY <1>5 DEF Revert
  <2>2. Undone
    <3>1. \A k \in Others : mem[k] = editor.begin[k]
      BY <1>5, KeyNumbers DEF EditInv, EditorTracks
    <3>2. editor.changed => editor.key = Type /\ editor.backup = editor.begin[Type]
      BY <1>5, KeyNumbers DEF EditInv, BackupInv, Editing
    <3> QED
      BY <2>1, <3>1, <3>2, KeyNumbers DEF Undone, LeftBy, Cancelled
  <2> QED
    BY <1>2, <1>3, <2>1, <2>2, EditClosed DEF EditInv, LimitFollowsSettings
<1> QED
  BY <1>4, <1>5

LEMMA EditApply ==
  ASSUME Typed, EditInv, panel = "editing", ApplyAndSave, editor.changed \/ editor.pending
  PROVE  EditInv'
<1>1. editor \in Editor /\ mem \in Snapshot /\ editor.key \in Editable
  BY DEF Typed, TypesInv, TypeInv, EditorInv
<1>2. /\ mem' = Applied(mem, editor.key, editor.shown)
      /\ limit' = AppliedLimit(editor.key, editor.shown)
      /\ panel' = "edit" /\ UNCHANGED <<editor, saver, synced>>
  BY DEF ApplyAndSave, history
<1> DEFINE e == editor.key
<1>3. /\ e = Hour => mem'[TimeSet] = 1
      /\ \A i \in Key : \/ mem'[i] = mem[i] \/ i = e
                        \/ i = Cutoff /\ e = Type
                        \/ i = TimeSet /\ e = Hour
                        \/ i = OutFreq /\ e = Freq
  <2>1. e \in Editable /\ mem' = Applied(mem, e, editor.shown)
    BY <1>1, <1>2
  <2> HIDE DEF e
  <2> QED
    BY <1>1, <2>1, AppliedKeys
<1>4. synced' => limit' = mem'[Limit]
  BY <1>1, <1>2, AppliedInStep DEF EditInv, LimitFollowsSettings
<1>5. saver'.who # "panel"
  BY <1>2 DEF Typed, LockHeldWhileSaving, Purposes
<1>6. EditorTracks'
  BY <1>1, <1>2, <1>3, KeyNumbers DEF EditInv, EditorTracks, Others, Editing
<1>7. HourInv'
  BY <1>2 DEF EditInv, HourInv
<1> QED
  BY <1>2, <1>4, <1>5, <1>6, <1>7 DEF EditInv, EditorOpen, BackupInv, LimitFollowsSettings,
     CapturedInv, Editing

\* Nothing was changed and Enter just closes the editor.
LEMMA EnterUnchanged ==
  ASSUME Typed, EditInv, panel = "editing", ~editor.changed, panel' = "menu", editor' = Closed,
         UNCHANGED <<flash, mem, limit, saver, deferred, history, bounds>>
  PROVE  EditInv' /\ Undone
<1>1. saver'.who # "panel"
  BY DEF Typed, LockHeldWhileSaving, Purposes
<1>2. Undone
  BY DEF Undone, LeftBy, Cancelled, EditInv, EditorTracks
<1> QED
  BY <1>1, <1>2, EditClosed, ClosedKey DEF EditInv, LimitFollowsSettings, history

\* Enter, a double click and Back keep the invariant and, when they close the
\* editor, undo what it did.
LEMMA EditorKeys ==
  ASSUME Typed, EditInv, Cancel \/ Enter \/ DoubleClick
  PROVE  EditInv' /\ (editor'.key = 0 => Undone)
<1>1. CASE panel = "editing" /\ Revert
  BY <1>1, RevertUndoes
<1>2. CASE panel = "editing" /\ ApplyAndSave /\ (editor.changed \/ editor.pending)
  <2>1. editor'.key # 0
    BY <1>2 DEF ApplyAndSave, EditInv, EditorOpen, Editing
  <2> QED
    BY <1>2, <2>1, EditApply
<1>3. CASE /\ panel = "editing" /\ ~editor.changed /\ panel' = "menu" /\ editor' = Closed
           /\ UNCHANGED <<flash, mem, limit, saver, deferred, history, bounds>>
  BY <1>3, EnterUnchanged
<1> QED
  BY <1>1, <1>2, <1>3, Zenon DEF Cancel, Enter, DoubleClick

\* The inverter starts or stops: only Active, which no editor shows, changes.
LEMMA EditPower == Typed /\ EditInv /\ TogglePower => EditInv'
<1> SUFFICES ASSUME Typed, EditInv, TogglePower PROVE EditInv'
  OBVIOUS
<1> DEFINE a == 1 - mem[1]
<1>1. mem \in Snapshot /\ mem' = [mem EXCEPT ![1] = a]
  BY KeyNumbers DEF TogglePower, Typed, TypesInv, TypeInv
<1> HIDE DEF a
<1>2. \A k \in Others : mem'[k] = mem[k]
  BY <1>1, KeyNumbers DEF Snapshot, Others
<1> QED
  BY <1>2, KeyNumbers DEF Others, TogglePower, EditInv, EditorOpen, EditorTracks, HourInv, BackupInv,
     LimitFollowsSettings, CapturedInv, Editing, history

\* An output voltage changes no more of an open editor than what it shows.
LEMMA EditSetOutput ==
  ASSUME Typed, EditInv, NEW v \in {0, TooHigh}, SetOutput(v)
  PROVE  EditInv'
<1>1. UNCHANGED <<editor.key, editor.backup, editor.begin, editor.changed, editor.pending,
                  editor.limit>>
  BY OverwrittenTypes DEF SetOutput
<1> QED
  BY <1>1 DEF SetOutput, EditInv, EditorOpen, EditorTracks, HourInv, BackupInv,
     LimitFollowsSettings, CapturedInv, Editing, history

LEMMA EditEmergency == Typed /\ EditInv /\ Emergency => EditInv'
<1> SUFFICES ASSUME Typed, EditInv, Emergency PROVE EditInv'
  OBVIOUS
<1>1. mem \in Snapshot /\ mem' = [mem EXCEPT ![1] = 0]
  BY KeyNumbers DEF Emergency, Typed, TypesInv, TypeInv
<1>2. \A k \in Others : mem'[k] = mem[k]
  BY <1>1, KeyNumbers DEF Snapshot, Others
<1>3. UNCHANGED <<editor.key, editor.backup, editor.begin, editor.changed, editor.pending,
                  editor.limit>>
  BY OverwrittenTypes DEF Emergency
<1>4. panel' = panel /\ saver' = saver /\ ~synced'
  BY Zenon DEF Emergency
<1> QED
  BY <1>2, <1>3, <1>4, KeyNumbers DEF Others, EditInv, EditorOpen, EditorTracks, HourInv, BackupInv,
     LimitFollowsSettings, CapturedInv, Editing

LEMMA EditClear == Typed /\ EditInv /\ ClearSettings => EditInv'
<1> SUFFICES ASSUME Typed, EditInv, ClearSettings PROVE EditInv'
  OBVIOUS
<1>1. panel = "menu" /\ panel' = "clear" /\ ~synced' /\ UNCHANGED <<editor, saver>>
  BY Zenon DEF ClearSettings
<1>2. editor.key = 0 /\ saver.who # "panel"
  BY <1>1 DEF EditInv, EditorOpen, Editing, Typed, LockHeldWhileSaving, Purposes
<1> QED
  BY <1>1, <1>2, EditClosed

\* The table in memory, apart from Active, is the one just saved.
Kept == \A k \in Others : stored'[k] = mem'[k]

\* The editor closes, though the device goes on.
EditorCloses == editor.key # 0 /\ editor'.key = 0 /\ panel' # "off"

LEMMA RollbackUndoes ==
  ASSUME Typed, EditInv, panel = "edit", Rollback
  PROVE  Undone /\ (synced => limit' = mem'[Limit])
<1>1. /\ editor.key \in Editable /\ Editing /\ EditorTracks /\ HourInv /\ BackupInv
      /\ ~Cancelled
  BY DEF Typed, TypesInv, EditorInv, EditInv, Editing, Cancelled
<1>2. \A k \in Others : mem'[k] = LeftBy(k)
  <2> SUFFICES ASSUME NEW k \in Others PROVE mem'[k] = LeftBy(k)
    OBVIOUS
  <2>1. mem'[k] = IF k \in {editor.key, Type, Cutoff, OutFreq} THEN editor.begin[k] ELSE mem[k]
    BY DEF Rollback, Restored, Others
  <2>2. LeftBy(k) = IF k = TimeSet /\ editor.key = Hour /\ editor.changed THEN 1
                    ELSE editor.begin[k]
    BY <1>1, KeyNumbers DEF LeftBy
  <2>3. CASE k = TimeSet /\ editor.key = Hour
    BY <1>1, <2>1, <2>2, <2>3, KeyNumbers DEF EditorTracks, HourInv
  <2>4. CASE ~(k = TimeSet /\ editor.key = Hour)
    BY <1>1, <2>1, <2>2, <2>4, KeyNumbers DEF EditorTracks
  <2> QED
    BY <2>3, <2>4
<1>3. synced => limit' = mem'[Limit]
  <2>1. LeftBy(Limit) = editor.begin[Limit] /\ Limit \in Others
    BY <1>1, KeyNumbers DEF LeftBy, Others
  <2> QED
    BY <1>1, <1>2, <2>1 DEF Rollback, BackupInv
<1> QED
  BY <1>2, <1>3 DEF Undone

\* A save of task w ends, is not begun, or is given up.
LEMMA EditFinish ==
  ASSUME Typed, EditInv, NEW w \in Tasks, NEW ok \in BOOLEAN, Waiting(w) \/ saver.who = w,
         Finish(w, ok), saver' = Nobody \/ (saver' = saver /\ saver.who \notin {"nobody", w}),
         ok /\ w = "panel" => \A k \in Others : stored'[k] = mem[k]
  PROVE  EditInv' /\ (EditorCloses => Kept \/ Undone)
<1>1. CASE w = "deferred"
  <2>1. UNCHANGED <<mem, limit, editor, panel, synced>>
    BY <1>1 DEF Finish
  <2>2. UNCHANGED <<saver.who, saver.phase, saver.expected>> \/ saver'.who # "panel"
    BY DEF Nobody
  <2> QED
    BY <2>1, <2>2, EditUntouched DEF EditorCloses
<1>2. CASE w = "panel" /\ panel = "restart"
  <2>1. Off
    BY <1>2 DEF Finish
  <2> QED
    BY <2>1, EditOff DEF EditorCloses, Off
<1>3. CASE w = "panel" /\ panel # "restart"
  <2>1. panel' = "menu" /\ editor'.key = 0 /\ synced' = synced
    BY <1>3, ClosedKey DEF Finish
  <2>2. saver'.who # "panel"
    BY <1>3 DEF Nobody
  <2>3. CASE panel = "edit" /\ ~ok
    <3>1. Rollback
      BY <1>3, <2>3 DEF Finish
    <3> QED
      BY <2>1, <2>2, <2>3, <3>1, RollbackUndoes, EditClosed
  <2>4. CASE ~(panel = "edit" /\ ~ok)
    <3>1. mem' = mem /\ limit' = limit
      BY <1>3, <2>4 DEF Finish
    <3>2. panel \in Purposes
      BY <1>3 DEF Waiting, Typed, LockHeldWhileSaving
    <3>3. editor.key # 0 => ok
      BY <2>4, <3>2 DEF EditInv, EditorOpen, Editing, Purposes
    <3>4. EditorCloses => Kept
      BY <1>3, <3>1, <3>3 DEF EditorCloses, Kept
    <3> QED
      BY <2>1, <2>2, <3>1, <3>4, EditClosed DEF EditInv, LimitFollowsSettings
  <2> QED
    BY <2>3, <2>4
<1> QED
  BY <1>1, <1>2, <1>3 DEF Tasks

LEMMA EditLock ==
  ASSUME Typed, EditInv, NEW w \in Tasks, Acquire(w) \/ GiveUp(w)
  PROVE  EditInv' /\ (EditorCloses => Kept \/ Undone)
<1>1. CASE Acquire(w)
  <2>1. UNCHANGED <<mem, limit, editor, panel, synced>> /\ saver'.phase = "open"
    BY <1>1 DEF Acquire, Nobody, history
  <2> QED
    BY <2>1, EditUntouched DEF Busy, EditorCloses
<1>2. CASE GiveUp(w)
  <2>1. CASE w = "panel" /\ panel = "restart"
    BY <1>2, <2>1, EditOff DEF GiveUp, Off, EditorCloses
  <2>2. CASE ~(w = "panel" /\ panel = "restart")
    <3>1. Finish(w, FALSE) /\ UNCHANGED saver /\ Waiting(w) /\ saver.who \notin {"nobody", w}
      BY <1>2, <2>2 DEF GiveUp
    <3> QED
      BY <3>1, EditFinish, Zenon
  <2> QED
    BY <2>1, <2>2
<1> QED
  BY <1>1, <1>2

LEMMA EditSave ==
  ASSUME Typed, EditInv, SaveInv, SaveStep
  PROVE  EditInv' /\ (EditorCloses => Kept \/ Undone)
<1>1. saver \in Saver /\ (saver.phase # "free" => saver.who \in Tasks)
  BY DEF Typed, TypesInv, TypeInv, CaptureInv
<1>2. CASE Open
  <2>1. UNCHANGED <<mem, limit, editor, panel, synced>> /\ saver'.expected = mem
    BY <1>1, <1>2 DEF Open, Saver
  <2> QED
    BY <2>1, EditUntouched DEF EditorCloses
<1>3. CASE WriteKey
  <2>1. UNCHANGED <<mem, limit, editor, panel, synced>> /\ saver.phase \in Busy
    BY <1>3 DEF WriteKey, Busy, history
  <2>2. saver'.who = saver.who /\ saver'.expected = saver.expected
    BY <1>1, <1>3 DEF WriteKey, Saver
  <2> QED
    BY <2>1, <2>2, EditUntouched DEF EditorCloses
<1>4. CASE StageMarker \/ WriteCrc \/ WriteMarker \/ Commit
  <2>1. /\ UNCHANGED <<mem, limit, editor, panel, synced>> /\ saver.phase \in Busy
        /\ \E phase \in Busy : saver' = [saver EXCEPT !.phase = phase]
    BY <1>4 DEF StageMarker, WriteCrc, WriteMarker, Commit, Goto, Busy, history
  <2>2. saver'.who = saver.who /\ saver'.expected = saver.expected
    BY <1>1, <2>1 DEF Saver
  <2> QED
    BY <2>1, <2>2, EditUntouched DEF EditorCloses
<1>5. CASE Written
  <2>1. CASE saver.bad
    <3>1. Finish(saver.who, FALSE) /\ saver' = Nobody /\ saver.who \in Tasks
      BY <1>1, <1>5, <2>1 DEF Written, Release
    <3> QED
      BY <3>1, EditFinish, Zenon
  <2>2. CASE ~saver.bad
    <3>1. /\ UNCHANGED <<mem, limit, editor, panel, synced>> /\ saver.phase \in Busy
          /\ saver' = [saver EXCEPT !.phase = "stage"]
      BY <1>5, <2>2 DEF Written, Busy
    <3>2. saver'.who = saver.who /\ saver'.expected = saver.expected
      BY <1>1, <3>1 DEF Saver
    <3> QED
      BY <3>1, <3>2, EditUntouched DEF EditorCloses
  <2> QED
    BY <2>1, <2>2
<1>6. CASE Verify
  <2>1. Finish(saver.who, TRUE) /\ saver' = Nobody /\ saver.who \in Tasks /\ stored' = saver.expected
    BY <1>1, <1>6 DEF Verify, Release
  <2>2. saver.who = "panel" => \A k \in Others : stored'[k] = mem[k]
    BY <1>6, <2>1 DEF Verify, Busy, EditInv, CapturedInv
  <2> QED
    BY <2>1, <2>2, EditFinish, Zenon
<1>7. CASE StepFails
  <2>1. Finish(saver.who, FALSE) /\ saver' = Nobody /\ saver.who \in Tasks
    BY <1>1, <1>7 DEF StepFails, Release
  <2> QED
    BY <2>1, EditFinish, Zenon
<1> QED
  BY <1>2, <1>3, <1>4, <1>5, <1>6, <1>7 DEF SaveStep

\* Every step keeps what the editor remembers, and the editor closes on a table
\* that is saved or undone.
LEMMA EditStep ==
  Typed /\ SaveInv /\ EditInv /\ [Next]_vars => EditInv' /\ (EditorCloses => Kept \/ Undone)
<1> SUFFICES ASSUME Typed, SaveInv, EditInv, [Next]_vars
             PROVE  EditInv' /\ (EditorCloses => Kept \/ Undone)
  OBVIOUS
<1>1. CASE UNCHANGED vars
  BY <1>1, EditUntouched DEF vars, device, history, EditorCloses
<1>2. CASE Boot \/ FactoryReset \/ ClearSettings
  <2>1. editor.key = 0
    BY <1>2 DEF Boot, FactoryReset, ClearSettings, EditInv, EditorOpen, Editing
  <2> QED
    BY <1>2, <2>1, EditBoot, EditFactoryReset, EditClear DEF EditorCloses
<1>3. CASE PowerLoss
  BY <1>3, EditOff DEF PowerLoss, Off, EditorCloses
<1>4. CASE Restart
  <2>1. UNCHANGED <<mem, limit, editor, saver, synced>> /\ panel = "menu" /\ panel' = "restart"
    BY <1>4 DEF Restart, history
  <2>2. editor.key = 0 /\ saver.who # "panel"
    BY <2>1 DEF EditInv, EditorOpen, Editing, Typed, LockHeldWhileSaving, Purposes
  <2> QED
    BY <2>1, <2>2, EditClosed DEF EditorCloses, EditInv, LimitFollowsSettings
<1>5. CASE \E k \in Editable : BeginEdit(k)
  <2>1. PICK k \in Editable : BeginEdit(k)
    BY <1>5
  <2>2. editor.key = 0
    BY <2>1 DEF BeginEdit, EditInv, EditorOpen, Editing
  <2> QED
    BY <2>1, <2>2, EditBegin DEF EditorCloses
<1>6. CASE \E v \in 0..3 : Adjust(v)
  <2>1. PICK v \in 0..3 : Adjust(v)
    BY <1>6
  <2>2. editor'.key = editor.key
    BY <2>1 DEF Adjust, Typed, TypesInv, TypeInv, Editor
  <2> QED
    BY <2>1, <2>2, EditAdjust DEF EditorCloses
<1>7. CASE Cancel \/ Enter \/ DoubleClick
  BY <1>7, EditorKeys DEF EditorCloses
<1>8. CASE TogglePower
  BY <1>8, EditPower DEF TogglePower, EditorCloses
<1>9. CASE Emergency
  <2>1. editor'.key = editor.key
    BY <1>9, OverwrittenTypes DEF Emergency
  <2> QED
    BY <1>9, <2>1, EditEmergency DEF EditorCloses
<1>13. CASE \E v \in {0, TooHigh} : SetOutput(v)
  <2>1. PICK v \in {0, TooHigh} : SetOutput(v)
    BY <1>13
  <2>2. editor'.key = editor.key
    BY <2>1, OverwrittenTypes DEF SetOutput
  <2> QED
    BY <2>1, <2>2, EditSetOutput DEF EditorCloses
<1>10. CASE StartDeferred
  BY <1>10, EditUntouched DEF StartDeferred, history, EditorCloses
<1>11. CASE \E w \in Tasks : Acquire(w) \/ GiveUp(w)
  BY <1>11, EditLock, Zenon
<1>12. CASE SaveStep
  BY <1>12, EditSave
<1> QED
  BY <1>1, <1>2, <1>3, <1>4, <1>5, <1>6, <1>7, <1>8, <1>9, <1>10, <1>11, <1>12, <1>13, Zenon DEF Next

LEMMA EditInvariant == Spec => []EditInv
<1>1. Inv /\ EditInv /\ [Next]_vars => EditInv'
  BY EditStep DEF Inv
<1> QED
  BY <1>1, EditInit, Invariant, PTL DEF Spec

\* The limit the protection uses is the one the menu shows: every way out of the
\* editor puts both back, or both forward.
THEOREM LimitInStep == Spec => []LimitFollowsSettings
<1>1. EditInv => LimitFollowsSettings
  BY DEF EditInv
<1> QED
  BY <1>1, EditInvariant, PTL

\* However an editor closes, with Enter, Back or a failed save and whatever
\* other tasks did meanwhile, the table is saved as it is, or every setting is
\* undone but the two second keys LeftBy names: time_set stays as an adjusted
\* hour left it, and a cancelled frequency is written to the output again.
THEOREM EditIsAllOrNothing == Spec => EditAllOrNothing
<1> DEFINE A == editor.key # 0 /\ editor'.key = 0 /\ panel' # "off" =>
                  \/ \A k \in Key \ {Active} : stored'[k] = mem'[k]
                  \/ \A k \in Key \ {Active} : mem'[k] = LeftBy(k)
<1>1. Inv /\ EditInv /\ [Next]_vars => [A]_vars
  BY EditStep DEF Inv, EditorCloses, Kept, Undone, Others
<1>2. Spec => [][A]_vars
  BY <1>1, EditInvariant, Invariant, PTL DEF Spec
<1> QED
  BY <1>2 DEF EditAllOrNothing
=============================================================================
