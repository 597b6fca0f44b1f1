----------------------------- MODULE Boot_proofs -----------------------------
(***************************************************************************)
(* What a reset of the device passes through: the image the update selects *)
(* for it, and the start-up of the image that runs.                        *)
(*                                                                         *)
(* FirmwareUpdate, for every number of releases, whether or not writes of  *)
(* the marker fail: the variables keep their types, there is always an     *)
(* image to start, and another image only runs because it is newer or as a *)
(* rollback.                                                               *)
(*                                                                         *)
(* Startup, whatever consumers are required: the verdict is exact, and the *)
(* output is only switched after a start-up in which nothing failed.       *)
(***************************************************************************)
EXTENDS FirmwareUpdate, Startup, TLAPS

-----------------------------------------------------------------------------
(* FirmwareUpdate *)

LEMMA OtherSlot == \A s \in Slot : Other(s) \in Slot /\ Other(s) # s
                                   /\ \A o \in Slot : o # s => o = Other(s)
BY DEF Slot, Other

\* The variables a step may type-change are grouped, for the provers: what is
\* in flash and the start, the places of the tasks, and the flags.
FlashOK ==
  /\ slot \in [Slot -> 0..(MaxVersion + 1)] /\ boot \in Slot /\ running \in Slot
  /\ otaState \in [Slot -> {"NEW", "PENDING_VERIFY", "VALID", "ABORTED"}]
  /\ marker \in Marker
  /\ phase \in {"boot", "services", "up"} /\ published \in Version
  /\ jobVersion \in Version

TasksOK ==
  /\ job \in {"idle", "begin", "manifest", "open", "transfer", "verify", "flag", "partition",
              "version", "digest", "success", "failed", "done"}
  /\ check \in {"idle", "begin", "fetch", "fetchAlone"}
  /\ preflight \in {"idle", "begin", "hash", "mark", "fetch", "fetchAlone", "deselect",
                    "clear", "erase", "end"}
  /\ pc \in {"idle", "suspend", "start", "stopping", "select", "clear", "restart",
             "deselect", "deleteClear", "erase", "deleted"}

FlagsOK == verified \in BOOLEAN /\ busy \in BOOLEAN /\ confirm \in BOOLEAN /\ suspended \in BOOLEAN

LEMMA TypeParts == TypeOK <=> FlashOK /\ TasksOK /\ FlagsOK
BY DEF TypeOK, FlashOK, TasksOK, FlagsOK

\* The places and the flags are constants or other Boolean terms in every action.
LEMMA TasksStep == TasksOK /\ [Next]_vars => TasksOK'
BY DEF TasksOK, vars, flash, start, tasks, status, Next, Release, PowerLoss, RestartSelected,
   Restart, FreshRam, InitServices, Validate, CheckForUpdate, SchedulePreflight, OpenPrompt,
   Keys, RequestUpdate, ConfirmUpdate, CancelUpdate, Defer, EnterApply, EnterDelete, Check,
   CheckSuspends, CheckEnds, Download, JobStarts, JobGivesUp, JobManifest, JobWrites,
   JobReceived, JobVerified, JobFlags, JobStores, JobReports, JobEnds, Preflight, Fetch,
   PreflightBegins, PreflightHashes, PreflightMarks, PreflightCompares, PreflightDeselects,
   PreflightClears, PreflightErases, PreflightEnds, Button, SuspendServices, StartJob,
   ShutDown, SelectBoot, ClearSelected, DeleteDeselects, DeleteClears, DeleteErases, Deleted

LEMMA FlagsStep == FlagsOK /\ [Next]_vars => FlagsOK'
BY Zenon DEF FlagsOK, vars, flash, start, tasks, status, Next, Release, PowerLoss, RestartSelected,
   Restart, FreshRam, InitServices, Validate, CheckForUpdate, SchedulePreflight, OpenPrompt,
   Keys, RequestUpdate, ConfirmUpdate, CancelUpdate, Defer, EnterApply, EnterDelete, Check,
   CheckSuspends, CheckEnds, Download, JobStarts, JobGivesUp, JobManifest, JobWrites,
   JobReceived, JobVerified, JobFlags, JobStores, JobReports, JobEnds, Preflight, Fetch,
   PreflightBegins, PreflightHashes, PreflightMarks, PreflightCompares, PreflightDeselects,
   PreflightClears, PreflightErases, PreflightEnds, Button, SuspendServices, StartJob,
   ShutDown, SelectBoot, ClearSelected, DeleteDeselects, DeleteClears, DeleteErases, Deleted,
   ReadMarker, Discard, ClearMarker

-----------------------------------------------------------------------------
(* What the operations on the flash do to it *)

LEMMA MarkerStep ==
  ASSUME marker \in Marker,
         \/ marker' = marker
         \/ \E b \in BOOLEAN : marker' = [marker EXCEPT !.pending = b]
         \/ \E s \in Slot : marker' = [marker EXCEPT !.slot = s]
         \/ \E v \in Version : \/ marker' = [marker EXCEPT !.version = v]
                                \/ marker' = [marker EXCEPT !.digest = v]
  PROVE  marker' \in Marker
BY DEF Marker

LEMMA DiscardFlash == ASSUME FlashOK, ReadMarker \/ Discard
                      PROVE  /\ slot' \in [Slot -> 0..(MaxVersion + 1)] /\ boot' \in Slot
                             /\ otaState' \in [Slot -> {"NEW", "PENDING_VERIFY", "VALID", "ABORTED"}]
                             /\ marker' \in Marker
<1> USE UpdateAssumption, OtherSlot DEF FlashOK
<1>1. marker' \in Marker
  BY MarkerStep DEF ReadMarker, Discard, ClearMarker, flash
<1>2. boot' \in Slot /\ otaState' \in [Slot -> {"NEW", "PENDING_VERIFY", "VALID", "ABORTED"}]
  BY DEF ReadMarker, Discard, Deselect, SetBoot, flash
<1>3. slot' \in [Slot -> 0..(MaxVersion + 1)]
  BY DEF ReadMarker, Discard, Erase, Broken, Target, flash
<1> QED BY <1>1, <1>2, <1>3

LEMMA RestartFlash == FlashOK /\ Restart => FlashOK'
<1> SUFFICES ASSUME FlashOK, Restart PROVE FlashOK' OBVIOUS
<1> USE UpdateAssumption, OtherSlot DEF FlashOK
<1>1. UNCHANGED <<slot, marker, published>> /\ phase' = "boot" /\ jobVersion' = 1
  BY DEF Restart, FreshRam
<1>2. boot' \in Slot /\ running' \in Slot
  BY DEF Restart
<1>3. otaState' \in [Slot -> {"NEW", "PENDING_VERIFY", "VALID", "ABORTED"}]
  BY DEF Restart
<1> QED BY <1>1, <1>2, <1>3 DEF Version

LEMMA FlashStep == FlashOK /\ [Next]_vars => FlashOK'
<1> SUFFICES ASSUME FlashOK, [Next]_vars PROVE FlashOK' OBVIOUS
<1> USE UpdateAssumption, OtherSlot DEF FlashOK, flash, start
<1>1. CASE Release BY <1>1 DEF Release, Version, tasks
<1>2. CASE PowerLoss BY <1>2, RestartFlash DEF PowerLoss
<1>3. CASE InitServices BY <1>3, DiscardFlash DEF InitServices, tasks
<1>4. CASE Validate BY <1>4 DEF Validate, Erase, Broken, Target, tasks
<1>5. CASE CheckForUpdate \/ Check BY <1>5 DEF CheckForUpdate, Check, CheckSuspends, CheckEnds
<1>6. CASE SchedulePreflight BY <1>6, DiscardFlash DEF SchedulePreflight
<1>7. CASE Keys
  <2>1. CASE OpenPrompt BY <2>1, DiscardFlash DEF OpenPrompt
  <2>2. CASE ConfirmUpdate BY <2>2, DiscardFlash DEF ConfirmUpdate
  <2>3. CASE RequestUpdate \/ CancelUpdate \/ Defer \/ EnterApply \/ EnterDelete
    BY <2>3 DEF RequestUpdate, CancelUpdate, Defer, EnterApply, EnterDelete, tasks
  <2> QED BY <1>7, <2>1, <2>2, <2>3 DEF Keys
<1>8. CASE Download
  <2>1. CASE JobWrites \/ JobVerified
    BY <2>1 DEF JobWrites, JobVerified, Partial, Target, Version
  <2>2. CASE JobFlags
    <3>1. marker' \in Marker
      BY <2>2, MarkerStep DEF JobFlags
    <3> QED BY <2>2, <3>1 DEF JobFlags
  <2>5. CASE JobStores
    <3>1. marker' \in Marker
      <4>1. Target \in Slot BY DEF Target
      <4> QED BY <2>5, <4>1, MarkerStep DEF JobStores
    <3> QED BY <2>5, <3>1 DEF JobStores
  <2>3. CASE JobManifest \/ JobEnds BY <2>3 DEF JobManifest, JobEnds, Version
  <2>4. CASE JobStarts \/ JobGivesUp \/ JobReceived \/ JobReports
    BY <2>4 DEF JobStarts, JobGivesUp, JobReceived, JobReports
  <2> QED BY <1>8, <2>1, <2>2, <2>3, <2>4, <2>5 DEF Download
<1>9. CASE Preflight
  <2>1. CASE PreflightBegins
    <3>1. ReadMarker \/ Discard \/ UNCHANGED flash
      BY <2>1 DEF PreflightBegins
    <3> QED BY <2>1, <3>1, DiscardFlash DEF PreflightBegins
  <2>2. CASE PreflightEnds BY <2>2, DiscardFlash DEF PreflightEnds
  <2>3. CASE PreflightDeselects BY <2>3 DEF PreflightDeselects, Deselect, SetBoot
  <2>4. CASE PreflightClears BY <2>4, MarkerStep DEF PreflightClears, ClearMarker
  <2>5. CASE PreflightErases BY <2>5 DEF PreflightErases, Erase, Broken, Target
  <2>6. CASE PreflightHashes \/ PreflightMarks \/ PreflightCompares
    BY <2>6 DEF PreflightHashes, PreflightMarks, PreflightCompares
  <2> QED BY <1>9, <2>1, <2>2, <2>3, <2>4, <2>5, <2>6 DEF Preflight
<1>10. CASE Button
  <2>1. CASE SuspendServices \/ StartJob \/ ShutDown
    BY <2>1 DEF SuspendServices, StartJob, ShutDown
  <2>2. CASE SelectBoot BY <2>2 DEF SelectBoot, SetBoot, Target
  <2>3. CASE ClearSelected \/ DeleteClears
    <3>1. ClearMarker /\ UNCHANGED <<slot, boot, otaState, start, jobVersion>>
      BY <2>3 DEF ClearSelected, DeleteClears
    <3>2. marker' \in Marker
      BY <3>1, MarkerStep DEF ClearMarker
    <3> QED BY <3>1, <3>2
  <2>4. CASE RestartSelected BY <2>4, RestartFlash DEF RestartSelected
  <2>5. CASE DeleteDeselects BY <2>5 DEF DeleteDeselects, Deselect, SetBoot
  <2>6. CASE DeleteErases BY <2>6 DEF DeleteErases, Erase, Broken, Target
  <2>7. CASE Deleted BY <2>7, DiscardFlash DEF Deleted
  <2> QED BY <1>10, <2>1, <2>2, <2>3, <2>4, <2>5, <2>6, <2>7 DEF Button
<1>11. CASE UNCHANGED vars BY <1>11 DEF vars, tasks
<1> QED BY <1>1, <1>2, <1>3, <1>4, <1>5, <1>6, <1>7, <1>8, <1>9, <1>10, <1>11 DEF Next

LEMMA TypeInit == Init => TypeOK
<1> SUFFICES ASSUME Init PROVE TypeOK OBVIOUS
<1>1. FlashOK BY UpdateAssumption DEF Init, FlashOK, Marker, Slot, Version, Broken
<1>2. TasksOK BY DEF Init, TasksOK
<1>3. FlagsOK BY Zenon DEF Init, FlagsOK
<1> QED BY <1>1, <1>2, <1>3, TypeParts

\* Type correctness of the firmware update.
THEOREM UpdateTypeCorrect == Spec => []TypeOK
<1>1. TypeOK /\ [Next]_vars => TypeOK'
  <2> SUFFICES ASSUME TypeOK, [Next]_vars PROVE TypeOK' OBVIOUS
  <2>1. FlashOK' BY TypeParts, FlashStep
  <2>2. TasksOK' BY TypeParts, TasksStep
  <2>3. FlagsOK' BY TypeParts, FlagsStep
  <2> QED BY <2>1, <2>2, <2>3 DEF TypeOK, FlashOK, TasksOK, FlagsOK
<1> QED BY <1>1, TypeInit, PTL DEF Spec

-----------------------------------------------------------------------------
(* What may be started next *)

\* A download that has read its manifest; and one whose image is in the slot while
\* the marker still names the version of an earlier one.
Staging == {"open", "transfer", "verify", "flag", "partition", "version", "digest"}
Written == {"flag", "partition", "version"}

\* A download is of a newer image; and a slot that is selected, or whose image
\* counts or is about to count as verified, holds a newer image if any.
NewerAhead ==
  /\ job \in Staging => jobVersion > Current
  /\ boot = Target \/ verified \/ preflight = "mark"
     => (Intact(slot[Target]) => slot[Target] > Current)

\* However little of a marker was written: if both slots hold an image, one of them
\* is at least of the version that the marker names, which versions released since
\* only exceed.  An image that is newer than the running one by its marker and whose
\* digest is the recorded one is therefore newer indeed.
RecordOK ==
  /\ marker.version <= published
  /\ job \in Staging => marker.version <= jobVersion /\ jobVersion <= published
  /\ job \in Written => (Intact(slot[Target]) => slot[Target] = jobVersion)
  /\ (\A s \in Slot : Intact(slot[s])) => \E s \in Slot : slot[s] >= marker.version

UpdateInv == TypeOK /\ AlwaysBootable /\ NewerAhead /\ RecordOK

\* What every step but a restart keeps to: the running slot stays as it is, the
\* other one is emptied, written to or gets the image of the download, it is selected
\* or taken for verified only if that was so or its image is newer, and the marker
\* gets no version but that of the download.
Harmless ==
  /\ running' = running /\ slot'[running] = slot[running] /\ published' >= published
  /\ \/ slot'[Target] \in {slot[Target], Broken, Partial}
     \/ job = "verify" /\ slot'[Target] = jobVersion
  /\ boot' = Target \/ verified' \/ preflight' = "mark"
     => boot = Target \/ verified \/ preflight = "mark" \/ slot[Target] > Current
  /\ job' \in Staging => \/ job \in Staging /\ jobVersion' = jobVersion
                         \/ job = "manifest" /\ jobVersion' > Current /\ jobVersion' = published'
  /\ job' \in Written => job \in Written \/ slot'[Target] = jobVersion'
  /\ \/ marker'.version = marker.version
     \/ job = "version" /\ marker'.version = jobVersion

LEMMA HarmlessStep == ASSUME UpdateInv, TypeOK', Harmless
                      PROVE  AlwaysBootable' /\ NewerAhead' /\ RecordOK'
<1>1. AlwaysBootable'
  BY DEF UpdateInv, Harmless, AlwaysBootable, Intact
<1>2. Target' = Target /\ Current' = Current
  BY DEF Harmless, Target, Current
<1>3. ~Intact(Broken) /\ ~Intact(Partial)
  BY UpdateAssumption DEF Intact, Broken, Partial, Version
<1>4. NewerAhead'
  BY <1>2, <1>3 DEF UpdateInv, Harmless, NewerAhead, Intact, Staging
<1>5. RecordOK'
  <2> USE UpdateAssumption DEF UpdateInv, TypeOK, Version, Marker
  <2>1. marker'.version <= published'
    BY DEF Harmless, RecordOK, Staging
  <2>2. job' \in Staging => marker'.version <= jobVersion' /\ jobVersion' <= published'
    BY <2>1 DEF Harmless, RecordOK, Staging
  <2>3. job' \in Written => (Intact(slot'[Target]) => slot'[Target] = jobVersion')
    BY <1>3 DEF Harmless, RecordOK, Intact, Staging, Written
  <2>4. ASSUME \A s \in Slot : Intact(slot'[s])
        PROVE  \E s \in Slot : slot'[s] >= marker'.version
    <3>1. Target \in Slot /\ running \in Slot /\ Slot = {running, Target}
      BY DEF Target, Other, Slot
    <3>2. Intact(slot[running]) /\ slot'[running] = slot[running]
      BY DEF Harmless, AlwaysBootable
    <3>3. slot'[Target] = slot[Target] \/ (job = "verify" /\ slot'[Target] = jobVersion)
      BY <1>3, <2>4, <3>1 DEF Harmless, Intact
    <3>4. CASE slot'[Target] = slot[Target]
      <4>1. \A s \in Slot : Intact(slot[s])
        BY <2>4, <3>1, <3>2, <3>4 DEF Intact
      <4>2. PICK s \in Slot : slot[s] >= marker.version
        BY <4>1 DEF RecordOK
      <4>3. CASE marker'.version = marker.version
        BY <3>1, <3>2, <3>4, <4>2, <4>3
      <4>4. CASE job = "version" /\ marker'.version = jobVersion
        <5>1. slot[Target] = jobVersion
          BY <3>1, <4>1, <4>4 DEF RecordOK, Written
        <5> QED BY <3>1, <3>4, <4>4, <5>1
      <4> QED BY <4>3, <4>4 DEF Harmless
    <3>5. CASE job = "verify" /\ slot'[Target] = jobVersion
      <4>1. marker'.version = marker.version /\ marker.version <= jobVersion
        BY <3>5 DEF Harmless, RecordOK, Staging
      <4> QED BY <3>1, <3>5, <4>1
    <3> QED BY <3>3, <3>4, <3>5
  <2> QED BY <1>2, <2>1, <2>2, <2>3, <2>4, Zenon DEF RecordOK, Intact
<1> QED BY <1>1, <1>4, <1>5

LEMMA RestartStep == ASSUME UpdateInv, Restart
                     PROVE  AlwaysBootable' /\ NewerAhead' /\ RecordOK'
<1> USE OtherSlot DEF UpdateInv, TypeOK
<1>1. PICK first \in Slot :
        /\ boot' = first /\ running' = IF Intact(slot[first]) THEN first ELSE Other(first)
        /\ slot' = slot /\ job' = "idle" /\ verified' = FALSE /\ preflight' = "idle"
  BY DEF Restart, FreshRam
<1>2. AlwaysBootable'
  <2>1. CASE Intact(slot[first]) BY <1>1, <2>1 DEF AlwaysBootable, Intact
  <2>2. CASE ~Intact(slot[first])
    <3>1. running = Other(first) BY <1>1, <2>2 DEF AlwaysBootable
    <3> QED BY <1>1, <2>2, <3>1 DEF AlwaysBootable, Intact
  <2> QED BY <2>1, <2>2
<1>3. NewerAhead'
  <2>1. running' \in Slot /\ Target' = Other(running') BY <1>1 DEF Target
  <2>2. boot' = Target' => ~Intact(slot'[Target'])
    BY <1>1, <2>1 DEF Intact
  <2> QED BY <1>1, <2>2 DEF NewerAhead, Staging
<1>4. RecordOK'
  <2>1. UNCHANGED <<marker, published, slot>> /\ job' = "idle"
    BY DEF Restart, FreshRam
  <2> QED BY <2>1 DEF RecordOK, Staging, Written, Intact
<1> QED BY <1>2, <1>3, <1>4

LEMMA DiscardHarmless ==
  ASSUME UpdateInv, ReadMarker \/ Discard
  PROVE  /\ slot'[running] = slot[running] /\ slot'[Target] \in {slot[Target], Broken}
         /\ boot' = Target => boot = Target
         /\ verified' => verified
         /\ marker'.version = marker.version
<1> USE OtherSlot DEF UpdateInv, TypeOK
<1>1. Target \in Slot /\ Target # running BY DEF Target
<1>2. slot'[running] = slot[running] /\ slot'[Target] \in {slot[Target], Broken}
  BY <1>1 DEF ReadMarker, Discard, Erase, flash
<1>3. boot' = Target => boot = Target
  BY <1>1 DEF ReadMarker, Discard, Deselect, SetBoot, flash
<1>4. verified' => verified
  BY Zenon DEF ReadMarker, Discard, ClearMarker
<1>5. marker'.version = marker.version
  BY DEF ReadMarker, Discard, ClearMarker, flash, Marker
<1> QED BY <1>2, <1>3, <1>4, <1>5

LEMMA StepHarmless == ASSUME UpdateInv, Next PROVE Harmless \/ Restart
<1> USE OtherSlot DEF UpdateInv, TypeOK, flash, start, tasks, status, Marker, Version, Staging, Written
<1>0. Target \in Slot /\ Target # running /\ running \in Slot BY DEF Target
<1>1. CASE Release BY <1>1 DEF Release, Harmless
<1>2. CASE PowerLoss BY <1>2 DEF PowerLoss
<1>3. CASE InitServices BY <1>3, DiscardHarmless DEF InitServices, Harmless
<1>4. CASE Validate BY <1>0, <1>4 DEF Validate, Harmless, Erase
<1>5. CASE CheckForUpdate \/ Check
  BY <1>5 DEF CheckForUpdate, Check, CheckSuspends, CheckEnds, Harmless
<1>6. CASE SchedulePreflight BY <1>6, DiscardHarmless DEF SchedulePreflight, Harmless
<1>7. CASE Keys
  <2>1. CASE OpenPrompt BY <2>1, DiscardHarmless DEF OpenPrompt, Harmless
  <2>2. CASE ConfirmUpdate BY <2>2, DiscardHarmless DEF ConfirmUpdate, Harmless
  <2>3. CASE RequestUpdate \/ CancelUpdate \/ Defer \/ EnterApply \/ EnterDelete
    BY <2>3 DEF RequestUpdate, CancelUpdate, Defer, EnterApply, EnterDelete, Harmless
  <2> QED BY <1>7, <2>1, <2>2, <2>3 DEF Keys
<1>8. CASE Download
  <2>1. CASE JobWrites BY <1>0, <2>1 DEF JobWrites, Harmless
  <2>2. CASE JobVerified BY <1>0, <2>2 DEF JobVerified, Harmless, NewerAhead
  <2>3. CASE JobManifest BY <2>3 DEF JobManifest, Harmless, Newer
  <2>4. CASE JobFlags \/ JobStores BY <2>4 DEF JobFlags, JobStores, Harmless
  <2>5. CASE JobStarts \/ JobGivesUp \/ JobReceived \/ JobReports \/ JobEnds
    BY <2>5 DEF JobStarts, JobGivesUp, JobReceived, JobReports, JobEnds, Harmless
  <2> QED BY <1>8, <2>1, <2>2, <2>3, <2>4, <2>5 DEF Download
<1>9. CASE Preflight
  <2>1. CASE PreflightBegins
    <3>1. ReadMarker \/ Discard \/ UNCHANGED <<flash, verified>> \/ (UNCHANGED flash /\ ~verified')
      BY <2>1 DEF PreflightBegins
    <3>2. preflight' # "mark" /\ UNCHANGED <<running, job, jobVersion>>
      BY <2>1 DEF PreflightBegins, Fetch
    <3>3. marker'.version = marker.version /\ published' = published
      BY <2>1, <3>1, DiscardHarmless DEF PreflightBegins
    <3>4. /\ slot'[running] = slot[running] /\ slot'[Target] \in {slot[Target], Broken}
          /\ boot' = Target => boot = Target
          /\ verified' => verified
      BY <3>1, DiscardHarmless
    <3> QED BY <3>2, <3>3, <3>4 DEF Harmless
  <2>2. CASE PreflightHashes
    <3>1. ASSUME preflight' = "mark" PROVE slot[Target] > Current
      <4>1. marker.version > Current /\ slot[Target] = marker.digest
        BY <2>2, <3>1 DEF PreflightHashes, Newer
      <4>2. Slot = {running, Target} BY DEF Slot, Target, Other
      <4>3. \A s \in Slot : Intact(slot[s])
        BY <4>1, <4>2 DEF AlwaysBootable, Intact
      <4>4. PICK s \in Slot : slot[s] >= marker.version BY <4>3 DEF RecordOK
      <4> QED BY <1>0, <4>1, <4>2, <4>4, UpdateAssumption DEF Current
    <3> QED BY <2>2, <3>1 DEF PreflightHashes, Harmless
  <2>3. CASE PreflightMarks \/ PreflightCompares
    BY <2>3 DEF PreflightMarks, PreflightCompares, Fetch, Harmless
  <2>4. CASE PreflightDeselects BY <1>0, <2>4 DEF PreflightDeselects, Deselect, SetBoot, Harmless
  <2>5. CASE PreflightClears BY <2>5 DEF PreflightClears, ClearMarker, Harmless
  <2>6. CASE PreflightErases BY <1>0, <2>6 DEF PreflightErases, Erase, Harmless
  <2>7. CASE PreflightEnds BY <2>7, DiscardHarmless DEF PreflightEnds, Harmless
  <2> QED BY <1>9, <2>1, <2>2, <2>3, <2>4, <2>5, <2>6, <2>7 DEF Preflight
<1>10. CASE Button
  <2>1. CASE SuspendServices \/ StartJob \/ ShutDown
    BY <2>1 DEF SuspendServices, StartJob, ShutDown, Harmless
  <2>2. CASE SelectBoot BY <1>0, <2>2 DEF SelectBoot, SetBoot, Harmless
  <2>3. CASE ClearSelected \/ DeleteClears
    <3>1. marker'.version = marker.version /\ (verified' => verified)
      BY <2>3 DEF ClearSelected, DeleteClears, ClearMarker
    <3> QED BY <2>3, <3>1 DEF ClearSelected, DeleteClears, Harmless
  <2>4. CASE RestartSelected BY <2>4 DEF RestartSelected
  <2>5. CASE DeleteDeselects BY <1>0, <2>5 DEF DeleteDeselects, Deselect, SetBoot, Harmless
  <2>6. CASE DeleteErases BY <1>0, <2>6 DEF DeleteErases, Erase, Harmless
  <2>7. CASE Deleted BY <2>7, DiscardHarmless DEF Deleted, Harmless
  <2> QED BY <1>10, <2>1, <2>2, <2>3, <2>4, <2>5, <2>6, <2>7 DEF Button
<1> QED BY <1>1, <1>2, <1>3, <1>4, <1>5, <1>6, <1>7, <1>8, <1>9, <1>10 DEF Next

LEMMA UpdateInvariant == Spec => []UpdateInv
<1>1. Init => UpdateInv
  <2> SUFFICES ASSUME Init PROVE UpdateInv OBVIOUS
  <2>1. TypeOK BY TypeInit
  <2>2. AlwaysBootable BY UpdateAssumption DEF Init, AlwaysBootable, Intact, Version, Slot
  <2>3. NewerAhead
    BY UpdateAssumption DEF Init, NewerAhead, Staging, Target, Other, Slot, Intact, Broken, Version
  <2>4. RecordOK
    <3>1. ~Intact(slot["ota_1"]) /\ "ota_1" \in Slot
      BY UpdateAssumption DEF Init, Intact, Broken, Slot, Version
    <3>2. marker.version = 1 /\ published = 1 /\ job = "idle" BY DEF Init
    <3> QED BY <3>1, <3>2 DEF RecordOK, Staging, Written
  <2> QED BY <2>1, <2>2, <2>3, <2>4 DEF UpdateInv
<1>2. UpdateInv /\ TypeOK' /\ [Next]_vars => UpdateInv'
  <2> SUFFICES ASSUME UpdateInv, TypeOK', [Next]_vars PROVE UpdateInv' OBVIOUS
  <2>1. CASE Next
    BY <2>1, StepHarmless, HarmlessStep, RestartStep DEF UpdateInv
  <2>2. CASE UNCHANGED vars
    BY <2>2 DEF UpdateInv, TypeOK, AlwaysBootable, NewerAhead, RecordOK, Target, Current,
       Intact, vars, flash, start, tasks, status
  <2> QED BY <2>1, <2>2
<1> QED BY <1>1, <1>2, UpdateTypeCorrect, PTL DEF Spec

\* There is always an image to start.
THEOREM UpdateBootable == Spec => []AlwaysBootable
BY UpdateInvariant, PTL DEF UpdateInv

\* Only a restart changes the slot that runs, and it follows the selected slot,
\* unless that one holds no image or was on trial.
THEOREM UpdateOnlyNewer == Spec => OnlyNewerOrRollback
<1>1. UpdateInv /\ [Next]_vars
      => [running' # running => slot[running'] > Current \/ Unconfirmed]_vars
  <2> SUFFICES ASSUME UpdateInv, Next, running' # running
               PROVE  slot[running'] > Current \/ Unconfirmed
    OBVIOUS
  <2> USE OtherSlot DEF UpdateInv, TypeOK
  <2>1. Restart BY StepHarmless DEF Harmless
  <2>2. CASE otaState[boot] = "PENDING_VERIFY"
    BY <2>1, <2>2 DEF Restart, Unconfirmed, AlwaysBootable
  <2>3. CASE otaState[boot] # "PENDING_VERIFY"
    <3>1. running' = boot /\ Intact(slot[boot])
      BY <2>1, <2>3 DEF Restart, AlwaysBootable
    <3>2. boot = Target BY <3>1 DEF Target
    <3> QED BY <3>1, <3>2 DEF NewerAhead
  <2> QED BY <2>2, <2>3
<1> QED BY <1>1, UpdateInvariant, PTL DEF Spec, OnlyNewerOrRollback
-----------------------------------------------------------------------------
(* Startup *)

\* The parts whose failures the start-up counts.
Part == {"CORE", "CONTROLLER", "BACKLIGHT", "ADC", "RECEIVER", "LCD", "TASKS", "BUTTONS",
         "GATES", "LCD_ACK", "ADC_DATA", "FAN", "ADC_WATCHDOG", "ADC_DRIVER"}

\* Every variable of the start-up keeps its type.
StartupTypeOK ==
  /\ main \in Label /\ bits \in SUBSET Bit /\ failures \in SUBSET Part
  /\ {systemReady, released, controller, receiver, buttons, fanDriver, fan, tach, lastResult,
      reported, dataValid, output} \subseteq BOOLEAN
  /\ test \in SUBSET {"LCD_ACK", "ADC_DATA", "FAN"}
  /\ adc \in {"RESET", "INITIALIZING", "RUNNING", "READY", "LATE", "FAILED", "DEAD"}
  /\ lcdTask \in {"none", "starting", "running"}
  /\ consumers \in SUBSET Required

\* The stages of the self-test, and those after the verdict.
Testing == {"testLcd", "testAdc", "testFan", "measure"}
Ended == {"verdict", "services", "publish", "show", "loop"}

\* Until a task is started it has not run, and what stops the start-up is not
\* survived by it.
BringUpOK ==
  /\ main \in {"core", "display"} => failures = {} /\ bits = {}
  /\ main \in {"core", "display", "adc", "halted"} => adc = "RESET"
  /\ main \in {"core", "display", "adc", "lcd", "halted"} => lcdTask = "none"
  /\ failures \cap {"CORE", "BACKLIGHT"} # {} => main = "halted"
  /\ "BUTTONS" \in failures => main = "restart"

\* A display task that runs had a controller, and nobody else says that the
\* display is ready.
LcdOK ==
  /\ main \in {"core", "display", "adc", "lcd"} => "LCD" \notin failures
  /\ "CONTROLLER" \in failures => ~controller
  /\ lcdTask # "none" => controller /\ "LCD" \notin failures
  /\ "LCD_READY" \in bits => lcdTask = "running"

\* An ADC that failed, or whose task ended, never becomes ready; one that is
\* ready has reported it, and cannot be late any more.
AdcOK ==
  /\ failures \cap {"ADC", "ADC_DRIVER"} # {} => adc = "FAILED"
  /\ "ADC_WATCHDOG" \in failures => adc = "DEAD"
  /\ adc = "READY" => reported

\* The receiver and the consumers are complete exactly if none failed.
PartsOK ==
  /\ main \notin {"core", "display", "adc", "lcd", "halted", "restart"}
       => (receiver <=> "RECEIVER" \notin failures)
  /\ main \in {"core", "display", "adc", "lcd"} => "RECEIVER" \notin failures
  /\ main \in {"core", "display", "adc", "lcd", "tasks"} => "TASKS" \notin failures
  /\ main \in Testing \cup Ended \cup {"wait", "buttons"}
       => (consumers = Required <=> "TASKS" \notin failures)

\* The test notes exactly the parts that failed it, but for a fan that it
\* cannot test at all; it only begins with a display and passes only with data.
TestOK ==
  /\ main \notin Testing \cup Ended => test = {}
  /\ main = "testLcd" => test = {}
  /\ failures \cap {"LCD_ACK", "ADC_DATA"} = test \cap {"LCD_ACK", "ADC_DATA"}
  /\ "FAN" \in failures => "FAN" \in test
  /\ "FAN" \in test => "FAN" \in failures \/ ~fanDriver
  /\ main \in {"testLcd", "testAdc"} => "ADC_DATA" \notin test
  /\ main \in Testing => "LCD_READY" \in bits /\ "FAN" \notin test /\ "GATES" \notin failures
  /\ main \in {"testFan", "measure"} /\ "ADC_DATA" \notin test => adc = "READY"
  /\ main = "measure" => fanDriver

\* The published result is that of a whole test behind open gates.
VerdictOK ==
  /\ "GATES" \in failures => main \in Ended
  /\ main \notin Ended => ~lastResult
  /\ lastResult => test = {} /\ adc = "READY" /\ lcdTask = "running" /\ fanDriver
                   /\ "GATES" \notin failures
  /\ main \in Ended /\ "GATES" \notin failures /\ test = {} => lastResult

\* From the publication on system_ready is the verdict, and the panel is
\* released, and the output switched, only after it.
EndOK ==
  /\ main \in {"show", "loop"} => (systemReady <=> Healthy)
  /\ released => main = "loop"
  /\ output => main = "loop" /\ systemReady

StartupInv == StartupTypeOK /\ BringUpOK /\ LcdOK /\ AdcOK /\ PartsOK /\ TestOK /\ VerdictOK /\ EndOK

\* One lemma for each part of the invariant: no step of the start-up, of the
\* tasks it waits for or of the power button breaks it.
LEMMA StartupTypeStep == StartupInv /\ [StartupNext]_startupVars => StartupTypeOK'
<1>. SUFFICES ASSUME StartupInv, [StartupNext]_startupVars PROVE StartupTypeOK'
  OBVIOUS
<1>. USE DEF StartupInv, StartupTypeOK, Label, Bit, Part,
             At, Goto, Fails, Note, Passes, Testing, Ended, panel, fans, tests, adcs, parts
<1>1. CASE Core \/ Display \/ StartAdc
  BY <1>1 DEF Core, Display, StartAdc
<1>2. CASE StartLcd \/ StartTasks \/ StartButtons
  BY <1>2 DEF StartLcd, StartTasks, StartButtons
<1>3. CASE Wait
  BY <1>3 DEF Wait, Look, TimeOut, PassGates, Ready, Failed
<1>4. CASE TestLcd \/ TestAdc \/ FanPrepare
  BY <1>4 DEF TestLcd, TestAdc, FanPrepare
<1>5. CASE FanPrepareFails \/ FanMeasure
  BY <1>5 DEF FanPrepareFails, Conclude, FanMeasure
<1>6. CASE Finish
  BY <1>6 DEF Finish, Services, Publish, ReleasePanel, Healthy
<1>7. CASE Reboot
  BY <1>7 DEF Reboot
<1>8. CASE AdcBegins
  BY <1>8 DEF AdcBegins
<1>9. CASE AdcCycle
  BY <1>9 DEF AdcCycle
<1>10. CASE LcdBegins
  BY <1>10 DEF LcdBegins
<1>11. CASE Press
  BY <1>11 DEF Press
<1>12. CASE UNCHANGED startupVars
  BY <1>12 DEF startupVars
<1>. QED
BY <1>1, <1>2, <1>3, <1>4, <1>5, <1>6, <1>7, <1>8, <1>9, <1>10, <1>11, <1>12 DEF
     StartupNext, AppMain, SelfTest

LEMMA BringUpStep == StartupInv /\ [StartupNext]_startupVars => BringUpOK'
<1>. SUFFICES ASSUME StartupInv, [StartupNext]_startupVars PROVE BringUpOK'
  OBVIOUS
<1>. USE DEF StartupInv, StartupTypeOK, Label, Bit, Part, BringUpOK, AdcOK,
             At, Goto, Fails, Note, Passes, Testing, Ended, panel, fans, tests, adcs, parts
<1>1. CASE Core \/ Display \/ StartAdc
  BY <1>1 DEF Core, Display, StartAdc
<1>2. CASE StartLcd \/ StartTasks \/ StartButtons
  BY <1>2 DEF StartLcd, StartTasks, StartButtons
<1>3. CASE Wait
  BY <1>3 DEF Wait, Look, TimeOut, PassGates, Ready, Failed
<1>4. CASE TestLcd \/ TestAdc \/ FanPrepare
  BY <1>4 DEF TestLcd, TestAdc, FanPrepare
<1>5. CASE FanPrepareFails \/ FanMeasure
  BY <1>5 DEF FanPrepareFails, Conclude, FanMeasure
<1>6. CASE Finish \/ Reboot
  BY <1>6 DEF Finish, Services, Publish, ReleasePanel, Healthy, Reboot
<1>7. CASE AdcBegins \/ AdcCycle \/ LcdBegins
  BY <1>7 DEF AdcBegins, AdcCycle, LcdBegins
<1>8. CASE Press \/ UNCHANGED startupVars
  BY <1>8 DEF Press, startupVars
<1>. QED
  BY <1>1, <1>2, <1>3, <1>4, <1>5, <1>6, <1>7, <1>8 DEF StartupNext, AppMain, SelfTest

LEMMA LcdStep == StartupInv /\ [StartupNext]_startupVars => LcdOK'
<1>. SUFFICES ASSUME StartupInv, [StartupNext]_startupVars PROVE LcdOK'
  OBVIOUS
<1>. USE DEF StartupInv, StartupTypeOK, Label, Bit, Part, LcdOK, BringUpOK,
             At, Goto, Fails, Note, Passes, Testing, Ended, panel, fans, tests, adcs, parts
<1>1. CASE Core \/ Display \/ StartAdc
  BY <1>1 DEF Core, Display, StartAdc
<1>2. CASE StartLcd \/ StartTasks \/ StartButtons
  BY <1>2 DEF StartLcd, StartTasks, StartButtons
<1>3. CASE Wait
  BY <1>3 DEF Wait, Look, TimeOut, PassGates, Ready, Failed
<1>4. CASE TestLcd \/ TestAdc \/ FanPrepare
  BY <1>4 DEF TestLcd, TestAdc, FanPrepare
<1>5. CASE FanPrepareFails \/ FanMeasure
  BY <1>5 DEF FanPrepareFails, Conclude, FanMeasure
<1>6. CASE Finish \/ Reboot
  BY <1>6 DEF Finish, Services, Publish, ReleasePanel, Healthy, Reboot
<1>7. CASE AdcBegins \/ AdcCycle \/ LcdBegins
  BY <1>7 DEF AdcBegins, AdcCycle, LcdBegins
<1>8. CASE Press \/ UNCHANGED startupVars
  BY <1>8 DEF Press, startupVars
<1>. QED
  BY <1>1, <1>2, <1>3, <1>4, <1>5, <1>6, <1>7, <1>8 DEF StartupNext, AppMain, SelfTest

LEMMA AdcStep == StartupInv /\ [StartupNext]_startupVars => AdcOK'
<1>. SUFFICES ASSUME StartupInv, [StartupNext]_startupVars PROVE AdcOK'
  OBVIOUS
<1>. USE DEF StartupInv, StartupTypeOK, Label, Bit, Part, AdcOK, BringUpOK,
             At, Goto, Fails, Note, Passes, Testing, Ended, panel, fans, tests, adcs, parts
<1>1. CASE Core \/ Display \/ StartAdc
  BY <1>1 DEF Core, Display, StartAdc
<1>2. CASE StartLcd \/ StartTasks \/ StartButtons
  BY <1>2 DEF StartLcd, StartTasks, StartButtons
<1>3. CASE Wait
  BY <1>3 DEF Wait, Look, TimeOut, PassGates, Ready, Failed
<1>4. CASE TestLcd \/ TestAdc \/ FanPrepare
  BY <1>4 DEF TestLcd, TestAdc, FanPrepare
<1>5. CASE FanPrepareFails \/ FanMeasure
  BY <1>5 DEF FanPrepareFails, Conclude, FanMeasure
<1>6. CASE Finish \/ Reboot
  BY <1>6 DEF Finish, Services, Publish, ReleasePanel, Healthy, Reboot
<1>7. CASE AdcBegins \/ AdcCycle \/ LcdBegins
  BY <1>7 DEF AdcBegins, AdcCycle, LcdBegins
<1>8. CASE Press \/ UNCHANGED startupVars
  BY <1>8 DEF Press, startupVars
<1>. QED
  BY <1>1, <1>2, <1>3, <1>4, <1>5, <1>6, <1>7, <1>8 DEF StartupNext, AppMain, SelfTest

LEMMA PartsStep == StartupInv /\ [StartupNext]_startupVars => PartsOK'
<1>. SUFFICES ASSUME StartupInv, [StartupNext]_startupVars PROVE PartsOK'
  OBVIOUS
<1>. USE DEF StartupInv, StartupTypeOK, Label, Bit, Part, PartsOK, BringUpOK,
             At, Goto, Fails, Note, Passes, Testing, Ended, panel, fans, tests, adcs, parts
<1>1. CASE Core \/ Display \/ StartAdc
  BY <1>1 DEF Core, Display, StartAdc
<1>2. CASE StartLcd \/ StartTasks \/ StartButtons
  BY <1>2 DEF StartLcd, StartTasks, StartButtons
<1>3. CASE Wait
  BY <1>3 DEF Wait, Look, TimeOut, PassGates, Ready, Failed
<1>4. CASE TestLcd \/ TestAdc \/ FanPrepare
  BY <1>4 DEF TestLcd, TestAdc, FanPrepare
<1>5. CASE FanPrepareFails \/ FanMeasure
  BY <1>5 DEF FanPrepareFails, Conclude, FanMeasure
<1>6. CASE Finish \/ Reboot
  BY <1>6 DEF Finish, Services, Publish, ReleasePanel, Healthy, Reboot
<1>7. CASE AdcBegins \/ AdcCycle \/ LcdBegins
  BY <1>7 DEF AdcBegins, AdcCycle, LcdBegins
<1>8. CASE Press \/ UNCHANGED startupVars
  BY <1>8 DEF Press, startupVars
<1>. QED
  BY <1>1, <1>2, <1>3, <1>4, <1>5, <1>6, <1>7, <1>8 DEF StartupNext, AppMain, SelfTest

LEMMA TestStep == StartupInv /\ [StartupNext]_startupVars => TestOK'
<1>. SUFFICES ASSUME StartupInv, [StartupNext]_startupVars PROVE TestOK'
  OBVIOUS
<1>. USE DEF StartupInv, StartupTypeOK, Label, Bit, Part, TestOK, LcdOK, AdcOK, VerdictOK,
             At, Goto, Fails, Note, Passes, Testing, Ended, panel, fans, tests, adcs, parts
<1>1. CASE Core \/ Display \/ StartAdc
  BY <1>1 DEF Core, Display, StartAdc
<1>2. CASE StartLcd \/ StartTasks \/ StartButtons
  BY <1>2 DEF StartLcd, StartTasks, StartButtons
<1>3. CASE Wait
  BY <1>3 DEF Wait, Look, TimeOut, PassGates, Ready, Failed
<1>4. CASE TestLcd \/ TestAdc \/ FanPrepare
  BY <1>4 DEF TestLcd, TestAdc, FanPrepare
<1>5. CASE FanPrepareFails \/ FanMeasure
  BY <1>5 DEF FanPrepareFails, Conclude, FanMeasure
<1>6. CASE Finish
  BY <1>6 DEF Finish, Services, Publish, ReleasePanel, Healthy
<1>7. CASE Reboot
  BY <1>7 DEF Reboot
<1>8. CASE AdcBegins
  BY <1>8 DEF AdcBegins
<1>9. CASE AdcCycle
  BY <1>9 DEF AdcCycle
<1>10. CASE LcdBegins
  BY <1>10 DEF LcdBegins
<1>11. CASE Press
  BY <1>11 DEF Press
<1>12. CASE UNCHANGED startupVars
  BY <1>12 DEF startupVars
<1>. QED
BY <1>1, <1>2, <1>3, <1>4, <1>5, <1>6, <1>7, <1>8, <1>9, <1>10, <1>11, <1>12 DEF
     StartupNext, AppMain, SelfTest

LEMMA VerdictStep == StartupInv /\ [StartupNext]_startupVars => VerdictOK'
<1>. SUFFICES ASSUME StartupInv, [StartupNext]_startupVars PROVE VerdictOK'
  OBVIOUS
<1>. USE DEF StartupInv, StartupTypeOK, Label, Bit, Part, VerdictOK, TestOK, LcdOK, AdcOK,
             At, Goto, Fails, Note, Passes, Testing, Ended, panel, fans, tests, adcs, parts
<1>1. CASE Core \/ Display \/ StartAdc
  BY <1>1 DEF Core, Display, StartAdc
<1>2. CASE StartLcd \/ StartTasks \/ StartButtons
  BY <1>2 DEF StartLcd, StartTasks, StartButtons
<1>3. CASE Wait
  BY <1>3 DEF Wait, Look, TimeOut, PassGates, Ready, Failed
<1>4. CASE TestLcd \/ TestAdc \/ FanPrepare
  BY <1>4 DEF TestLcd, TestAdc, FanPrepare
<1>5. CASE FanPrepareFails \/ FanMeasure
  BY <1>5 DEF FanPrepareFails, Conclude, FanMeasure
<1>6. CASE Finish
  <2>1. /\ main \in Ended /\ main' \in Ended
        /\ UNCHANGED <<failures, test, lastResult, adc, lcdTask, fanDriver>>
    BY <1>6 DEF Finish, Services, Publish, ReleasePanel
  <2>. QED
    BY <2>1
<1>7. CASE Reboot
  BY <1>7 DEF Reboot
<1>8. CASE AdcBegins
  BY <1>8 DEF AdcBegins
<1>9. CASE AdcCycle
  BY <1>9 DEF AdcCycle
<1>10. CASE LcdBegins
  BY <1>10 DEF LcdBegins
<1>11. CASE Press
  BY <1>11 DEF Press
<1>12. CASE UNCHANGED startupVars
  BY <1>12 DEF startupVars
<1>. QED
BY <1>1, <1>2, <1>3, <1>4, <1>5, <1>6, <1>7, <1>8, <1>9, <1>10, <1>11, <1>12 DEF
     StartupNext, AppMain, SelfTest

LEMMA EndStep == StartupInv /\ [StartupNext]_startupVars => EndOK'
<1>. SUFFICES ASSUME StartupInv, [StartupNext]_startupVars PROVE EndOK'
  OBVIOUS
<1>. USE DEF StartupInv, StartupTypeOK, Label, Bit, Part, EndOK, VerdictOK,
             At, Goto, Fails, Note, Passes, Testing, Ended, panel, fans, tests, adcs, parts
<1>1. CASE Core \/ Display \/ StartAdc
  BY <1>1 DEF Core, Display, StartAdc, Healthy
<1>2. CASE StartLcd \/ StartTasks \/ StartButtons
  BY <1>2 DEF StartLcd, StartTasks, StartButtons, Healthy
<1>3. CASE Wait
  BY <1>3 DEF Wait, Look, TimeOut, PassGates, Ready, Failed, Healthy
<1>4. CASE TestLcd \/ TestAdc \/ FanPrepare
  BY <1>4 DEF TestLcd, TestAdc, FanPrepare, Healthy
<1>5. CASE FanPrepareFails \/ FanMeasure
  BY <1>5 DEF FanPrepareFails, Conclude, FanMeasure, Healthy
<1>6. CASE Finish \/ Reboot
  BY <1>6 DEF Finish, Services, Publish, ReleasePanel, Healthy, Reboot
<1>7. CASE AdcBegins \/ AdcCycle \/ LcdBegins
  BY <1>7 DEF AdcBegins, AdcCycle, LcdBegins, Healthy
<1>8. CASE Press \/ UNCHANGED startupVars
  BY <1>8 DEF Press, startupVars, Healthy
<1>. QED
  BY <1>1, <1>2, <1>3, <1>4, <1>5, <1>6, <1>7, <1>8 DEF StartupNext, AppMain, SelfTest

LEMMA StartupInitial == StartupInit => StartupInv
<1>. SUFFICES ASSUME StartupInit PROVE StartupInv
  OBVIOUS
<1>1. StartupTypeOK /\ BringUpOK /\ LcdOK /\ AdcOK
  BY FanDriverAssumption DEF StartupInit, StartupTypeOK, BringUpOK, LcdOK, AdcOK, Label
<1>2. PartsOK /\ TestOK /\ VerdictOK /\ EndOK
  BY DEF StartupInit, PartsOK, TestOK, VerdictOK, EndOK, Testing, Ended
<1>. QED
  BY <1>1, <1>2 DEF StartupInv

LEMMA StartupInvariant == StartupSpec => []StartupInv
<1>1. StartupInv /\ [StartupNext]_startupVars => StartupInv'
  BY StartupTypeStep, BringUpStep, LcdStep, AdcStep, PartsStep, TestStep, VerdictStep, EndStep
     DEF StartupInv
<1>. QED
  BY <1>1, StartupInitial, PTL DEF StartupSpec

\* After the verdict the start-up is healthy exactly if nothing failed in it.
LEMMA HealthyIsExact ==
  ASSUME StartupInv, main \in Ended
  PROVE  Healthy <=> fanDriver /\ failures = {}
<1>1. ASSUME Healthy PROVE fanDriver /\ failures = {}
  <2>1. fanDriver /\ test = {} /\ adc = "READY" /\ lcdTask = "running" /\ "GATES" \notin failures
    BY <1>1 DEF Healthy, StartupInv, VerdictOK
  <2>2. failures \cap {"CORE", "BACKLIGHT", "BUTTONS", "RECEIVER", "TASKS"} = {}
    BY <1>1 DEF Healthy, StartupInv, BringUpOK, PartsOK, Ended
  <2>3. failures \cap {"CONTROLLER", "LCD", "ADC", "ADC_DRIVER", "ADC_WATCHDOG"} = {}
    BY <2>1 DEF StartupInv, LcdOK, AdcOK
  <2>4. failures \cap {"LCD_ACK", "ADC_DATA", "FAN"} = {}
    BY <2>1 DEF StartupInv, TestOK
  <2>. QED
    BY <2>1, <2>2, <2>3, <2>4 DEF StartupInv, StartupTypeOK, Part
<1>2. ASSUME fanDriver, failures = {} PROVE Healthy
  <2>1. test = {}
    BY <1>2 DEF StartupInv, StartupTypeOK, TestOK
  <2>. QED
    BY <1>2, <2>1 DEF Healthy, StartupInv, StartupTypeOK, PartsOK, VerdictOK, Ended
<1>. QED
  BY <1>1, <1>2

\* In the main loop system_ready says that no part failed on the way to it,
\* whatever consumers are required.
THEOREM VerdictIsExact == StartupSpec => []VerdictExact
<1>1. StartupInv => VerdictExact
  BY HealthyIsExact DEF VerdictExact, At, StartupInv, EndOK, Ended
<1>. QED
  BY <1>1, StartupInvariant, PTL

\* However early the power button is held, the relay is only closed once the
\* start-up ended without a failure, and none comes after it.
THEOREM NoOutputBeforeHealthyStart == StartupSpec => []OutputOnlyAfterHealthyStart
<1>1. StartupInv => OutputOnlyAfterHealthyStart
  BY HealthyIsExact DEF OutputOnlyAfterHealthyStart, At, StartupInv, EndOK, Ended
<1>. QED
  BY <1>1, StartupInvariant, PTL
=============================================================================
