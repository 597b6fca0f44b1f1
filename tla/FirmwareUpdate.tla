--------------------------- MODULE FirmwareUpdate ---------------------------
(***************************************************************************)
(* The firmware update (src/ota, src/app_services.c, src/app_input.c): a   *)
(* check of the manifest, the download into the slot that is not running,  *)
(* its staging behind a marker in flash, the preflight that hashes what    *)
(* was staged, the selection of the slot for the next start and, in the    *)
(* image that then starts, its confirmation.  Four tasks work on it: the   *)
(* button task, the manifest check, the preflight and the download.  The   *)
(* power may fail at any time.                                             *)
(*                                                                         *)
(* What the LCD shows and the texts of s_ota_status are left out: a key is *)
(* pressed whenever some screen would take it.                             *)
(***************************************************************************)
EXTENDS Naturals

CONSTANTS
  MaxVersion,        \* bound on the versions released
  StorageCanFail     \* a write of the marker may fail

ASSUME UpdateAssumption == MaxVersion \in Nat \ {0} /\ StorageCanFail \in BOOLEAN

Slot == {"ota_0", "ota_1"}
Other(s) == IF s = "ota_0" THEN "ota_1" ELSE "ota_0"
Version == 1..MaxVersion
Broken == 0                    \* what a slot holds that was erased
Partial == MaxVersion + 1      \* ... or is being written
Intact(image) == image \in Version
Marker == [pending : BOOLEAN, slot : Slot, version : Version, digest : Version]

VARIABLES
  slot,         \* the image in each slot
  boot,         \* the slot selected for the next start
  otaState,     \* what otadata says of the image in each slot
  marker,       \* ota_pending in NVS: the staged image
  running,      \* the slot that runs
  phase,        \* how far the start is: boot, services, up
  published,    \* the version the manifest names
  verified,     \* s_pending_image_verified
  job, jobVersion,      \* the download task
  check,        \* the manifest check task
  preflight,    \* the task that looks at the staged image
  pc,           \* where the button task is
  busy,         \* s_ota_status says that a check or a download is under way
  confirm,      \* s_ota_status.confirmation_pending
  suspended     \* s_suspended_for_ota: the local network services are down

flash == <<slot, boot, otaState, marker>>
start == <<running, phase, published>>
tasks == <<job, jobVersion, check, preflight, pc>>
status == <<busy, confirm, suspended>>
vars == <<flash, start, verified, tasks, status>>

Target == Other(running)
Current == slot[running]
Up == phase = "up"

\* Mutant: the installed version counts as an update.
Newer_OrEqual(version) == version >= Current

\* ota_manifest_compare_versions with the running version.
Newer(version) == version > Current

Init ==
  /\ slot = [s \in Slot |-> IF s = "ota_0" THEN 1 ELSE Broken]
  /\ boot = "ota_0" /\ otaState = [s \in Slot |-> "VALID"]
  /\ marker = [pending |-> FALSE, slot |-> "ota_1", version |-> 1, digest |-> 1]
  /\ running = "ota_0" /\ phase = "up" /\ published = 1 /\ verified = FALSE
  /\ job = "idle" /\ jobVersion = 1 /\ check = "idle" /\ preflight = "idle"
  /\ pc = "idle" /\ busy = FALSE /\ confirm = FALSE /\ suspended = FALSE

-----------------------------------------------------------------------------
(* ESP-IDF: the bootloader and the operations on the boot slot *)

FreshRam ==
  /\ verified' = FALSE /\ job' = "idle" /\ jobVersion' = 1 /\ check' = "idle"
  /\ preflight' = "idle" /\ pc' = "idle"
  /\ busy' = FALSE /\ confirm' = FALSE /\ suspended' = FALSE

\* An image that restarts before it was confirmed is given up; a slot without
\* an image is passed over.
Restart ==
  LET gaveUp == otaState[boot] = "PENDING_VERIFY"
      first == IF gaveUp THEN Other(boot) ELSE boot
      runs == IF Intact(slot[first]) THEN first ELSE Other(first)
  IN  /\ boot' = first /\ running' = runs /\ phase' = "boot"
      /\ otaState' = [s \in Slot |->
           IF s = boot /\ gaveUp THEN "ABORTED"
           ELSE IF s = runs /\ otaState[s] = "NEW" THEN "PENDING_VERIFY" ELSE otaState[s]]
      /\ FreshRam /\ UNCHANGED <<slot, marker, published>>

\* esp_ota_set_boot_partition.
SetBoot(s) == boot' = s /\ otaState' = [otaState EXCEPT ![s] = "NEW"]

Unconfirmed == otaState[running] = "PENDING_VERIFY"

Release ==
  /\ published < MaxVersion /\ published' = published + 1
  /\ UNCHANGED <<flash, running, phase, verified, tasks, status>>

-----------------------------------------------------------------------------
(* The marker *)

\* ota_service_get_pending_version: a marker of the running slot, or of an
\* image that is not newer, does not count ...
MarkerOK == marker.pending /\ marker.slot # running /\ Newer(marker.version)

\* ota_service_clear_pending: only the flag is written.
ClearMarker ==
  /\ verified' = FALSE
  /\ \/ marker' = [marker EXCEPT !.pending = FALSE]
     \/ StorageCanFail /\ UNCHANGED marker

\* A slot still selected for the next start is deselected before it is erased.
Deselect == IF boot = Target THEN SetBoot(running) ELSE UNCHANGED <<boot, otaState>>

Erase(s) == slot' = [slot EXCEPT ![s] = Broken]

\* Mutant: the slot of the marker is erased whichever it is.
Discard_Running ==
  /\ ClearMarker
  /\ IF boot = marker.slot THEN SetBoot(running) ELSE UNCHANGED <<boot, otaState>>
  /\ IF marker'.pending THEN UNCHANGED slot ELSE Erase(marker.slot)

\* ota_pending_discard_partition, at once.
Discard ==
  /\ ClearMarker
  /\ IF marker.slot = running
     THEN UNCHANGED <<slot, boot, otaState>>
     ELSE Deselect /\ IF marker'.pending THEN UNCHANGED slot ELSE Erase(Target)

\* ... and is discarded by whoever reads it.
ReadMarker ==
  IF marker.pending /\ ~MarkerOK THEN Discard ELSE UNCHANGED <<flash, verified>>

-----------------------------------------------------------------------------
(* The start of an image *)

PowerLoss == Restart

\* app_services_init.
InitServices ==
  /\ phase = "boot" /\ phase' = "services" /\ ReadMarker
  /\ UNCHANGED <<running, published, tasks, status>>

\* ota_service_validate_running_app; main.c has set post_completed on every
\* path that gets here, whatever the result of the self-test.  An image that
\* was given up is erased.
Validate ==
  /\ phase = "services" /\ phase' = "up"
  /\ IF otaState[Target] = "ABORTED"
     THEN /\ otaState' = [s \in Slot |-> "VALID"] /\ Erase(Target)
     ELSE /\ otaState' = IF Unconfirmed THEN [otaState EXCEPT ![running] = "VALID"] ELSE otaState
          /\ UNCHANGED slot
  /\ UNCHANGED <<boot, marker, running, published, verified, tasks, status>>

-----------------------------------------------------------------------------
(* The manifest check *)

CheckForUpdate ==
  /\ Up /\ check = "idle" /\ ~busy
  /\ check' = "begin" /\ busy' = TRUE
  /\ UNCHANGED <<flash, start, verified, job, jobVersion, preflight, pc, confirm, suspended>>

\* With little memory left the network services make room for the check.
CheckSuspends ==
  /\ check = "begin"
  /\ \/ check' = "fetchAlone" /\ suspended' = TRUE
     \/ check' = "fetch" /\ UNCHANGED suspended
  /\ UNCHANGED <<flash, start, verified, job, jobVersion, preflight, pc, busy, confirm>>

CheckEnds ==
  /\ check \in {"fetch", "fetchAlone"} /\ check' = "idle" /\ busy' = FALSE
  /\ suspended' = (suspended /\ check = "fetch")
  /\ UNCHANGED <<flash, start, verified, job, jobVersion, preflight, pc, confirm>>

Check == CheckSuspends \/ CheckEnds

-----------------------------------------------------------------------------
(* The user asks for the update *)

Idle == Up /\ pc = "idle"

\* Of a check that found an update only the answer of the user is kept.
RequestUpdate ==
  /\ Idle /\ ~busy /\ confirm' = TRUE
  /\ UNCHANGED <<flash, start, verified, tasks, busy, suspended>>

\* An image already staged is offered again instead of being downloaded; without
\* a connection, memory or the address of the manifest nothing is.
ConfirmUpdate ==
  /\ Idle /\ confirm /\ ~MarkerOK /\ ReadMarker /\ confirm' = FALSE
  /\ \/ busy' = TRUE /\ pc' = "suspend"
     \/ busy' = FALSE /\ UNCHANGED pc
  /\ UNCHANGED <<start, job, jobVersion, check, preflight, suspended>>

SuspendServices ==
  /\ pc = "suspend" /\ suspended' = TRUE /\ pc' = "start"
  /\ UNCHANGED <<flash, start, verified, job, jobVersion, check, preflight, busy, confirm>>

\* queue_job: one download at a time.
StartJob ==
  /\ pc = "start" /\ pc' = "idle"
  /\ \/ job = "idle" /\ job' = "begin" /\ UNCHANGED <<busy, suspended>>
     \/ job' = job /\ busy' = FALSE /\ suspended' = FALSE
  /\ UNCHANGED <<flash, start, verified, jobVersion, check, preflight, confirm>>

\* A check and a download under way see the request later, if they still ask;
\* either then ends as if it had failed.
CancelUpdate ==
  /\ Idle /\ confirm' = FALSE /\ busy' = (busy /\ check = "idle" /\ ~confirm)
  /\ UNCHANGED <<flash, start, verified, tasks, suspended>>

-----------------------------------------------------------------------------
(* The download: ota_task and ota_download_firmware *)

JobStarts ==
  /\ job = "begin" /\ job' = "manifest" /\ busy' = TRUE
  /\ UNCHANGED <<flash, start, verified, jobVersion, check, preflight, pc, confirm, suspended>>

\* The connection, the memory or the image is at fault, or the user cancels.
JobGivesUp ==
  /\ job \in {"manifest", "open", "transfer", "verify"} /\ job' = "failed"
  /\ UNCHANGED <<flash, start, verified, jobVersion, check, preflight, pc, status>>

\* The manifest may name another version than the check found.
JobManifest ==
  /\ job = "manifest"
  /\ IF Newer(published) THEN job' = "open" /\ jobVersion' = published
                         ELSE job' = "failed" /\ UNCHANGED jobVersion
  /\ UNCHANGED <<flash, start, verified, check, preflight, pc, status>>

\* esp_ota_begin, which refuses an image that is not confirmed, and the writes
\* that follow: each sector is erased just before it is written.
JobWrites ==
  /\ job = "open" /\ ~Unconfirmed /\ job' = "transfer"
  /\ slot' = [slot EXCEPT ![Target] = Partial] /\ busy' = TRUE
  /\ UNCHANGED <<boot, otaState, marker, start, verified, jobVersion, check, preflight, pc,
                 confirm, suspended>>

JobReceived ==
  /\ job = "transfer" /\ job' = "verify" /\ busy' = TRUE
  /\ UNCHANGED <<flash, start, verified, jobVersion, check, preflight, pc, confirm, suspended>>

\* The digest agrees and esp_ota_end finds an image, which it does not after
\* an erasure under the transfer.
JobVerified ==
  /\ job = "verify" /\ slot[Target] = Partial /\ job' = "flag"
  /\ slot' = [slot EXCEPT ![Target] = jobVersion]
  /\ UNCHANGED <<boot, otaState, marker, start, verified, jobVersion, check, preflight, pc,
                 status>>

\* ota_pending_store: the flag is written before what it stands for.
JobFlags ==
  /\ job = "flag"
  /\ \/ job' = "partition" /\ marker' = [marker EXCEPT !.pending = TRUE]
     \/ StorageCanFail /\ job' = "failed" /\ UNCHANGED marker
  /\ UNCHANGED <<slot, boot, otaState, start, verified, jobVersion, check, preflight, pc,
                 status>>

\* ... the partition, the version and the digest with the size, one after the other.
JobStores ==
  /\ job \in {"partition", "version", "digest"}
  /\ \/ /\ job = "partition" /\ job' = "version"
        /\ marker' = [marker EXCEPT !.slot = Target] /\ UNCHANGED verified
     \/ /\ job = "version" /\ job' = "digest"
        /\ marker' = [marker EXCEPT !.version = jobVersion] /\ UNCHANGED verified
     \/ /\ job = "digest" /\ job' = "success"
        /\ marker' = [marker EXCEPT !.digest = jobVersion] /\ verified' = FALSE
     \/ StorageCanFail /\ job' = "failed" /\ UNCHANGED <<marker, verified>>
  /\ UNCHANGED <<slot, boot, otaState, start, jobVersion, check, preflight, pc, status>>

\* ota_status_callback with the status of the end.
JobReports ==
  /\ job \in {"success", "failed"} /\ job' = "done"
  /\ busy' = FALSE /\ confirm' = FALSE /\ suspended' = FALSE
  /\ UNCHANGED <<flash, start, verified, jobVersion, check, preflight, pc>>

\* What the job alone reads is forgotten with it.
JobEnds ==
  /\ job = "done" /\ job' = "idle" /\ jobVersion' = 1
  /\ UNCHANGED <<flash, start, verified, check, preflight, pc, status>>

Download ==
  \/ JobStarts \/ JobGivesUp \/ JobManifest \/ JobWrites \/ JobReceived \/ JobVerified
  \/ JobFlags \/ JobStores \/ JobReports \/ JobEnds

-----------------------------------------------------------------------------
(* The preflight: ota_pending_manifest_check_task *)

\* app_services_schedule_pending_manifest_check, by the download that ends or
\* by the boot reminder; not if the image was looked at before, or memory lacks.
SchedulePreflight ==
  /\ Up /\ ReadMarker
  /\ preflight' \in {preflight, IF MarkerOK /\ ~busy /\ preflight = "idle" THEN "begin" ELSE preflight}
  /\ UNCHANGED <<start, job, jobVersion, check, pc, status>>

\* The prompt of a staged image takes the place of what the status said.
OpenPrompt ==
  /\ Idle /\ ReadMarker /\ MarkerOK /\ busy' = FALSE
  /\ preflight' \in {preflight, IF preflight = "idle" THEN "begin" ELSE preflight}
  /\ UNCHANGED <<start, job, jobVersion, check, pc, confirm, suspended>>

\* BACK keeps it for later.
Defer ==
  /\ Idle /\ MarkerOK /\ busy' = FALSE /\ confirm' = FALSE
  /\ UNCHANGED <<flash, start, verified, tasks, suspended>>

\* Once verified, and if connected, it looks for a newer release; like the
\* manifest check, that may need the memory of the network services.
Fetch ==
  \/ preflight' = "fetchAlone" /\ suspended' = TRUE
  \/ preflight' \in {"fetch", "idle"} /\ UNCHANGED suspended

\* The hash is skipped for an image that counts as verified.
PreflightBegins ==
  /\ preflight = "begin"
  /\ IF verified /\ MarkerOK
     THEN Fetch /\ UNCHANGED <<flash, verified>>
     ELSE /\ UNCHANGED suspended
          /\ IF marker.pending /\ marker.slot # running
             THEN preflight' = "hash" /\ verified' = FALSE /\ UNCHANGED flash
             ELSE /\ preflight' = "end"
                  /\ IF marker.pending THEN Discard ELSE verified' = FALSE /\ UNCHANGED flash
  /\ UNCHANGED <<start, job, jobVersion, check, pc, busy, confirm>>

\* ota_pending_verify_image: the digest on record is of the image in the slot.
PreflightHashes ==
  /\ preflight = "hash"
  /\ preflight' = (IF Newer(marker.version) /\ slot[Target] = marker.digest
                   THEN "mark" ELSE "deselect")
  /\ UNCHANGED <<flash, start, verified, job, jobVersion, check, pc, status>>

PreflightMarks ==
  /\ preflight = "mark" /\ verified' = TRUE /\ Fetch
  /\ UNCHANGED <<flash, start, job, jobVersion, check, pc, busy, confirm>>

\* A staged image that a newer release overtook is discarded.
PreflightCompares ==
  /\ preflight \in {"fetch", "fetchAlone"}
  /\ suspended' = (suspended /\ preflight = "fetch")
  /\ \/ preflight' = "idle"
     \/ marker.pending /\ published > marker.version /\ preflight' = "deselect"
  /\ UNCHANGED <<flash, start, verified, job, jobVersion, check, pc, busy, confirm>>

\* ota_pending_discard_partition, in the three steps others come between.
PreflightDeselects ==
  /\ preflight = "deselect" /\ preflight' = "clear" /\ Deselect
  /\ UNCHANGED <<slot, marker, start, verified, job, jobVersion, check, pc, status>>

PreflightClears ==
  /\ preflight = "clear" /\ ClearMarker
  /\ preflight' = IF marker'.pending THEN "end" ELSE "erase"
  /\ UNCHANGED <<slot, boot, otaState, start, job, jobVersion, check, pc, status>>

PreflightErases ==
  /\ preflight = "erase" /\ preflight' = "end" /\ Erase(Target)
  /\ UNCHANGED <<boot, otaState, marker, start, verified, job, jobVersion, check, pc, status>>

\* If the image is gone the status says so, even if another was staged since.
PreflightEnds ==
  /\ preflight = "end" /\ preflight' = "idle" /\ ReadMarker
  /\ \/ MarkerOK /\ UNCHANGED <<busy, confirm>>
     \/ busy' = FALSE /\ confirm' = FALSE
  /\ UNCHANGED <<start, job, jobVersion, check, pc, suspended>>

Preflight ==
  \/ PreflightBegins \/ PreflightHashes \/ PreflightMarks \/ PreflightCompares
  \/ PreflightDeselects \/ PreflightClears \/ PreflightErases
  \/ PreflightEnds

-----------------------------------------------------------------------------
(* The user applies or deletes the staged image *)

\* ENTER applies an image that is verified and not just being looked at; the
\* inverter is shut down first, which takes its time.
EnterApply ==
  /\ Idle /\ MarkerOK /\ preflight = "idle" /\ verified /\ pc' = "stopping"
  /\ UNCHANGED <<flash, start, verified, job, jobVersion, check, preflight, status>>

ShutDown ==
  /\ pc = "stopping" /\ pc' \in {"select", "idle"}
  /\ UNCHANGED <<flash, start, verified, job, jobVersion, check, preflight, status>>

\* ota_service_select_pending_for_boot asks again; esp_ota_set_boot_partition
\* refuses a slot without an image.
SelectBoot ==
  /\ pc = "select"
  /\ IF verified /\ MarkerOK /\ Intact(slot[Target])
     THEN SetBoot(Target) /\ pc' = "clear"
     ELSE UNCHANGED <<boot, otaState>> /\ pc' = "idle"
  /\ verified' = (verified /\ ~(marker.pending /\ marker.slot # running /\ ~MarkerOK))
  /\ UNCHANGED <<slot, marker, start, job, jobVersion, check, preflight, status>>

ClearSelected ==
  /\ pc = "clear" /\ ClearMarker /\ pc' = "restart"
  /\ UNCHANGED <<slot, boot, otaState, start, job, jobVersion, check, preflight, status>>

RestartSelected == pc = "restart" /\ Restart

\* ENTER on the question whether to delete it: the same three steps.
EnterDelete ==
  /\ Idle /\ marker.pending
  /\ pc' = IF marker.slot = running THEN "deleteClear" ELSE "deselect"
  /\ UNCHANGED <<flash, start, verified, job, jobVersion, check, preflight, status>>

DeleteDeselects ==
  /\ pc = "deselect" /\ pc' = "deleteClear" /\ Deselect
  /\ UNCHANGED <<slot, marker, start, verified, job, jobVersion, check, preflight, status>>

DeleteClears ==
  /\ pc = "deleteClear" /\ ClearMarker
  /\ pc' = IF marker'.pending \/ marker.slot = running THEN "deleted" ELSE "erase"
  /\ UNCHANGED <<slot, boot, otaState, start, job, jobVersion, check, preflight, status>>

DeleteErases ==
  /\ pc = "erase" /\ pc' = "deleted" /\ Erase(Target)
  /\ UNCHANGED <<boot, otaState, marker, start, verified, job, jobVersion, check, preflight,
                 status>>

\* If the marker could not be cleared the status stays as it was.
Deleted ==
  /\ pc = "deleted" /\ pc' = "idle" /\ ReadMarker
  /\ \/ MarkerOK /\ UNCHANGED <<busy, confirm>>
     \/ busy' = FALSE /\ confirm' = FALSE
  /\ UNCHANGED <<start, job, jobVersion, check, preflight, suspended>>

\* What the button task goes on with once a key was pressed.
Button ==
  \/ SuspendServices \/ StartJob \/ ShutDown \/ SelectBoot \/ ClearSelected
  \/ RestartSelected \/ DeleteDeselects \/ DeleteClears \/ DeleteErases \/ Deleted

Keys ==
  \/ RequestUpdate \/ ConfirmUpdate \/ CancelUpdate \/ OpenPrompt \/ Defer \/ EnterApply
  \/ EnterDelete

-----------------------------------------------------------------------------
Next ==
  \/ Release \/ PowerLoss \/ InitServices \/ Validate \/ CheckForUpdate \/ SchedulePreflight
  \/ Keys \/ Check \/ Download \/ Preflight \/ Button

Spec == Init /\ [][Next]_vars

-----------------------------------------------------------------------------
TypeOK ==
  /\ slot \in [Slot -> 0..(MaxVersion + 1)] /\ boot \in Slot /\ running \in Slot
  /\ otaState \in [Slot -> {"NEW", "PENDING_VERIFY", "VALID", "ABORTED"}]
  /\ marker \in Marker
  /\ phase \in {"boot", "services", "up"} /\ published \in Version
  /\ verified \in BOOLEAN
  /\ job \in {"idle", "begin", "manifest", "open", "transfer", "verify", "flag", "partition",
              "version", "digest", "success", "failed", "done"}
  /\ jobVersion \in Version /\ check \in {"idle", "begin", "fetch", "fetchAlone"}
  /\ preflight \in {"idle", "begin", "hash", "mark", "fetch", "fetchAlone", "deselect",
                    "clear", "erase", "end"}
  /\ pc \in {"idle", "suspend", "start", "stopping", "select", "clear", "restart",
             "deselect", "deleteClear", "erase", "deleted"}
  /\ busy \in BOOLEAN /\ confirm \in BOOLEAN /\ suspended \in BOOLEAN

\* Whenever the power fails there is an image to start: the running slot is
\* never erased or written to, by a download, a discard or the start-up.
AlwaysBootable == Intact(slot[running])

\* Another image only runs because it is newer, or because the one that ran
\* restarted before it had confirmed itself.
OnlyNewerOrRollback ==
  [][running' # running => slot[running'] > Current \/ Unconfirmed]_vars
=============================================================================
