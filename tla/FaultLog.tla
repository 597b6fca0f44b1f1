------------------------------ MODULE FaultLog ------------------------------
(***************************************************************************)
(* The fault history (src/events/fault_log.c): a ring of entries in RAM    *)
(* under a mutex, and its copy in flash.  Any task may add an entry, and   *)
(* one that adds a fault flushes the whole ring to flash itself.  The      *)
(* mutex covers the ring but not a flush as a whole, so flushes of several *)
(* tasks overlap with each other and with additions.                       *)
(***************************************************************************)
EXTENDS Integers, FiniteSets

CONSTANTS
  Capacity,      \* FAULT_LOG_CAPACITY, 32 in the firmware
  Reporter,      \* the tasks that report faults: ADC, button, enforcer
  Button,        \* the reporter that also clears the log
  EventTask,     \* fault_log_event_task
  MaxEntry       \* bound on the entries ever added

ASSUME FaultLogAssumption ==
  /\ Capacity \in Nat \ {0} /\ MaxEntry \in Nat
  /\ Button \in Reporter /\ EventTask \notin Reporter

VARIABLES
  entries,       \* s_entries: the number of the entry in each slot, 0 if none
  head, count,   \* s_head, s_count
  dirty,         \* s_dirty
  nvs,           \* the blob in flash; without one, the empty blob
  pc, copy,      \* where each task is in a flush, and the blob it took
  added,         \* history: the number of entries added since first boot
  severe,        \* history: the entries of severity FAULT and above
  raced,         \* history: the log changed while a flush had its copy
  failed,        \* history: the last write to flash failed
  restoredFull   \* history: the ring was restored from a full blob

ring == <<entries, head, count>>
history == <<added, severe, raced, failed, restoredFull>>
vars == <<ring, dirty, nvs, pc, copy, history>>

Task == Reporter \cup {EventTask}
Slot == 0..Capacity - 1
Severity == {"INFO", "WARNING", "DERATED", "FAULT", "CRITICAL"}

\* The entries a full blob or ring holds; slots from count on are empty.
Blob == [count : 0..Capacity, entries : [Slot -> 0..MaxEntry]]
Ram == [count |-> count, entries |-> entries]
Empty == [count |-> 0, entries |-> [i \in Slot |-> 0]]
Holds(blob) == {blob.entries[i] : i \in Slot} \ {0}

Init ==
  /\ entries = Empty.entries /\ head = 0 /\ count = 0
  /\ dirty = FALSE /\ nvs = Empty
  /\ pc = [t \in Task |-> "idle"] /\ copy = [t \in Task |-> Empty]
  /\ added = 0 /\ severe = {}
  /\ raced = FALSE /\ failed = FALSE /\ restoredFull = FALSE

\* Some other task holds a copy of the ring, or is about to clear dirty.
Flushing == \E t \in Task : pc[t] \in {"write", "clean"}

-----------------------------------------------------------------------------
(* Adding and clearing, each under the mutex *)

\* The severity of an event's action in fault_log_add_event.
SeverityOf(action) ==
  CASE action = "WARNING" -> "WARNING"
    [] action = "DERATE" -> "DERATED"
    [] action = "SHUTDOWN" -> "FAULT"
    [] OTHER -> "INFO"

\* Mutant: a FAULT left to the timer.
FlushNow_CriticalOnly(severity) == severity = "CRITICAL"

NextSlot(slot) == (slot + 1) % Capacity
FlushNow(severity) == severity \in {"FAULT", "CRITICAL"}

\* The oldest entry of a full ring is overwritten; a fault is flushed at once.
Add(t, severity) ==
  /\ pc[t] = "idle" /\ added < MaxEntry
  /\ added' = added + 1
  /\ entries' = [entries EXCEPT ![head] = added + 1]
  /\ head' = NextSlot(head)
  /\ count' = IF count < Capacity THEN count + 1 ELSE count
  /\ dirty' = TRUE /\ raced' = (raced \/ Flushing)
  /\ severe' = IF severity \in {"FAULT", "CRITICAL"} THEN severe \cup {added + 1}
                                                     ELSE severe
  /\ pc' = [pc EXCEPT ![t] = IF FlushNow(severity) THEN "flush" ELSE "idle"]
  /\ UNCHANGED <<nvs, copy, failed, restoredFull>>

Report(t) == t \in Reporter /\ \E severity \in {"FAULT", "CRITICAL"} : Add(t, severity)

TakeEvent ==
  \E action \in {"WARNING", "DERATE", "SHUTDOWN", "RECOVERED"} :
    Add(EventTask, SeverityOf(action))

\* error_log_clear, from the menu.
Clear ==
  /\ pc[Button] = "idle"
  /\ entries' = Empty.entries /\ head' = 0 /\ count' = 0
  /\ dirty' = TRUE /\ raced' = (raced \/ Flushing)
  /\ restoredFull' = FALSE
  /\ pc' = [pc EXCEPT ![Button] = "flush"]
  /\ UNCHANGED <<nvs, copy, added, severe, failed>>

-----------------------------------------------------------------------------
(* fault_log_flush_to_nvs *)

\* No event for a second: the event task flushes what is dirty.
Tick ==
  /\ pc[EventTask] = "idle"
  /\ pc' = [pc EXCEPT ![EventTask] = "flush"]
  /\ UNCHANGED <<ring, dirty, nvs, copy, history>>

CheckDirty(t) ==
  /\ pc[t] = "flush"
  /\ pc' = [pc EXCEPT ![t] = IF dirty THEN "copy" ELSE "idle"]
  /\ UNCHANGED <<ring, dirty, nvs, copy, history>>

\* Mutant: the blob is cleared of dirty when it is taken, not when it is written.
Copy_CleansEarly(t) ==
  /\ pc[t] = "copy"
  /\ copy' = [copy EXCEPT ![t] = Ram] /\ dirty' = FALSE
  /\ pc' = [pc EXCEPT ![t] = "write"]
  /\ UNCHANGED <<ring, nvs, history>>

Copy(t) ==
  /\ pc[t] = "copy"
  /\ copy' = [copy EXCEPT ![t] = Ram]
  /\ pc' = [pc EXCEPT ![t] = "write"]
  /\ UNCHANGED <<ring, dirty, nvs, history>>

\* One flash transaction: it replaces the blob, or it fails and dirty stays.
Write(t) ==
  /\ pc[t] = "write"
  /\ nvs' = copy[t] /\ failed' = FALSE
  /\ copy' = [copy EXCEPT ![t] = Empty]
  /\ pc' = [pc EXCEPT ![t] = "clean"]
  /\ UNCHANGED <<ring, dirty, added, severe, raced, restoredFull>>

WriteFails(t) ==
  /\ pc[t] = "write"
  /\ failed' = TRUE
  /\ copy' = [copy EXCEPT ![t] = Empty]
  /\ pc' = [pc EXCEPT ![t] = "idle"]
  /\ UNCHANGED <<ring, dirty, nvs, added, severe, raced, restoredFull>>

Clean(t) ==
  /\ pc[t] = "clean"
  /\ dirty' = FALSE
  /\ pc' = [pc EXCEPT ![t] = "idle"]
  /\ UNCHANGED <<ring, nvs, copy, history>>

Flush(t) == CheckDirty(t) \/ Copy(t) \/ Write(t) \/ WriteFails(t) \/ Clean(t)

-----------------------------------------------------------------------------
(* The chip restarts, and fault_log_init restores the blob *)

\* Mutant: the next slot of a partly filled ring is taken for the first.
Restart_AtFirstSlot ==
  /\ entries' = nvs.entries /\ count' = nvs.count /\ head' = 0
  /\ restoredFull' = (nvs.count = Capacity)
  /\ dirty' = FALSE
  /\ pc' = [t \in Task |-> "idle"] /\ copy' = [t \in Task |-> Empty]
  /\ raced' = FALSE /\ failed' = FALSE
  /\ UNCHANGED <<nvs, added, severe>>

\* The blob does not hold the head: it is taken to follow the last entry.
Restart ==
  /\ entries' = nvs.entries /\ count' = nvs.count
  /\ head' = nvs.count % Capacity
  /\ restoredFull' = (nvs.count = Capacity)
  /\ dirty' = FALSE
  /\ pc' = [t \in Task |-> "idle"] /\ copy' = [t \in Task |-> Empty]
  /\ raced' = FALSE /\ failed' = FALSE
  /\ UNCHANGED <<nvs, added, severe>>

Next ==
  \/ \E t \in Task : Report(t) \/ Flush(t)
  \/ TakeEvent \/ Tick \/ Clear
  \/ Restart

Spec == Init /\ [][Next]_vars

-----------------------------------------------------------------------------
(* Properties *)

TypeOK ==
  /\ entries \in [Slot -> 0..MaxEntry] /\ head \in Slot /\ count \in 0..Capacity
  /\ dirty \in BOOLEAN /\ nvs \in Blob
  /\ pc \in [Task -> {"idle", "flush", "copy", "write", "clean"}]
  /\ copy \in [Task -> Blob]
  /\ added \in 0..MaxEntry /\ severe \subseteq 1..MaxEntry
  /\ raced \in BOOLEAN /\ failed \in BOOLEAN /\ restoredFull \in BOOLEAN

\* fault_log_get_entries, walking back from the slot before the head.
Latest(i) == entries[(head + Capacity - 1 - i) % Capacity]

\* include/events/fault_log.h: entries are returned "most recent first",
\* through wrap-around, clearing and restarts, until a full ring was restored
\* without its head.
MostRecentFirst ==
  ~restoredFull =>
    /\ \A i \in 0..count - 1 : Latest(i) # 0
    /\ \A i, j \in 0..count - 1 : i < j => Latest(i) > Latest(j)

\* Why that holds: a ring that is not full begins at slot 0, and so does a blob
\* of one, which is why it can be restored; in a full ring the entries up to the
\* head were added after those from the head on.
Ascending(slots, part) ==
  \A i \in part : slots[i] \in 1..added /\ \A j \in part : i < j => slots[i] < slots[j]
PrefixOrdered(blob) ==
  blob.count < Capacity => Ascending(blob.entries, 0..blob.count - 1)
FullOrdered ==
  /\ Ascending(entries, 0..head - 1) /\ Ascending(entries, head..Capacity - 1)
  /\ \A i \in 0..head - 1, j \in head..Capacity - 1 : entries[i] > entries[j]
RingOrdered ==
  /\ count < Capacity => head = count /\ ~restoredFull
  /\ count = Capacity /\ ~restoredFull => FullOrdered
  /\ PrefixOrdered(Ram) /\ PrefixOrdered(nvs)
  /\ \A t \in Task : PrefixOrdered(copy[t])

Quiet == \A t \in Task : pc[t] = "idle"

\* A log that is not dirty is the one in flash, unless it changed while a
\* flush already had its copy.
CleanMeansSaved == ~dirty /\ ~raced => nvs = Ram

\* Once the flushes are over, every fault still in the log is in flash, unless
\* the last write failed or the log changed under a flush.
FaultsPersisted ==
  Quiet /\ ~raced /\ ~failed => severe \cap Holds(Ram) \subseteq Holds(nvs)

\* Why that holds: what a flush is about to write, or has just written, is the
\* log itself, and a fault that is not in flash is on its way there.
OnItsWay ==
  /\ severe \subseteq 1..added
  /\ \A t \in Task : pc[t] = "write" /\ ~raced => copy[t] = Ram
  /\ \A t \in Task : pc[t] = "clean" /\ ~raced => nvs = Ram
  /\ ~raced /\ ~failed =>
       \/ severe \cap Holds(Ram) \subseteq Holds(nvs)
       \/ \E t \in Task : pc[t] \in {"flush", "copy", "write"}
=============================================================================
