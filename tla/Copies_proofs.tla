--------------------------- MODULE Copies_proofs ---------------------------
(***************************************************************************)
(* Proofs about the two components that keep a copy of something and have  *)
(* to match it: the fault history, whose copy is in flash, for every       *)
(* capacity and every set of reporting tasks; and the display, whose row   *)
(* cache stands for what the glass shows, for every depth of the notice    *)
(* queue, every set of tasks that post notices and every number of failed  *)
(* transfers.                                                              *)
(***************************************************************************)
EXTENDS FaultLog, Display,
        SequenceTheorems, FiniteSetTheorems, WellFoundedInduction, TLAPS

-----------------------------------------------------------------------------
(*                         THE FAULT HISTORY                               *)
-----------------------------------------------------------------------------
USE DEF ring, history

-----------------------------------------------------------------------------
(* Types *)

\* The head stays on the ring.
LEMMA SlotAfter ==
  ASSUME NEW i \in Nat
  PROVE  i % Capacity \in Slot
BY FaultLogAssumption DEF Slot

LEMMA EmptyType == Empty \in Blob
BY FaultLogAssumption DEF Empty, Blob

LEMMA RamType == TypeOK => Ram \in Blob
BY DEF TypeOK, Ram, Blob

\* Every step keeps the types: the head and the count stay within the ring.
LEMMA TypeStep == TypeOK /\ [Next]_vars => TypeOK'
<1> SUFFICES ASSUME TypeOK, [Next]_vars PROVE TypeOK'
  OBVIOUS
<1>1. ASSUME NEW t \in Task, NEW severity \in Severity, Add(t, severity) PROVE TypeOK'
  <2>1. head' \in Slot
    BY <1>1, SlotAfter DEF Add, NextSlot, TypeOK, Slot
  <2>2. added + 1 \in 0..MaxEntry /\ added' = added + 1
    BY <1>1, FaultLogAssumption DEF Add, TypeOK
  <2>3. entries' \in [Slot -> 0..MaxEntry]
    BY <1>1, <2>2 DEF Add, TypeOK
  <2>4. count' \in 0..Capacity
    BY <1>1, FaultLogAssumption DEF Add, TypeOK
  <2>5. severe' \subseteq 1..MaxEntry
    BY <1>1, <2>2, FaultLogAssumption DEF Add, TypeOK
  <2>6. pc' \in [Task -> {"idle", "flush", "copy", "write", "clean"}]
    BY <1>1 DEF Add, TypeOK
  <2>7. dirty' \in BOOLEAN /\ raced' \in BOOLEAN
    BY <1>1, Zenon DEF Add
  <2> QED
    BY <1>1, <2>1, <2>2, <2>3, <2>4, <2>5, <2>6, <2>7 DEF Add, TypeOK
<1>2. CASE Clear
  <2>1. entries' \in [Slot -> 0..MaxEntry] /\ head' \in Slot /\ count' \in 0..Capacity
    BY <1>2, EmptyType, FaultLogAssumption DEF Clear, Slot, Blob
  <2>2. dirty' \in BOOLEAN /\ raced' \in BOOLEAN /\ restoredFull' \in BOOLEAN
    BY <1>2, Zenon DEF Clear
  <2>3. pc' \in [Task -> {"idle", "flush", "copy", "write", "clean"}]
    BY <1>2 DEF Clear, TypeOK
  <2> QED
    BY <1>2, <2>1, <2>2, <2>3 DEF Clear, TypeOK
<1>3. CASE Tick
  BY <1>3 DEF Tick, TypeOK
<1>4. ASSUME NEW t \in Task, Flush(t) PROVE TypeOK'
  <2>1. CASE CheckDirty(t)
    <3>1. pc' \in [Task -> {"idle", "flush", "copy", "write", "clean"}]
      BY <2>1 DEF CheckDirty, TypeOK
    <3> QED
      BY <2>1, <3>1 DEF CheckDirty, TypeOK
  <2>2. CASE Copy(t)
    <3>1. copy' \in [Task -> Blob]
      BY <2>2, RamType DEF Copy, TypeOK
    <3> QED
      BY <2>2, <3>1 DEF Copy, TypeOK
  <2>3. CASE Write(t)
    <3>1. copy' \in [Task -> Blob] /\ nvs' \in Blob
      BY <2>3, EmptyType DEF Write, TypeOK
    <3>2. failed' \in BOOLEAN
      BY <2>3, Zenon DEF Write
    <3> QED
      BY <2>3, <3>1, <3>2 DEF Write, TypeOK
  <2>4. CASE WriteFails(t)
    <3>1. copy' \in [Task -> Blob]
      BY <2>4, EmptyType DEF WriteFails, TypeOK
    <3>2. failed' \in BOOLEAN
      BY <2>4, Zenon DEF WriteFails
    <3> QED
      BY <2>4, <3>1, <3>2 DEF WriteFails, TypeOK
  <2>5. CASE Clean(t)
    <3>1. dirty' \in BOOLEAN
      BY <2>5, Zenon DEF Clean
    <3> QED
      BY <2>5, <3>1 DEF Clean, TypeOK
  <2> QED
    BY <1>4, <2>1, <2>2, <2>3, <2>4, <2>5 DEF Flush
<1>5. CASE Restart
  <2>1. nvs.count \in 0..Capacity /\ nvs.entries \in [Slot -> 0..MaxEntry]
    BY DEF TypeOK, Blob
  <2>2. head' \in Slot
    BY <1>5, <2>1, SlotAfter, FaultLogAssumption DEF Restart
  <2>3. /\ dirty' \in BOOLEAN /\ raced' \in BOOLEAN /\ failed' \in BOOLEAN
        /\ restoredFull' \in BOOLEAN
    BY <1>5, Zenon DEF Restart
  <2>4. /\ pc' \in [Task -> {"idle", "flush", "copy", "write", "clean"}]
        /\ copy' \in [Task -> Blob]
    BY <1>5, EmptyType DEF Restart
  <2> QED
    BY <1>5, <2>1, <2>2, <2>3, <2>4 DEF Restart, TypeOK
<1>6. CASE UNCHANGED vars
  BY <1>6 DEF vars, TypeOK
<1>7. SeverityOf("WARNING") \in Severity /\ SeverityOf("DERATE") \in Severity
      /\ SeverityOf("SHUTDOWN") \in Severity /\ SeverityOf("RECOVERED") \in Severity
  BY DEF SeverityOf, Severity
<1>8. CASE TakeEvent
  BY <1>1, <1>7, <1>8 DEF TakeEvent, Task
<1>9. ASSUME NEW t \in Task, Report(t) PROVE TypeOK'
  BY <1>1, <1>9 DEF Report, Severity
<1> QED
  BY <1>2, <1>3, <1>4, <1>5, <1>6, <1>8, <1>9 DEF Next

LEMMA TypeInit == Init => TypeOK
<1> SUFFICES ASSUME Init PROVE TypeOK
  OBVIOUS
<1>1. entries \in [Slot -> 0..MaxEntry] /\ head \in Slot /\ count \in 0..Capacity
  BY EmptyType, FaultLogAssumption DEF Init, Slot, Blob
<1>2. /\ pc \in [Task -> {"idle", "flush", "copy", "write", "clean"}]
      /\ copy \in [Task -> Blob] /\ nvs \in Blob
  BY EmptyType DEF Init
<1>3. /\ dirty \in BOOLEAN /\ raced \in BOOLEAN /\ failed \in BOOLEAN
      /\ restoredFull \in BOOLEAN
  BY Zenon DEF Init
<1> QED
  BY <1>1, <1>2, <1>3, FaultLogAssumption DEF Init, TypeOK

\* The ring never grows past its capacity and its head never leaves it.
THEOREM FaultLogTypeCorrect == Spec => []TypeOK
<1> QED
  BY TypeInit, TypeStep, PTL DEF Spec

-----------------------------------------------------------------------------
(* What is in flash *)

\* An entry of a later ring is an old one or the new one.
LEMMA HoldsAfterAdd ==
  ASSUME TypeOK, NEW t, NEW severity, Add(t, severity)
  PROVE  Holds(Ram)' \subseteq Holds(Ram) \cup {added'}
BY DEF Add, Holds, Ram, TypeOK

LEMMA HoldsNothing == Holds(Empty) = {}
BY DEF Holds, Empty

\* Adding an entry, of whatever severity.
LEMMA SavedAdd ==
  ASSUME TypeOK, CleanMeansSaved, OnItsWay,
         NEW t \in Task, NEW severity \in Severity, Add(t, severity)
  PROVE  CleanMeansSaved' /\ OnItsWay'
<1>1. CleanMeansSaved'
  BY DEF Add, CleanMeansSaved
<1>2. added \in Nat /\ added' = added + 1
  BY FaultLogAssumption DEF Add, TypeOK
<1>3. (severe \subseteq 1..added)'
  BY <1>2 DEF Add, OnItsWay
<1>4. \A u \in Task : pc'[u] \in {"write", "clean"} => pc[u] \in {"write", "clean"}
  BY DEF Add, TypeOK
<1>5. \A u \in Task : pc'[u] \in {"write", "clean"} => raced'
  BY <1>4 DEF Add, Flushing
<1>6. ASSUME ~raced', ~failed'
      PROVE  (\/ severe \cap Holds(Ram) \subseteq Holds(nvs)
              \/ \E u \in Task : pc[u] \in {"flush", "copy", "write"})'
  <2>1. ~raced /\ ~failed /\ nvs' = nvs
    BY <1>6 DEF Add
  <2>2. CASE FlushNow(severity)
    BY <2>2 DEF Add, TypeOK
  <2>3. CASE ~FlushNow(severity)
    <3>1. severe' = severe /\ added' \notin severe
      BY <1>2, <2>3 DEF Add, FlushNow, OnItsWay
    <3>2. severe' \cap Holds(Ram)' \subseteq severe \cap Holds(Ram)
      BY <3>1, HoldsAfterAdd
    <3>3. \A u \in Task : pc[u] \in {"flush", "copy", "write"} => pc'[u] = pc[u]
      BY DEF Add, TypeOK
    <3>4. Holds(nvs)' = Holds(nvs)
      BY <2>1 DEF Holds
    <3> QED
      BY <2>1, <3>2, <3>3, <3>4 DEF OnItsWay
  <2> QED
    BY <2>2, <2>3
<1> QED
  BY <1>1, <1>3, <1>5, <1>6 DEF OnItsWay

\* The steps of a flush.
LEMMA SavedFlush ==
  ASSUME TypeOK, CleanMeansSaved, OnItsWay, NEW t \in Task, Flush(t)
  PROVE  CleanMeansSaved' /\ OnItsWay'
<1>1. \A u \in Task : u # t => pc'[u] = pc[u] /\ copy'[u] = copy[u]
  BY DEF Flush, CheckDirty, Copy, Write, WriteFails, Clean, TypeOK
<1>2. Ram' = Ram /\ UNCHANGED <<added, severe, raced>>
  BY DEF Flush, CheckDirty, Copy, Write, WriteFails, Clean, Ram
<1>3. (severe \subseteq 1..added)'
  BY <1>2 DEF OnItsWay
<1>4. CASE CheckDirty(t)
  <2>1. UNCHANGED <<dirty, nvs, copy, failed>> /\ pc'[t] \in {"copy", "idle"}
        /\ (pc'[t] = "idle" => ~dirty)
    BY <1>4 DEF CheckDirty, TypeOK
  <2>2. CleanMeansSaved'
    BY <1>2, <2>1 DEF CleanMeansSaved
  <2>3. ~dirty /\ ~raced => severe \cap Holds(Ram) \subseteq Holds(nvs)
    BY DEF CleanMeansSaved
  <2>4. Holds(Ram)' = Holds(Ram) /\ Holds(nvs)' = Holds(nvs)
    BY <1>2, <2>1 DEF Holds
  <2> QED
    BY <1>1, <1>2, <1>3, <2>1, <2>2, <2>3, <2>4 DEF OnItsWay
<1>5. CASE Copy(t)
  <2>1. UNCHANGED <<dirty, nvs, failed>> /\ pc'[t] = "write" /\ copy'[t] = Ram
    BY <1>5 DEF Copy, TypeOK
  <2>2. CleanMeansSaved'
    BY <1>2, <2>1 DEF CleanMeansSaved
  <2> QED
    BY <1>1, <1>2, <1>3, <2>1, <2>2 DEF OnItsWay
<1>6. CASE Write(t)
  <2>1. nvs' = copy[t] /\ dirty' = dirty /\ pc'[t] = "clean" /\ pc[t] = "write"
    BY <1>6 DEF Write, TypeOK
  <2>2. ~raced => nvs' = Ram'
    BY <1>2, <2>1 DEF OnItsWay
  <2>3. ~raced => Holds(nvs)' = Holds(Ram)'
    BY <2>2 DEF Holds
  <2>4. \A u \in Task : pc'[u] = "write" => u # t
    BY <2>1
  <2>5. CleanMeansSaved'
    BY <1>2, <2>2 DEF CleanMeansSaved
  <2> QED
    BY <1>1, <1>2, <1>3, <2>2, <2>3, <2>4, <2>5 DEF OnItsWay
<1>7. CASE WriteFails(t)
  <2>1. UNCHANGED <<nvs, dirty>> /\ pc'[t] = "idle" /\ failed'
    BY <1>7 DEF WriteFails, TypeOK
  <2>2. CleanMeansSaved'
    BY <1>2, <2>1 DEF CleanMeansSaved
  <2> QED
    BY <1>1, <1>2, <1>3, <2>1, <2>2 DEF OnItsWay
<1>8. CASE Clean(t)
  <2>1. UNCHANGED <<nvs, copy, failed>> /\ pc'[t] = "idle" /\ pc[t] = "clean"
    BY <1>8 DEF Clean, TypeOK
  <2>2. ~raced => nvs' = Ram'
    BY <1>2, <2>1 DEF OnItsWay
  <2>3. CleanMeansSaved'
    BY <1>2, <2>2 DEF CleanMeansSaved
  <2>4. Holds(Ram)' = Holds(Ram) /\ Holds(nvs)' = Holds(nvs)
    BY <1>2, <2>1 DEF Holds
  <2>5. \A u \in Task : pc'[u] # "idle" => u # t
    BY <2>1
  <2> QED
    BY <1>1, <1>2, <1>3, <2>1, <2>3, <2>4, <2>5 DEF OnItsWay
<1> QED
  BY <1>4, <1>5, <1>6, <1>7, <1>8 DEF Flush

LEMMA SavedStep ==
  ASSUME TypeOK, CleanMeansSaved, OnItsWay, [Next]_vars
  PROVE  CleanMeansSaved' /\ OnItsWay'
<1>1. ASSUME NEW t \in Task, Report(t) PROVE CleanMeansSaved' /\ OnItsWay'
  BY <1>1, SavedAdd DEF Report, Severity
<1>2. CASE TakeEvent
  <2>1. /\ SeverityOf("WARNING") \in Severity /\ SeverityOf("DERATE") \in Severity
        /\ SeverityOf("SHUTDOWN") \in Severity /\ SeverityOf("RECOVERED") \in Severity
        /\ EventTask \in Task
    BY DEF SeverityOf, Severity, Task
  <2> QED
    BY <1>2, <2>1, SavedAdd DEF TakeEvent
<1>3. ASSUME NEW t \in Task, Flush(t) PROVE CleanMeansSaved' /\ OnItsWay'
  BY <1>3, SavedFlush
<1>4. CASE Tick
  <2>1. UNCHANGED <<ring, dirty, nvs, copy, history, Ram>>
    BY <1>4 DEF Tick, Ram
  <2>2. EventTask \in Task /\ \A u \in Task : pc'[u] # pc[u] => pc'[u] = "flush"
    BY <1>4 DEF Tick, TypeOK, Task
  <2>3. Holds(Ram)' = Holds(Ram) /\ Holds(nvs)' = Holds(nvs)
    BY <2>1 DEF Holds
  <2> QED
    BY <2>1, <2>2, <2>3 DEF CleanMeansSaved, OnItsWay
<1>5. CASE Clear
  <2>1. Ram' = Empty
    BY <1>5 DEF Clear, Ram, Empty
  <2>2. Holds(Ram)' = {}
    BY <2>1, HoldsNothing DEF Holds
  <2>3. \A u \in Task : pc'[u] \in {"write", "clean"} => pc[u] \in {"write", "clean"}
    BY <1>5 DEF Clear, TypeOK
  <2>4. \A u \in Task : pc'[u] \in {"write", "clean"} => raced'
    BY <1>5, <2>3 DEF Clear, Flushing
  <2>5. dirty' /\ UNCHANGED <<added, severe>>
    BY <1>5 DEF Clear
  <2> QED
    BY <2>2, <2>4, <2>5 DEF CleanMeansSaved, OnItsWay
<1>6. CASE Restart
  <2>1. Ram' = nvs /\ nvs' = nvs
    BY <1>6 DEF Restart, Ram, TypeOK, Blob
  <2>2. UNCHANGED <<added, severe>> /\ \A u \in Task : pc'[u] = "idle"
    BY <1>6 DEF Restart
  <2>3. Holds(Ram)' = Holds(nvs)'
    BY <2>1 DEF Holds
  <2> QED
    BY <2>1, <2>2, <2>3 DEF CleanMeansSaved, OnItsWay
<1>7. CASE UNCHANGED vars
  <2>1. Ram' = Ram /\ Holds(Ram)' = Holds(Ram) /\ Holds(nvs)' = Holds(nvs)
    BY <1>7 DEF vars, Ram, Holds
  <2> QED
    BY <1>7, <2>1 DEF vars, CleanMeansSaved, OnItsWay
<1> QED
  BY <1>1, <1>2, <1>3, <1>4, <1>5, <1>6, <1>7 DEF Next

\* Whatever additions, clearings, flushes of several tasks, failed writes and
\* restarts interleave to: a log that is not dirty is the one in flash, and
\* once the flushes are over every fault in it is in flash, unless the last
\* write failed or the log changed under a flush that had its copy.
THEOREM FaultsReachFlash == Spec => [](CleanMeansSaved /\ FaultsPersisted)
<1>1. Init => CleanMeansSaved /\ OnItsWay
  <2> SUFFICES ASSUME Init PROVE CleanMeansSaved /\ OnItsWay
    OBVIOUS
  <2>1. Ram = Empty /\ nvs = Empty /\ Holds(Ram) = {}
    BY HoldsNothing DEF Init, Ram, Empty
  <2>2. severe = {} /\ \A t \in Task : pc[t] = "idle"
    BY DEF Init
  <2> QED
    BY <2>1, <2>2 DEF CleanMeansSaved, OnItsWay
<1>2. TypeOK /\ CleanMeansSaved /\ OnItsWay /\ [Next]_vars
        => CleanMeansSaved' /\ OnItsWay'
  BY SavedStep
<1>3. OnItsWay => FaultsPersisted
  BY DEF OnItsWay, FaultsPersisted, Quiet
<1> QED
  BY <1>1, <1>2, <1>3, FaultLogTypeCorrect, PTL DEF Spec

-----------------------------------------------------------------------------
(* The order of the entries *)

\* The remainders the code takes are of numbers below twice the capacity.
LEMMA Wrap ==
  /\ \A i \in 0..Capacity - 1 : i % Capacity = i
  /\ \A i \in Capacity..2 * Capacity - 1 : i % Capacity = i - Capacity
BY FaultLogAssumption

LEMMA NextSlotIs ==
  ASSUME NEW i \in Slot
  PROVE  NextSlot(i) = IF i = Capacity - 1 THEN 0 ELSE i + 1
BY Wrap, FaultLogAssumption DEF NextSlot, Slot

\* Walking back from the head.
LEMMA LatestIs ==
  ASSUME TypeOK, NEW i \in 0..Capacity - 1
  PROVE  Latest(i) = entries[IF i < head THEN head - 1 - i ELSE head - 1 - i + Capacity]
<1>1. head \in 0..Capacity - 1 /\ Capacity \in Nat \ {0}
  BY FaultLogAssumption DEF TypeOK, Slot
<1>2. CASE i < head
  <2>1. (head + Capacity - 1 - i) % Capacity = head - 1 - i
    BY <1>1, <1>2, Wrap
  <2> QED
    BY <1>2, <2>1 DEF Latest
<1>3. CASE ~(i < head)
  <2>1. (head + Capacity - 1 - i) % Capacity = head - 1 - i + Capacity
    BY <1>1, <1>3, Wrap
  <2> QED
    BY <1>3, <2>1 DEF Latest
<1> QED
  BY <1>2, <1>3

\* The invariant gives the order that fault_log_get_entries promises.
LEMMA OrderedIsMostRecentFirst ==
  ASSUME TypeOK, RingOrdered
  PROVE  MostRecentFirst
<1> SUFFICES ASSUME ~restoredFull
             PROVE  /\ \A i \in 0..count - 1 : Latest(i) # 0
                    /\ \A i, j \in 0..count - 1 : i < j => Latest(i) > Latest(j)
  BY DEF MostRecentFirst
<1>1. /\ head \in 0..Capacity - 1 /\ Capacity \in Nat \ {0} /\ count \in 0..Capacity
      /\ added \in Nat
  BY FaultLogAssumption DEF TypeOK, Slot
<1>2. CASE count < Capacity
  <2>1. head = count /\ Ascending(entries, 0..count - 1)
    BY <1>2 DEF RingOrdered, PrefixOrdered, Ram
  <2>2. \A i \in 0..count - 1 : Latest(i) = entries[count - 1 - i]
    BY <1>1, <2>1, LatestIs
  <2> QED
    BY <1>1, <2>1, <2>2 DEF Ascending
<1>3. CASE count = Capacity
  <2> DEFINE At(i) == IF i < head THEN head - 1 - i ELSE head - 1 - i + Capacity
  <2>1. FullOrdered
    BY <1>3 DEF RingOrdered
  <2>2. \A i \in 0..Capacity - 1 : Latest(i) = entries[At(i)]
    BY LatestIs
  <2>3. \A i \in 0..Capacity - 1 :
          IF i < head THEN At(i) \in 0..head - 1 ELSE At(i) \in head..Capacity - 1
    BY <1>1
  <2>4. \A i, j \in 0..Capacity - 1 :
          i < j => At(j) < At(i) \/ (i < head /\ ~(j < head))
    BY <1>1
  <2> HIDE DEF At
  <2>5. \A i \in 0..Capacity - 1 : entries[At(i)] \in 1..added
    BY <2>1, <2>3 DEF FullOrdered, Ascending
  <2>6. ASSUME NEW i \in 0..Capacity - 1, NEW j \in 0..Capacity - 1, i < j
        PROVE  entries[At(i)] > entries[At(j)]
    <3>1. CASE i < head /\ ~(j < head)
      BY <2>1, <2>3, <3>1 DEF FullOrdered
    <3>2. CASE j < head
      BY <1>1, <2>1, <2>3, <2>4, <2>5, <2>6, <3>2 DEF FullOrdered, Ascending
    <3>3. CASE ~(i < head)
      BY <1>1, <2>1, <2>3, <2>4, <2>5, <2>6, <3>3 DEF FullOrdered, Ascending
    <3> QED
      BY <1>1, <2>6, <3>1, <3>2, <3>3
  <2> QED
    BY <1>1, <1>3, <2>2, <2>5, <2>6
<1> QED
  BY <1>1, <1>2, <1>3

\* What was ordered stays ordered when entries are added elsewhere.
LEMMA PrefixKept ==
  ASSUME NEW blob, PrefixOrdered(blob), TypeOK, added' \in Nat, added <= added',
         NEW later, later = blob
  PROVE  later.count < Capacity
           => \A i \in 0..later.count - 1 :
                /\ later.entries[i] \in 1..added'
                /\ \A j \in 0..later.count - 1 : i < j => later.entries[i] < later.entries[j]
BY FaultLogAssumption DEF PrefixOrdered, Ascending, TypeOK

\* An addition to a ring that is not full lengthens the prefix, the last one
\* before it is full closes the circle; one to a full ring overwrites the oldest.
LEMMA OrderedAdd ==
  ASSUME TypeOK, RingOrdered, NEW t \in Task, NEW severity \in Severity, Add(t, severity)
  PROVE  RingOrdered'
<1>1. /\ head \in 0..Capacity - 1 /\ Capacity \in Nat \ {0} /\ count \in 0..Capacity
      /\ added \in Nat /\ entries \in [0..Capacity - 1 -> 0..MaxEntry]
  BY FaultLogAssumption DEF TypeOK, Slot
<1>2. /\ added' = added + 1 /\ entries' = [entries EXCEPT ![head] = added + 1]
      /\ count' = IF count < Capacity THEN count + 1 ELSE count
      /\ UNCHANGED <<nvs, copy, restoredFull>>
  BY DEF Add
<1>3. head' = IF head = Capacity - 1 THEN 0 ELSE head + 1
  BY <1>1, NextSlotIs DEF Add, Slot
<1>4. \A i \in 0..Capacity - 1 : entries'[i] = IF i = head THEN added + 1 ELSE entries[i]
  BY <1>1, <1>2
<1>5. PrefixOrdered(nvs)' /\ \A u \in Task : PrefixOrdered(copy[u])'
  <2>1. \A n : n \in 1..added => n \in 1..added'
    BY <1>1, <1>2
  <2>2. PrefixOrdered(nvs)'
    <3>1. nvs' = nvs /\ PrefixOrdered(nvs)
      BY <1>2 DEF RingOrdered
    <3>. QED
      BY <2>1, <3>1 DEF PrefixOrdered, Ascending
  <2>3. ASSUME NEW u \in Task PROVE PrefixOrdered(copy[u])'
    <3>1. copy'[u] = copy[u] /\ PrefixOrdered(copy[u])
      BY <1>2 DEF RingOrdered
    <3>. QED
      BY <2>1, <3>1 DEF PrefixOrdered, Ascending
  <2>. QED
    BY <2>2, <2>3
<1>6. CASE count < Capacity
  <2>1. head = count /\ ~restoredFull /\ Ascending(entries, 0..count - 1)
    BY <1>6 DEF RingOrdered, PrefixOrdered, Ram
  <2>2. Ascending(entries, 0..count - 1)'
    BY <1>1, <1>2, <1>4, <1>6, <2>1 DEF Ascending
  <2>3. CASE count' < Capacity
    BY <1>1, <1>2, <1>3, <1>5, <1>6, <2>1, <2>2, <2>3
       DEF RingOrdered, PrefixOrdered, Ascending, Ram
  <2>4. CASE count' = Capacity
    <3>1. head' = 0 /\ count = Capacity - 1
      BY <1>1, <1>2, <1>3, <1>6, <2>1, <2>4
    <3>2. FullOrdered'
      BY <1>1, <2>2, <2>4, <3>1 DEF FullOrdered, Ascending
    <3> QED
      BY <1>1, <1>5, <2>4, <3>2 DEF RingOrdered, PrefixOrdered, Ram
  <2> QED
    BY <1>1, <1>2, <1>6, <2>3, <2>4
<1>7. CASE count = Capacity
  <2>1. count' = Capacity
    BY <1>1, <1>2, <1>7
  <2>2. FullOrdered => FullOrdered'
    BY <1>1, <1>2, <1>3, <1>4 DEF FullOrdered, Ascending
  <2> QED
    BY <1>1, <1>2, <1>5, <1>7, <2>1, <2>2 DEF RingOrdered, PrefixOrdered, Ram
<1> QED
  BY <1>1, <1>6, <1>7

\* A step that leaves the ring alone and takes or writes a copy of it.
LEMMA OrderedFlush ==
  ASSUME TypeOK, RingOrdered, UNCHANGED <<ring, added, restoredFull>>,
         nvs' = nvs \/ \E t \in Task : nvs' = copy[t],
         \A t \in Task : copy'[t] \in {copy[t], Ram, Empty}
  PROVE  RingOrdered'
<1>1. PrefixOrdered(Empty)
  BY FaultLogAssumption DEF PrefixOrdered, Ascending, Empty
<1>2. \A t \in Task : PrefixOrdered(copy'[t])
  BY <1>1 DEF RingOrdered
<1>3. PrefixOrdered(nvs')
  BY DEF RingOrdered
<1>4. Ram' = Ram
  BY DEF Ram
<1>5. FullOrdered => FullOrdered'
  BY DEF FullOrdered, Ascending
<1>6. PrefixOrdered(Ram) /\ PrefixOrdered(nvs') /\ \A t \in Task : PrefixOrdered(copy'[t])
  BY <1>2, <1>3 DEF RingOrdered
<1>7. PrefixOrdered(Ram)' /\ PrefixOrdered(nvs)' /\ \A t \in Task : PrefixOrdered(copy[t])'
  BY <1>4, <1>6 DEF PrefixOrdered, Ascending
<1> QED
  BY <1>5, <1>7 DEF RingOrdered

LEMMA OrderedStep == TypeOK /\ RingOrdered /\ [Next]_vars => RingOrdered'
<1> SUFFICES ASSUME TypeOK, RingOrdered, [Next]_vars PROVE RingOrdered'
  OBVIOUS
<1>1. ASSUME NEW t \in Task, Report(t) PROVE RingOrdered'
  BY <1>1, OrderedAdd DEF Report, Severity
<1>2. CASE TakeEvent
  <2>1. /\ SeverityOf("WARNING") \in Severity /\ SeverityOf("DERATE") \in Severity
        /\ SeverityOf("SHUTDOWN") \in Severity /\ SeverityOf("RECOVERED") \in Severity
        /\ EventTask \in Task
    BY DEF SeverityOf, Severity, Task
  <2> QED
    BY <1>2, <2>1, OrderedAdd DEF TakeEvent
<1>3. ASSUME NEW t \in Task, Flush(t) PROVE RingOrdered'
  <2>1. UNCHANGED <<ring, added, restoredFull>>
    BY <1>3 DEF Flush, CheckDirty, Copy, Write, WriteFails, Clean
  <2>2. nvs' = nvs \/ nvs' = copy[t]
    BY <1>3 DEF Flush, CheckDirty, Copy, Write, WriteFails, Clean
  <2>3. \A u \in Task : copy'[u] \in {copy[u], Ram, Empty}
    BY <1>3 DEF Flush, CheckDirty, Copy, Write, WriteFails, Clean, TypeOK
  <2> QED
    BY <1>3, <2>1, <2>2, <2>3, OrderedFlush
<1>4. CASE Tick
  BY <1>4, OrderedFlush DEF Tick
<1>5. CASE Clear
  <2>1. /\ head' = 0 /\ count' = 0 /\ ~restoredFull'
        /\ UNCHANGED <<nvs, copy, added>>
    BY <1>5 DEF Clear
  <2> QED
    BY <2>1, FaultLogAssumption DEF RingOrdered, PrefixOrdered, Ascending, Ram
<1>6. CASE Restart
  <2>1. /\ Ram' = nvs /\ nvs' = nvs /\ added' = added /\ count' = nvs.count
        /\ nvs.count \in 0..Capacity /\ head' = nvs.count % Capacity
    BY <1>6 DEF Restart, Ram, TypeOK, Blob
  <2>2. nvs.count # Capacity => ~restoredFull'
    BY <1>6, Zenon DEF Restart
  <2>3. nvs.count = Capacity => restoredFull'
    BY <1>6, Zenon DEF Restart
  <2>4. PrefixOrdered(Ram)' /\ PrefixOrdered(nvs)'
    BY <2>1 DEF RingOrdered, PrefixOrdered, Ascending
  <2>5. \A t \in Task : copy'[t] = Empty
    BY <1>6 DEF Restart
  <2>6. \A t \in Task : PrefixOrdered(copy[t])'
    BY <2>5, FaultLogAssumption DEF PrefixOrdered, Ascending, Empty
  <2> QED
    BY <2>1, <2>2, <2>3, <2>4, <2>6, Wrap, FaultLogAssumption DEF RingOrdered
<1>7. CASE UNCHANGED vars
  BY <1>7, OrderedFlush DEF vars
<1> QED
  BY <1>1, <1>2, <1>3, <1>4, <1>5, <1>6, <1>7 DEF Next

\* Through wrap-around, clearing, overlapping flushes and restarts the log reads
\* most recent first, until a full ring was restored without its head.
THEOREM ReadsMostRecentFirst == Spec => []MostRecentFirst
<1>1. Init => RingOrdered
  BY FaultLogAssumption
     DEF Init, RingOrdered, PrefixOrdered, Ascending, Ram, Empty
<1>2. TypeOK /\ RingOrdered /\ [Next]_vars => RingOrdered'
  BY OrderedStep
<1>3. TypeOK /\ RingOrdered => MostRecentFirst
  BY OrderedIsMostRecentFirst
<1> QED
  BY <1>1, <1>2, <1>3, FaultLogTypeCorrect, PTL DEF Spec

\* A log that is not dirty is the one in flash, unless it changed under a flush.
THEOREM CleanLogIsSaved == Spec => []CleanMeansSaved
BY FaultsReachFlash, PTL

HIDE DEF ring, history

-----------------------------------------------------------------------------
(*                            THE DISPLAY                                  *)
-----------------------------------------------------------------------------
(* The invariant *)

Note == [id : Nat, priority : Nat, to : Screens \cup {ReturnAuto}]
Drawn == Screens \cup {"NONE"}
Content == (Drawn \cup {"BLANK", "GARBAGE", "NOTHING"}) \X Nat
Stages == {"idle", "show", "queue", "look", "return"}

StateOK ==
  /\ screen \in Screens /\ released \in BOOLEAN /\ lapsed \in SUBSET Clocks
  /\ transient \in BOOLEAN /\ over \in BOOLEAN
  /\ loading \in [start : Nat, next : Screens, live : BOOLEAN]
  /\ events \in Nat

NotesOK ==
  /\ flash \in [active : BOOLEAN, note : Note, expired : BOOLEAN]
  /\ queue \in Seq(Note)
  /\ post \in [Posters -> [stage : Stages, note : Note]]
  /\ raising \in SUBSET Writers

PassOK ==
  /\ task \in {"begin", "clear", "next", "look", "commit", "fall", "draw"}
  /\ snap \in [screen : Drawn, due : BOOLEAN, start : Nat, over : BOOLEAN]

HardwareOK ==
  /\ driver \in [init : BOOLEAN, error : BOOLEAN, failures : Nat]
  /\ row \in [last : Drawn, cache : Content, clear : BOOLEAN]
  /\ glass \in Content /\ noisy \in BOOLEAN

DisplayTypeOK == StateOK /\ NotesOK /\ PassOK /\ HardwareOK

\* The notice on the glass knows the screen under it, also while the display task
\* is about to go back to it or to look for the next notice.
ReturnOK ==
  /\ flash.active => flash.note.to # ReturnAuto
  /\ task = "clear" => flash.note.to # ReturnAuto
  /\ task \in {"next", "fall"} => post["lcd"].stage = "return" /\ post["lcd"].note.to # ReturnAuto
  /\ task = "look" => post["lcd"].stage = "look"

\* A glass that was brought up anew, which the next drawing clears, has no cache.
CacheOK == CacheTruthful /\ (row.clear => row.cache = Nothing)

\* No two notices of a queue have the same number, q holds n, and q has no notice
\* with the number of n.
Numbered(q) == \A i, j \in 1..Len(q) : q[i].id = q[j].id => i = j
Has(q, n) == \E i \in 1..Len(q) : q[i] = n
Fresh(q, n) == \A i \in 1..Len(q) : q[i].id # n.id

\* The task has a notice in hand that is to be shown or queued.
Waiting(w) == post[w].stage \in {"show", "queue", "look"}

\* A notice is in one place: in the queue once, or in the hands of one task.
DistinctOK ==
  /\ Numbered(queue)
  /\ \A i \in 1..Len(queue) : queue[i].id <= events
  /\ \A w \in Posters : Waiting(w) => post[w].note.id <= events /\ Fresh(queue, post[w].note)
  /\ \A v, w \in Posters :
       Waiting(v) /\ Waiting(w) /\ post[v].note.id = post[w].note.id => v = w

\* A snapshot with a loading screen is of the present one or of an earlier one; if
\* it is of the present one and found its deadline passed, that still holds.
LoadingOK ==
  snap.screen = "LOADING" =>
    /\ snap.start <= loading.start
    /\ snap.due /\ snap.start = loading.start => "LOADING" \in lapsed

DisplayInv == DisplayTypeOK /\ ReturnOK /\ CacheOK /\ DistinctOK /\ LoadingOK

-----------------------------------------------------------------------------
(* The queue of notices *)

\* A set of positions that is not empty has a first one.
LEMMA First ==
  ASSUME NEW n \in Nat, NEW T \in SUBSET (1..n), T # {}
  PROVE  \E m \in T : \A k \in T : m <= k
<1> DEFINE F == {1..k : k \in T}
           R == StrictSubsetOrdering(1..n)
<1>1. IsFiniteSet(1..n)
  BY FS_Interval
<1>2. F \subseteq FiniteSubsetsOf(1..n)
  <2> SUFFICES ASSUME NEW k \in T PROVE (1..k) \in FiniteSubsetsOf(1..n)
    OBVIOUS
  <2>1. k \in 1..n /\ (1..k) \subseteq 1..n
    OBVIOUS
  <2>2. IsFiniteSet(1..k)
    BY <2>1, FS_Interval
  <2> QED
    BY <2>1, <2>2 DEF FiniteSubsetsOf
<1>3. IsWellFoundedOn(R, FiniteSubsetsOf(1..n))
  BY FS_StrictSubsetOrderingWellFounded
<1>4. F # {}
  OBVIOUS
<1>5. \E x \in F : \A y \in F : <<y, x>> \notin R
  <2> HIDE DEF F, R
  <2> QED
    BY <1>2, <1>3, <1>4, WFMin
<1>6. PICK m \in T : \A k \in T : <<1..k, 1..m>> \notin R
  BY <1>5
<1>7. ASSUME NEW k \in T, k < m PROVE FALSE
  <2>1. k \in 1..n /\ m \in 1..n
    OBVIOUS
  <2>2. (1..k) \in SUBSET (1..n) /\ (1..m) \in SUBSET (1..n)
    BY <2>1
  <2>3. (1..k) \subseteq (1..m) /\ (1..k) # (1..m)
    <3>1. m \in 1..m /\ m \notin 1..k
      BY <2>1, <1>7
    <3> QED
      BY <2>1, <1>7, <3>1
  <2>4. <<1..k, 1..m>> \in R
    BY <2>2, <2>3 DEF StrictSubsetOrdering
  <2> QED
    BY <1>6, <2>4
<1> QED
  BY <1>7

\* find_insert_pos finds a place within the queue or right behind it.
LEMMA PositionIs ==
  ASSUME NEW q \in Seq(Note), NEW p \in Nat
  PROVE  Position(q, p) \in 1..(Len(q) + 1)
<1>1. CASE \E i \in 1..Len(q) : p > q[i].priority
  <2> DEFINE T == {i \in 1..Len(q) : p > q[i].priority}
  <2>1. PICK m \in T : \A k \in T : m <= k
    <3>1. Len(q) \in Nat /\ T \in SUBSET (1..Len(q)) /\ T # {}
      BY <1>1
    <3> HIDE DEF T
    <3> QED
      BY <3>1, First
  <2>2. m \in 1..Len(q) /\ p > q[m].priority
    OBVIOUS
  <2>3. \A j \in 1..(m - 1) : p <= q[j].priority
    <3> SUFFICES ASSUME NEW j \in 1..(m - 1) PROVE p <= q[j].priority
      OBVIOUS
    <3>1. j \in 1..Len(q) /\ j < m
      BY <2>2
    <3>2. q[j] \in Note
      BY <3>1, ElementOfSeq
    <3>3. q[j].priority \in Nat
      BY <3>2 DEF Note
    <3> QED
      BY <3>1, <3>3, <2>1
  <2> DEFINE P(i) == p > q[i].priority /\ \A j \in 1..(i - 1) : p <= q[j].priority
  <2>4. (CHOOSE i \in 1..Len(q) : P(i)) \in 1..Len(q)
    <3>1. \E i \in 1..Len(q) : P(i)
      BY <2>2, <2>3
    <3> HIDE DEF P
    <3> QED
      BY <3>1
  <2> QED
    BY <1>1, <2>4 DEF Position
<1>2. CASE ~\E i \in 1..Len(q) : p > q[i].priority
  BY <1>2 DEF Position
<1> QED
  BY <1>1, <1>2

\* The entries before the new one stay, those behind it move one on.
LEMMA InsertedIs ==
  ASSUME NEW q \in Seq(Note), NEW n \in Note
  PROVE  LET r == Inserted(q, n)
             at == Position(q, n.priority)
         IN /\ r \in Seq(Note) /\ Len(r) = Len(q) + 1
            /\ r[at] = n
            /\ \A k \in 1..(at - 1) : r[k] = q[k]
            /\ \A k \in at..Len(q) : r[k + 1] = q[k]
            /\ \A k \in (at + 1)..(Len(q) + 1) : r[k] = q[k - 1]
<1> DEFINE at == Position(q, n.priority)
           before == SubSeq(q, 1, at - 1)
           after == SubSeq(q, at, Len(q))
           one == <<n>>
<1>1. at \in 1..(Len(q) + 1) /\ Len(q) \in Nat
  <2>1. n.priority \in Nat
    BY DEF Note
  <2>2. Position(q, n.priority) \in 1..(Len(q) + 1)
    BY <2>1, PositionIs
  <2>3. Len(q) \in Nat
    BY LenProperties
  <2> QED
    BY <2>2, <2>3
<1> HIDE DEF at
<1>2. /\ before \in Seq(Note) /\ Len(before) = at - 1
      /\ \A k \in 1..(at - 1) : before[k] = q[k]
  <2>1. \A k \in 1..(at - 1) : q[k] \in Note
    BY <1>1, ElementOfSeq
  <2>2. at - 1 \in Int /\ 1 \in Int
    BY <1>1
  <2>3. /\ before \in Seq(Note) /\ Len(before) = IF 1 <= at - 1 THEN at - 1 - 1 + 1 ELSE 0
        /\ \A k \in 1..(at - 1 - 1 + 1) : before[k] = q[1 + k - 1]
    BY <2>1, <2>2, SubSeqProperties
  <2> QED
    BY <1>1, <2>3
<1>3. /\ after \in Seq(Note) /\ Len(after) = Len(q) - at + 1
      /\ \A k \in 1..(Len(q) - at + 1) : after[k] = q[at + k - 1]
  <2>1. \A k \in at..Len(q) : q[k] \in Note
    BY <1>1, ElementOfSeq
  <2>2. at \in Int /\ Len(q) \in Int
    BY <1>1
  <2>3. /\ after \in Seq(Note) /\ Len(after) = IF at <= Len(q) THEN Len(q) - at + 1 ELSE 0
        /\ \A k \in 1..(Len(q) - at + 1) : after[k] = q[at + k - 1]
    BY <2>1, <2>2, SubSeqProperties
  <2> QED
    BY <1>1, <2>3
<1>4. one \in Seq(Note) /\ Len(one) = 1 /\ one[1] = n
  OBVIOUS
<1>5. Inserted(q, n) = (before \o one) \o after
  BY DEF Inserted, Seqs!InsertAt, at
<1> HIDE DEF before, after, one
<1> DEFINE left == before \o one
<1>6. /\ left \in Seq(Note) /\ Len(left) = at
      /\ \A k \in 1..at : left[k] = IF k <= at - 1 THEN before[k] ELSE one[k - (at - 1)]
  <2>1. /\ left \in Seq(Note) /\ Len(left) = Len(before) + Len(one)
        /\ \A k \in 1..(Len(before) + Len(one)) :
             left[k] = IF k <= Len(before) THEN before[k] ELSE one[k - Len(before)]
    BY <1>2, <1>4, ConcatProperties
  <2> QED
    BY <1>1, <1>2, <1>4, <2>1
<1>7. left[at] = n /\ \A k \in 1..(at - 1) : left[k] = q[k]
  <2>1. at - (at - 1) = 1 /\ at \in 1..at /\ ~(at <= at - 1)
    BY <1>1
  <2>2. left[at] = one[1]
    BY <1>6, <2>1
  <2>3. \A k \in 1..(at - 1) : left[k] = before[k]
    BY <1>1, <1>6
  <2> QED
    BY <1>2, <1>4, <2>3, <2>2
<1> HIDE DEF left
<1> DEFINE r == left \o after
<1>8. /\ r \in Seq(Note) /\ Len(r) = Len(q) + 1
      /\ \A k \in 1..(Len(q) + 1) : r[k] = IF k <= at THEN left[k] ELSE after[k - at]
  <2>1. /\ r \in Seq(Note) /\ Len(r) = Len(left) + Len(after)
        /\ \A k \in 1..(Len(left) + Len(after)) :
             r[k] = IF k <= Len(left) THEN left[k] ELSE after[k - Len(left)]
    BY <1>3, <1>6, ConcatProperties
  <2> QED
    BY <1>1, <1>3, <1>6, <2>1
<1>9. Inserted(q, n) = r
  BY <1>5 DEF left
<1> HIDE DEF r
<1>10. r[at] = n /\ \A k \in 1..(at - 1) : r[k] = q[k]
  BY <1>1, <1>7, <1>8
<1>11. \A k \in (at + 1)..(Len(q) + 1) : r[k] = q[k - 1]
  <2> SUFFICES ASSUME NEW k \in (at + 1)..(Len(q) + 1) PROVE r[k] = q[k - 1]
    OBVIOUS
  <2>1. k - at \in 1..(Len(q) - at + 1) /\ at + (k - at) - 1 = k - 1
    BY <1>1
  <2>2. r[k] = after[k - at]
    BY <1>1, <1>8
  <2>3. after[k - at] = q[at + (k - at) - 1]
    BY <1>3, <2>1
  <2> QED
    BY <2>1, <2>2, <2>3
<1>12. \A k \in at..Len(q) : r[k + 1] = q[k]
  <2> SUFFICES ASSUME NEW k \in at..Len(q) PROVE r[k + 1] = q[k]
    OBVIOUS
  <2>1. k + 1 \in (at + 1)..(Len(q) + 1) /\ (k + 1) - 1 = k
    BY <1>1
  <2> QED
    BY <1>11, <2>1
<1> QED
  BY <1>8, <1>9, <1>10, <1>11, <1>12 DEF at

\* A queue is as long as a number says.
LEMMA LengthIsNat == ASSUME NEW q \in Seq(Note) PROVE Len(q) \in Nat
BY LenProperties

\* An insertion gives nothing up and adds nothing else.
LEMMA InsertedHolds ==
  ASSUME NEW q \in Seq(Note), NEW n \in Note
  PROVE  /\ Inserted(q, n) \in Seq(Note)
         /\ Has(Inserted(q, n), n)
         /\ \A i \in 1..Len(q) : Has(Inserted(q, n), q[i])
         /\ \A k \in 1..Len(Inserted(q, n)) : Inserted(q, n)[k] = n \/ Has(q, Inserted(q, n)[k])
<1> DEFINE r == Inserted(q, n)
           at == Position(q, n.priority)
<1>1. /\ r \in Seq(Note) /\ Len(r) = Len(q) + 1
      /\ r[at] = n
      /\ \A k \in 1..(at - 1) : r[k] = q[k]
      /\ \A k \in at..Len(q) : r[k + 1] = q[k]
      /\ \A k \in (at + 1)..(Len(q) + 1) : r[k] = q[k - 1]
  BY InsertedIs
<1>2. at \in 1..(Len(q) + 1) /\ Len(q) \in Nat
  <2>1. n.priority \in Nat
    BY DEF Note
  <2>2. at \in 1..(Len(q) + 1)
    BY <2>1, PositionIs
  <2> QED
    BY <2>2, LengthIsNat
<1> HIDE DEF r, at
<1>3. Has(r, n)
  BY <1>1, <1>2 DEF Has
<1>4. ASSUME NEW i \in 1..Len(q) PROVE Has(r, q[i])
  <2>1. CASE i < at
    <3>1. i \in 1..(at - 1) /\ i \in 1..Len(r)
      BY <1>1, <1>2, <2>1
    <3> QED
      BY <1>1, <3>1 DEF Has
  <2>2. CASE i >= at
    <3>1. i \in at..Len(q) /\ i + 1 \in 1..Len(r)
      BY <1>1, <1>2, <2>2
    <3> QED
      BY <1>1, <3>1 DEF Has
  <2> QED
    BY <1>2, <2>1, <2>2
<1>5. ASSUME NEW k \in 1..Len(r) PROVE r[k] = n \/ Has(q, r[k])
  <2>1. CASE k < at
    <3>1. k \in 1..(at - 1) /\ k \in 1..Len(q)
      BY <1>1, <1>2, <2>1
    <3> QED
      BY <1>1, <3>1 DEF Has
  <2>2. CASE k = at
    BY <1>1, <2>2
  <2>3. CASE k > at
    <3>1. k \in (at + 1)..(Len(q) + 1) /\ k - 1 \in 1..Len(q)
      BY <1>1, <1>2, <2>3
    <3>2. r[k] = q[k - 1]
      BY <1>1, <3>1
    <3> QED
      BY <3>1, <3>2 DEF Has
  <2> QED
    BY <1>1, <1>2, <2>1, <2>2, <2>3
<1> QED
  BY <1>1, <1>3, <1>4, <1>5 DEF r

\* A new notice leaves the numbers of a queue apart.
LEMMA InsertedNumbered ==
  ASSUME NEW q \in Seq(Note), NEW n \in Note, Numbered(q), Fresh(q, n)
  PROVE  Numbered(Inserted(q, n))
<1> DEFINE r == Inserted(q, n)
           at == Position(q, n.priority)
           from(k) == IF k < at THEN k ELSE k - 1
<1>1. /\ Len(r) = Len(q) + 1
      /\ r[at] = n
      /\ \A k \in 1..(at - 1) : r[k] = q[k]
      /\ \A k \in (at + 1)..(Len(q) + 1) : r[k] = q[k - 1]
  BY InsertedIs
<1>2. at \in 1..(Len(q) + 1) /\ Len(q) \in Nat
  <2>1. n.priority \in Nat
    BY DEF Note
  <2>2. at \in 1..(Len(q) + 1)
    BY <2>1, PositionIs
  <2> QED
    BY <2>2, LengthIsNat
<1> HIDE DEF r, at
<1>3. ASSUME NEW k \in 1..Len(r), k # at
      PROVE  from(k) \in 1..Len(q) /\ r[k] = q[from(k)]
  <2>1. CASE k < at
    <3>1. k \in 1..(at - 1) /\ k \in 1..Len(q)
      BY <1>1, <1>2, <2>1
    <3> QED
      BY <1>1, <3>1, <2>1
  <2>2. CASE k > at
    <3>1. k \in (at + 1)..(Len(q) + 1) /\ k - 1 \in 1..Len(q) /\ ~(k < at)
      BY <1>1, <1>2, <2>2
    <3> QED
      BY <1>1, <3>1
  <2> QED
    BY <1>1, <1>2, <1>3, <2>1, <2>2
<1>4. ASSUME NEW i \in 1..Len(r), NEW j \in 1..Len(r), r[i].id = r[j].id PROVE i = j
  <2>1. CASE i = at \/ j = at
    <3>1. ASSUME NEW k \in 1..Len(r), k # at PROVE r[k].id # n.id
      BY <1>3, <3>1 DEF Fresh
    <3> QED
      BY <1>1, <1>4, <2>1, <3>1
  <2>2. CASE i # at /\ j # at
    <3>1. from(i) \in 1..Len(q) /\ from(j) \in 1..Len(q) /\ q[from(i)].id = q[from(j)].id
      BY <1>3, <1>4, <2>2
    <3>2. from(i) = from(j)
      <4> HIDE DEF from
      <4> QED
        BY <3>1 DEF Numbered
    <3> QED
      BY <1>1, <1>2, <2>2, <3>2
  <2> QED
    BY <2>1, <2>2
<1> QED
  BY <1>4 DEF Numbered, r

\* The queue without its last entry.
LEMMA FrontIs ==
  ASSUME NEW q \in Seq(Note), Len(q) > 0
  PROVE  /\ Seqs!Front(q) \in Seq(Note) /\ Len(Seqs!Front(q)) = Len(q) - 1
         /\ \A k \in 1..(Len(q) - 1) : Seqs!Front(q)[k] = q[k]
<1>1. Len(q) \in Nat
  BY LengthIsNat
<1>2. \A k \in 1..(Len(q) - 1) : q[k] \in Note
  BY <1>1, ElementOfSeq
<1> DEFINE s == SubSeq(q, 1, Len(q) - 1)
<1>3. /\ s \in Seq(Note) /\ Len(s) = IF 1 <= Len(q) - 1 THEN Len(q) - 1 - 1 + 1 ELSE 0
      /\ \A k \in 1..(Len(q) - 1 - 1 + 1) : s[k] = q[1 + k - 1]
  <2>1. Len(q) - 1 \in Int /\ 1 \in Int
    BY <1>1
  <2> QED
    BY <1>2, <2>1, SubSeqProperties
<1>4. Seqs!Front(q) = s
  BY DEF Seqs!Front
<1> HIDE DEF s
<1> QED
  BY <1>1, <1>3, <1>4

\* What lcd_flash_enqueue_rows_to makes of the queue, and what it gives up.
LEMMA EnqueuedIs ==
  ASSUME queue \in Seq(Note), NEW n \in Note
  PROVE  /\ Enqueued(n) \in Seq(Note)
         /\ \A k \in 1..Len(Enqueued(n)) : Enqueued(n)[k] = n \/ Has(queue, Enqueued(n)[k])
         /\ \A i \in 1..Len(queue) :
              \/ Has(Enqueued(n), queue[i])
              \/ Has(Enqueued(n), n) /\ n.priority > queue[i].priority
         /\ Numbered(queue) /\ Fresh(queue, n) => Numbered(Enqueued(n))
<1>0. Len(queue) \in Nat
  BY LengthIsNat
<1>1. CASE Len(queue) < QueueDepth
  <2>1. Enqueued(n) = Inserted(queue, n)
    BY <1>1 DEF Enqueued
  <2> QED
    BY <2>1, InsertedHolds, InsertedNumbered
<1>2. CASE ~(Len(queue) < QueueDepth) /\ n.priority > Seqs!Last(queue).priority
  <2> DEFINE q == Seqs!Front(queue)
  <2>1. Enqueued(n) = Inserted(q, n)
    BY <1>2 DEF Enqueued
  <2>2. Len(queue) > 0
    BY <1>0, <1>2, DisplayAssumption
  <2>3. /\ q \in Seq(Note) /\ Len(q) = Len(queue) - 1
        /\ \A k \in 1..(Len(queue) - 1) : q[k] = queue[k]
    BY <2>2, FrontIs
  <2> HIDE DEF q
  <2>4. \A k \in 1..Len(q) : k \in 1..Len(queue) /\ q[k] = queue[k]
    BY <1>0, <2>3
  <2>5. Seqs!Last(queue) = queue[Len(queue)]
    BY DEF Seqs!Last
  <2>6. ASSUME NEW k \in 1..Len(Enqueued(n))
        PROVE  Enqueued(n)[k] = n \/ Has(queue, Enqueued(n)[k])
    <3>1. Inserted(q, n)[k] = n \/ Has(q, Inserted(q, n)[k])
      BY <2>1, <2>3, InsertedHolds
    <3> QED
      BY <2>1, <2>4, <3>1 DEF Has
  <2>7. ASSUME NEW i \in 1..Len(queue)
        PROVE  \/ Has(Enqueued(n), queue[i])
               \/ Has(Enqueued(n), n) /\ n.priority > queue[i].priority
    <3>1. CASE i = Len(queue)
      BY <1>2, <2>1, <2>3, <2>5, <3>1, InsertedHolds
    <3>2. CASE i # Len(queue)
      <4>1. i \in 1..Len(q) /\ q[i] = queue[i]
        BY <1>0, <2>3, <3>2
      <4>2. Has(Inserted(q, n), q[i])
        BY <2>3, <4>1, InsertedHolds
      <4> QED
        BY <2>1, <4>1, <4>2
    <3> QED
      BY <3>1, <3>2
  <2>8. Numbered(queue) /\ Fresh(queue, n) => Numbered(Enqueued(n))
    <3>1. Numbered(queue) /\ Fresh(queue, n) => Numbered(q) /\ Fresh(q, n)
      BY <2>4 DEF Numbered, Fresh
    <3> QED
      BY <2>1, <2>3, <3>1, InsertedNumbered
  <2> QED
    BY <2>1, <2>3, <2>6, <2>7, <2>8, InsertedHolds
<1>3. CASE ~(Len(queue) < QueueDepth) /\ ~(n.priority > Seqs!Last(queue).priority)
  <2>1. Enqueued(n) = queue
    BY <1>3 DEF Enqueued
  <2> QED
    BY <2>1 DEF Has
<1> QED
  BY <1>1, <1>2, <1>3

\* lcd_flash_dequeue
LEMMA TailIs ==
  ASSUME NEW q \in Seq(Note), q # <<>>
  PROVE  /\ Head(q) \in Note /\ Head(q) = q[1] /\ 1 \in 1..Len(q)
         /\ Tail(q) \in Seq(Note)
         /\ \A k \in 1..Len(Tail(q)) : k + 1 \in 1..Len(q) /\ Tail(q)[k] = q[k + 1]
         /\ \A k \in 2..Len(q) : k - 1 \in 1..Len(Tail(q)) /\ Tail(q)[k - 1] = q[k]
<1>1. Len(q) \in Nat \ {0}
  BY EmptySeq
<1>2. /\ Head(q) \in Note /\ Tail(q) \in Seq(Note) /\ Len(Tail(q)) = Len(q) - 1
      /\ \A k \in 1..Len(Tail(q)) : Tail(q)[k] = q[k + 1]
  BY HeadTailProperties
<1>3. Head(q) = q[1]
  BY <1>1
<1> DEFINE t == Tail(q)
<1> HIDE DEF t
<1>4. /\ t \in Seq(Note) /\ Len(t) = Len(q) - 1
      /\ \A k \in 1..Len(t) : t[k] = q[k + 1]
  BY <1>2 DEF t
<1>5. \A k \in 1..Len(t) : k + 1 \in 1..Len(q) /\ t[k] = q[k + 1]
  BY <1>1, <1>4
<1>6. \A k \in 2..Len(q) : k - 1 \in 1..Len(t) /\ t[k - 1] = q[k]
  <2> SUFFICES ASSUME NEW k \in 2..Len(q) PROVE k - 1 \in 1..Len(t) /\ t[k - 1] = q[k]
    OBVIOUS
  <2>1. k - 1 \in 1..Len(t) /\ (k - 1) + 1 = k
    BY <1>1, <1>4
  <2> QED
    BY <1>4, <2>1
<1> QED
  BY <1>1, <1>2, <1>3, <1>5, <1>6 DEF t

-----------------------------------------------------------------------------
(* The steps, by what they change *)

\* The calls and the clock that change what is on screen, and nothing else.
Shows ==
  \/ \E s \in Plain : ShowPlain(s)
  \/ \E s \in Timed : ShowTimed(s)
  \/ ShowResult \/ ShowStartup \/ Release \/ Progress \/ ClearFault
  \/ \E s \in {"MAIN", "FACTORY_RESET"} \cap Screens : ShowLoading(s)
  \/ \E keep \in BOOLEAN : ShowFault(keep)
  \/ \E c \in Clocks : Lapse(c)

\* The starts of a pass of the display task.
Begins == Recover \/ Refresh \/ Begin

\* The calls that post a notice.
Posts ==
  \/ \E w \in Writers, p \in Kinds, to \in Returns : Post(w, p, to)
  \/ \E p \in Kinds : EventNotice(p)

\* The steps by which a notice reaches the glass, and those that end one.
Rest ==
  \/ \E w \in Writers : StartError(w) \/ MakeTransient(w)
  \/ Posts
  \/ \E w \in Posters \ {"lcd"} : CommitOther(w)
  \/ DropNotice \/ Expire
  \/ ClearNotice \/ NextNotice \/ Look \/ CommitNext \/ NoNext \/ Fall
  \/ DrawScreen

\* Every step is one of these.
LEMMA StepIs ==
  [DisplayNext]_displayVars => Shows \/ Begins \/ Noise \/ Rest \/ UNCHANGED displayVars
BY Zenon DEF DisplayNext, Calls, Pass, Shows, Begins, Posts, Rest

\* Which constants are screens.
LEMMA ScreenSet ==
  /\ {"MAIN", "MENU", "VALUE_EDIT", "WIFI_SCAN", "FAULT", "FLASH_MSG",
      "STARTUP_STATUS", "LOADING"} \subseteq Screens
  /\ Plain \subseteq Screens /\ Timed \subseteq Screens
  /\ ReturnAuto \notin Screens /\ "LOADING" \notin Timed /\ "FAULT" \notin Timed
  /\ Returns \subseteq Screens \cup {ReturnAuto}
  /\ \A s \in Timed : After(s) \in Screens
<1>1. Timed \subseteq Screens /\ Returns \subseteq Screens \cup {ReturnAuto}
  <2>1. Returns \ {ReturnAuto} \subseteq Screens /\ Timed \subseteq Screens
    BY DEF Screens
  <2> QED
    BY <2>1
<1>2. {"MAIN", "MENU", "VALUE_EDIT", "WIFI_SCAN", "FAULT", "FLASH_MSG",
       "STARTUP_STATUS", "LOADING"} \subseteq Screens
  BY DEF Screens, StartupScreens
<1>3. Plain \subseteq Screens
  BY DisplayAssumption, <1>2
<1>4. ReturnAuto \notin Screens /\ "LOADING" \notin Timed /\ "FAULT" \notin Timed
  <2>1. Timed \subseteq {"WIFI_NETWORK_DETAILS", "WIFI_PASSWORD", "WIFI_CONNECTING"}
    BY DisplayAssumption
  <2>2. "AUTO" \notin Timed /\ "LOADING" \notin Timed /\ "FAULT" \notin Timed
    BY <2>1
  <2>3. "AUTO" \notin {"MAIN", "MENU", "VALUE_EDIT", "WIFI_SCAN", "FAULT", "FLASH_MSG"} \cup StartupScreens
    BY DEF StartupScreens
  <2>4. "AUTO" \notin Returns \ {ReturnAuto}
    BY DEF ReturnAuto
  <2>5. "AUTO" \notin Screens
    BY <2>2, <2>3, <2>4 DEF Screens
  <2> QED
    BY <2>2, <2>5 DEF ReturnAuto
<1>5. ASSUME NEW s \in Timed PROVE After(s) \in Screens
  <2>1. s \in {"WIFI_NETWORK_DETAILS", "WIFI_PASSWORD", "WIFI_CONNECTING"}
    BY DisplayAssumption
  <2>2. After(s) \in {"WIFI_SCAN", "MENU"}
    BY <2>1 DEF After
  <2> QED
    BY <1>2, <2>2
<1> QED
  BY <1>1, <1>2, <1>3, <1>4, <1>5

\* They leave the notices, the pass and the driver alone.
LEMMA ShowsFrame ==
  ASSUME StateOK, Shows
  PROVE  /\ UNCHANGED <<notices, pass, hardware>>
         /\ events' \in Nat /\ events <= events'
<1> USE DEF StateOK, Event
<1>1. ASSUME NEW s \in Plain, ShowPlain(s)
      PROVE  UNCHANGED <<notices, pass, hardware>> /\ events' \in Nat /\ events <= events'
  BY <1>1 DEF ShowPlain
<1>2. ASSUME NEW s \in Timed, ShowTimed(s)
      PROVE  UNCHANGED <<notices, pass, hardware>> /\ events' \in Nat /\ events <= events'
  BY <1>2 DEF ShowTimed
<1>3. CASE ShowResult \/ ShowStartup \/ Release \/ Progress \/ ClearFault
  BY <1>3 DEF ShowResult, ShowStartup, Release, Progress, ClearFault
<1>4. ASSUME NEW s \in {"MAIN", "FACTORY_RESET"} \cap Screens, ShowLoading(s)
      PROVE  UNCHANGED <<notices, pass, hardware>> /\ events' \in Nat /\ events <= events'
  BY <1>4 DEF ShowLoading
<1>5. ASSUME NEW keep \in BOOLEAN, ShowFault(keep)
      PROVE  UNCHANGED <<notices, pass, hardware>> /\ events' \in Nat /\ events <= events'
  BY <1>5 DEF ShowFault
<1>6. ASSUME NEW c \in Clocks, Lapse(c)
      PROVE  UNCHANGED <<notices, pass, hardware>> /\ events' \in Nat /\ events <= events'
  BY <1>6 DEF Lapse
<1> QED
  BY <1>1, <1>2, <1>3, <1>4, <1>5, <1>6 DEF Shows

\* What is on screen stays a screen.
LEMMA ShowsState == ASSUME StateOK, Shows PROVE StateOK'
<1> USE DEF StateOK, Event
<1>0. events' \in Nat
  BY ShowsFrame
<1>1. ASSUME NEW s \in Plain, ShowPlain(s) PROVE StateOK'
  BY <1>0, <1>1, ScreenSet DEF ShowPlain, Screen
<1>2. ASSUME NEW s \in Timed, ShowTimed(s) PROVE StateOK'
  <2>1. over' \in BOOLEAN
    BY <1>2, Zenon DEF ShowTimed
  <2> QED
    BY <1>0, <1>2, <2>1, ScreenSet DEF ShowTimed, Screen
<1>3. CASE ShowResult
  BY <1>0, <1>3, ScreenSet DEF ShowResult, Screen
<1>4. CASE ShowStartup \/ Release \/ Progress
  BY <1>0, <1>4, ScreenSet DEF ShowStartup, Release, Progress
<1>5. CASE ClearFault
  BY <1>0, <1>5, ScreenSet DEF ClearFault, Screen
<1>6. ASSUME NEW s \in {"MAIN", "FACTORY_RESET"} \cap Screens, ShowLoading(s) PROVE StateOK'
  BY <1>0, <1>6, ScreenSet DEF ShowLoading
<1>7. ASSUME NEW keep \in BOOLEAN, ShowFault(keep) PROVE StateOK'
  <2>1. transient' \in BOOLEAN
    BY <1>7, Zenon DEF ShowFault
  <2> QED
    BY <1>0, <1>7, <2>1, ScreenSet DEF ShowFault
<1>8. ASSUME NEW c \in Clocks, Lapse(c) PROVE StateOK'
  BY <1>0, <1>8 DEF Lapse
<1> QED
  BY <1>1, <1>2, <1>3, <1>4, <1>5, <1>6, <1>7, <1>8 DEF Shows

-----------------------------------------------------------------------------
(* A pass begins *)

\* The driver after an attempt to bring it up.
LEMMA RecoveryIs ==
  ASSUME StateOK, HardwareOK, Recovery, NeedsRecovery
  PROVE  /\ driver' \in [init : BOOLEAN, error : BOOLEAN, failures : Nat]
         /\ row' \in [last : Drawn, cache : Content, clear : BOOLEAN]
         /\ glass' \in Content
         /\ events' \in Nat /\ events <= events'
         /\ row'.cache = Nothing \/ (row' = row /\ (~driver'.init \/ driver'.error))
<1> DEFINE Is ==
         /\ driver' \in [init : BOOLEAN, error : BOOLEAN, failures : Nat]
         /\ row' \in [last : Drawn, cache : Content, clear : BOOLEAN]
         /\ glass' \in Content
         /\ events' \in Nat /\ events <= events'
         /\ row'.cache = Nothing \/ (row' = row /\ (~driver'.init \/ driver'.error))
<1>0. Nothing \in Content /\ Blank \in Content
  BY DEF Nothing, Blank, Content
<1>1. ASSUME NEW shown \in Content, NEW cost \in {0, 1}, BringUp(shown, cost) PROVE Is
  <2>1. PICK ok \in BOOLEAN : /\ driver' = [init |-> TRUE, error |-> ~ok, failures |-> 0]
                              /\ events' = events + cost + (IF ok THEN 0 ELSE 1)
    BY <1>1 DEF BringUp
  <2>2. driver' \in [init : BOOLEAN, error : BOOLEAN, failures : Nat]
    BY <2>1
  <2>3. events' \in Nat /\ events <= events'
    BY <2>1 DEF StateOK
  <2> QED
    BY <1>0, <1>1, <2>2, <2>3 DEF BringUp, HardwareOK
<1>2. MoreFailures \in Nat
  BY DisplayAssumption DEF MoreFailures, HardwareOK
<1>3. ASSUME InitFails PROVE Is
  BY <1>2, <1>3 DEF InitFails, HardwareOK, StateOK, Event
<1>4. ASSUME ResyncFails PROVE Is
  BY <1>2, <1>4 DEF ResyncFails, HardwareOK, StateOK, Event, NeedsRecovery
<1>5. BringUp(glass, 0) \/ BringUp(Blank, IF driver.init THEN 1 ELSE 0) \/ InitFails \/ ResyncFails
  BY DEF Recovery
<1>6. glass \in Content
  BY DEF HardwareOK
<1> HIDE DEF Is
<1>7. BringUp(Blank, IF driver.init THEN 1 ELSE 0) => Is
  <2>1. (IF driver.init THEN 1 ELSE 0) \in {0, 1}
    OBVIOUS
  <2> QED
    BY <1>0, <1>1, <2>1
<1>8. BringUp(glass, 0) => Is
  <2>1. 0 \in {0, 1}
    OBVIOUS
  <2> QED
    BY <1>1, <1>6, <2>1
<1>9. Is
  BY <1>3, <1>4, <1>5, <1>7, <1>8
<1> QED
  BY <1>9 DEF Is

\* A pass takes the notice's screen, or the one it sees.
LEMMA SnapshotIs ==
  ASSUME StateOK, NotesOK, PassOK, ReturnOK, Snapshot
  PROVE  /\ PassOK'
         /\ task = "begin" /\ task' \in {"clear", "draw"}
         /\ task' = "clear" => flash.note.to # ReturnAuto
         /\ snap' \in {Seen, Overlaid(Seen)}
<1>1. Seen \in [screen : Drawn, due : BOOLEAN, start : Nat, over : BOOLEAN]
  <2>1. Overdue \in BOOLEAN
    BY Zenon DEF Overdue
  <2> QED
    BY <2>1 DEF Seen, StateOK, Drawn
<1>2. Overlaid(Seen) \in [screen : Drawn, due : BOOLEAN, start : Nat, over : BOOLEAN]
  BY <1>1, ScreenSet DEF Overlaid, NoSnapshot, Drawn
<1> QED
  BY <1>1, <1>2 DEF Snapshot, PassOK, ReturnOK

\* A pass begins with the driver, and empties the cache of a glass brought up anew.
LEMMA BeginsFrame ==
  ASSUME StateOK, HardwareOK, Begins
  PROVE  /\ UNCHANGED <<state, notices>> /\ Snapshot
         /\ events' \in Nat /\ events <= events'
         /\ HardwareOK'
         /\ row' = row \/ row'.cache = Nothing
         /\ \/ UNCHANGED hardware
            \/ row'.cache = Nothing
            \/ ~driver'.init \/ driver'.error
<1>1. CASE Recover
  BY <1>1, RecoveryIs DEF Recover, HardwareOK
<1>2. CASE Refresh
  <2>1. Nothing \in Content
    BY DEF Nothing, Content
  <2> QED
    BY <1>2, <2>1 DEF Refresh, HardwareOK, StateOK
<1>3. CASE Begin
  BY <1>3 DEF Begin, HardwareOK, StateOK, hardware
<1> QED
  BY <1>1, <1>2, <1>3 DEF Begins

\* The event receiver and the display task are posters of their own.
LEMMA PostersAre ==
  /\ Writers \subseteq Posters /\ "receiver" \in Posters /\ "lcd" \in Posters
  /\ "lcd" \notin Writers /\ "receiver" # "lcd"
BY DisplayAssumption DEF Posters

\* The types of the initial values.
LEMMA NothingIs ==
  /\ NoNotice \in Note /\ Idle \in [stage : Stages, note : Note]
  /\ Idle.stage = "idle"
  /\ Nothing \in Content /\ Blank \in Content /\ Garbage \in Content
  /\ NoSnapshot \in [screen : Drawn, due : BOOLEAN, start : Nat, over : BOOLEAN]
  /\ NoSnapshot.screen = "NONE"
BY DEF NoNotice, Note, Idle, Stages, Nothing, Blank, Garbage, Content, NoSnapshot, Drawn

-----------------------------------------------------------------------------
(* Notices are posted, and arrive *)

\* The note a poster brings, and what it saw.
LEMMA PostIs ==
  ASSUME StateOK, NotesOK,
         NEW w \in Posters, NEW p \in Kinds, NEW to \in Returns, Post(w, p, to)
  PROVE  /\ UNCHANGED <<state, flash, queue, raising, pass, hardware>>
         /\ events' = events + 1 /\ post[w] = Idle
         /\ \E note \in Note :
              /\ note.id = events + 1
              /\ \E stage \in {"show", "queue"} :
                   post' = [post EXCEPT ![w] = [stage |-> stage, note |-> note]]
<1> DEFINE note == [id |-> events + 1, priority |-> p, to |-> to]
<1>1. note \in Note
  BY DisplayAssumption, ScreenSet DEF Note, StateOK
<1>2. post' = [post EXCEPT ![w] = Looked(note)]
  BY DEF Post
<1>3. note.id = events + 1
  OBVIOUS
<1>4. UNCHANGED <<state, flash, queue, raising, pass, hardware>> /\ post[w] = Idle
      /\ events' = events + 1
  BY DEF Post, Event
<1> HIDE DEF note
<1>5. \E stage \in {"show", "queue"} : post' = [post EXCEPT ![w] = [stage |-> stage, note |-> note]]
  BY <1>2 DEF Looked
<1> QED
  BY <1>1, <1>3, <1>4, <1>5

\* Whoever posts, the post is a new notice of a task other than the display task.
LEMMA PostsAre ==
  ASSUME StateOK, NotesOK, Posts
  PROVE  /\ UNCHANGED <<state, flash, queue, raising, pass, hardware>>
         /\ events' = events + 1
         /\ \E w \in Posters \ {"lcd"}, note \in Note, stage \in {"show", "queue"} :
              /\ note.id = events + 1
              /\ post[w] = Idle
              /\ post' = [post EXCEPT ![w] = [stage |-> stage, note |-> note]]
<1>1. ASSUME NEW w \in Writers, NEW p \in Kinds, NEW to \in Returns, Post(w, p, to)
      PROVE  /\ UNCHANGED <<state, flash, queue, raising, pass, hardware>>
             /\ events' = events + 1
             /\ \E note \in Note, stage \in {"show", "queue"} :
                  /\ note.id = events + 1
                  /\ post[w] = Idle
                  /\ post' = [post EXCEPT ![w] = [stage |-> stage, note |-> note]]
  BY <1>1, PostIs, PostersAre
<1>2. ASSUME NEW p \in Kinds, EventNotice(p)
      PROVE  /\ UNCHANGED <<state, flash, queue, raising, pass, hardware>>
             /\ events' = events + 1
             /\ \E note \in Note, stage \in {"show", "queue"} :
                  /\ note.id = events + 1
                  /\ post["receiver"] = Idle
                  /\ post' = [post EXCEPT !["receiver"] = [stage |-> stage, note |-> note]]
  <2>1. Post("receiver", p, ReturnAuto)
    BY <1>2 DEF EventNotice
  <2>2. ReturnAuto \in Returns /\ "receiver" \in Posters
    BY DisplayAssumption, PostersAre
  <2> QED
    BY <2>1, <2>2, PostIs
<1> QED
  BY <1>1, <1>2, PostersAre DEF Posts

\* The two ways a notice ends: shown, with a screen to return to, or queued.
LEMMA CommitIs ==
  ASSUME StateOK, NotesOK, NEW w \in Posters, Commit(w)
  PROVE  /\ UNCHANGED <<released, lapsed, transient, loading, over, raising, hardware, events>>
         /\ post' = [post EXCEPT ![w] = Idle]
         /\ \/ /\ post[w].stage = "show"
               /\ queue' = queue /\ screen' = "FLASH_MSG"
               /\ flash' \in [active : BOOLEAN, note : Note, expired : BOOLEAN]
               /\ flash'.active /\ flash'.note.to # ReturnAuto
            \/ /\ post[w].stage = "queue" /\ UNCHANGED <<flash, screen>>
               /\ \E note \in Note : note.id = post[w].note.id /\ queue' = Enqueued(note)
<1> DEFINE n == post[w].note
<1>1. n \in Note
  BY DEF NotesOK
<1>2. UNCHANGED <<released, lapsed, transient, loading, over, raising, hardware, events>>
      /\ post' = [post EXCEPT ![w] = Idle]
  BY DEF Commit
<1>3. CASE post[w].stage = "show" /\ queue' = queue
  <2> DEFINE to == IF n.to # ReturnAuto THEN n.to
                   ELSE IF screen = "VALUE_EDIT" THEN "MAIN" ELSE screen
             shown == [n EXCEPT !.to = to]
  <2>1. flash' = [active |-> TRUE, expired |-> FALSE, note |-> shown] /\ screen' = "FLASH_MSG"
    BY <1>3 DEF Commit
  <2>2. to \in Screens /\ to # ReturnAuto
    BY <1>1, ScreenSet DEF StateOK, Note
  <2> HIDE DEF to
  <2>3. shown \in Note /\ shown.to = to
    BY <1>1, <2>2 DEF Note
  <2> HIDE DEF shown
  <2> QED
    BY <1>2, <1>3, <2>1, <2>2, <2>3
<1>4. CASE ~(post[w].stage = "show" /\ queue' = queue)
  <2> DEFINE queued == [n EXCEPT !.to = IF @ = ReturnAuto THEN flash.note.to ELSE @]
  <2>1. post[w].stage = "queue" /\ queue' = Enqueued(queued) /\ UNCHANGED <<flash, screen>>
    BY <1>4 DEF Commit
  <2>2. queued \in Note /\ queued.id = n.id
    BY <1>1 DEF Note, NotesOK
  <2> HIDE DEF queued
  <2> QED
    BY <1>2, <2>1, <2>2
<1> QED
  BY <1>3, <1>4

-----------------------------------------------------------------------------
(* A pass draws *)

\* What a pass wants on the glass is a content of it.
LEMMA WantedType ==
  ASSUME NotesOK, PassOK
  PROVE  Wanted \in Content
<1>1. flash.note.id \in Nat /\ snap.screen \in Drawn
  BY DEF NotesOK, Note, PassOK
<1>2. <<snap.screen, 0>> \in Content
  BY <1>1 DEF Content
<1>3. <<"FLASH_MSG", flash.note.id>> \in Content
  BY <1>1, ScreenSet DEF Content, Drawn
<1> QED
  BY <1>2, <1>3, NothingIs DEF Wanted

\* draw_commit_rows: what it leaves in the cache is on the glass, if no transfer
\* failed and no character was corrupted before.
LEMMA DrawIs ==
  ASSUME StateOK, NotesOK, PassOK, HardwareOK, CacheOK, Draw
  PROVE  HardwareOK' /\ CacheOK' /\ events' \in Nat /\ events <= events'
<1> DEFINE changed == snap.screen # row.last
           cleared == changed \/ row.clear
           cache == IF changed THEN Nothing ELSE row.cache
           writes == cleared \/ Wanted \notin {Nothing, cache}
           written == IF Wanted = Nothing \/ Wanted = cache
                      THEN (IF cleared THEN Blank ELSE glass)
                      ELSE (IF noisy /\ cache # Nothing THEN glass ELSE Wanted)
           left == IF Wanted = Nothing THEN cache ELSE Wanted
<1>1. row' = [last |-> snap.screen, clear |-> FALSE, cache |-> left]
  BY DEF Draw
<1>2. \/ (~writes \/ Refuses) /\ UNCHANGED <<driver, glass, noisy, events>>
      \/ /\ writes /\ ~NeedsRecovery /\ glass' = written
         /\ noisy' = (noisy /\ ~cleared /\ (cache # Nothing \/ Wanted = Nothing))
         /\ UNCHANGED <<driver, events>>
      \/ /\ glass' \in {glass, Garbage} /\ UNCHANGED noisy
         /\ IF driver.init THEN Event /\ driver' = [driver EXCEPT !.error = TRUE]
            ELSE UNCHANGED <<driver, events>>
  BY Zenon DEF Draw
<1>3. /\ row \in [last : Drawn, cache : Content, clear : BOOLEAN] /\ snap.screen \in Drawn
      /\ glass \in Content /\ noisy \in BOOLEAN /\ events \in Nat
      /\ driver \in [init : BOOLEAN, error : BOOLEAN, failures : Nat]
  BY DEF HardwareOK, PassOK, StateOK
<1>4. Wanted \in Content /\ Nothing \in Content /\ Blank \in Content /\ Garbage \in Content
  BY WantedType, NothingIs
<1>5. cache \in Content /\ left \in Content /\ written \in Content
  BY <1>3, <1>4
<1>6. cleared => cache = Nothing
  BY DEF CacheOK
<1>7. CacheTruthful /\ (~changed => cache = row.cache)
  BY DEF CacheOK
<1> HIDE DEF changed, cache, left
<1>8. left = (IF Wanted = Nothing THEN cache ELSE Wanted)
  BY DEF left
<1>9. row' \in [last : Drawn, cache : Content, clear : BOOLEAN] /\ ~row'.clear /\ row'.cache = left
  BY <1>1, <1>3, <1>5
<1>10. CASE (~writes \/ Refuses) /\ UNCHANGED <<driver, glass, noisy, events>>
  <2>1. CacheTruthful'
    <3>1. CASE Refuses
      BY <1>10, <3>1 DEF CacheTruthful, Refuses
    <3>2. CASE ~writes
      <4>1. left = row.cache
        BY <1>7, <1>8, <3>2
      <4> QED
        BY <1>7, <1>9, <1>10, <4>1 DEF CacheTruthful
    <3> QED
      BY <1>10, <3>1, <3>2
  <2> QED
    BY <1>3, <1>9, <1>10, <2>1 DEF HardwareOK, CacheOK
<1>11. CASE /\ writes /\ ~NeedsRecovery /\ glass' = written
            /\ noisy' = (noisy /\ ~cleared /\ (cache # Nothing \/ Wanted = Nothing))
            /\ UNCHANGED <<driver, events>>
  <2>1. noisy' \in BOOLEAN
    BY <1>11, Zenon
  <2>2. ASSUME ~noisy' PROVE left \in {Nothing, glass'}
    <3>1. CASE cleared
      BY <1>6, <1>8, <1>11, <3>1
    <3>2. CASE ~cleared
      <4>1. cache = row.cache /\ (~noisy => cache \in {Nothing, glass})
        BY <1>7, <1>11, <3>2 DEF CacheTruthful, NeedsRecovery
      <4> QED
        BY <1>8, <1>11, <2>2, <3>2, <4>1
    <3> QED
      BY <3>1, <3>2
  <2>3. CacheTruthful'
    BY <1>9, <2>2 DEF CacheTruthful
  <2> QED
    BY <1>3, <1>5, <1>9, <1>11, <2>1, <2>3 DEF HardwareOK, CacheOK
<1>12. CASE /\ glass' \in {glass, Garbage} /\ UNCHANGED noisy
            /\ IF driver.init THEN Event /\ driver' = [driver EXCEPT !.error = TRUE]
               ELSE UNCHANGED <<driver, events>>
  <2>1. driver' \in [init : BOOLEAN, error : BOOLEAN, failures : Nat]
        /\ events' \in Nat /\ events <= events' /\ (~driver'.init \/ driver'.error)
    <3>1. CASE driver.init
      <4>1. Event /\ driver' = [driver EXCEPT !.error = TRUE]
        BY <1>12, <3>1
      <4>2. driver' \in [init : BOOLEAN, error : BOOLEAN, failures : Nat] /\ driver'.error
        BY <1>3, <4>1
      <4> QED
        BY <1>3, <4>1, <4>2 DEF Event
    <3>2. CASE ~driver.init
      BY <1>3, <1>12, <3>2
    <3> QED
      BY <3>1, <3>2
  <2> QED
    BY <1>3, <1>4, <1>9, <1>12, <2>1 DEF HardwareOK, CacheOK, CacheTruthful
<1> QED
  BY <1>2, <1>10, <1>11, <1>12

\* A pass ends with what it drew, and with the deadline it saw.
LEMMA DrawScreenIs ==
  ASSUME StateOK, NotesOK, PassOK, HardwareOK, CacheOK, DrawScreen
  PROVE  /\ task = "draw" /\ task' = "begin" /\ snap' = NoSnapshot
         /\ UNCHANGED <<released, loading, notices>>
         /\ StateOK' /\ HardwareOK' /\ CacheOK' /\ events <= events'
<1>1. /\ task = "draw" /\ task' = "begin" /\ snap' = NoSnapshot
      /\ UNCHANGED <<released, loading, notices>>
  BY DEF DrawScreen, Goto
<1>2. HardwareOK' /\ CacheOK' /\ events' \in Nat /\ events <= events'
  BY DrawIs DEF DrawScreen
<1>3. /\ screen' \in Screens /\ lapsed' \in SUBSET Clocks
      /\ transient' \in BOOLEAN /\ over' \in BOOLEAN
  <2> USE DEF StateOK
  <2>1. CASE FaultTimer
    BY <2>1, ScreenSet DEF FaultTimer
  <2>2. CASE LoadingTimer
    BY <2>2 DEF LoadingTimer
  <2>3. CASE WifiTimer
    BY <2>3, ScreenSet DEF WifiTimer
  <2>4. CASE NoTimer
    BY <2>4 DEF NoTimer
  <2> QED
    BY <2>1, <2>2, <2>3, <2>4 DEF DrawScreen
<1> QED
  BY <1>1, <1>2, <1>3 DEF StateOK

-----------------------------------------------------------------------------
(* The invariant holds *)

\* The display starts in the invariant.
LEMMA StartsWell == DisplayInit => DisplayInv
<1> SUFFICES ASSUME DisplayInit PROVE DisplayInv
  OBVIOUS
<1> USE DEF DisplayInit
<1>1. StateOK
  BY ScreenSet DEF StateOK
<1>2. NotesOK
  <2>1. queue \in Seq(Note) /\ raising \in SUBSET Writers
    BY EmptySeq
  <2>2. flash \in [active : BOOLEAN, note : Note, expired : BOOLEAN]
    BY NothingIs DEF NoFlash
  <2>3. post \in [Posters -> [stage : Stages, note : Note]]
    BY NothingIs
  <2> QED
    BY <2>1, <2>2, <2>3 DEF NotesOK
<1>3. PassOK /\ HardwareOK
  BY NothingIs, ScreenSet DEF PassOK, HardwareOK, Drawn
<1>4. ReturnOK /\ CacheOK /\ LoadingOK
  BY NothingIs DEF ReturnOK, CacheOK, CacheTruthful, LoadingOK, NoFlash
<1>5. DistinctOK
  <2>1. Len(queue) = 0
    BY EmptySeq
  <2>2. \A w \in Posters : ~Waiting(w)
    BY NothingIs DEF Waiting
  <2> QED
    BY <2>1, <2>2 DEF DistinctOK, Numbered
<1> QED
  BY <1>1, <1>2, <1>3, <1>4, <1>5 DEF DisplayInv, DisplayTypeOK

\* No step loses count of the notices and of what MaxEvents bounds.
LEMMA DisplayTypeStep ==
  ASSUME DisplayTypeOK, ReturnOK, CacheOK, [DisplayNext]_displayVars
  PROVE  DisplayTypeOK' /\ events <= events'
<1> USE DEF DisplayTypeOK
<1>1. CASE Shows
  BY <1>1, ShowsFrame, ShowsState DEF notices, pass, hardware, NotesOK, PassOK, HardwareOK
<1>2. CASE Begins
  <2>1. /\ UNCHANGED <<state, notices>> /\ Snapshot
        /\ events' \in Nat /\ events <= events' /\ HardwareOK'
    BY <1>2, BeginsFrame
  <2>2. PassOK'
    BY <2>1, SnapshotIs
  <2> QED
    BY <2>1, <2>2 DEF state, notices, StateOK, NotesOK
<1>3. CASE Noise
  BY <1>3, NothingIs DEF Noise, Event, state, notices, pass, StateOK, NotesOK, PassOK, HardwareOK
<1>4. CASE Rest
  <2>1. ASSUME NEW w \in Writers, StartError(w) \/ MakeTransient(w)
        PROVE  DisplayTypeOK' /\ events <= events'
    <3>1. UNCHANGED <<released, loading, over, flash, queue, post, pass, hardware>>
      BY <2>1 DEF StartError, MakeTransient
    <3>2. screen' \in Screens /\ lapsed' \in SUBSET Clocks /\ transient' \in BOOLEAN
          /\ events' \in Nat /\ events <= events'
      <4>1. CASE StartError(w)
        <5>1. screen' = "FAULT" /\ transient' = FALSE /\ lapsed' = lapsed \ {"FAULT"}
              /\ events' = events + 1
          BY <4>1 DEF StartError, Event
        <5>2. screen' \in Screens
          BY <5>1, ScreenSet
        <5>3. events \in Nat /\ lapsed \in SUBSET Clocks
          BY DEF StateOK
        <5>4. events' \in Nat /\ events <= events'
          BY <5>1, <5>3
        <5>5. lapsed' \in SUBSET Clocks
          BY <5>1, <5>3
        <5> QED
          BY <5>1, <5>2, <5>4, <5>5
      <4>2. CASE MakeTransient(w)
        BY <4>2 DEF MakeTransient, StateOK
      <4> QED
        BY <2>1, <4>1, <4>2
    <3>3. raising' \in SUBSET Writers
      BY <2>1 DEF StartError, MakeTransient, NotesOK
    <3> QED
      BY <3>1, <3>2, <3>3 DEF pass, hardware, StateOK, NotesOK, PassOK, HardwareOK
  <2>2. CASE Posts
    <3>1. /\ UNCHANGED <<state, flash, queue, raising, pass, hardware>>
          /\ events' = events + 1
      BY <2>2, PostsAre
    <3>2. post' \in [Posters -> [stage : Stages, note : Note]]
      <4>1. PICK w \in Posters \ {"lcd"}, note \in Note, stage \in {"show", "queue"} :
              post' = [post EXCEPT ![w] = [stage |-> stage, note |-> note]]
        BY <2>2, PostsAre
      <4>2. [stage |-> stage, note |-> note] \in [stage : Stages, note : Note]
        BY DEF Stages
      <4> QED
        BY <4>1, <4>2 DEF NotesOK
    <3> QED
      BY <3>1, <3>2 DEF state, pass, hardware, StateOK, NotesOK, PassOK, HardwareOK
  <2>3. ASSUME NEW w \in Posters, Commit(w)
        PROVE  StateOK' /\ NotesOK' /\ HardwareOK' /\ events <= events'
    <3>1. /\ UNCHANGED <<released, lapsed, transient, loading, over, raising, hardware, events>>
          /\ post' = [post EXCEPT ![w] = Idle]
      BY <2>3, CommitIs
    <3>2. post' \in [Posters -> [stage : Stages, note : Note]]
      BY <3>1, NothingIs DEF NotesOK
    <3>3. screen' \in Screens /\ flash' \in [active : BOOLEAN, note : Note, expired : BOOLEAN]
      BY <2>3, CommitIs, ScreenSet DEF StateOK, NotesOK
    <3>4. queue' \in Seq(Note)
      BY <2>3, CommitIs, EnqueuedIs DEF NotesOK
    <3> QED
      BY <3>1, <3>2, <3>3, <3>4 DEF hardware, StateOK, NotesOK, HardwareOK
  <2>4. ASSUME NEW w \in Posters, CommitOther(w) PROVE DisplayTypeOK' /\ events <= events'
    BY <2>3, <2>4 DEF CommitOther, pass, PassOK
  <2>5. CASE DropNotice
    <3>1. flash' \in [active : BOOLEAN, note : Note, expired : BOOLEAN]
      BY <2>5, NothingIs DEF DropNotice, NoFlash, NotesOK, Note
    <3> QED
      BY <2>5, <3>1, ScreenSet DEF DropNotice, Event, pass, hardware, StateOK, NotesOK, PassOK, HardwareOK
  <2>6. CASE Expire
    <3>1. flash' \in [active : BOOLEAN, note : Note, expired : BOOLEAN]
      BY <2>6 DEF Expire, NotesOK
    <3> QED
      BY <2>6, <3>1 DEF Expire, state, pass, hardware, StateOK, NotesOK, PassOK, HardwareOK
  <2>7. CASE ClearNotice
    <3>1. flash' \in [active : BOOLEAN, note : Note, expired : BOOLEAN]
      BY <2>7, NothingIs DEF ClearNotice, NoFlash, NotesOK, Note
    <3>2. post' \in [Posters -> [stage : Stages, note : Note]]
      <4>1. [stage |-> "return", note |-> flash.note] \in [stage : Stages, note : Note]
        BY DEF Stages, NotesOK
      <4> QED
        BY <2>7, <4>1 DEF ClearNotice, NotesOK
    <3> QED
      BY <2>7, <3>1, <3>2 DEF ClearNotice, Goto, state, hardware, StateOK, NotesOK, PassOK, HardwareOK
  <2>8. CASE NextNotice
    <3>1. Head(queue) \in Note /\ Tail(queue) \in Seq(Note)
      BY <2>8, TailIs DEF NextNotice, NotesOK
    <3>2. post' \in [Posters -> [stage : Stages, note : Note]]
      <4>1. [stage |-> "look", note |-> Head(queue)] \in [stage : Stages, note : Note]
        BY <3>1 DEF Stages
      <4> QED
        BY <2>8, <4>1 DEF NextNotice, NotesOK
    <3>3. queue' \in Seq(Note)
      BY <2>8, <3>1 DEF NextNotice
    <3> QED
      BY <2>8, <3>2, <3>3 DEF NextNotice, Goto, state, hardware, StateOK, NotesOK, PassOK, HardwareOK
  <2>9. CASE Look
    <3>1. post' \in [Posters -> [stage : Stages, note : Note]]
      <4>1. Looked(post["lcd"].note) \in [stage : Stages, note : Note]
        BY PostersAre DEF Looked, Stages, NotesOK
      <4> QED
        BY <2>9, <4>1 DEF Look, NotesOK
    <3> QED
      BY <2>9, <3>1 DEF Look, Goto, state, hardware, StateOK, NotesOK, PassOK, HardwareOK
  <2>10. CASE CommitNext
    <3>1. PassOK'
      BY <2>10, ScreenSet, NothingIs DEF CommitNext, Goto, PassOK, NoSnapshot, Drawn
    <3> QED
      BY <2>3, <2>10, <3>1, PostersAre DEF CommitNext
  <2>11. CASE NoNext
    BY <2>11 DEF NoNext, Goto, state, notices, hardware, StateOK, NotesOK, PassOK, HardwareOK
  <2>12. CASE Fall
    <3>1. screen' \in Screens
      <4>1. post["lcd"].note.to # ReturnAuto /\ post["lcd"].note \in Note
        BY <2>12, PostersAre DEF Fall, Goto, ReturnOK, NotesOK
      <4> QED
        BY <2>12, <4>1 DEF Fall, Note
    <3>2. post' \in [Posters -> [stage : Stages, note : Note]]
      BY <2>12, NothingIs DEF Fall, NotesOK
    <3>3. snap' \in [screen : Drawn, due : BOOLEAN, start : Nat, over : BOOLEAN]
      BY <2>12, ScreenSet DEF Fall, Overlaid, NoSnapshot, Drawn, PassOK
    <3> QED
      BY <2>12, <3>1, <3>2, <3>3 DEF Fall, Goto, hardware, StateOK, NotesOK, PassOK, HardwareOK
  <2>13. CASE DrawScreen
    BY <2>13, DrawScreenIs, NothingIs DEF notices, NotesOK, PassOK
  <2> QED
    BY <1>4, <2>1, <2>2, <2>4, <2>5, <2>6, <2>7, <2>8, <2>9, <2>10, <2>11, <2>12, <2>13 DEF Rest
<1>5. CASE UNCHANGED displayVars
  BY <1>5 DEF displayVars, state, notices, pass, hardware, StateOK, NotesOK, PassOK, HardwareOK
<1> QED
  BY <1>1, <1>2, <1>3, <1>4, <1>5, StepIs

\* Whatever a notice covers, there is a screen to come back to.
LEMMA ReturnStep ==
  ASSUME DisplayTypeOK, ReturnOK, [DisplayNext]_displayVars
  PROVE  ReturnOK'
<1> USE DEF DisplayTypeOK
<1>1. CASE Shows
  BY <1>1, ShowsFrame DEF notices, pass, ReturnOK
<1>2. CASE Begins
  <2>1. UNCHANGED <<flash, post>> /\ task' \in {"clear", "draw"}
        /\ (task' = "clear" => flash.note.to # ReturnAuto)
    <3>1. UNCHANGED notices /\ Snapshot /\ StateOK /\ NotesOK /\ PassOK
      BY <1>2, BeginsFrame
    <3> QED
      BY <3>1, SnapshotIs DEF notices
  <2> QED
    BY <2>1 DEF ReturnOK
<1>3. CASE Noise
  BY <1>3 DEF Noise, notices, pass, ReturnOK
<1>4. CASE Rest
  <2>1. ASSUME NEW w \in Writers, StartError(w) \/ MakeTransient(w) PROVE ReturnOK'
    BY <2>1 DEF StartError, MakeTransient, pass, ReturnOK
  <2>2. CASE Posts
    <3>1. PICK w \in Posters \ {"lcd"}, note \in Note, stage \in {"show", "queue"} :
            post' = [post EXCEPT ![w] = [stage |-> stage, note |-> note]]
      BY <2>2, PostsAre
    <3>2. post'["lcd"] = post["lcd"]
      BY <3>1, PostersAre DEF NotesOK
    <3>3. UNCHANGED <<flash, pass>>
      BY <2>2, PostsAre
    <3> QED
      BY <3>2, <3>3 DEF pass, ReturnOK
  <2>3. ASSUME NEW w \in Posters, Commit(w)
        PROVE  /\ flash'.active => flash'.note.to # ReturnAuto
               /\ flash.note.to # ReturnAuto => flash'.note.to # ReturnAuto
    BY <2>3, CommitIs DEF ReturnOK
  <2>4. ASSUME NEW w \in Posters \ {"lcd"}, CommitOther(w) PROVE ReturnOK'
    <3>1. post' = [post EXCEPT ![w] = Idle]
      BY <2>4, CommitIs DEF CommitOther
    <3>2. post'["lcd"] = post["lcd"]
      BY <3>1, PostersAre DEF NotesOK
    <3> QED
      BY <2>3, <2>4, <3>2 DEF CommitOther, pass, ReturnOK
  <2>5. CASE DropNotice
    <3>1. flash'.note.to = flash.note.to /\ ~flash'.active
      BY <2>5, NothingIs DEF DropNotice, NoFlash, Note, NoNotice
    <3> QED
      BY <2>5, <3>1 DEF DropNotice, pass, ReturnOK
  <2>6. CASE Expire
    BY <2>6 DEF Expire, pass, ReturnOK, NotesOK
  <2>7. CASE ClearNotice
    <3>1. post'["lcd"] = [stage |-> "return", note |-> flash.note]
      BY <2>7, PostersAre DEF ClearNotice, NotesOK
    <3>2. ~flash'.active
      BY <2>7 DEF ClearNotice, NoFlash
    <3> QED
      BY <2>7, <3>1, <3>2 DEF ClearNotice, Goto, ReturnOK
  <2>8. CASE NextNotice
    <3>1. post'["lcd"].stage = "look"
      BY <2>8, PostersAre DEF NextNotice, NotesOK
    <3> QED
      BY <2>8, <3>1 DEF NextNotice, Goto, ReturnOK
  <2>11. CASE Look \/ NoNext \/ Fall
    BY <2>11 DEF Look, NoNext, Fall, Goto, notices, ReturnOK
  <2>9. CASE CommitNext
    BY <2>3, <2>9, PostersAre DEF CommitNext, Goto, ReturnOK
  <2>10. CASE DrawScreen
    BY <2>10 DEF DrawScreen, Goto, notices, ReturnOK
  <2> QED
    BY <1>4, <2>1, <2>2, <2>4, <2>5, <2>6, <2>7, <2>8, <2>9, <2>10, <2>11 DEF Rest
<1>5. CASE UNCHANGED displayVars
  BY <1>5 DEF displayVars, notices, pass, ReturnOK
<1> QED
  BY <1>1, <1>2, <1>3, <1>4, <1>5, StepIs

\* The row cache never says more than the glass shows.
LEMMA CacheStep ==
  ASSUME DisplayTypeOK, CacheOK, [DisplayNext]_displayVars
  PROVE  CacheOK'
<1> USE DEF DisplayTypeOK
<1>1. CASE Shows
  BY <1>1, ShowsFrame DEF hardware, CacheOK, CacheTruthful
<1>2. CASE Begins
  <2>1. \/ UNCHANGED hardware
        \/ row'.cache = Nothing
        \/ row' = row /\ (~driver'.init \/ driver'.error)
    BY <1>2, BeginsFrame
  <2> QED
    BY <2>1 DEF hardware, CacheOK, CacheTruthful
<1>3. CASE Noise
  BY <1>3 DEF Noise, CacheOK, CacheTruthful
<1>4. CASE Rest
  <2>1. CASE DrawScreen
    BY <2>1, DrawScreenIs
  <2>2. ASSUME NEW w \in Posters, Commit(w) PROVE UNCHANGED hardware
    BY <2>2 DEF Commit
  <2>3. CASE \E w \in Posters \ {"lcd"} : CommitOther(w)
    BY <2>2, <2>3 DEF CommitOther, hardware, CacheOK, CacheTruthful
  <2>4. CASE Posts
    BY <2>4, PostsAre DEF hardware, CacheOK, CacheTruthful
  <2>5. CASE CommitNext
    BY <2>2, <2>5, PostersAre DEF CommitNext, hardware, CacheOK, CacheTruthful
  <2>6. ASSUME NEW w \in Writers, StartError(w) \/ MakeTransient(w) PROVE CacheOK'
    BY <2>6 DEF StartError, MakeTransient, hardware, CacheOK, CacheTruthful
  <2>7. CASE DropNotice \/ Expire \/ ClearNotice \/ NextNotice \/ Look \/ NoNext \/ Fall
    BY <2>7 DEF DropNotice, Expire, ClearNotice, NextNotice, Look, NoNext, Fall, hardware,
                CacheOK, CacheTruthful
  <2> QED
    BY <1>4, <2>1, <2>3, <2>4, <2>5, <2>6, <2>7 DEF Rest
<1>5. CASE UNCHANGED displayVars
  BY <1>5 DEF displayVars, hardware, CacheOK, CacheTruthful
<1> QED
  BY <1>1, <1>2, <1>3, <1>4, <1>5, StepIs

\* A snapshot never has the deadline of a later loading screen.
LEMMA LoadingStep ==
  ASSUME DisplayTypeOK, LoadingOK, [DisplayNext]_displayVars
  PROVE  LoadingOK'
<1> USE DEF DisplayTypeOK
<1>1. CASE Shows
  <2>1. UNCHANGED snap
    BY <1>1, ShowsFrame DEF pass
  <2>2. CASE \E s \in {"MAIN", "FACTORY_RESET"} \cap Screens : ShowLoading(s)
    BY <2>1, <2>2 DEF ShowLoading, LoadingOK, StateOK, PassOK
  <2>3. ASSUME NEW s \in Timed, ShowTimed(s) PROVE LoadingOK'
    BY <2>1, <2>3, ScreenSet DEF ShowTimed, LoadingOK
  <2>4. CASE Progress
    <3>1. loading'.start = loading.start /\ lapsed' = lapsed
      BY <2>4 DEF Progress, StateOK
    <3> QED
      BY <2>1, <3>1 DEF LoadingOK
  <2>5. \/ UNCHANGED loading /\ ("LOADING" \in lapsed => "LOADING" \in lapsed')
        \/ (\E s \in {"MAIN", "FACTORY_RESET"} \cap Screens : ShowLoading(s))
        \/ (\E s \in Timed : ShowTimed(s)) \/ Progress
    BY <1>1 DEF Shows, ShowPlain, ShowResult, ShowStartup, Release, ClearFault, ShowFault, Lapse
  <2> QED
    BY <2>1, <2>2, <2>3, <2>4, <2>5 DEF LoadingOK
<1>2. CASE Begins
  <2>1. UNCHANGED state /\ snap' \in {Seen, Overlaid(Seen)}
    <3>1. UNCHANGED state /\ Snapshot
      BY <1>2, BeginsFrame
    <3> QED
      BY <3>1 DEF Snapshot
  <2>2. snap'.screen = "LOADING" => snap' = Seen
    BY <2>1 DEF Overlaid, NoSnapshot
  <2>3. snap' = Seen => LoadingOK'
    BY <2>1 DEF Seen, Overdue, LoadingOK, StateOK, state
  <2> QED
    BY <2>2, <2>3 DEF LoadingOK
<1>3. CASE Noise
  BY <1>3 DEF Noise, state, pass, LoadingOK
<1>4. CASE Rest
  <2>1. CASE DrawScreen
    BY <2>1, NothingIs DEF DrawScreen, LoadingOK
  <2>2. ASSUME NEW w \in Posters, Commit(w) PROVE UNCHANGED <<lapsed, loading>>
    BY <2>2 DEF Commit
  <2>3. CASE \E w \in Posters \ {"lcd"} : CommitOther(w)
    BY <2>2, <2>3 DEF CommitOther, pass, LoadingOK
  <2>4. CASE Posts
    BY <2>4, PostsAre DEF state, pass, LoadingOK
  <2>5. CASE CommitNext
    BY <2>5 DEF CommitNext, NoSnapshot, LoadingOK
  <2>6. ASSUME NEW w \in Writers, StartError(w) \/ MakeTransient(w) PROVE LoadingOK'
    BY <2>6 DEF StartError, MakeTransient, pass, LoadingOK
  <2>7. CASE Fall
    <3>1. snap' = snap \/ snap'.screen = "FLASH_MSG"
      BY <2>7 DEF Fall, Overlaid, NoSnapshot
    <3> QED
      BY <2>7, <3>1 DEF Fall, LoadingOK
  <2>8. CASE DropNotice \/ Expire \/ ClearNotice \/ NextNotice \/ Look \/ NoNext
    BY <2>8 DEF DropNotice, Expire, ClearNotice, NextNotice, Look, NoNext, state, pass, LoadingOK
  <2> QED
    BY <1>4, <2>1, <2>3, <2>4, <2>5, <2>6, <2>7, <2>8 DEF Rest
<1>5. CASE UNCHANGED displayVars
  BY <1>5 DEF displayVars, state, pass, LoadingOK
<1> QED
  BY <1>1, <1>2, <1>3, <1>4, <1>5, StepIs

\* A post that begins has a number of its own.
LEMMA PostsDistinct ==
  ASSUME StateOK, NotesOK, DistinctOK, Posts
  PROVE  DistinctOK'
<1>1. PICK w \in Posters \ {"lcd"}, note \in Note, stage \in {"show", "queue"} :
        /\ note.id = events + 1
        /\ post' = [post EXCEPT ![w] = [stage |-> stage, note |-> note]]
  BY PostsAre
<1>2. UNCHANGED queue /\ events' = events + 1 /\ events \in Nat
  BY PostsAre DEF StateOK
<1>3. /\ post'[w].note = note
      /\ \A v \in Posters : v # w => post'[v] = post[v]
  BY <1>1 DEF NotesOK
<1>4. ASSUME NEW i \in 1..Len(queue) PROVE queue[i].id \in Nat /\ queue[i].id <= events
  <2>1. queue[i] \in Note
    BY ElementOfSeq DEF NotesOK
  <2> QED
    BY <2>1 DEF DistinctOK, Note
<1>5. ASSUME NEW v \in Posters PROVE post[v].note.id \in Nat
  BY DEF NotesOK, Note
<1>6. Fresh(queue, note)
  BY <1>1, <1>2, <1>4 DEF Fresh
<1>7. Numbered(queue)' /\ \A i \in 1..Len(queue') : queue'[i].id <= events'
  BY <1>2, <1>4 DEF DistinctOK, Numbered
<1>8. ASSUME NEW v \in Posters, Waiting(v)'
      PROVE  post'[v].note.id <= events' /\ Fresh(queue, post'[v].note)
  <2>1. CASE v = w
    BY <1>1, <1>2, <1>3, <1>6, <2>1
  <2>2. CASE v # w
    BY <1>2, <1>3, <1>5, <1>8, <2>2 DEF Waiting, DistinctOK
  <2> QED
    BY <2>1, <2>2
<1>9. ASSUME NEW u \in Posters, NEW v \in Posters, Waiting(u)', Waiting(v)',
             post'[u].note.id = post'[v].note.id
      PROVE  u = v
  <2>1. ASSUME NEW x \in Posters, Waiting(x)', x # w PROVE post'[x].note.id # note.id
    BY <1>1, <1>2, <1>3, <1>5, <2>1 DEF Waiting, DistinctOK
  <2> QED
    BY <1>3, <1>9, <2>1 DEF Waiting, DistinctOK
<1> QED
  BY <1>2, <1>7, <1>8, <1>9 DEF DistinctOK, Fresh

\* A notice that has arrived does not wait any more.
LEMMA CommitDistinct ==
  ASSUME StateOK, NotesOK, DistinctOK, NEW w \in Posters, Commit(w)
  PROVE  DistinctOK'
<1>1. UNCHANGED events /\ post' = [post EXCEPT ![w] = Idle]
  BY CommitIs
<1>2. /\ post'[w].stage = "idle"
      /\ \A v \in Posters : v # w => post'[v] = post[v]
  BY <1>1, NothingIs DEF NotesOK
<1>3. \A v \in Posters : Waiting(v)' => v # w /\ Waiting(v) /\ post'[v] = post[v]
  BY <1>2 DEF Waiting
<1>4. CASE queue' = queue
  <2>1. Numbered(queue)' /\ \A n \in Note : Fresh(queue, n)' <=> Fresh(queue, n)
    BY <1>4 DEF DistinctOK, Numbered, Fresh
  <2> QED
    BY <1>1, <1>3, <1>4, <2>1 DEF DistinctOK, Fresh
<1>5. CASE post[w].stage = "queue" /\ \E note \in Note : note.id = post[w].note.id /\ queue' = Enqueued(note)
  <2>1. PICK note \in Note : note.id = post[w].note.id /\ queue' = Enqueued(note)
    BY <1>5
  <2>2. Waiting(w) /\ note.id <= events /\ Fresh(queue, note)
    BY <1>5, <2>1 DEF Waiting, DistinctOK, Fresh
  <2>3. queue \in Seq(Note) /\ Numbered(queue)
    BY DEF NotesOK, DistinctOK
  <2>4. Numbered(Enqueued(note))
    BY <2>2, <2>3, EnqueuedIs
  <2>5. \A k \in 1..Len(queue') : queue'[k] = note \/ Has(queue, queue'[k])
    BY <2>1, <2>3, EnqueuedIs
  <2>6. \A k \in 1..Len(queue') : queue'[k].id <= events
    BY <2>2, <2>5 DEF Has, DistinctOK
  <2>7. ASSUME NEW v \in Posters, Waiting(v)'
        PROVE  post'[v].note.id <= events /\ Fresh(queue', post'[v].note)
    <3>1. v # w /\ Waiting(v) /\ post'[v] = post[v]
      BY <1>3, <2>7
    <3>2. post[v].note.id # note.id /\ Fresh(queue, post[v].note) /\ post[v].note.id <= events
      BY <2>1, <2>2, <3>1 DEF DistinctOK
    <3> QED
      BY <2>5, <3>1, <3>2 DEF Fresh, Has
  <2>8. Numbered(queue') /\ \A v \in Posters : Waiting(v)' => Fresh(queue', post'[v].note)
    BY <2>1, <2>4, <2>7
  <2> QED
    BY <1>1, <1>3, <2>6, <2>7, <2>8 DEF DistinctOK
<1>6. queue' = queue \/ (post[w].stage = "queue"
                           /\ \E note \in Note : note.id = post[w].note.id /\ queue' = Enqueued(note))
  BY CommitIs
<1> QED
  BY <1>4, <1>5, <1>6

\* The display task's own post: it waits with a notice it took from the queue.
LEMMA OwnDistinct ==
  ASSUME StateOK, NotesOK, ReturnOK, DistinctOK, NextNotice \/ Look \/ ClearNotice \/ Fall
  PROVE  DistinctOK'
<1>1. UNCHANGED events
  BY DEF NextNotice, Look, ClearNotice, Fall
<1>2. \A v \in Posters : v # "lcd" => post'[v] = post[v]
  BY DEF NextNotice, Look, ClearNotice, Fall, NotesOK
<1>3. \A v \in Posters : v # "lcd" => (Waiting(v)' <=> Waiting(v))
  BY <1>2 DEF Waiting
<1>4. CASE ClearNotice \/ Fall
  <2>1. post'["lcd"].stage \in {"return", "idle"} /\ queue' = queue
    BY <1>4, PostersAre, NothingIs DEF ClearNotice, Fall, NotesOK
  <2>2. ~Waiting("lcd")'
    BY <2>1 DEF Waiting
  <2> QED
    BY <1>1, <1>2, <1>3, <2>1, <2>2 DEF DistinctOK, Numbered, Fresh
<1>5. CASE Look
  <2>1. post'["lcd"].note = post["lcd"].note /\ queue' = queue
    BY <1>5, PostersAre DEF Look, Looked, NotesOK
  <2>2. Waiting("lcd")
    BY <1>5 DEF Look, Goto, ReturnOK, Waiting
  <2> QED
    BY <1>1, <1>2, <1>3, <2>1, <2>2, PostersAre DEF DistinctOK, Numbered, Fresh
<1>6. CASE NextNotice
  <2> DEFINE t == Tail(queue)
  <2>1. queue \in Seq(Note) /\ queue # <<>> /\ queue' = t
    BY <1>6 DEF NextNotice, NotesOK
  <2>2. /\ Head(queue) = queue[1] /\ 1 \in 1..Len(queue)
        /\ \A k \in 1..Len(t) : k + 1 \in 1..Len(queue) /\ t[k] = queue[k + 1]
    BY <2>1, TailIs
  <2>3. post'["lcd"].note = queue[1] /\ Waiting("lcd")'
    BY <1>6, <2>2, PostersAre DEF NextNotice, Waiting, NotesOK
  <2>4. t \in Seq(Note)
    BY <2>1, TailIs
  <2> HIDE DEF t
  <2>5. Numbered(t) /\ \A k \in 1..Len(t) : t[k].id <= events
    <3>1. ASSUME NEW i \in 1..Len(t), NEW j \in 1..Len(t), t[i].id = t[j].id PROVE i = j
      <4>1. i + 1 = j + 1
        BY <2>2, <3>1 DEF DistinctOK, Numbered
      <4> QED
        BY <4>1
    <3> QED
      BY <2>2, <3>1 DEF DistinctOK, Numbered
  <2>6. Fresh(t, queue[1])
    <3> SUFFICES ASSUME NEW k \in 1..Len(t) PROVE t[k].id # queue[1].id
      BY DEF Fresh
    <3>1. k + 1 # 1 /\ k + 1 \in 1..Len(queue) /\ t[k] = queue[k + 1]
      BY <2>2
    <3> QED
      BY <2>2, <3>1 DEF DistinctOK, Numbered
  <2>7. ASSUME NEW v \in Posters, v # "lcd", Waiting(v)'
        PROVE  /\ post'[v].note.id <= events /\ Fresh(t, post'[v].note)
               /\ post'[v].note.id # queue[1].id
    <3>1. Waiting(v) /\ post'[v] = post[v]
      BY <1>2, <1>3, <2>7
    <3> QED
      BY <2>2, <3>1 DEF DistinctOK, Fresh
  <2>8. queue[1].id <= events
    BY <2>2 DEF DistinctOK
  <2>9. Numbered(queue') /\ \A v \in Posters : Waiting(v)' => Fresh(queue', post'[v].note)
    BY <2>1, <2>3, <2>5, <2>6, <2>7
  <2>10. ASSUME NEW u \in Posters, NEW v \in Posters, Waiting(u)', Waiting(v)',
                post'[u].note.id = post'[v].note.id
         PROVE  u = v
    <3>1. CASE u # "lcd" /\ v # "lcd"
      BY <1>2, <1>3, <2>10, <3>1 DEF DistinctOK
    <3>2. CASE u = "lcd" \/ v = "lcd"
      BY <2>3, <2>7, <2>10, <3>2
    <3> QED
      BY <3>1, <3>2
  <2> QED
    BY <1>1, <2>1, <2>3, <2>5, <2>7, <2>8, <2>9, <2>10 DEF DistinctOK
<1> QED
  BY <1>4, <1>5, <1>6

\* The notices that wait have numbers of their own, none of which is to come.
LEMMA DistinctStep ==
  ASSUME DisplayTypeOK, ReturnOK, DistinctOK, events' \in Nat, events <= events',
         [DisplayNext]_displayVars
  PROVE  DistinctOK'
<1> USE DEF DisplayTypeOK
<1>1. ASSUME UNCHANGED <<queue, post>> PROVE DistinctOK'
  <2>1. ASSUME NEW i \in 1..Len(queue) PROVE queue[i].id \in Nat
    <3>1. queue[i] \in Note
      BY ElementOfSeq DEF NotesOK
    <3> QED
      BY <3>1 DEF Note
  <2>2. ASSUME NEW v \in Posters PROVE post[v].note.id \in Nat
    BY DEF NotesOK, Note
  <2>3. \A i \in 1..Len(queue) : queue[i].id <= events'
    BY <2>1 DEF DistinctOK, StateOK
  <2>4. \A v \in Posters : Waiting(v) => post[v].note.id <= events'
    BY <2>2 DEF DistinctOK, StateOK
  <2> QED
    BY <1>1, <2>3, <2>4 DEF DistinctOK, Numbered, Fresh, Waiting
<1>2. CASE Shows \/ Begins \/ Noise \/ UNCHANGED displayVars
  BY <1>1, <1>2, ShowsFrame, BeginsFrame DEF Noise, displayVars, notices
<1>3. CASE Rest
  <2>1. ASSUME NEW w \in Writers, StartError(w) \/ MakeTransient(w) PROVE UNCHANGED <<queue, post>>
    BY <2>1 DEF StartError, MakeTransient
  <2>2. CASE \E w \in Posters \ {"lcd"} : CommitOther(w)
    BY <2>2, CommitDistinct DEF CommitOther
  <2>3. CASE CommitNext
    BY <2>3, CommitDistinct, PostersAre DEF CommitNext
  <2>4. CASE DropNotice \/ Expire \/ NoNext \/ DrawScreen
    BY <1>1, <2>4 DEF DropNotice, Expire, NoNext, DrawScreen, notices
  <2> QED
    BY <1>1, <1>3, <2>1, <2>2, <2>3, <2>4, PostsDistinct, OwnDistinct DEF Rest
<1> QED
  BY <1>2, <1>3, StepIs

\* Every step keeps the whole invariant.
LEMMA DisplayStep == DisplayInv /\ [DisplayNext]_displayVars => DisplayInv'
<1> SUFFICES ASSUME DisplayInv, [DisplayNext]_displayVars PROVE DisplayInv'
  OBVIOUS
<1>1. DisplayTypeOK' /\ events <= events'
  BY DisplayTypeStep DEF DisplayInv
<1>2. events' \in Nat
  BY <1>1 DEF DisplayTypeOK, StateOK
<1> QED
  BY <1>1, <1>2, ReturnStep, CacheStep, LoadingStep, DistinctStep DEF DisplayInv

\* The invariant of the display holds of every behaviour.
LEMMA DisplayInvariant == DisplaySpec => []DisplayInv
BY StartsWell, DisplayStep, PTL DEF DisplaySpec

\* Every variable of the display keeps to its range, and so a notice that ends
\* always has a screen to return to (lcd_flash_clear_and_get_return).
THEOREM DisplayTypeCorrect == DisplaySpec => []DisplayTypeOK
BY DisplayInvariant, PTL DEF DisplayInv

\* What the row cache takes for written is on the glass, for every number of failed
\* transfers and recoveries, unless an error is known or a character was corrupted
\* silently (lcd_task.c skips the rows that equal the cache).
THEOREM CacheShowsTheGlass == DisplaySpec => []CacheTruthful
<1>1. DisplayInv => CacheTruthful
  BY DEF DisplayInv, CacheOK
<1> QED
  BY <1>1, DisplayInvariant, PTL

-----------------------------------------------------------------------------
(* What no step does *)

\* A step of the queue that is not the display task's own dequeue gives a waiting
\* notice up only for one that outranks it.
LEMMA QueueStep ==
  ASSUME DisplayInv, [DisplayNext]_displayVars, NEW i \in 1..Len(queue)
  PROVE  \/ \E j \in 1..Len(queue') : queue'[j].id = queue[i].id
         \/ i = 1 /\ task = "next"
         \/ \E j \in 1..Len(queue') :
              /\ queue'[j].priority > queue[i].priority
              /\ \A k \in 1..Len(queue) : queue[k].id # queue'[j].id
<1> DEFINE Goal == \/ \E j \in 1..Len(queue') : queue'[j].id = queue[i].id
                   \/ i = 1 /\ task = "next"
                   \/ \E j \in 1..Len(queue') :
                        /\ queue'[j].priority > queue[i].priority
                        /\ \A k \in 1..Len(queue) : queue[k].id # queue'[j].id
<1> USE DEF DisplayInv, DisplayTypeOK
<1>1. ASSUME UNCHANGED queue PROVE Goal
  BY <1>1
<1>2. ASSUME NEW w \in Posters, Commit(w) PROVE Goal
  <2>1. CASE queue' = queue
    BY <1>1, <2>1
  <2>2. ASSUME NEW note \in Note, post[w].stage = "queue", note.id = post[w].note.id,
               queue' = Enqueued(note)
        PROVE  Goal
    <3>1. Fresh(queue, note)
      BY <2>2 DEF Waiting, DistinctOK, Fresh
    <3>2. \/ Has(queue', queue[i])
          \/ Has(queue', note) /\ note.priority > queue[i].priority
      BY <2>2, EnqueuedIs DEF NotesOK
    <3> QED
      BY <3>1, <3>2 DEF Has, Fresh
  <2>3. queue' = queue \/ \E note \in Note : post[w].stage = "queue"
                             /\ note.id = post[w].note.id /\ queue' = Enqueued(note)
    BY <1>2, CommitIs
  <2> HIDE DEF Goal
  <2> QED
    BY <2>1, <2>2, <2>3
<1>3. CASE NextNotice
  <2>1. task = "next" /\ queue' = Tail(queue) /\ queue # <<>> /\ queue \in Seq(Note)
    BY <1>3 DEF NextNotice, Goto, NotesOK
  <2>2. i = 1 \/ i \in 2..Len(queue)
    BY LengthIsNat, <2>1
  <2>3. \A k \in 2..Len(queue) : k - 1 \in 1..Len(queue') /\ queue'[k - 1] = queue[k]
    BY <2>1, TailIs
  <2> QED
    BY <2>1, <2>2, <2>3
<1>4. CASE Rest
  <2>1. ASSUME NEW w \in Writers, StartError(w) \/ MakeTransient(w) PROVE UNCHANGED queue
    BY <2>1 DEF StartError, MakeTransient
  <2>2. Posts => UNCHANGED queue
    BY PostsAre
  <2>3. DropNotice \/ Expire \/ ClearNotice \/ Look \/ NoNext \/ Fall \/ DrawScreen => UNCHANGED queue
    BY DEF DropNotice, Expire, ClearNotice, Look, NoNext, Fall, DrawScreen, notices
  <2>4. CASE CommitNext \/ \E w \in Posters \ {"lcd"} : CommitOther(w)
    <3> HIDE DEF Goal
    <3>1. \E w \in Posters : Commit(w)
      BY <2>4, PostersAre DEF CommitNext, CommitOther
    <3>2. Goal
      BY <1>2, <3>1
    <3> QED
      BY <3>2 DEF Goal
  <2> HIDE DEF Goal
  <2>5. Goal
    BY <1>1, <1>3, <1>4, <2>1, <2>2, <2>3, <2>4 DEF Rest, Goal
  <2> QED
    BY <2>5 DEF Goal
<1>5. CASE Shows \/ Begins \/ Noise \/ UNCHANGED displayVars
  <2>1. UNCHANGED queue
    BY <1>5, ShowsFrame, BeginsFrame DEF Noise, displayVars, notices
  <2> QED
    BY <1>1, <2>1
<1> QED
  BY <1>4, <1>5, StepIs

\* A waiting notice is given up only for a more urgent one, for every depth of the
\* queue (lcd_flash_queue.c: the last entry makes room for a higher priority).
THEOREM NoticesKeptByRank == DisplaySpec => UrgentKept
<1>1. DisplayInv /\ [DisplayNext]_displayVars =>
        [\A i \in 1..Len(queue) :
           \/ \E j \in 1..Len(queue') : queue'[j].id = queue[i].id
           \/ i = 1 /\ task = "next"
           \/ \E j \in 1..Len(queue') :
                /\ queue'[j].priority > queue[i].priority
                /\ \A k \in 1..Len(queue) : queue[k].id # queue'[j].id]_displayVars
  BY QueueStep
<1> QED
  BY <1>1, DisplayInvariant, PTL DEF DisplaySpec, UrgentKept

\* A loading screen whose time has not passed is taken away by the display task only for
\* a notice, for the screen a notice remembered, or at the deadline of a Wi-Fi screen:
\* its own deadline is checked against start_ms, that of a fault against the screen
\* (lcd_task.c).
THEOREM LoadingIsCutShortOnlySo == DisplaySpec => LoadingCutShort
<1>1. DisplayInv /\ [DisplayNext]_displayVars =>
        [task' # task /\ screen = "LOADING" /\ screen' # "LOADING" /\ "LOADING" \notin lapsed
           => \/ task \in {"commit", "fall"}
              \/ task = "draw" /\ snap.due /\ snap.screen \in Timed]_displayVars
  <2> SUFFICES ASSUME DisplayInv, [DisplayNext]_displayVars, task' # task, screen = "LOADING",
                      screen' # "LOADING", "LOADING" \notin lapsed
               PROVE  \/ task \in {"commit", "fall"}
                      \/ task = "draw" /\ snap.due /\ snap.screen \in Timed
    OBVIOUS
  <2> USE DEF DisplayInv, DisplayTypeOK
  <2>1. CASE DrawScreen
    <3>1. ~(snap.due /\ LoadingTimer)
      BY DEF LoadingTimer, SameLoading, LoadingOK
    <3>2. ~FaultTimer /\ ~NoTimer
      BY DEF FaultTimer, NoTimer
    <3>3. task = "draw" /\ snap.due /\ WifiTimer
      BY <2>1, <3>1, <3>2 DEF DrawScreen, Goto
    <3> QED
      BY <3>3 DEF WifiTimer
  <2>2. CASE Shows
    BY <2>2, ShowsFrame DEF pass
  <2>3. CASE Begins
    BY <2>3, BeginsFrame DEF state
  <2>4. CASE Noise \/ UNCHANGED displayVars
    BY <2>4 DEF Noise, displayVars, pass
  <2>5. CASE Posts
    BY <2>5, PostsAre DEF pass
  <2>6. ASSUME NEW w \in Writers, StartError(w) \/ MakeTransient(w) PROVE UNCHANGED pass
    BY <2>6 DEF StartError, MakeTransient
  <2>7. CASE \E w \in Posters \ {"lcd"} : CommitOther(w)
    BY <2>7 DEF CommitOther, pass
  <2>8. CASE DropNotice \/ Expire
    BY <2>8 DEF DropNotice, Expire, pass
  <2>9. CASE ClearNotice \/ NextNotice \/ Look \/ NoNext
    BY <2>9 DEF ClearNotice, NextNotice, Look, NoNext, state
  <2>10. CASE CommitNext \/ Fall
    BY <2>10 DEF CommitNext, Fall, Goto
  <2> QED
    BY <2>1, <2>2, <2>3, <2>4, <2>5, <2>6, <2>7, <2>8, <2>9, <2>10, StepIs DEF Rest, pass
<1> QED
  BY <1>1, DisplayInvariant, PTL DEF DisplaySpec, LoadingCutShort

=============================================================================
