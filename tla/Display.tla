------------------------------- MODULE Display -------------------------------
(***************************************************************************)
(* The character display: the screen every task may set through            *)
(* lcd_writer.c, the flash notices of lcd_flash_queue.c that overlay it,   *)
(* the display task of lcd_task.c that draws what it finds, and the driver *)
(* of lcd.c, which refuses to write after a failed transfer until it has   *)
(* been resynchronised.                                                    *)
(*                                                                         *)
(* A screen is its identity: its rows are abstracted, except that two      *)
(* notices have different rows.  Time is abstracted to the fact that a     *)
(* deadline has passed.                                                    *)
(***************************************************************************)
EXTENDS Naturals, Sequences, FiniteSets

Seqs == INSTANCE SequencesExt

CONSTANTS
  Writers,        \* the tasks that post notices, besides the event receiver
  Plain,          \* screens without a deadline other tasks show
  Timed,          \* the timed Wi-Fi screens they show
  Kinds,          \* the priorities notices are posted with
  Returns,        \* the screens notices return to
  QueueDepth,     \* LCD_FLASH_QUEUE_DEPTH
  FullInitAfter,  \* LCD_RECOVER_FULL_INIT_AFTER
  MaxEvents       \* bound: screens shown and notices posted by other tasks, transfers
                  \* that fail and characters that are corrupted, together

ReturnAuto == "AUTO"
After(s) == CASE s = "WIFI_NETWORK_DETAILS" -> "WIFI_SCAN"
              [] s \in {"WIFI_PASSWORD", "WIFI_CONNECTING"} -> "MENU"

ASSUME DisplayAssumption ==
  /\ Writers # {} /\ Writers \cap {"receiver", "lcd"} = {}
  /\ Plain \subseteq {"MAIN", "MENU", "VALUE_EDIT", "WIFI_SCAN"}
  /\ Timed \subseteq {"WIFI_NETWORK_DETAILS", "WIFI_PASSWORD", "WIFI_CONNECTING"}
  /\ Kinds \subseteq Nat /\ ReturnAuto \in Returns
  /\ {QueueDepth, FullInitAfter} \subseteq Nat \ {0}
  /\ MaxEvents \in Nat

StartupScreens == {"STARTUP_STATUS", "LOADING"}
Screens == {"MAIN", "MENU", "VALUE_EDIT", "WIFI_SCAN", "FAULT", "FLASH_MSG"}
             \cup StartupScreens \cup Timed \cup (Returns \ {ReturnAuto})
Clocks == {"FAULT", "LOADING"} \cup Timed
Posters == Writers \cup {"receiver", "lcd"}

VARIABLES
  screen,        \* sys_lcd.screen
  released,      \* s_startup_released
  lapsed,        \* the timed screens whose time has passed since they were shown
  transient,     \* sys_lcd.fault.transient
  loading,       \* sys_lcd.loading: start_ms as a serial number, next_screen, live
  over,          \* the connection attempt on screen has ended or timed out
  flash,         \* s_active_flash, with the notice and whether its time has passed
  queue,         \* s_queue, the first s_queue_count entries
  post,          \* how far each task is with a call that enqueues a notice
  raising,       \* the writers between the two halves of a start error
  task, snap,    \* where the display task is; its snapshot
  driver,        \* s_initialized, s_io_error, the recovery failures in a row
  row,           \* the row cache: last_screen, what was written, need_clear
  glass, noisy,  \* what the controller shows; it was corrupted without an error
  events         \* how many of those that MaxEvents bounds

state == <<screen, released, lapsed, transient, loading, over>>
notices == <<flash, queue, post, raising>>
pass == <<task, snap>>
hardware == <<driver, row, glass, noisy>>
displayVars == <<state, notices, pass, hardware, events>>

NoNotice == [id |-> 0, priority |-> 0, to |-> ReturnAuto]
Idle == [stage |-> "idle", note |-> NoNotice]
NoFlash == [active |-> FALSE, note |-> NoNotice, expired |-> FALSE]
NoSnapshot == [screen |-> "NONE", due |-> FALSE, start |-> 0, over |-> FALSE]
Blank == <<"BLANK", 0>>
Garbage == <<"GARBAGE", 0>>
Nothing == <<"NOTHING", 0>>      \* an empty row cache

Event == events < MaxEvents /\ events' = events + 1

-----------------------------------------------------------------------------
(* What is on screen *)

\* lcd_show_main, lcd_show_menu_rows and the others: until the startup is
\* released they keep their data and leave the screen to it
Screen(s) == screen' = IF released THEN s ELSE screen

ShowPlain(s) ==
  /\ Event
  /\ Screen(s)
  /\ UNCHANGED <<released, lapsed, transient, loading, over, notices, pass, hardware>>

ShowTimed(s) ==
  /\ Event
  /\ Screen(s)
  /\ lapsed' = lapsed \ {s}
  /\ over' = (over /\ s # "WIFI_CONNECTING")
  /\ UNCHANGED <<released, transient, loading, notices, pass, hardware>>

\* lcd_show_wifi_result
ShowResult ==
  /\ Event
  /\ "WIFI_CONNECTING" \in Timed
  /\ Screen("WIFI_CONNECTING")
  /\ lapsed' = lapsed \ {"WIFI_CONNECTING"}
  /\ over' = TRUE
  /\ UNCHANGED <<released, transient, loading, notices, pass, hardware>>

\* lcd_show_startup_status, whoever owns the screen
ShowStartup ==
  /\ ~released /\ screen # "STARTUP_STATUS" /\ Event
  /\ screen' = "STARTUP_STATUS"
  /\ UNCHANGED <<released, lapsed, transient, loading, over, notices, pass, hardware>>

Release ==
  /\ ~released /\ released' = TRUE
  /\ UNCHANGED <<screen, lapsed, transient, loading, over, notices, pass, hardware, events>>

ShowLoading(next) ==
  /\ Event
  /\ screen' = "LOADING"
  /\ loading' = [start |-> loading.start + 1, next |-> next, live |-> FALSE]
  /\ lapsed' = lapsed \ {"LOADING"}
  /\ UNCHANGED <<released, transient, over, notices, pass, hardware>>

\* lcd_update_loading_progress: from then on the task that reports ends it
Progress ==
  /\ screen = "LOADING" /\ ~loading.live
  /\ loading' = [loading EXCEPT !.live = TRUE]
  /\ UNCHANGED <<screen, released, lapsed, transient, over, notices, pass, hardware, events>>

\* lcd_show_fault leaves transient alone; lcd_show_inverter_fault and
\* lcd_show_system_error clear it
ShowFault(keep) ==
  /\ Event
  /\ screen' = "FAULT"
  /\ transient' = (keep /\ transient)
  /\ lapsed' = IF keep THEN lapsed ELSE lapsed \ {"FAULT"}
  /\ UNCHANGED <<released, loading, over, notices, pass, hardware>>

\* lcd_show_inverter_start_error shows the fault in one critical section and
\* makes it transient in a second one
StartError(w) ==
  /\ w \notin raising /\ post[w] = Idle
  /\ Event
  /\ screen' = "FAULT" /\ transient' = FALSE
  /\ lapsed' = lapsed \ {"FAULT"}
  /\ raising' = raising \cup {w}
  /\ UNCHANGED <<released, loading, over, flash, queue, post, pass, hardware>>

MakeTransient(w) ==
  /\ w \in raising
  /\ raising' = raising \ {w}
  /\ transient' = TRUE /\ lapsed' = lapsed \ {"FAULT"}
  /\ UNCHANGED <<screen, released, loading, over, flash, queue, post,
                 pass, hardware, events>>

\* lcd_clear_fault
ClearFault ==
  /\ Event
  /\ Screen("MAIN")
  /\ transient' = FALSE
  /\ UNCHANGED <<released, lapsed, loading, over, notices, pass, hardware>>

-----------------------------------------------------------------------------
(* The notices *)

\* lcd_is_startup_active
StartupActive == ~released \/ screen \in StartupScreens

\* The first half of lcd_flash_enqueue_rows_to: it reads whether a notice is
\* shown, and gives the mutex back
Looked(note) == [stage |-> IF flash.active THEN "queue" ELSE "show", note |-> note]

Post(w, priority, to) ==
  /\ Event
  /\ post[w] = Idle /\ w \notin raising
  /\ LET note == [id |-> events + 1, priority |-> priority, to |-> to]
     IN post' = [post EXCEPT ![w] = Looked(note)]
  /\ UNCHANGED <<state, flash, queue, raising, pass, hardware>>

\* display_event_notice: a protection notice waits for the end of the startup
\* unless it is critical
EventNotice(priority) ==
  /\ StartupActive => priority = 3
  /\ Post("receiver", priority, ReturnAuto)

\* find_insert_pos: before the first entry of a lower priority
Position(q, p) ==
  IF \E i \in 1..Len(q) : p > q[i].priority
  THEN CHOOSE i \in 1..Len(q) :
         p > q[i].priority /\ \A j \in 1..(i - 1) : p <= q[j].priority
  ELSE Len(q) + 1

Inserted(q, note) == Seqs!InsertAt(q, Position(q, note.priority), note)

Enqueued_Always(note) ==
  IF Len(queue) < QueueDepth THEN Inserted(queue, note)
  ELSE Inserted(Seqs!Front(queue), note)

\* Room is made by giving up the last entry, for a more urgent notice only
Enqueued(note) ==
  IF Len(queue) < QueueDepth THEN Inserted(queue, note)
  ELSE IF note.priority > Seqs!Last(queue).priority THEN Inserted(Seqs!Front(queue), note)
  ELSE queue

\* The second half, which trusts what the first one read
Commit(w) ==
  LET note == post[w].note
  IN /\ \/ /\ post[w].stage = "show"
           /\ flash' = [active |-> TRUE, expired |-> FALSE,
                        note |-> [note EXCEPT !.to =
                          IF @ # ReturnAuto THEN @
                          ELSE IF screen = "VALUE_EDIT" THEN "MAIN" ELSE screen]]
           /\ screen' = "FLASH_MSG"
           /\ UNCHANGED queue
        \/ /\ post[w].stage = "queue"
           /\ queue' = Enqueued([note EXCEPT !.to = IF @ = ReturnAuto THEN flash.note.to ELSE @])
           /\ UNCHANGED <<flash, screen>>
     /\ post' = [post EXCEPT ![w] = Idle]
     /\ UNCHANGED <<released, lapsed, transient, loading, over, raising, hardware, events>>

\* lcd_flash_clear, when the panel leaves the PIN entry of an update
DropNotice ==
  /\ released /\ flash.active /\ Event
  /\ flash' = [NoFlash EXCEPT !.note.to = flash.note.to]
  /\ screen' = "MENU"
  /\ UNCHANGED <<released, lapsed, transient, loading, over, queue, post, raising,
                 pass, hardware>>

\* Time passes.  A deadline matters once its screen is drawn, so that one that
\* passes while a notice covers the screen may as well pass afterwards
Lapse(c) ==
  /\ c = screen /\ c \notin lapsed
  /\ c = "FAULT" => transient
  /\ c = "LOADING" => ~loading.live
  /\ lapsed' = lapsed \cup {c}
  /\ UNCHANGED <<screen, released, transient, loading, over, notices, pass, hardware, events>>

Expire ==
  /\ flash.active /\ ~flash.expired
  /\ flash' = [flash EXCEPT !.expired = TRUE]
  /\ UNCHANGED <<state, queue, post, raising, pass, hardware, events>>

-----------------------------------------------------------------------------
(* The driver *)


BringUp_KeepCache(shown, cost) ==
  /\ \E ok \in BOOLEAN :
       /\ driver' = [init |-> TRUE, error |-> ~ok, failures |-> 0]
       /\ events' = events + cost + (IF ok THEN 0 ELSE 1)
  /\ events' <= MaxEvents
  /\ row' = [row EXCEPT !.clear = TRUE]
  /\ glass' = shown

\* lcd_init_cgram after a successful bring-up writes eight characters, which
\* may fail; the display task then draws everything anew
BringUp(shown, cost) ==
  /\ \E ok \in BOOLEAN :
       /\ driver' = [init |-> TRUE, error |-> ~ok, failures |-> 0]
       /\ events' = events + cost + (IF ok THEN 0 ELSE 1)
  /\ events' <= MaxEvents
  /\ row' = [row EXCEPT !.cache = Nothing, !.clear = TRUE]
  /\ glass' = shown

MoreFailures == IF driver.failures < FullInitAfter THEN driver.failures + 1
                ELSE driver.failures

\* lcd_init gives up before the bring-up, or during it with s_io_error set
InitFails ==
  /\ Event
  /\ \E error \in BOOLEAN :
       driver' = [init |-> FALSE, error |-> error, failures |-> MoreFailures]
  /\ UNCHANGED <<row, glass>>

ResyncFails ==
  /\ Event
  /\ driver' = [driver EXCEPT !.failures = MoreFailures]
  /\ UNCHANGED <<row, glass>>

Recovery_InitialisedOnly ==
  /\ driver.init
  /\ \/ BringUp(glass, 0)
     \/ MoreFailures < FullInitAfter /\ ResyncFails
     \/ /\ MoreFailures = FullInitAfter
        /\ BringUp(Blank, 1) \/ InitFails

\* lcd_resync keeps the glass; lcd_init, for a driver that is not initialised
\* or after enough failures in a row, clears it
Recovery ==
  \/ driver.init /\ BringUp(glass, 0)
  \/ driver.init /\ MoreFailures < FullInitAfter /\ ResyncFails
  \/ /\ driver.init => MoreFailures = FullInitAfter
     /\ BringUp(Blank, IF driver.init THEN 1 ELSE 0) \/ InitFails

NeedsRecovery == ~driver.init \/ driver.error

\* The deadline of the screen has passed: that of a fault only if it is transient,
\* that of a loading screen only if no task reports its progress
Overdue ==
  /\ screen \in lapsed
  /\ screen = "FAULT" => transient
  /\ screen = "LOADING" => ~loading.live

\* A pass starts with the driver, takes its snapshot under the state lock, and
\* looks at the notice: nothing shared is written in between
Overlaid(seen) == IF flash.active THEN [NoSnapshot EXCEPT !.screen = "FLASH_MSG"]
                  ELSE seen

Seen == [screen |-> screen, due |-> Overdue, over |-> over,
         start |-> IF screen = "LOADING" THEN loading.start ELSE 0]

Snapshot ==
  /\ task = "begin"
  /\ IF flash.active /\ flash.expired
     THEN task' = "clear" /\ snap' = Seen
     ELSE task' = "draw" /\ snap' = Overlaid(Seen)

Recover ==
  /\ NeedsRecovery /\ Recovery /\ Snapshot
  /\ UNCHANGED <<state, notices, noisy>>

\* Every ten seconds the row cache is forgotten, and all rows written again
Refresh ==
  /\ ~NeedsRecovery
  /\ row' = [row EXCEPT !.cache = Nothing]
  /\ Snapshot
  /\ UNCHANGED <<state, notices, driver, glass, noisy, events>>

\* The second between two attempts, or the ten seconds, are not over
Begin == Snapshot /\ UNCHANGED <<state, notices, hardware, events>>

\* A character is corrupted without a failed transfer
Noise ==
  /\ Event
  /\ ~noisy /\ noisy' = TRUE /\ glass' = Garbage
  /\ UNCHANGED <<state, notices, pass, driver, row>>

-----------------------------------------------------------------------------
(* The rest of a pass of the display task *)

Goto(from, to) == task = from /\ task' = to

\* lcd_flash_clear_and_get_return; the note stays in post until it is used
ClearNotice ==
  /\ Goto("clear", "next")
  /\ flash' = [NoFlash EXCEPT !.note.to = flash.note.to]
  /\ post' = [post EXCEPT !["lcd"] = [stage |-> "return", note |-> flash.note]]
  /\ UNCHANGED <<state, queue, raising, snap, hardware, events>>

\* lcd_flash_dequeue takes the most urgent notice, to be posted again
NextNotice ==
  /\ queue # <<>>
  /\ Goto("next", "look")
  /\ queue' = Tail(queue)
  /\ post' = [post EXCEPT !["lcd"] = [stage |-> "look", note |-> Head(queue)]]
  /\ UNCHANGED <<state, flash, raising, snap, hardware, events>>

Look ==
  /\ Goto("look", "commit")
  /\ post' = [post EXCEPT !["lcd"] = Looked(@.note)]
  /\ UNCHANGED <<state, flash, queue, raising, snap, hardware, events>>

CommitNext ==
  /\ Goto("commit", "draw")
  /\ Commit("lcd")
  /\ snap' = [NoSnapshot EXCEPT !.screen = "FLASH_MSG"]

NoNext ==
  /\ queue = <<>>
  /\ Goto("next", "fall")
  /\ UNCHANGED <<state, notices, snap, hardware, events>>

\* The screen falls back to the one the notice remembered
Fall ==
  /\ Goto("fall", "draw")
  /\ screen' = post["lcd"].note.to
  /\ post' = [post EXCEPT !["lcd"] = Idle]
  /\ snap' = Overlaid(snap)
  /\ UNCHANGED <<released, lapsed, transient, loading, over, flash, queue, raising,
                 hardware, events>>

\* What the rows of the screen should be: none if the notice has gone
Wanted == IF snap.screen # "FLASH_MSG" THEN <<snap.screen, 0>>
          ELSE IF flash.active THEN <<"FLASH_MSG", flash.note.id>> ELSE Nothing

\* Once a transfer has failed the driver refuses all others
Refuses == driver.error

\* draw_commit_rows writes the rows that differ from the cache, and takes them
\* for written whatever the driver did with them
Draw ==
  LET changed == snap.screen # row.last
      cleared == changed \/ row.clear
      cache == IF changed THEN Nothing ELSE row.cache
      writes == cleared \/ Wanted \notin {Nothing, cache}
      written == IF Wanted = Nothing \/ Wanted = cache
                 THEN (IF cleared THEN Blank ELSE glass)
                 ELSE (IF noisy /\ cache # Nothing THEN glass ELSE Wanted)
  IN /\ row' = [last |-> snap.screen, clear |-> FALSE,
                cache |-> IF Wanted = Nothing THEN cache ELSE Wanted]
     /\ \/ /\ ~writes \/ Refuses        \* nothing to write, or refused
           /\ UNCHANGED <<driver, glass, noisy, events>>
        \/ /\ writes /\ ~NeedsRecovery
           /\ glass' = written
           /\ noisy' = (noisy /\ ~cleared /\ (cache # Nothing \/ Wanted = Nothing))
           /\ UNCHANGED <<driver, events>>
        \/ /\ writes /\ ~Refuses        \* a transfer fails on the way, or the bytes
           /\ glass' \in {glass, Garbage} \* reach a controller that was not set up
           /\ IF driver.init THEN Event /\ driver' = [driver EXCEPT !.error = TRUE]
              ELSE UNCHANGED <<driver, events>>
           /\ UNCHANGED noisy

\* The deadlines of the screen that was drawn.  A fault and a loading screen are
\* left only if they are still there; the Wi-Fi screens whatever is there now
FaultTimer ==
  /\ snap.screen = "FAULT" /\ screen = "FAULT" /\ transient
  /\ screen' = "MAIN" /\ transient' = FALSE
  /\ UNCHANGED <<lapsed, over>>

SameLoading_Any == screen = "LOADING"

SameLoading == loading.start = snap.start

LoadingTimer ==
  /\ snap.screen = "LOADING" /\ screen = "LOADING" /\ SameLoading
  /\ screen' = loading.next
  /\ UNCHANGED <<transient, lapsed, over>>

WifiTimer ==
  /\ snap.screen \in Timed
  /\ IF snap.screen = "WIFI_CONNECTING" /\ ~snap.over
     THEN /\ over' = TRUE /\ lapsed' = lapsed \ {snap.screen}
          /\ UNCHANGED <<screen, transient>>
     ELSE /\ screen' = After(snap.screen)
          /\ UNCHANGED <<transient, lapsed, over>>

NoTimer ==
  /\ \/ ~snap.due
     \/ snap.screen = "FAULT" /\ ~(screen = "FAULT" /\ transient)
     \/ snap.screen = "LOADING" /\ ~(screen = "LOADING" /\ SameLoading)
  /\ UNCHANGED <<screen, transient, lapsed, over>>

DrawScreen ==
  /\ Goto("draw", "begin")
  /\ Draw
  /\ (snap.due /\ (FaultTimer \/ LoadingTimer \/ WifiTimer)) \/ NoTimer
  /\ snap' = NoSnapshot
  /\ UNCHANGED <<released, loading, notices>>

-----------------------------------------------------------------------------
DisplayInit ==
  /\ screen = "STARTUP_STATUS" /\ released = FALSE
  /\ lapsed = {} /\ transient = FALSE /\ over = FALSE
  /\ loading = [start |-> 0, next |-> "MAIN", live |-> FALSE]
  /\ flash = NoFlash /\ queue = <<>>
  /\ post = [w \in Posters |-> Idle] /\ raising = {}
  /\ task = "begin"
  /\ snap = NoSnapshot
  /\ driver = [init |-> TRUE, error |-> FALSE, failures |-> 0]
  /\ row = [last |-> "NONE", cache |-> Nothing, clear |-> TRUE]
  /\ glass = Blank /\ noisy = FALSE
  /\ events = 0

Pass == \/ Recover \/ Refresh \/ Begin \/ ClearNotice \/ NextNotice
        \/ Look \/ CommitNext \/ NoNext \/ Fall \/ DrawScreen

CommitOther(w) == Commit(w) /\ UNCHANGED pass

Calls ==
  \/ \E s \in Plain : ShowPlain(s)
  \/ \E s \in Timed : ShowTimed(s)
  \/ ShowResult \/ ShowStartup \/ Release \/ Progress \/ ClearFault \/ DropNotice
  \/ \E s \in {"MAIN", "FACTORY_RESET"} \cap Screens : ShowLoading(s)
  \/ \E keep \in BOOLEAN : ShowFault(keep)
  \/ \E w \in Writers : StartError(w) \/ MakeTransient(w)
  \/ \E w \in Writers, p \in Kinds, to \in Returns : Post(w, p, to)
  \/ \E p \in Kinds : EventNotice(p)
  \/ \E w \in Posters \ {"lcd"} : CommitOther(w)

DisplayNext == Pass \/ Calls \/ Noise \/ Expire \/ \E c \in Clocks : Lapse(c)

DisplaySpec == DisplayInit /\ [][DisplayNext]_displayVars

\* The display task runs; and the second after which a recovery is tried again,
\* or the ten after which all rows are, pass in the end, however many passes of
\* the display task that takes
FairDisplay == DisplaySpec /\ WF_displayVars(Pass) /\ SF_displayVars(Recover \/ Refresh)

-----------------------------------------------------------------------------
(* Properties *)

\* A waiting notice is given up only for a more urgent one: it leaves the queue
\* from its head, or another one entered that outranks it
\* (lcd_flash_queue.h: "dropped to make room for a higher-priority incoming message")
UrgentKept ==
  [][\A i \in 1..Len(queue) :
       \/ \E j \in 1..Len(queue') : queue'[j].id = queue[i].id
       \/ i = 1 /\ task = "next"
       \/ \E j \in 1..Len(queue') :
            /\ queue'[j].priority > queue[i].priority
            /\ \A k \in 1..Len(queue) : queue[k].id # queue'[j].id]_displayVars

\* What the row cache says is written is on the glass, whatever transfers failed
\* and however often the controller was brought up anew, unless an error is known
\* and the recovery pending or a character was corrupted silently
CacheTruthful ==
  ~driver.init \/ driver.error \/ noisy \/ row.cache \in {Nothing, glass}

\* The display task takes a loading screen away before its time only where it does not
\* look at what is on screen: to show a notice, to go back to the screen a notice
\* remembered, and at the deadline of a Wi-Fi screen it drew.  The deadlines of the
\* fault screen and of an earlier loading screen never do, whatever other tasks show
\* between the snapshot and the end of the pass (lcd_task.c).
LoadingCutShort ==
  [][task' # task /\ screen = "LOADING" /\ screen' # "LOADING" /\ "LOADING" \notin lapsed
       => \/ task \in {"commit", "fall"}
          \/ task = "draw" /\ snap.due /\ snap.screen \in Timed]_displayVars

\* The glass catches up with the screen over and over, whatever transfers failed:
\* a screen that stays without a notice over it is displayed in the end
GlassCatchesUp ==
  []<>(glass = <<screen, 0>> \/ screen = "FLASH_MSG" \/ flash.active)

=============================================================================
