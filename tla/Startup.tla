------------------------------ MODULE Startup -------------------------------
(* app_main() from reset to the main loop, with the ADC and the LCD task it
   waits for, the self-test, and a press of the power button at any time.
   How the output is then switched is the subject of PowerControl. *)
EXTENDS Naturals, FiniteSets

CONSTANTS
  FanDriver,    \* the values of "fan_controller_init() is called"; {FALSE} today
  Required      \* the event consumers without which the output stays inhibited

ASSUME FanDriverAssumption == FanDriver \subseteq BOOLEAN /\ FanDriver # {}

VARIABLES
  main,         \* where app_main() is
  bits,         \* sys_event_group
  seen,         \* startup_bits, what the last look at the group showed
  systemReady, released,           \* sys_state.system_ready, s_startup_released
  controller, receiver, consumers, \* what the boot brought up
  buttons,                         \* app_buttons_init() succeeded
  fanDriver, fan, tach,            \* s_ctx.initialized, PWM on, timer running
  test,         \* the test under way: the parts that failed
  lastResult,   \* s_last_result.all_passed
  adc,          \* adc_manager_state; "LATE" is FAILED with the task still sampling,
                \* "DEAD" is INITIALIZING with the task gone
  reported, dataValid,             \* readiness_reported, adc_data_valid
  lcdTask,      \* "none", "starting" or "running"
  output,       \* the relay was closed since the reset
  failures      \* history: every part that failed since the reset

panel == <<buttons, output>>
fans == <<fanDriver, fan, tach>>
tests == <<test, lastResult>>
adcs == <<adc, reported, dataValid>>
parts == <<controller, receiver, consumers>>
startupVars == <<main, bits, seen, systemReady, released, parts, panel, fans, tests,
          adcs, lcdTask, failures>>

Bit == {"ADC_READY", "ADC_FAILED", "LCD_READY", "LCD_FAILED"}
Failed == {"ADC_FAILED", "LCD_FAILED"}
Ready == {"ADC_READY", "LCD_READY"}
Label == {"core", "display", "adc", "lcd", "tasks", "buttons", "wait", "testLcd",
          "testAdc", "testFan", "measure", "verdict", "services", "publish",
          "show", "loop", "halted", "restart"}

StartupInit ==
  /\ main = "core" /\ bits = {} /\ seen = {}
  /\ systemReady = FALSE /\ released = FALSE
  /\ controller = FALSE /\ receiver = FALSE /\ consumers = {} /\ buttons = FALSE
  /\ fanDriver \in FanDriver /\ fan = FALSE /\ tach = FALSE
  /\ test = {} /\ lastResult = FALSE
  /\ adc = "RESET" /\ reported = FALSE /\ dataValid = FALSE
  /\ lcdTask = "none" /\ output = FALSE /\ failures = {}

At(label) == main = label
Goto(label) == main' = label
Fails(part) == failures' = failures \cup {part}

-----------------------------------------------------------------------------
(* The steps of app_main() up to the readiness gates *)

\* Watchdog, events, mutexes, storage, defaults, settings: system_ready is
\* cleared first and set when the settings are in force.
Core ==
  /\ At("core")
  /\ \/ systemReady' = TRUE /\ Goto("display") /\ UNCHANGED failures
     \/ systemReady' = FALSE /\ Goto("halted") /\ Fails("CORE")
  /\ tach' = TRUE
  /\ UNCHANGED <<bits, seen, released, parts, panel, fanDriver, fan, tests, adcs, lcdTask>>

\* The backlight must work; a controller that does not only sets its bit.
Display ==
  /\ At("display")
  /\ \/ /\ Goto("adc") /\ controller' = TRUE /\ bits' = {} /\ UNCHANGED failures
     \/ /\ Goto("adc") /\ controller' = FALSE /\ bits' = {"LCD_FAILED"}
        /\ Fails("CONTROLLER")
     \/ Goto("halted") /\ Fails("BACKLIGHT") /\ UNCHANGED <<controller, bits>>
  /\ UNCHANGED <<seen, systemReady, released, receiver, consumers, panel, fans,
                 tests, adcs, lcdTask>>

StartAdc ==
  /\ At("adc") /\ Goto("lcd")
  /\ \/ adc' = "INITIALIZING" /\ UNCHANGED <<bits, failures>>
     \/ adc' = "FAILED" /\ bits' = bits \cup {"ADC_FAILED"} /\ Fails("ADC")
  /\ UNCHANGED <<seen, systemReady, released, parts, panel, fans, tests, reported,
                 dataValid, lcdTask>>

\* The event receiver, then the task, which needs the controller.
StartLcd ==
  /\ At("lcd") /\ Goto("tasks")
  /\ \E r, t \in BOOLEAN :
       /\ receiver' = r
       /\ lcdTask' = IF controller /\ t THEN "starting" ELSE "none"
       /\ bits' = IF lcdTask' = "none" THEN bits \cup {"LCD_FAILED"} ELSE bits
       /\ failures' = failures \cup (IF r THEN {} ELSE {"RECEIVER"})
                               \cup (IF lcdTask' = "none" THEN {"LCD"} ELSE {})
  /\ UNCHANGED <<seen, systemReady, released, controller, consumers, panel, fans,
                 tests, adcs>>

\* The buzzer, LED and log tasks may be missing; the required ones may not.
StartTasks ==
  /\ At("tasks") /\ Goto("buttons")
  /\ consumers' \in SUBSET Required
  /\ failures' = failures \cup (IF consumers' = Required THEN {} ELSE {"TASKS"})
  /\ UNCHANGED <<bits, seen, systemReady, released, controller, receiver, panel, fans,
                 tests, adcs, lcdTask>>

StartButtons ==
  /\ At("buttons")
  /\ \/ buttons' = TRUE /\ Goto("wait") /\ UNCHANGED failures
     \/ buttons' = FALSE /\ Goto("restart") /\ Fails("BUTTONS")
  /\ UNCHANGED <<bits, seen, systemReady, released, parts, fans, tests, adcs,
                 lcdTask, output>>

\* esp_restart()
Reboot ==
  /\ At("restart")
  /\ main' = "core" /\ bits' = {} /\ seen' = {}
  /\ systemReady' = FALSE /\ released' = FALSE
  /\ controller' = FALSE /\ receiver' = FALSE /\ consumers' = {} /\ buttons' = FALSE
  /\ fan' = FALSE /\ tach' = FALSE /\ test' = {} /\ lastResult' = FALSE
  /\ adc' = "RESET" /\ reported' = FALSE /\ dataValid' = FALSE
  /\ lcdTask' = "none" /\ output' = FALSE /\ failures' = {}
  /\ UNCHANGED fanDriver

-----------------------------------------------------------------------------
(* The gates: at most ten seconds of looks at the event group *)

\* Mutant: readiness of one of the two opens the gate to the self-test.
PassGates_Either == Goto(IF seen' \cap Ready # {} THEN "testLcd" ELSE "verdict")

PassGates == Goto(IF Ready \subseteq seen' THEN "testLcd" ELSE "verdict")

\* Nothing is known of the self-test when the gates stay closed.
Look ==
  /\ At("wait")
  /\ seen' = bits
  /\ IF bits \cap Failed # {} \/ Ready \subseteq bits THEN PassGates ELSE Goto("wait")
  /\ failures' = IF main' = "verdict" THEN failures \cup {"GATES"} ELSE failures
  /\ UNCHANGED <<bits, systemReady, released, parts, panel, fans, tests, adcs, lcdTask>>

\* Mutant: the loop waits for as long as it takes.
TimeOut_Never == FALSE /\ UNCHANGED startupVars

TimeOut ==
  /\ At("wait")
  /\ Goto("verdict") /\ Fails("GATES")
  /\ UNCHANGED <<bits, seen, systemReady, released, parts, panel, fans, tests, adcs, lcdTask>>

Wait == Look \/ TimeOut

-----------------------------------------------------------------------------
(* post_run_all(): each part is tested whatever the others gave *)

Note(part) == test' = test \cup {part} /\ Fails(part)
Passes == UNCHANGED <<test, failures>>

TestLcd ==
  /\ At("testLcd") /\ Goto("testAdc")
  /\ Passes \/ Note("LCD_ACK")
  /\ UNCHANGED <<bits, seen, systemReady, released, parts, panel, fans, lastResult,
                 adcs, lcdTask>>

\* Fresh valid data, a plausible battery, and no output voltage yet.
TestAdc ==
  /\ At("testAdc") /\ Goto("testFan")
  /\ \/ adc = "READY" /\ dataValid /\ Passes
     \/ Note("ADC_DATA")
  /\ UNCHANGED <<bits, seen, systemReady, released, parts, panel, fans, lastResult,
                 adcs, lcdTask>>

\* The end of the test: the result is published in one piece. A fan that will
\* not stop is only logged.
Conclude ==
  /\ Goto("verdict")
  /\ lastResult' = (test' = {})
  /\ fan' \in {FALSE, fanDriver} /\ tach' = FALSE
  /\ UNCHANGED <<bits, seen, systemReady, released, parts, panel, fanDriver, adcs, lcdTask>>

\* Without its driver, or with an error of the PWM, the fan cannot be tested.
FanPrepareFails ==
  /\ At("testFan")
  /\ test' = test \cup {"FAN"}
  /\ failures' = failures \cup (IF fanDriver THEN {"FAN"} ELSE {})
  /\ Conclude

FanPrepare ==
  /\ At("testFan") /\ fanDriver
  /\ fan' = TRUE /\ Goto("measure")
  /\ UNCHANGED <<bits, seen, systemReady, released, parts, panel, fanDriver, tach, tests,
                 adcs, lcdTask, failures>>

\* Enough pulses at speed within the second, or none, or too few.
FanMeasure ==
  /\ At("measure")
  /\ (tach /\ Passes) \/ Note("FAN")
  /\ Conclude

SelfTest == TestLcd \/ TestAdc \/ FanPrepareFails \/ FanPrepare \/ FanMeasure

-----------------------------------------------------------------------------
(* The end of the start-up *)

\* Mutant: the result does not depend on the consumers that protect.
Healthy_NoTasks == receiver /\ lastResult

Healthy == receiver /\ consumers = Required /\ lastResult

\* Mutant: the panel is released before the result is published.
Services_Releases ==
  /\ At("verdict") /\ Goto("services")
  /\ released' = TRUE
  /\ UNCHANGED <<bits, seen, systemReady, parts, panel, fans, tests, adcs,
                 lcdTask, failures>>

\* The network services come up either way, and may take their time.
Services ==
  /\ At("verdict") /\ Goto("services")
  /\ UNCHANGED <<bits, seen, systemReady, released, parts, panel, fans, tests, adcs,
                 lcdTask, failures>>

Publish ==
  /\ At("services") /\ Goto("show")
  /\ systemReady' = Healthy
  /\ UNCHANGED <<bits, seen, released, parts, panel, fans, tests, adcs, lcdTask, failures>>

\* Five seconds after the display came up the panel is released.
ReleasePanel ==
  /\ At("show") /\ Goto("loop")
  /\ released' = TRUE
  /\ UNCHANGED <<bits, seen, systemReady, parts, panel, fans, tests, adcs, lcdTask, failures>>

Finish == Services \/ Publish \/ ReleasePanel

AppMain ==
  \/ Core \/ Display \/ StartAdc \/ StartLcd \/ StartTasks \/ StartButtons
  \/ Wait \/ SelfTest \/ Finish \/ Reboot

-----------------------------------------------------------------------------
(* The tasks it waits for, and the power button *)

\* A task the watchdog does not take ends without a word.
AdcBegins ==
  /\ adc = "INITIALIZING"
  /\ \/ adc' = "RUNNING" /\ UNCHANGED <<bits, failures>>
     \/ adc' = "DEAD" /\ Fails("ADC_WATCHDOG") /\ UNCHANGED bits
     \/ adc' = "FAILED" /\ bits' = bits \cup {"ADC_FAILED"} /\ Fails("ADC_DRIVER")
  /\ UNCHANGED <<main, seen, systemReady, released, parts, panel, fans, tests, reported,
                 dataValid, lcdTask>>

AdcCycle ==
  /\ adc \in {"RUNNING", "READY", "LATE"}
  /\ \E valid \in BOOLEAN, late \in BOOLEAN :
       /\ late => ~valid /\ ~reported /\ "ADC_FAILED" \notin bits
       /\ dataValid' = valid
       /\ reported' = (reported \/ valid)
       /\ adc' = IF valid /\ ~reported THEN "READY" ELSE IF late THEN "LATE" ELSE adc
       /\ bits' = bits \cup (IF valid THEN {"ADC_READY"} ELSE {})
                       \cup (IF late THEN {"ADC_FAILED"} ELSE {})
  /\ UNCHANGED <<main, seen, systemReady, released, parts, panel, fans, tests, lcdTask,
                 failures>>

LcdBegins ==
  /\ lcdTask = "starting"
  /\ lcdTask' = "running" /\ bits' = bits \cup {"LCD_READY"}
  /\ UNCHANGED <<main, seen, systemReady, released, parts, panel, fans, tests, adcs, failures>>

\* A hold of the power button: ignored until the panel is released.
Press ==
  /\ buttons /\ released /\ systemReady /\ lastResult /\ dataValid
  /\ output' = TRUE
  /\ UNCHANGED <<main, bits, seen, systemReady, released, parts, buttons, fans, tests,
                 adcs, lcdTask, failures>>

StartupNext == AppMain \/ AdcBegins \/ AdcCycle \/ LcdBegins \/ Press

StartupSpec == StartupInit /\ [][StartupNext]_startupVars

\* No wait of app_main() is without a bound.
FairStartup == StartupSpec /\ WF_startupVars(AppMain)

-----------------------------------------------------------------------------
(* Properties *)

\* The verdict of a start-up is exact: in the main loop system_ready says that no
\* part failed on the way, neither more nor less (src/main.c:556, 609), although
\* it was set once already when the settings were loaded.
VerdictExact == At("loop") => (systemReady <=> fanDriver /\ failures = {})

\* Whatever is pressed during the start-up, the output is switched only after it
\* ended well: the panel stays filtered until the result replaced the value of
\* system_ready that the settings left (src/app_runtime.c:6616, src/main.c:644).
OutputOnlyAfterHealthyStart == output => At("loop") /\ Healthy /\ failures = {}

\* The start-up ends whatever its tasks do or fail to do: in the main loop, where
\* update and recovery work, halted before the buttons exist, or in a restart.
StartupEnds == At("core") ~> main \in {"loop", "halted", "restart"}
=============================================================================
