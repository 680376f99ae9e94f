------------------------------ MODULE Hardware ------------------------------
(***************************************************************************)
(* What the loop does by the clock itself: the lamp that changes every     *)
(* second and the restart that a page asks for (Hardware.cpp), by          *)
(* deadlines (set_timeout, check_timeout of Utility.cpp); the keep-alive   *)
(* message (Watchdog.cpp), by the time since the last one.  millis() is a  *)
(* counter modulo Rollover (2^32), read once at the start of a pass and    *)
(* again where the code does; a pass takes at most Slow ticks.             *)
(*   The web task asks for a restart at any moment, at     *)
(* most MaxRequests times between two starts.                              *)
(*                                                                         *)
(* A deadline is off when it is 0, and may become 0 when the counter rolls *)
(* over: the test against that in set_timeout looks at the old value.      *)
(***************************************************************************)
EXTENDS Integers

CONSTANTS
  Rollover,       \* the modulus of millis()
  START_DELAY, SECOND_PERIOD, REBOOT_TIMEOUT, KEEPALIVE_PERIOD,
  Slow, MaxRequests

VARIABLES
  ticks, now,       \* millis(), and the loop's copy of this pass
  hw_at,            \* where the loop task is
  input_pins,       \* pinMode of the inputs, "reset" before setup
  led,              \* the level at LED_1
  second_timeout, restart_timeout, last_keepalive,
  late,             \* ticks since the pass began
  requests,
  asked, silent     \* ticks since the last request and the last keep-alive

deadlines == <<second_timeout, restart_timeout>>
ages == <<asked, silent>>
hwVars == <<ticks, now, hw_at, input_pins, led, deadlines, last_keepalive, late, requests, ages>>

Clock == 0 .. Rollover - 1
NotAsked == -1

HardwareTypeOK ==
  /\ {ticks, now, second_timeout, restart_timeout, last_keepalive} \subseteq Clock
  /\ hw_at \in {"setup", "io", "rest", "watchdog", "second", "restart"}
  /\ input_pins \in {"reset", "INPUT_PULLUP", "INPUT"} /\ led \in 0 .. 1
  /\ late \in 0 .. Slow /\ requests \in 0 .. MaxRequests
  /\ asked \in -1 .. Rollover /\ silent \in 0 .. Rollover

\* The board after a reset, before setup.
HardwareInit ==
  /\ ticks = 0 /\ now = 0 /\ hw_at = "setup" /\ input_pins = "reset" /\ led = 0
  /\ second_timeout = 0 /\ restart_timeout = 0 /\ last_keepalive = 0
  /\ late = 0 /\ requests = 0
  /\ asked = NotAsked /\ silent = 0

-----------------------------------------------------------------------------
(* Time.                                                                   *)

Later(t, n) == (t + n) % Rollover

\* set_timeout: its test for a deadline of 0 looks at the old one and is overwritten.
set_timeout(t, n) == Later(t, n)

\* An age is counted up to where nothing depends on it any more.
Older(n, limit) == IF n > limit THEN n ELSE n + 1

Tick ==
  /\ hw_at # "setup" /\ late < Slow /\ late' = late + 1
  /\ ticks' = Later(ticks, 1)
  /\ asked' = (IF asked = NotAsked THEN NotAsked ELSE Older(asked, REBOOT_TIMEOUT))
  /\ silent' = Older(silent, KEEPALIVE_PERIOD)
  /\ UNCHANGED <<now, hw_at, input_pins, led, deadlines, last_keepalive, requests>>

\* Faulty variant of check_timeout: the comparison that its last line keeps as a comment.
check_timeout_plain(to, c) == to # 0 /\ c > to

\* The difference is read as a signed number; 0 is "off".
check_timeout(to, c) == to # 0 /\ (c - to) % Rollover \in 1 .. Rollover \div 2 - 1

\* toggle_led.
toggle(v) == 1 - v

-----------------------------------------------------------------------------
(* The loop task.                                                          *)

\* Hardware::init: the lamp is on, inputs are pulled up, START_DELAY is waited.
SetupHardware ==
  /\ hw_at = "setup" /\ hw_at' = "io"
  /\ input_pins' = "INPUT_PULLUP" /\ led' = 1
  /\ ticks' = START_DELAY % Rollover /\ silent' = ticks'
  /\ second_timeout' = set_timeout(ticks', SECOND_PERIOD)
  /\ UNCHANGED <<now, restart_timeout, last_keepalive, late, requests, asked>>

\* IO::init, in the rest of setup: the constructor of Input sets the pins to plain inputs.
SetupIo ==
  /\ hw_at = "io" /\ hw_at' = "rest"
  /\ input_pins' = "INPUT"
  /\ UNCHANGED <<ticks, now, led, deadlines, last_keepalive, late, requests, ages>>

\* loop reads the clock for the pass.
StartPass ==
  /\ hw_at = "rest" /\ hw_at' = "watchdog" /\ late' = 0
  /\ now' = ticks
  /\ UNCHANGED <<ticks, input_pins, led, deadlines, last_keepalive, requests, ages>>

\* Faulty variant of Watchdog: the sum is compared instead of the difference.
WatchdogSum ==
  /\ hw_at = "watchdog" /\ hw_at' = "second"
  /\ IF now > Later(last_keepalive, KEEPALIVE_PERIOD)
     THEN last_keepalive' = ticks /\ silent' = 0
     ELSE UNCHANGED <<last_keepalive, silent>>
  /\ UNCHANGED <<ticks, now, input_pins, led, deadlines, late, requests, asked>>

\* Watchdog::update_keepalive: the time of the message is read after it was sent.
Watchdog ==
  /\ hw_at = "watchdog" /\ hw_at' = "second"
  /\ IF (now - last_keepalive) % Rollover > KEEPALIVE_PERIOD
     THEN last_keepalive' = ticks /\ silent' = 0
     ELSE UNCHANGED <<last_keepalive, silent>>
  /\ UNCHANGED <<ticks, now, input_pins, led, deadlines, late, requests, asked>>

\* Hardware::update, its first half: the lamp.
Second ==
  /\ hw_at = "second" /\ hw_at' = "restart"
  /\ IF check_timeout(second_timeout, now)
     THEN second_timeout' = set_timeout(now, SECOND_PERIOD) /\ led' = toggle(led)
     ELSE UNCHANGED <<second_timeout, led>>
  /\ UNCHANGED <<ticks, now, input_pins, restart_timeout, last_keepalive, late, requests, asked, silent>>

\* Its second half, when no restart is due; UPDATE_PERIOD is 0, so it never waits.
EndPass ==
  /\ hw_at = "restart" /\ hw_at' = "rest"
  /\ ~check_timeout(restart_timeout, now)
  /\ UNCHANGED <<ticks, now, input_pins, led, deadlines, last_keepalive, late, requests, ages>>

\* esp_restart: nothing in memory survives.
Restart ==
  /\ hw_at = "restart" /\ check_timeout(restart_timeout, now)
  /\ ticks' = 0 /\ now' = 0 /\ hw_at' = "setup" /\ input_pins' = "reset" /\ led' = 0
  /\ second_timeout' = 0 /\ restart_timeout' = 0 /\ last_keepalive' = 0
  /\ late' = 0 /\ requests' = 0
  /\ asked' = NotAsked /\ silent' = 0

LoopStep == SetupHardware \/ SetupIo \/ StartPass \/ Watchdog \/ Second \/ EndPass \/ Restart

-----------------------------------------------------------------------------
(* The web task: Hardware::restart, of the page's /system_restart.  A      *)
(* second request puts the restart off.                                    *)

RequestRestart ==
  /\ hw_at \notin {"setup", "io"} /\ requests < MaxRequests
  /\ requests' = requests + 1
  /\ restart_timeout' = Later(ticks, REBOOT_TIMEOUT)
  /\ asked' = 0
  /\ UNCHANGED <<ticks, now, hw_at, input_pins, led, second_timeout, last_keepalive, late, silent>>

HardwareNext == Tick \/ LoopStep \/ RequestRestart

HardwareFairness == WF_hwVars(LoopStep) /\ SF_hwVars(Tick)

HardwareSpec == HardwareInit /\ [][HardwareNext]_hwVars /\ HardwareFairness

-----------------------------------------------------------------------------
(* Nothing is due before its time, wherever the counter rolls over and     *)
(* however the request falls between the reading of the clock and the      *)
(* test: when the node restarts, the answer to the last request has had    *)
(* REBOOT_TIMEOUT to leave; two keep-alives are a period apart.            *)
NothingEarly ==
  /\ hw_at = "restart" /\ check_timeout(restart_timeout, now) => asked >= REBOOT_TIMEOUT
  /\ hw_at = "watchdog" /\ (now - last_keepalive) % Rollover > KEEPALIVE_PERIOD
       => silent > KEEPALIVE_PERIOD

(* A requested restart happens, the lamp goes on changing and keep-alives  *)
(* go on being sent, across every roll-over, unless the deadline fell on   *)
(* the roll-over itself, where it means "off".                             *)
TimersRun ==
  /\ asked # NotAsked ~> hw_at = "setup" \/ restart_timeout = 0
  /\ []<><<led' # led>>_hwVars \/ <>(second_timeout = 0 /\ hw_at # "setup")
  /\ []<>(silent = 0)
=============================================================================
