----------------------------- MODULE Interrupts -----------------------------
(***************************************************************************)
(* Programs on the Pi.  Those that run with the timer interrupt:           *)
(* timer-int/timer.c of lab 7, with its vectors and its timer set-up, and  *)
(* the shape of lab 8's sonar-int.c, whose main program and handler share  *)
(* the GPIO pins; lab 15's system call, which shares the installing of the *)
(* vectors; lab 9's threads; and programs that wait by polling the clock   *)
(* that the handler reads, with libpi's delay_us(), lab 16's usleep() or   *)
(* its timers.                                                             *)
(* The processor, interrupt controller, ARM timer and microsecond clock    *)
(* are external.                                                           *)
(***************************************************************************)
EXTENDS Gpio, Exceptions, Threads, Waits

CONSTANTS
  Programs,     (* those to run                                            *)
  Families,     (* the GPIO calls that a run of sonar makes: each pin      *)
                (*   register is on its own, so one family at a time       *)
  Settings,     (* types that the client may call int_set_handler() with   *)
  Goal,         (* ticks after which timer.c ends: 200                     *)
  Led           (* the pin that the handler of sonar-int.c writes          *)

Waiters == {"delay", "usleep", "timers"}
ASSUME InterruptsAssumption ==
  /\ Programs \subseteq {"timer", "sonar", "syscall", "threads"} \cup Waiters
  /\ Families \subseteq {"function", "write", "event", "pull"}
  /\ Goal \in Nat \ {0}
  /\ Settings \subseteq Int /\ Led \in Pins /\ PullPins \subseteq Pins

TableWords == 20        \* _interrupt_table .. _interrupt_table_end
IrqWords == {6, 19}     \* the IRQ slot, and the address that it jumps to

VARIABLES
  prog, family, (* the program that runs; the GPIO calls it makes          *)
  mpc,          (* where the main program is                               *)
  copied,       (* vector words in place                                   *)
  wild,         (* has an interrupt gone through a vector not in place?    *)
  masked,       (* the I bit of the CPSR                                   *)
  basicOn, gpuOn, timerOn,      (* what is enabled                         *)
  pend, gpuPend,                (* what asks for an interrupt              *)
  owed,         (* history: has the timer expired since the last cnt++?    *)
  hpc,          (* where the handler is: "off" when it is not running, and *)
                (*   "wild" for good once a vector was not in place        *)
  cnt,          (* timer.c's count; it stays at Goal, being past it        *)
  clk,          (* the microsecond clock                                   *)
  clkRead, last_clk, period,    (* int_handler()'s                         *)
  gap, spacing, (* history: time since the handler read the clock; between *)
                (*   its last two reads, -1 when it had none to compare    *)
  us, rb, tw,   (* a wait: its argument; delay_us()'s rb; a timer          *)
  waited,       (* history: time since it began                            *)
  lasted,       (* history: how long the wait before it took, -1 for none  *)
  polled, missed        (* history: has it been polled since the clock     *)
                (*   last moved; was it not, at some value of the clock    *)

device == <<basicOn, gpuOn, timerOn, pend, gpuPend, owed>>
vectors == <<copied, wild>>
counts == <<cnt, last_clk, period, clkRead, spacing>>
time == <<clk, gap, waited, missed, polled>>
delay == <<us, rb, tw, lasted>>
program == <<prog, family>>
world == <<gpio, exceptions, threads>>
others == <<exceptions, threads>>
vars == <<world, program, mpc, vectors, masked, device, hpc, counts, time, delay>>

IrqLine == (pend /\ basicOn) \/ (gpuPend /\ gpuOn)

-----------------------------------------------------------------------------
(***************************************************************************)
(* External: the timer expires, a GPU device asks, time passes.            *)
(***************************************************************************)
Expire ==
  /\ timerOn /\ mpc # "rebooted"
  /\ pend' = TRUE /\ owed' = TRUE
  /\ UNCHANGED <<world, program, mpc, vectors, masked, basicOn, gpuOn, timerOn,
                 gpuPend, hpc, counts, time, delay>>

GpuAsks ==
  /\ gpuOn
  /\ gpuPend' = TRUE
  /\ UNCHANGED <<world, program, mpc, vectors, masked, basicOn, gpuOn, timerOn,
                 pend, owed, hpc, counts, time, delay>>

Later(t) == IF t = ClockMod THEN t ELSE t + 1

Pass ==
  /\ prog \in {"timer"} \cup Waiters
  /\ clk' = (clk + 1) % ClockMod
  /\ gap' = Later(gap) /\ waited' = Later(waited)
  /\ missed' = (missed \/ ~polled) /\ polled' = FALSE
  /\ UNCHANGED <<world, program, mpc, vectors, masked, device, hpc, counts, delay>>

-----------------------------------------------------------------------------
(***************************************************************************)
(* The vectors and the handler.  The processor masks interrupts as it      *)
(* takes one; interrupt_asm saves what the main program had in registers,  *)
(* and its last instruction gives the mask and the registers back.         *)
(***************************************************************************)
TakeInterrupt ==
  /\ ~ masked /\ IrqLine /\ hpc = "off" /\ mpc # "rebooted"
  /\ masked' = TRUE
  /\ wild' = (wild \/ \E w \in IrqWords : w >= copied)
  /\ hpc' = IF wild' THEN "wild" ELSE "pending"
  /\ UNCHANGED <<world, program, mpc, copied, device, counts, time, delay>>

ReturnFromInterrupt ==
  /\ hpc = "return"
  /\ hpc' = "off" /\ masked' = FALSE
  /\ UNCHANGED <<world, program, mpc, vectors, device, counts, time, delay>>

\* int_handler() of both: nothing to do when it is not the timer
Pending ==
  /\ hpc = "pending"
  /\ hpc' = IF ~ pend THEN "return" ELSE IF prog = "sonar" THEN "body" ELSE "clear"
  /\ UNCHANGED <<world, program, mpc, vectors, masked, device, counts, time, delay>>

\* int_handler() of timer.c: IRQClear, then cnt, then the clock
ClearThen(next) ==
  /\ pend' = FALSE
  /\ hpc' = next
  /\ UNCHANGED <<world, program, mpc, vectors, masked, basicOn, gpuOn, timerOn,
                 gpuPend, owed, counts, time, delay>>

CountThen(next) ==
  /\ cnt' = IF cnt = Goal THEN cnt ELSE cnt + 1
  /\ owed' = FALSE
  /\ hpc' = next
  /\ UNCHANGED <<world, program, mpc, vectors, masked, basicOn, gpuOn, timerOn,
                 pend, gpuPend, last_clk, period, clkRead, spacing, time, delay>>

ClearAndCountLate ==
  \/ hpc = "clear" /\ CountThen("count")
  \/ hpc = "count" /\ ClearThen("clock")
ClearAndCount ==
  \/ hpc = "clear" /\ ClearThen("count")
  \/ hpc = "count" /\ CountThen("clock")

ReadClock ==
  /\ hpc = "clock"
  /\ clkRead' = clk
  /\ gap' = 0 /\ spacing' = IF last_clk = 0 THEN -1 ELSE gap
  /\ hpc' = "period"
  /\ UNCHANGED <<world, program, mpc, vectors, masked, device, cnt, last_clk, period,
                 clk, waited, missed, polled, delay>>

Period(c, l) == IF l # 0 THEN (c - l) % ClockMod ELSE 0

SetPeriod ==
  /\ hpc = "period"
  /\ period' = Period(clkRead, last_clk)
  /\ last_clk' = clkRead
  /\ hpc' = "return"
  /\ UNCHANGED <<world, program, mpc, vectors, masked, device, cnt, clkRead, spacing,
                 time, delay>>

\* int_handler() of sonar-int.c: its own code, a write of the led, and then IRQClear
LedWrite ==
  /\ hpc = "body"
  /\ \/ \E v \in {0, 1} : Call("irq", "write", Led, v) /\ UNCHANGED hpc
     \/ Return("irq") /\ hpc' = "led"
  /\ UNCHANGED <<others, program, mpc, vectors, masked, device, counts, time, delay>>

LedClear == hpc = "led" /\ ClearThen("return")

Handler ==
  \/ ReturnFromInterrupt \/ Pending \/ ClearAndCount \/ ReadClock \/ SetPeriod
  \/ LedWrite \/ LedClear

-----------------------------------------------------------------------------
(***************************************************************************)
(* The main programs.                                                      *)
(***************************************************************************)
\* install_int_handlers() and install_handlers(): a word at a time, the last one to
\* come; lab 15's int_init() then notes that it is done
InstallTo(words) ==
  /\ hpc = "off" /\ mpc = "install"
  /\ copied' = copied + 1
  /\ mpc' = IF copied' # words THEN mpc ELSE IF prog = "syscall" THEN "installed" ELSE "disable"
  /\ IF prog = "syscall" THEN InstallWord(copied) ELSE UNCHANGED exceptions
  /\ UNCHANGED <<gpio, threads, program, wild, masked, device, hpc, counts, time, delay>>
InstallShort == InstallTo(TableWords - 1)
Install == InstallTo(TableWords)

\* timer_interrupt_init(): the GPU's interrupts off, the timer's on, the timer on
DisableGpu ==
  /\ hpc = "off" /\ mpc = "disable"
  /\ gpuOn' = FALSE
  /\ mpc' = "basic"
  /\ UNCHANGED <<world, program, vectors, masked, basicOn, timerOn, pend, gpuPend,
                 owed, hpc, counts, time, delay>>

EnableBasic ==
  /\ hpc = "off" /\ mpc = "basic"
  /\ basicOn' = TRUE
  /\ mpc' = "timer"
  /\ UNCHANGED <<world, program, vectors, masked, gpuOn, timerOn, pend, gpuPend,
                 owed, hpc, counts, time, delay>>

EnableTimer ==
  /\ hpc = "off" /\ mpc = "timer"
  /\ timerOn' = TRUE
  /\ mpc' = IF prog = "sonar" THEN "pins" ELSE "enable"
  /\ UNCHANGED <<world, program, vectors, masked, basicOn, gpuOn, pend, gpuPend,
                 owed, hpc, counts, time, delay>>

\* sonar-int.c makes the led an output before it enables interrupts
SetUpPins ==
  /\ hpc = "off" /\ mpc = "pins"
  /\ \/ Call("main", "function", Led, GPIO_FUNC.OUTPUT) /\ UNCHANGED mpc
     \/ Return("main") /\ mpc' = "enable"
  /\ UNCHANGED <<others, program, vectors, masked, device, hpc, counts, time, delay>>

\* system_enable_interrupts(): last, once everything is set up
EnableInterruptsNot ==
  /\ hpc = "off" /\ mpc = "enable"
  /\ mpc' = "loop"
  /\ UNCHANGED <<world, program, vectors, masked, device, hpc, counts, time, delay>>
EnableInterrupts ==
  /\ hpc = "off" /\ mpc = "enable"
  /\ masked' = FALSE
  /\ mpc' = "loop"
  /\ UNCHANGED <<world, program, vectors, device, hpc, counts, time, delay>>

\* timer.c prints until it has counted enough, and reboots
CountedEnough ==
  /\ hpc = "off" /\ mpc = "loop" /\ prog = "timer" /\ cnt = Goal
  /\ mpc' = "rebooted"
  /\ UNCHANGED <<world, program, vectors, masked, device, hpc, counts, time, delay>>

\* The main program of sonar uses the pins, one family of calls of the library.
OtherPins == Pins \ {Led}
UsePins ==
  /\ hpc = "off" /\ mpc = "loop" /\ prog = "sonar"
  /\ \/ \E p \in OtherPins, f \in Functions :
          family = "function" /\ Call("main", "function", p, f)
     \/ \E p \in OtherPins, v \in {0, 1} :
          family = "write" /\ Call("main", "write", p, v)
     \/ \E p \in OtherPins, fn \in {"falling", "rising", "clear_event"} :
          family = "event" /\ Call("main", fn, p, 0)
     \/ \E p \in PullPins, v \in PUD : family = "pull" /\ PullCall("main", p, v)
     \/ \/ Return("main") \/ PullClock("main") \/ PullRemove("main") \/ PullDone("main")
  /\ UNCHANGED <<others, program, mpc, vectors, masked, device, hpc, counts,
                 time, delay>>

PinEdge ==
  /\ family = "event"
  /\ \E p \in Pins : Edge(p)
  /\ UNCHANGED <<others, program, mpc, vectors, masked, device, hpc, counts,
                 time, delay>>

\* lab 15: the client sets handlers before int_init(), or too late
SetHandlers ==
  /\ hpc = "off" /\ mpc \in {"start", "loop"} /\ prog = "syscall" /\ mode = "sys" /\ ~ dead
  /\ \E t \in Settings : SetHandler(t)
  /\ UNCHANGED <<gpio, threads, program, mpc, vectors, masked, device, hpc, counts, time, delay>>

\* int_init(): the GPU's interrupts off, interrupts masked, then the vectors
InitGpuOff ==
  /\ hpc = "off" /\ mpc = "start" /\ ~ dead
  /\ gpuOn' = FALSE
  /\ mpc' = "mask"
  /\ UNCHANGED <<world, program, vectors, masked, basicOn, timerOn, pend, gpuPend,
                 owed, hpc, counts, time, delay>>

InitMask ==
  /\ hpc = "off" /\ mpc = "mask"
  /\ masked' = TRUE
  /\ mpc' = "install"
  /\ UNCHANGED <<world, program, vectors, device, hpc, counts, time, delay>>

\* the rest of int_init() and of int_part0(), and the reboot
Part0 ==
  /\ hpc = "off" /\ ~ dead
  /\ \/ mpc = "installed" /\ Initialized /\ mpc' = "stack"
     \/ mpc = "stack" /\ SetupStack /\ mpc' = "swi"
     \/ mpc = "swi" /\ Swi /\ mpc' = "answer"
     \/ mpc = "answer" /\ Handle /\ UNCHANGED mpc
     \/ mpc = "answer" /\ SwiReturns /\ mpc' = "loop"
     \/ mpc = "loop" /\ prog = "syscall" /\ UNCHANGED exceptions /\ mpc' = "rebooted"
  /\ UNCHANGED <<gpio, threads, program, vectors, masked, device, hpc, counts, time, delay>>

\* lab 9: part2() and its threads
RunThreads ==
  /\ prog = "threads" /\ ThreadsNext
  /\ UNCHANGED <<gpio, exceptions, program, mpc, vectors, masked, device, hpc, counts,
                 time, delay>>

\* A wait begins with a read of the clock and polls it until it is over; a timer
\* then waits again.
StartWait ==
  /\ mpc \in Waiters
  /\ rb' = clk
  /\ tw' = IF mpc = "usleep" THEN Armed(us, clk) ELSE register_timer(us, clk)
  /\ waited' = 0 /\ missed' = FALSE /\ polled' = TRUE
  /\ mpc' = "waiting"
  /\ UNCHANGED <<world, program, vectors, masked, device, hpc, counts, clk, gap, us, lasted>>

Over == IF prog = "delay" THEN DelayOver(us, rb, clk) ELSE Due(tw, clk)

StillWaiting ==
  /\ mpc = "waiting" /\ ~Over
  /\ tw' = Polled(tw, clk) /\ polled' = TRUE
  /\ UNCHANGED <<world, program, mpc, vectors, masked, device, hpc, counts, clk, gap,
                 waited, missed, us, rb, lasted>>

EndWait ==
  /\ mpc = "waiting" /\ Over
  /\ tw' = compare_timer(tw, clk)
  /\ lasted' = waited /\ waited' = 0 /\ missed' = FALSE /\ polled' = TRUE
  /\ mpc' = IF prog = "timers" THEN mpc ELSE "waited"
  /\ UNCHANGED <<world, program, vectors, masked, device, hpc, counts, clk, gap, us, rb>>

MainProgram ==
  \/ Install \/ DisableGpu \/ EnableBasic \/ EnableTimer \/ SetUpPins
  \/ EnableInterrupts \/ CountedEnough \/ InitGpuOff \/ InitMask \/ Part0
  \/ StartWait \/ StillWaiting \/ EndWait

Init ==
  /\ GpioInit /\ ExceptionsInit /\ ThreadsInit
  /\ prog \in Programs
  /\ family \in IF prog # "sonar" THEN {"none"}
                ELSE IF lib = "cs107e" THEN Families
                ELSE Families \ {"event", "pull"}   \* not in libpi
  /\ prog # "sonar" => lib = "libpi"
  /\ mpc = IF prog = "syscall" THEN "start" ELSE IF prog \in {"timer", "sonar"} THEN "install" ELSE prog
  /\ copied = 0 /\ wild = FALSE
  /\ masked = (prog # "syscall")       \* vm-start.s clears the I bit
  /\ basicOn = FALSE /\ timerOn = FALSE
  /\ gpuOn \in IF prog = "threads" THEN {FALSE} ELSE BOOLEAN   \* as the firmware left it
  /\ pend = FALSE /\ gpuPend = FALSE /\ owed = FALSE
  /\ hpc = "off"
  /\ cnt = 0 /\ last_clk = 0 /\ period = 0 /\ clkRead = 0 /\ spacing = -1
  /\ clk \in (IF prog \in {"timer"} \cup Waiters THEN Clock ELSE {0}) /\ gap = 0
  /\ us \in IF prog \in Waiters THEN Clock ELSE {0}
  /\ rb = 0 /\ tw = Off
  /\ waited = 0 /\ lasted = -1 /\ missed = FALSE /\ polled = FALSE

Next ==
  \/ Expire \/ GpuAsks \/ Pass \/ TakeInterrupt \/ Handler \/ MainProgram
  \/ UsePins \/ PinEdge \/ SetHandlers \/ RunThreads

\* The handler and the main program run, and the timer keeps expiring.  The main
\* program needs more: that the timer leaves it time between two interrupts.
Fairness ==
  /\ WF_vars(Expire) /\ WF_vars(TakeInterrupt) /\ WF_vars(Handler)
  /\ SF_vars(MainProgram)

Spec == Init /\ [][Next]_vars
FairSpec == Spec /\ Fairness

-----------------------------------------------------------------------------
(***************************************************************************)
(* Properties.                                                             *)
(***************************************************************************)
\* Type invariant: the pins, the device, and the clock.
TypeOK ==
  /\ regs \in [Registers -> SUBSET Bits]
  /\ pud \in PUD /\ pull \in [PullPins -> PUD]
  /\ {masked, basicOn, gpuOn, timerOn, pend, gpuPend, owed} \subseteq BOOLEAN
  /\ copied \in 0 .. TableWords /\ wild \in BOOLEAN
  /\ cnt \in 0 .. Goal
  /\ {clk, clkRead, last_clk, period, us, rb} \subseteq Clock
  /\ tw \in [usec : Clock, trigger_value : Clock, rollover : BOOLEAN]
  /\ {gap, waited} \subseteq 0 .. ClockMod /\ lasted \in -1 .. ClockMod
  /\ {missed, polled} \subseteq BOOLEAN

\* No interrupt goes through a vector that is not in place, interrupts being enabled
\* after the last word of the table is copied (timer.c:49-60).  Lab 15's vm-start.s:6-7
\* has enabled them from the first instruction: there one of the GPU's may, but only
\* until int_init() turns those off, never while the table is copied and after
\* (interrupts-c.c:67-77).  And there the vectors are the words that int_set_handler()
\* accepted, and the system call comes back with its answer (driver.c:107-149).
VectorsInPlace ==
  /\ TypeOK
  /\ wild => prog = "syscall" /\ mpc = "start"
  /\ WordsInForce
  /\ AnswerComesBack(mpc = "loop" /\ prog = "syscall")

\* Every expiry since the last cnt++ will be counted: it is pending, or the handler
\* has cleared it on the way to its cnt++ (timer.c:33-34).
NoTickForgotten ==
  prog = "timer" /\ owed => pend \/ hpc = "count"

\* The period that the handler computes is the time between its two reads of the
\* clock, also when the clock wraps between them, as long as it wraps only once
\* (timer.c:36-39).
PeriodTrue ==
  hpc \in {"off", "return"} /\ spacing \in 0 .. ClockMod - 1 => period = spacing

\* A wait lasts at least for the time asked for, and no longer if the clock is read
\* at each of its values, wherever the clock wraps and however often the waits follow
\* each other (cs140e-timer.c:14-22, platform.c:79-138).  Exempt are a usleep() of 0,
\* which takes a whole wrap, and a wait that ends as the clock wraps to 0, which is
\* over only once the clock is below 0: never.
WaitsAsAsked ==
  /\ lasted # -1 => lasted >= us
  /\ mpc = "waiting" /\ ~missed /\ us # 0 /\ (prog = "delay" \/ tw.trigger_value # 0) => waited <= us

\* No tick is lost, and what is computed over the clock survives its wrapping
\* (timer.c:33-39, cs140e-timer.c:14-22, platform.c:79-138).
TimeKept == NoTickForgotten /\ PeriodTrue /\ WaitsAsAsked

\* A pin has the function last set for it, whatever was set for the pins that share
\* its register (gpio.c:223-243).
FunctionsAsSet ==
  \A p \in Pins : asked[p].fn # -1 => gpio_get_function(p) = asked[p].fn

\* A pin has the level last written to it, though main program and handler write
\* pins of one register and either may come between read and write (gpio.c:254-270).
LevelsAsWritten ==
  \A p \in Pins : asked[p].lev # -1 => gpio_pin_read(p) = (asked[p].lev = 1)

\* Between two calls, a pad has the pull last asked for (gpio.c:338-353).
PullsAsAsked ==
  op["main"] = NoOp =>
    \A p \in PullPins : asked[p].pud # -1 => pull[p] = asked[p].pud

\* A pin is as it was last asked to be, whatever main program and handler do to
\* the pins that share its registers (gpio.c:223-270, 338-353).
PinsAsAsked == FunctionsAsSet /\ LevelsAsWritten /\ PullsAsAsked

\* A detected edge goes away by a call for its own pin only, whatever was pending
\* for the pins of the same register (gpio.c:310-322).
EventsKept ==
  [][\A p \in Pins :
       LET r == gpio_pin_to_event_register(p)
       IN  p % 32 \in regs[r] \ regs'[r] =>
             op["main"].fn = "clear_event" /\ op["main"].pin = p]_vars

\* timer.c counts its ticks and reboots.
CountsToGoal == prog = "timer" ~> mpc = "rebooted"
=============================================================================
