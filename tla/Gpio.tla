-------------------------------- MODULE Gpio --------------------------------
(***************************************************************************)
(* The two GPIO libraries, labs/lab3-cross-check/cs107e-complex-gpio and   *)
(* libpi/my-gpio.c, over the registers of the BCM2835, which are external. *)
(* A word is the set of the bits that are 1 in it.  An operation is a read *)
(* of a register and then a write, and an interrupt may come between: a    *)
(* call in progress stands in op[c], c being the context, main program or  *)
(* handler, that makes it.                                                 *)
(***************************************************************************)
EXTENDS Integers, Sequences, FiniteSets

CONSTANTS
  Pins,         (* pins that callers name, beyond the last one perhaps     *)
  PullPins,     (* pins that callers pull                                  *)
  Functions     (* functions that callers ask for                          *)

\* gpio.h
GPIO_PIN_LAST == 54
GPIO_FUNC == [INPUT |-> 0, OUTPUT |-> 1, ALT0 |-> 4, ALT1 |-> 5, ALT2 |-> 6,
              ALT3 |-> 7, ALT4 |-> 3, ALT5 |-> 2, INVALID |-> 8]
PUD == 0 .. 3

ASSUME GpioAssumption ==
  Pins \subseteq Nat /\ PullPins \subseteq Nat /\ Functions \subseteq Nat

Contexts == {"main", "irq"}
Bits == 0 .. 31
Banked == {"GPSET", "GPCLR", "GPLEV", "GPEDS", "GPREN", "GPFEN", "GPPUDCLK"}
Registers == ({"GPFSEL"} \X (0 .. 5)) \cup (Banked \X {0, 1})

VARIABLES
  lib,          (* the library linked in: "cs107e" or "libpi"              *)
  regs,         (* register -> word                                        *)
  pud,          (* what GPPUD holds                                        *)
  pull,         (* pin -> the pull that its pad holds                      *)
  op,           (* context -> the call it is making                        *)
  asked         (* what callers have been told of each pin: [fn, lev, pud];*)
                (*   -1 for what no call has set (history)                 *)

gpio == <<lib, regs, pud, pull, op, asked>>

NoOp == [fn |-> "none"]

-----------------------------------------------------------------------------
(***************************************************************************)
(* Where the bits of a pin are.                                            *)
(***************************************************************************)
gpio_pin_to_function_register(pin) == <<"GPFSEL", pin \div 10>>
gpio_pin_to_function_offset(pin) == (pin % 10) * 3
gpio_pin_to_bit_offset(pin) == pin % 32

Bank(pin) == IF pin <= 31 THEN 0 ELSE 1

gpio_pin_to_input_register(pin)   == <<"GPLEV", Bank(pin)>>
gpio_pin_to_set_register(pin)     == <<"GPSET", Bank(pin)>>
gpio_pin_to_clear_register(pin)   == <<"GPCLR", Bank(pin)>>
gpio_pin_to_event_register(pin)   == <<"GPEDS", Bank(pin)>>
gpio_pin_to_falling_register(pin) == <<"GPFEN", Bank(pin)>>
gpio_pin_to_rising_register(pin)  == <<"GPREN", Bank(pin)>>
gpio_pin_to_udclock_register(pin) == <<"GPPUDCLK", Bank(pin)>>

gpio_pin_valid(pin) == pin \in 0 .. GPIO_PIN_LAST
gpio_function_valid(f) == f >= GPIO_FUNC.INPUT /\ f <= GPIO_FUNC.ALT5

\* libpi: 32 pins, and any function of three bits
LibpiTakes(pin, f) == pin < 32 /\ f \in 0 .. 7

\* The three bits of function f at an offset, and of all functions
FunctionBits(f, off) == { off + k : k \in { j \in 0 .. 2 : (f \div 2^j) % 2 = 1 } }
FunctionMask(off) == off .. off + 2

FunctionOf(word, off) ==
  LET bit(k) == IF off + k \in word THEN 2^k ELSE 0 IN bit(0) + bit(1) + bit(2)

gpio_get_function(pin) ==
  IF ~ gpio_pin_valid(pin) THEN GPIO_FUNC.INVALID
  ELSE FunctionOf(regs[gpio_pin_to_function_register(pin)],
                  gpio_pin_to_function_offset(pin))

gpio_pin_read(pin) ==
  gpio_pin_to_bit_offset(pin) \in regs[gpio_pin_to_input_register(pin)]

-----------------------------------------------------------------------------
(***************************************************************************)
(* The registers: external.  A pin that is set or cleared changes its      *)
(* level; a 1 clears a detected event; GPSET and GPCLR read as zero.       *)
(***************************************************************************)
HwRead(r) == IF r[1] \in {"GPSET", "GPCLR"} THEN {} ELSE regs[r]

HwWritten(r, w) ==
  CASE r[1] = "GPSET" -> [regs EXCEPT ![<<"GPLEV", r[2]>>] = @ \cup w]
    [] r[1] = "GPCLR" -> [regs EXCEPT ![<<"GPLEV", r[2]>>] = @ \ w]
    [] r[1] = "GPEDS" -> [regs EXCEPT ![r] = @ \ w]
    [] OTHER -> [regs EXCEPT ![r] = w]

\* Pads latch GPPUD when the bit of their clock register rises.
HwClocked(r, w) ==
  [p \in PullPins |->
     IF gpio_pin_to_udclock_register(p) = r /\ p % 32 \in w \ regs[r]
     THEN pud ELSE pull[p]]

-----------------------------------------------------------------------------
(***************************************************************************)
(* The operations: the register that a call reads and then writes.         *)
(***************************************************************************)
RegisterOf(o) ==
  CASE o.fn = "function" -> gpio_pin_to_function_register(o.pin)
    [] o.fn = "write" /\ o.arg = 1 -> gpio_pin_to_set_register(o.pin)
    [] o.fn = "write" /\ o.arg = 0 -> gpio_pin_to_clear_register(o.pin)
    [] o.fn = "falling" -> gpio_pin_to_falling_register(o.pin)
    [] o.fn = "rising" -> gpio_pin_to_rising_register(o.pin)
    [] o.fn = "clear_event" -> gpio_pin_to_event_register(o.pin)

\* gpio_set_function(): the word to put back
FunctionWordUnmasked(o) ==
  LET off == gpio_pin_to_function_offset(o.pin)
  IN  o.val \cup FunctionBits(o.arg, off)
FunctionWord(o) ==
  LET off == gpio_pin_to_function_offset(o.pin)
  IN  (o.val \ FunctionMask(off)) \cup FunctionBits(o.arg, off)

\* gpio_pin_write(), gpio_detect_falling_edge(), gpio_detect_rising_edge()
OrWord(o) == o.val \cup {gpio_pin_to_bit_offset(o.pin)}

\* libpi's gpio_write() does not read first
LibpiWriteWord(o) == {o.pin}

\* gpio_check_and_clear_event(): only the pin's own bit
EventWordAll(o) == o.val \cup {gpio_pin_to_bit_offset(o.pin)}
EventWord(o) == {gpio_pin_to_bit_offset(o.pin)}

WordOf(o) ==
  CASE o.fn = "function" -> FunctionWord(o)
    [] o.fn = "clear_event" -> EventWord(o)
    [] o.fn = "write" /\ lib = "libpi" -> LibpiWriteWord(o)
    [] OTHER -> OrWord(o)

\* A call is made, passes its checks, and reads its register.
Call(c, fn, pin, arg) ==
  /\ op[c] = NoOp
  /\ lib = "libpi" => LibpiTakes(pin, arg)
  /\ lib = "cs107e" /\ fn = "function" => gpio_pin_valid(pin) /\ gpio_function_valid(arg)
  /\ LET o == [fn |-> fn, pin |-> pin, arg |-> arg, val |-> {}]
     IN  op' = [op EXCEPT ![c] = [o EXCEPT !.val = HwRead(RegisterOf(o))]]
  /\ UNCHANGED <<lib, regs, pud, pull, asked>>

\* what the call tells its caller of the pin
Told(o) ==
  CASE o.fn = "function" -> [asked EXCEPT ![o.pin].fn = o.arg]
    [] o.fn = "write" -> [asked EXCEPT ![o.pin].lev = o.arg]
    [] OTHER -> asked

\* It writes the register, and returns.
Return(c) ==
  /\ op[c].fn \notin {"none", "pull"}
  /\ regs' = HwWritten(RegisterOf(op[c]), WordOf(op[c]))
  /\ op' = [op EXCEPT ![c] = NoOp]
  /\ asked' = Told(op[c])
  /\ UNCHANGED <<lib, pud, pull>>

\* pin_pull(): drive GPPUD, clock it into the pad, and take both away again
PullCall(c, pin, arg) ==
  /\ op[c] = NoOp
  /\ pud' = arg
  /\ op' = [op EXCEPT ![c] = [fn |-> "pull", pin |-> pin, arg |-> arg, step |-> 1]]
  /\ UNCHANGED <<lib, regs, pull, asked>>

PullClock(c) ==
  /\ op[c].fn = "pull" /\ op[c].step = 1
  /\ LET r == gpio_pin_to_udclock_register(op[c].pin)
         w == {op[c].pin % 32}
     IN  pull' = HwClocked(r, w) /\ regs' = HwWritten(r, w)
  /\ op' = [op EXCEPT ![c].step = 2]
  /\ UNCHANGED <<lib, pud, asked>>

PullRemove(c) ==
  /\ op[c].fn = "pull" /\ op[c].step = 2
  /\ pud' = 0
  /\ op' = [op EXCEPT ![c].step = 3]
  /\ UNCHANGED <<lib, regs, pull, asked>>

PullDone(c) ==
  /\ op[c].fn = "pull" /\ op[c].step = 3
  /\ regs' = HwWritten(<<"GPPUDCLK", 0>>, {})
  /\ op' = [op EXCEPT ![c] = NoOp]
  /\ asked' = [asked EXCEPT ![op[c].pin].pud = op[c].arg]
  /\ UNCHANGED <<lib, pud, pull>>

GpioInit ==
  /\ lib \in {"cs107e", "libpi"}
  /\ regs = [r \in Registers |-> {}]
  /\ pud = 0
  /\ pull = [p \in PullPins |-> 0]
  /\ op = [c \in Contexts |-> NoOp]
  /\ asked = [p \in Pins |-> [fn |-> -1, lev |-> -1, pud |-> -1]]

\* An edge on a pin is detected: external.
Edge(pin) ==
  /\ regs' = [regs EXCEPT ![gpio_pin_to_event_register(pin)] =
                            @ \cup {gpio_pin_to_bit_offset(pin)}]
  /\ UNCHANGED <<lib, pud, pull, op, asked>>
=============================================================================
