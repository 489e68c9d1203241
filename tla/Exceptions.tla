----------------------------- MODULE Exceptions -----------------------------
(***************************************************************************)
(* Exception handlers and the system call of labs/lab15-syscall/code: the  *)
(* table that int_set_handler() writes, the vectors that int_init() copies *)
(* it to, and int_part0()'s SWI.  The assembly of the lab is to be written *)
(* by its reader.  It is taken to be what rpi-interrupts.h:58-67 shows: a  *)
(* word of the table is an instruction, `ldr pc', that loads the address   *)
(* of the handler from behind the table, handle_swi()'s for SWI_INT.  How  *)
(* the processor gets to a handler and back is external.                   *)
(***************************************************************************)
EXTENDS Integers

RESET_INT == 0
SWI_INT   == 2
INVALID   == 5
FIQ_INT   == 7
IntTypes  == RESET_INT .. FIQ_INT

Ldr       == "ldr pc"      \* the instruction in a word of the table
Client    == "client"      \* the address of a handler of the client's
HandleSwi == "handle_swi"

VARIABLES
  table,        (* _interrupt_table: its words                             *)
  vector,       (* the words that the processor runs                       *)
  int_intialized_p,
  accepted,     (* history: the table, and int_set_handler()s that returned *)
  dead,         (* has the program panicked?                               *)
  mode,         (* of the processor                                        *)
  superStack,   (* does SUPER mode have its stack?                         *)
  running,      (* handle_swi(), "none", or what an address does that the  *)
                (*   processor runs as an instruction: "astray"            *)
  r0            (* the caller's, as saved: 13 after handle_swi()           *)

exceptions == <<table, vector, int_intialized_p, accepted, dead, mode, superStack,
                running, r0>>

ExceptionsInit ==
  /\ table = [t \in IntTypes |-> Ldr]
  /\ vector = [t \in IntTypes |-> "garbage"]
  /\ int_intialized_p = FALSE /\ accepted = table /\ dead = FALSE
  /\ mode = "sys" /\ superStack = FALSE /\ running = "none" /\ r0 = 1

Panics ==
  /\ dead' = TRUE
  /\ UNCHANGED <<vector, int_intialized_p, mode, superStack, running, r0>>

\* int_set_handler(): the table is written before the demand that it is not too late
Settable(t) == t >= RESET_INT /\ t < FIQ_INT /\ t # INVALID
SetHandler(t) ==
  \/ /\ Settable(t)
     /\ table' = [table EXCEPT ![t] = Client]
     /\ \/ /\ ~ int_intialized_p
           /\ accepted' = [accepted EXCEPT ![t] = Client]
           /\ UNCHANGED <<vector, int_intialized_p, dead, mode, superStack, running, r0>>
        \/ int_intialized_p /\ Panics /\ UNCHANGED accepted
  \/ ~ Settable(t) /\ Panics /\ UNCHANGED <<table, accepted>>

\* install_handlers(): word i of the table
InstallWord(i) ==
  /\ vector' = [t \in IntTypes |-> IF t = i THEN table[t] ELSE vector[t]]
  /\ UNCHANGED <<table, int_intialized_p, accepted, dead, mode, superStack, running, r0>>

\* int_init(), once the handlers are installed
Initialized ==
  /\ int_intialized_p' = TRUE
  /\ UNCHANGED <<table, vector, accepted, dead, mode, superStack, running, r0>>

\* int_part0(): the stack of SUPER mode
SetupStack ==
  /\ superStack' = TRUE
  /\ UNCHANGED <<table, vector, int_intialized_p, accepted, dead, mode, running, r0>>

\* int_part0(): swi_asm1(1, 2, 3, 4)
Swi ==
  /\ mode = "sys"
  /\ mode' = "super" /\ r0' = 1
  /\ running' = IF vector[SWI_INT] = Ldr THEN HandleSwi ELSE "astray"
  /\ UNCHANGED <<table, vector, int_intialized_p, accepted, dead, superStack>>

\* handle_swi(); without a stack, or astray, nothing of the program follows
Handle ==
  /\ mode = "super" /\ running # "none"
  /\ \/ running = HandleSwi /\ superStack
        /\ r0' = 13 /\ running' = "none" /\ UNCHANGED dead
     \/ /\ running = "astray" \/ ~ superStack
        /\ dead' = TRUE /\ UNCHANGED <<r0, running>>
  /\ UNCHANGED <<table, vector, int_intialized_p, accepted, mode, superStack>>

SwiReturns ==
  /\ mode = "super" /\ running = "none"
  /\ mode' = "sys"
  /\ UNCHANGED <<table, vector, int_intialized_p, accepted, dead, superStack, running, r0>>

-----------------------------------------------------------------------------
\* The words that int_set_handler() has accepted are the vectors' once int_init() is
\* done: none is accepted that the vectors do not show, whenever it is called
\* (interrupts-c.c:44-50, 67-77).  Whether the processor can run such a word is
\* another matter: Swi goes astray over an address.
WordsInForce == int_intialized_p /\ ~ dead => vector = accepted

\* A system call that comes back has handle_swi()'s answer (driver.c:107-126, 142-149).
AnswerComesBack(called) == called => r0 = 13
=============================================================================
