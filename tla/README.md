# Verification of cs140e-win19

TLA+ models of the code that the labs and homeworks of cs140e (winter 2019)
actually run: the boot loader and its serial line, the programs that watch the
Pi, the shell, the Unix programs that start and feed each other, the kernel
heap, interrupts and the pins that they share with the main program, exception
vectors and system calls, threads, address spaces, the routines that switch
caches and MMU, the directory of a FAT32 card, and the library under it all.
TLC checks each on small instances; TLAPS proves the most important properties
for every value of the constants.

The repository is course material. Many functions in it have the body
`unimplemented()`, left to students; what such a function should do is nowhere
in the source, so it is modelled only where its callers say what they rely on
(marked external), or not at all. The components below are those with code of
their own.

Contents: 1 the system, 2 the modules, 3 the runs, 4 the proofs, 5 where the
code and its documentation disagree, 6 what is not modelled, 7 the plan.

To repeat the checks, with `tlc` and `tlapm` on the path:

    tlc -config XModem_late.cfg MCXModem.tla     # any cfg, with the module that section 3 names
    tlapm XModemProofs.tla                       # any *Proofs.tla

## 1. The system

A Unix machine and a Raspberry Pi share one serial line. A boot loader on the
Pi receives a program over it (`homeworks/1-bootloader`); the Unix side sends
the program and then prints what the Pi prints until it says it is finished.
The program runs on bare metal over `libpi` (heap, timer, GPIO, PWM, printing,
strings, reboot); in later labs it has interrupts (lab 7), pins that an
interrupt handler writes (lab 8), threads (lab 9), virtual memory (lab 12),
address spaces and system calls (lab 15) and a FAT32 card (lab 16), or it is a
shell that starts other programs (lab 10), reached through redirected pipes on
the Unix side (lab 11).

| Component | State it keeps | Operations | What makes it hard | What makes it correct |
|---|---|---|---|---|
| xmodem boot loader | block counter on each side, memory loaded so far, bytes in flight both ways | `send_block`, `get_byte`, `drain`; the Pi's loop over a packet, its timer's NAK, start of the program | two programs, each with its own idea of the block number; NAKs on a timer; a read that times out; bytes left over in the line | memory is a prefix of the image; the program starts only when it is whole; the counters stay one apart; the transfer ends |
| exit string readers | position in the exit string (a `static`), piece of text being read | `read`, match, test for a closed line | the exit string is cut up by `read()` anywhere; the line goes away when the Pi reboots | a reader ends exactly at the exit string or with its line |
| kernel heap | heap pointer | `kmalloc`, `kmalloc_aligned`, `kfree_all`, `kfree_after`, `kmalloc_set_start` | nothing records what is in use; 32 bit arithmetic | blocks apart, aligned, clear; contents survive |
| address spaces | id pools, environments, page tables, MMU registers, TLB | `env_alloc`, `env_free`, `env_switch_to`, `mmu_map_section`, `mmu_disable` | pools of different sizes used together, and past their end; a TLB that remembers | ids are not shared, and not lost while callers keep to `MAX_ENV`; what the TLB serves stays right until the registers change |
| coprocessor access, virtual memory lab | control register, caches, store buffer, TLB, prefetch and branch state | `mmu_enable`, `mmu_disable`, caches on and off, `mmu_sync_pte_mod`, `cp15_set_procid_ttbr0` | the hardware acts between any two instructions; order of clean, drain, invalidate, switch | a load gets the last store; a walk sees the last descriptor |
| exception vectors | the table, the vectors copied from it, a flag | `int_set_handler`, `int_init`, `install_handlers`, `int_part0` | handlers set before, during and after the copy; interrupts unmasked from the start | no interrupt goes through a table half copied; the words in force are those accepted |
| timer interrupt | count and period of ticks, interrupt controller | set-up, handler, the loop that prints | the handler runs between any two accesses of the loop, the timer expires between any two of the handler | no tick is lost |
| microsecond timer | trigger and flag of each timer (`platform.c`), device counter | `delay_us`; `usleep`, `register_timer`, `compare_timer` | the counter wraps, perhaps between two polls | a wait lasts as long as asked, and not longer |
| GPIO | function, level, event and pull-up registers | read, change, write back | pins that share a register; a handler in between | a pin is as it was last asked to be |
| PWM | point on a line, distance from it | `pwm_compute` | loop with an exact end point, signed halves | stays in the vector; choices are spread evenly |
| threads and queues | run queue, queue of freed threads, one `next` per thread | `Q_append`, `Q_pop`, `rpi_fork`, `rpi_thread_start` | a thread's `next` goes with it from queue to queue | no thread is lost or doubled |
| replay | log of reads and writes | `trace_*`, `read_input`, queue, `check_crashes` | a text written by one program and read by another; two ways to walk the log | the log is the trace |
| Unix examples, redirection of lab 11 | descriptors, pipes, sockets, children | `fork`, `pipe`, `dup2`, `wait`, … | any order of processes; ends of pipes that somebody forgot to close | every check holds, all output arrives, every process ends |
| shell | the line, its words, the answer | read, `tokenize`, `pi_put`, `pi_readline`; `readline`, echo | two programs taking turns on one line, with buffers of different sizes | an echo comes back as sent |
| console output | buffer and its bound | `printk`, `snprintk`, `emit`, `pad`, `reverse` | numbers at the ends of their range, full buffers | prints what is meant, as far as it fits |
| string routines | memory | `memcpy`, `memset`, `strcmp`, `strcat`, … | alignments and ends | what C promises |
| FAT32 helpers | sectors of the card | checks at mount, cluster classes, walk over names, names to UTF-8 | the card is pulled between two writes; names over several entries | each file is printed once, under its name |
| reboot | (watchdog, processor mode) | `clean_reboot` | output still in the UART | the exit string goes out first |
| simple boot loader | – (the protocol is an exercise) | `put_uint`, `get_uint`, `expect`, `crc32` | byte order, twice; a table | words cross unchanged; a burst of errors changes the checksum |
| Pi file system, cross checker, virtual machine monitor, runtime, vendored code | – | – | exercises, scaffolding, straight-line code and third-party files | – |

How they interact:

- The boot loader's two programs send each other bytes; the sender reads with a
  timeout, the receiver polls and sends a NAK when nothing comes.
- When the program is running, `clean_reboot()` prints the exit string and
  resets the Pi; the readers on the Unix side see the text in pieces of their
  own size, and perhaps their device disappears.
- The shell on the Unix side sends lines to a shell on the Pi, whose answer goes
  through `readline`, `strncmp` and `printk`, each with its buffer.
- The address spaces of lab 15 take their page tables from the kernel heap, and
  write registers that steer the hardware's page walks. The TLB keeps results
  of walks and never hears of a change.
- Interrupts share memory with the code that they interrupt: the timer's count,
  the vectors, the GPIO registers.

`PROJECT.json` lists every component with its files, and the hazards: the
places where something may go wrong that a test would hardly reach, each with
the properties that watch it or the reason why none does.

## 2. The modules

Every definition that models code has, in `PROJECT.json` under `map`, the lines
it stands for. Conventions in all modules:

- An action is a whole handler, or the part of a loop that other parties cannot
  interrupt visibly. Names follow the source.
- A panic (`panic`, `demand`, `assert`, `sys_die`) is a state from which
  nothing moves; what was written before it stays written.
- Some definitions have a second, **deliberately wrong** form right before them
  that nothing refers to: `MatchNoReset` before `Match`, `Q_append_stale` before
  `Q_append`, `ClearAndCountLate`, `STORE_PTE_tlb_first`, `pipe_ex_unclosed`,
  `lfn_get_name_forward`, `emitNoSign`, and so on. Each is a mistake that one
  could make in that piece of code (a missing reset, an off-by-one, a swapped
  order). `mutants` in `PROJECT.json` pairs each with a property that TLC finds
  violated once the wrong form takes the place of the right one: this is how we
  know that a property can fail.
- The theorems about `M` are in `MProofs`, which extends it: `XModemProofs`,
  `EchoUntilProofs`, `KmallocProofs`, `AddrSpaceProofs`, `Cp15Proofs`, `PwmProofs`,
  `InterruptsProofs` (which has those about `Threads`, too) and `Fat32Proofs` (with
  `FatLayout` and `Utf8`) (section 4).
- A property of a run may be a conjunction of named parts, when they answer one
  question about one piece of code: `LoadsSoundly`, `IdsSound`, `TimeKept`.

### XModem, ImageTransfer

`XModem` is `unix-xmodem.c` and `pi-xmodem.c` joined by a line.

| In the code | In the model |
|---|---|
| the file to send, padded to whole blocks; what the padding holds is not set by the code | `image`, chosen in `Init` among `Images`: blocks of `PAYLOAD_SZ` bytes, any value in the padding |
| bytes on their way to the Pi | sequence of pairs `<<k, i>>`: byte `i` of block `k`, or a command; the byte itself is computed when it is read |
| bytes on their way back | sequence of bytes |
| `unix-xmodem.c`: `drain()`, the send loop, `get_byte()`, end of transmission | `DrainByte`, `DrainEnd`, `SendByte`, `ReadReply`, `SendEOT`, `ReadEOTReply`, `GetByteTimeout` |
| `pi-xmodem.c`: waiting for SOH or EOT, then block number, its complement, payload, checksum | `RecvStart`, `RecvBlockNumber`, `RecvComplement`, `RecvPayload`, `RecvChecksum`, together `Receive` |
| the NAK that the Pi's timer sends while nothing comes | `TimerNak`, between any two bytes |

`Plain(img)` says that no byte after the block number of any packet equals SOH
or EOT: no payload byte does, nor does a checksum or the complement of a block
number (which rules out images of 251 blocks and more). It marks off the
images for which the protocol is right from those for which it is not (section
5).

`ImageTransfer` is what the two programs promise together: memory grows by the
next block of the image, the program starts when all of it is there, and only
then does the sender report success. `Implements` says that `XModem` implements
it under the mapping of the receiver's memory and of both final states.

Assumed of the line: it delivers bytes in order and loses none.

### EchoUntil

The five readers of text from the Pi share one algorithm: read a piece, compare
it character by character with `DONE!!!` and remember the position, else test
whether the line is closed. Each is a record of where it differs (`my_install`, `echo`,
`pi_cat`, `echo_until`, `echo_until_fn`): the size of a piece (`Chunk`, or one), whether
a zero byte ends the scan of a piece (`my-install` and
`pi-cat` scan with a `char *` up to the terminator), and how they test for a
closed line (`fstat`, `stat`, end of file). One of `Readers` is chosen in `Init`.

| In the code | In the model |
|---|---|
| what the Pi prints; `clean_reboot()` | `Puts` (one character), `CleanReboot` (the exit string) |
| the line goes away | `Close` (external); what had not been read by then counts as never sent |
| `read()` of up to the size of a piece, at any cut | `Read(k)` |
| the comparison, one character, or the end of the piece at a zero byte | `Scan` (`ScanChar`, `ScanNul`) |
| a read of no characters with the test for a closed line; a failing read | `ReadZero`; `ReadError` |

`Unhidden` says that no zero byte has come by that hides text from this reader;
properties about the exit string hold under it. `CleanStart` says that the
character before an exit string does not look like a part of it.

### Kmalloc

`cs140e-kmalloc.c` together with callers that hold blocks and store in them.
`heap` is the heap pointer, `blocks` the blocks in use (`kfree_after(p)` ends
those from `p` on, `kfree_all()` all), `dirty` the bytes that are not zero.
Arithmetic is modulo `AddrMod`, as `unsigned` is modulo 2^32 in the code.
Rounding and the test for a power of two are operators, and refused requests
panic as they do in the code. `HeapBound` caps the model's memory; the code has
no bound.

### AddrSpace

`driver.c`, `bvec.c` and `mmu.c` of lab 15. Its first variables are those of
`Kmalloc`, and page tables are allocated by the action of that module
(`Heap == INSTANCE Kmalloc WITH ...`). Pools are sequences with the next id
last, as in `bvec.c`. `envs` keeps the last environment of each slot, also when
it has been freed, because callers may free it again; `Live` is the set of slots
in use.

When the pool of slots is empty, `bvec_alloc()` returns -1 and `env_alloc()` goes on:
it takes a page table, a pid, a domain and an asid, if any is left, for `&envs[-1]`, and
returns that (`EnvAllocStray`). `Fill` is therefore one definition for both cases.
Whether the write before the array overwrote something in use is up to the linker, and
chosen (`stray`); if it did, nothing more is known. If not, the callers go on with that
environment, too: they may switch to it, map in it, and free it, which panics.

A descriptor is what `mmu_map_section()` writes and its caller `int_part1()` edits: the
domain alone (`Edited`), so all mappings are global (`ng` is clear). `ProcId` and `mmu_get_curpid`
are the process id register as written and as read back.

External: the TLB. It may keep the result of any walk and may drop an entry at
any time; a global entry serves everyone, another only its asid (`Serves`).
Nothing in lab 15's code ever empties it after `mmu_init()`.

### Layout, Cp15Layout, Cp15

`Cp15` is `vm-asm.S` and `mmu.c` as programs for an ARM1176: every routine is
the sequence of the coprocessor instructions that it executes (`mmu_enable_set`,
`cp15_set_procid_ttbr0`, …), and every step executes the next one. Between any
two of them the hardware may act, and is external: `Drain` empties the store
buffer, `Fill` and `Evict` move a line of the data cache, `Walk` caches a
translation. `stale` holds what instruction fetch may still use from before a
change; a write to the ASID or to TTBR0 may take effect at once or only at the
next prefetch flush, so `asid` and `ttbr0` are sequences of the values that may
be in effect. Memory has one data word, which is on the stack, and one
descriptor per environment; a value is the number of stores made to it. A run
begins with cold caches that hold junk.

The main program is a caller in every order that lab 12's `part1()` and lab 15's
`int_part1()` allow: map a section, change a descriptor, switch address spaces,
caches on and off, MMU on and off, reboot.

`Cp15Layout` has the control register's bit fields as both labs declare them and what
their `control_reg1_valid()` asserts, over `Layout`, which says where fields end up:
`ControlReg` reads the register of `Cp15` through them, and `ControlValid` asks that the
assertions, which the code itself never calls, would hold at the end of both programs. The other layouts (TLB configuration, cache type,
descriptors) are read by no routine that these programs call, and are left out.

### Gpio

The two GPIO libraries over the registers of the BCM2835. A word is the set of
its bits that are 1. A call is its reads and writes, one step each (`Call`, then
the writes, then `Return`), by the main program or by the handler; `asked` is
what callers were told of each pin. The device is external: what a read returns
(`HwRead`; the set and clear registers read as 0), what a write does
(`HwWritten`), edges (`Edge`), and that a pad takes the pull over when its clock
bit rises (`HwClocked`).

### Exceptions

`int_set_handler()`, `int_init()` and the system call of `int_part0()`. `table`
is what the client writes, `vector` what the processor uses, `accepted` the words
whose setting returned. The table itself is in assembly that the lab leaves to its
reader; it is taken to be laid out as `rpi-interrupts.h:58-67` shows: each word is the
instruction `ldr pc` that loads the handler's address from behind the table.
`int_set_handler()` overwrites the *instruction* with an address (`Client`), and a
processor that comes to it runs the address as an instruction (`"astray"`, from where
nothing more is known). So `WordsInForce` is about words, and
no property says that a client's handler is run (section 5). How the processor gets to
a handler and back is external.

### Threads

The linked queues of `Q.h` as memory: `mem` has `head` and `tail` of each queue
and `next` of each thread, and nothing else; `queued` is what the queues should
hold. `rpi_fork()`, `rpi_thread_start()` and `mk_thread()` are the code's;
`rpi_yield()` and `rpi_exit()` are exercises, and modelled as the comments in
their bodies and their callers in `thread-test.c` say. A thread yields any number
of times up to `MaxYields` (those of `thread_code()` all yield eight times).

### Interrupts

Programs on the Pi, composed of `Gpio`, `Exceptions` and `Threads`, one chosen
in `Init`: `timer` (`timer.c` with its vectors and its timer set-up), `sonar`
(the shape of `sonar-int.c`: a main program that makes GPIO calls of one family,
and a handler that writes the LED pin), `syscall` (lab 15's `int_part0()`, with
interrupts enabled and the GPU's as the firmware left them, and clients that set handlers at any moment), `threads` (`part2()`), and `delay`,
`usleep` and `timers`, which wait by the clock (`StartWait`, `StillWaiting`,
`EndWait`) for any time, from any of its readings. The computations of these are
in `Waits`: `delay_us()` subtracts two readings, `usleep()` and the timers of
`platform.c` compare with a trigger and keep a flag for the wrap. `WaitsAsAsked`
says that no wait ends too soon, and that none lasts longer than asked as long as
no reading of the clock is missed; section 5 has the two cases it exempts.

| In the code | In the model |
|---|---|
| `install_int_handlers()`, a word at a time | `Install` |
| `timer_interrupt_init()` | `DisableGpu`, `EnableBasic`, `EnableTimer` |
| `system_enable_interrupts()` | `EnableInterrupts` |
| the handler, one access at a time | `Pending`, `ClearAndCount`, `ReadClock`, `SetPeriod`; `LedWrite`, `LedClear` |
| the loop that counts | `CountedEnough` |
| `int_init()` | `InitGpuOff`, `InitMask`, `Install` |
| timer, GPU, clock, processor | `Expire`, `GpuAsks`, `Pass`, `TakeInterrupt`, `ReturnFromInterrupt` (external) |

`wild` becomes true when an interrupt is taken through a vector that has not been
copied; in `syscall` that can happen before `int_init()` has switched the GPU's
interrupts off, for which `gpuOn` is either at the start, and not after; `owed` remembers that the timer has expired since the last `cnt++`.

### Processes

Fourteen Unix programs: the examples of lab 5, lab 11's `driver.c` with its
redirected shell, and the trace of homework 1 with the programs that read it.
Each function is the sequence of the system calls it makes, and each system call
is an action of the kernel (external, translated from how the programs use it).
`fds`, `buf`, `status` and `todo` are the descriptor tables, the channels' contents,
how each process stands and what it still has to do. A channel has room for
everything these programs write. The user of `select-ex` types lines or ^D, on which
`read()` returns 0 and the program ends by `sys_die` (`Eot`). `replay-driver` is started as a shell would
start it behind the tracing program; the child that it feeds (`replay()`,
`mk_endpoint_proc()`) is an exercise, and may end in any of the ways that its
parent tests for.

### FatLayout, Utf8, Fat32

`FatLayout` has the structures of the card, the places (`fsinfo_places` among them) that
`fat32_volume_id_check()` and `fat32_dir_check()` insist on, and the classes of
FAT entries. `Utf8` is `unicode-utf8.c`: code points to bytes and back, by the
table of the code, and how long names use it (`lfn_get_name`). In `Fat32` a host (external) creates and deletes files, each a sector
at a time and with long names over several entries; `Pull` takes the card away at
any moment; the Pi then mounts it (`Mount`: MBR, partition, boot sector, fsinfo,
FAT) and walks its directory (`Walk`, one entry with its long name per step),
remembering in `printed` what it printed. `Torn` says that the card was pulled in
the middle of an operation.

### Strings, Wire, Printk, Shell

`Strings` has libpi's routines over a memory of addresses and bytes, each written
as the code does it (unit by unit, alignment tested), with reference definitions
beside them. `Printk` is `va_printk()`: one character of the format, or one
conversion, per step, into a buffer of `n` bytes, over words of `WordBits` bits;
`Wanted` is what the caller means (`Meaning`, in which a width on
`%s` says nothing, as in the code; the array that `emit()` fills is taken to be large
enough, which it is for all widths that the assertion lets through). `Wire` has the words and the CRC-32 of the
simple boot loader (`Codes` are the protocol's), over words as sets of bits, against what each side must read
of what the other wrote and against the checksum's published check value. The table is
computed from the polynomial; the 256 literals of `simple-boot.h:37-81` were compared
with it once and agree. `Shell`
joins `pi-shell.c` of both sides: the
Unix side reads lines with `fgets` into a buffer that keeps what earlier lines
left, `tokenize()`s them, sends the rest to the Pi and waits for its answer; the
Pi's `readline`, test and `printk` work on a buffer that the literal `"echo "`
follows. `panic` is the macro of `assert.h`, which adds a newline to the message's own:
the empty line that this leaves behind is what the shell reads next. The Pi may instead run a program that makes one call of `printk()` or
`snprintk()`, or one that tries the string routines. The shell's commands are
external: what they do is not in the repository.

### Pwm

The loop of `pwm_compute()`, one step per choice that may be written: the point
reached, the distance from the ideal line, the number of ones written.

## 3. The runs

Each run asks one question. All but the last pass; the last checks a sentence of
the code's own documentation, and TLC finds it violated.

| Run (module) | Question | Bounds | Distinct states |
|---|---|---|---|
| `XModem_timely` (MCXModem) | With NAKs only before the sender has first drained the line: is every reply the answer to the block just sent, whatever the payload, and does the transfer end? | bytes modulo 8; two payload bytes a block; every image of two blocks over four bytes (SOH and EOT among them), the empty one, one of nine blocks; two NAKs | 39 804 |
| `XModem_late` (MCXModem) | With NAKs and read timeouts at any moment: is a plain image still loaded in order, started only when whole, and reported only when started? Do the programs implement `ImageTransfer`? | plain images of one and two blocks; two NAKs | 28 076 |
| `EchoUntil` (MCEchoUntil) | However the text is cut up: does each reader end at the exit string, only there, or with its line? | exit string of three characters with a repeated one; four characters before it; pieces of up to three, and of one | 123 598 |
| `Kmalloc` (MCKmalloc) | Under any order of requests, frees, stores and starts: are blocks apart, aligned, clear, and do they keep their contents? | 40 bytes of heap; sizes 1 and 12; alignments 4, 16 and one refused; two starts | 143 848 |
| `AddrSpace` (MCAddrSpace) | Under any order of allocating, also past `MAX_ENV`, freeing (twice, too), switching and mapping: are ids and page tables shared, lost or made up? Does what the TLB serves stay right until the registers change? | three environments; three domains, so that the slot before the array finds none left, and four asids; pids that wrap at four; two sections, one address of a section, one that is refused and one that is taken for the section's | 474 603 |
| `Cp15` (MCCp15) | With the hardware acting between any two instructions: does a load get the last store, a walk the last descriptor, in whatever order a kernel calls the routines? | two environments, two stores to each cell, one data word | 982 733 |
| `Interrupts` (MCInterrupts) | With an interrupt between any two accesses: are the vectors in place, is no tick lost, is every pin as asked, no thread lost, no wait short? Does the count reach its goal? | clock modulo 4, two ticks; pins 18 and 19, which share all registers, and 33, which shares none with them; three functions; three threads, two yields, two rounds, memory for six threads | 126 146 |
| `Processes` (MCProcesses) | In every interleaving: does no check of the programs fail, does all output arrive, does every process end? | the programs' own counts (ten rounds, ten socket pairs); three lines typed; a trace of eight operations | 845 |
| `Fat32` (MCFat32) | Whatever the host did and wherever the card was pulled: is it accepted, walked and printed as the host shows it? | six files that differ in what the reader tells apart, among them one with a name over three entries; five slots, three to a sector; three edits; four cards, one of another type and one with two partitions | 49 976 |
| `Shell` (MCShell) | Are words found, echoes returned, numbers printed, strings and words handled as meant, with buffers that overflow by a character? | Pi buffer of 12, line buffer of 16; two or three of fifteen lines; 630 conversions with every specifier, five widths and nine numbers of 8 bits; memories of six bytes; seven words, bursts in five bytes | 62 782 |
| `Pwm` (MCPwm) | Does the loop stay in the vector, spread the ones evenly, and end? | every vector of up to 24 choices with every number of ones | 8 606 |
| `XModem_livelock` (MCXModem) | *violated:* does the transfer always end with the program running? An ACK is drained with the NAKs around it, and the sender offers the same block for ever. | plain images, one NAK | – |

Why these bounds are enough:

- *Bytes modulo 8.* Control flow depends on a byte only through equality with
  SOH, EOT, ACK, NAK, the expected block number and its complement, and the
  checksum; eight values keep those apart. The block number wraps within the
  nine-block image, and its complement runs through the values of SOH and EOT
  as it does for blocks 254 and 251 of the code.
- *Two payload bytes.* A first and a last byte, and so every state of the
  receiver (`state` = 0, 1, 2, in the payload, at the checksum).
- *Two NAKs.* One is enough to lose an ACK, two to leave one queued while the
  other is read.
- *Three exit characters.* As `DONE!!!`, it repeats a character after others;
  matches can be broken in each place and cut in each place.
- *Three environments, four allocations, pids modulo four.* Every order in which
  slots come back, an allocation past the pool's end, and a pid that does not fit its
  register. (The code's pids wrap at 2^24, which no program here reaches.)
- *A heap of five words.* Three blocks, one freed from the middle on, a request
  that skips bytes for its alignment, one refused.
- *Two stores to a cell.* A descriptor that maps and is then changed; a line that
  is stale. Two environments, interchangeable by symmetry, are all that a switch
  involves.
- *A clock modulo 4.* Every position of start and end against the wrap, with
  periods and delays up to the longest that a difference can tell.
- *Three threads, two rounds.* Queues of no, one and several threads, a thread
  that yields to itself, and a second round served from the freed ones.
- *Five slots of three to a sector.* A long name within a sector, one across two,
  one that does not fit; an entry deleted and used again.
- *Buffers of 12 and 16.* Lines that fit, fill and overflow each of them; text
  and conversions cut in the middle.

Fairness:

- `XModem`: `WF(Sender)` and `WF(Receive)`. Both programs are loops that poll or
  block on their own line and nothing else; the operating system schedules the
  sender, and the Pi has nothing else to run. The timer's NAKs are not fair:
  they may or may not come.
- `EchoUntil`: `WF(Echo)`: the reader loops and `read()` returns what is there.
  Neither the Pi's printing, nor the loss of the line, nor the failure of a
  `read()` after it is fair. So `CloseSeen` cannot lean on an error return; the
  reader has to notice the closed line by its own test.
- `Interrupts`: weak fairness for the timer (`Expire`), for taking an interrupt
  and for each step of the handler: the processor does nothing else meanwhile.
  The main program has strong fairness: an interrupt stops it again and again.
  That it gets anywhere in between is what the program itself relies on: the
  timer is loaded with 1 behind a prescaler of 256 (`timer.c:52`,
  `timer-interrupt.c:65`), and whether the handler is done sooner is a matter of
  the machine. The model assumes that it is.
- `Processes`: weak fairness for every process, which the kernel's scheduler
  gives to all. The user at the keyboard is not fair.
- `Pwm`: `WF(Next)`, a loop in one thread.

`Prompt` in the configurations of `XModem` says that no read times out while a
byte is still on its way to the other side (the timeout is a second, a block
takes some 11 ms at 115200 baud). It is set for the runs about progress, and not
for `XModem_late`, whose properties hold with any delay.

`CHECK_DEADLOCK FALSE` stands where the system stops by design: a reader that
has ended, a vector that is filled, programs that reboot or exit, a card that has
been printed. In `Processes` it would hide a process that hangs, which is what
`Finishes` is for.

## 4. The proofs

Everything below is proved by TLAPS for all constants that satisfy the module's
named assumption, and any hypothesis in the theorem's own statement.

**XModemProofs** (hypothesis `AllPlain`: the images are plain). `TypeCorrect`,
`LoadsInOrder`, `NeverBootsEarly`, `LoadIsSound`, `CountersStayClose`,
`ReportIsTrue`, `ImplementsTransfer`. None of these invariants is inductive: that
the receiver takes for a command only what is one depends on where in the stream
of packets it stands. `IInv` adds
  - `StreamOK`: what is in flight is an unbroken piece of the sender's stream;
  - `SenderOK`: what each phase of the sender says of its counters;
  - `InSync`: a receiver inside a packet stands at the right byte of it; one that
    waits for a packet is never about to read a block number;
  - `AckOK`: an ACK in flight is the only one, and whose it is.

The proof has one lemma per action. The refinement follows from `IInv` and a
lemma per action that maps it to a step of `ImageTransfer` or a stutter.

**XModemProofs, in lockstep** (hypothesis `Timely`: no timer fires once the sender
has drained the line, and no read times out with bytes on their way).
`OnlyOneReply`, and `TimelyLoadIsSound`, which, unlike `LoadIsSound`, holds of every
image, plain or not. `TimelyInv` says for each phase of the sender what is in
flight, and that the receiver stands at the very byte that comes next (`UnderWay`,
`Answered`, `Quiet`), so that no payload byte is ever read as a command. The two
halves show what plainness is needed for: late NAKs and timeouts only.

**KmallocProofs** (hypothesis `Modest`: sizes and alignments keep clear of the
top of the address space, no alignment is 0). `TypeCorrect`, `NeverOverlap`,
`StaysBelow`, `AlwaysAligned`, `HeldBlocksSound`, `HandsOutZeroes`,
`ContentsSurvive`. The invariant adds that the pointer is a multiple of eight and
that blocks lie one after the other below it. Without `Modest` the theorems are
false, of the code as of the model: see section 5.

**AddrSpaceProofs**. `IdsNeverShared`, `SecondFreePanics`, `IdsAlwaysSound`,
`EntriesAlwaysStayRight`. The invariant grows in two layers.
  - `IInv`: the three pools stay in step. `env_alloc()` and `env_free()` take
    and give back all three ids together, so the environment in slot n has domain
    n + 1 and asid n + 1, and the pools of domains and asids repeat what the pool of
    slots holds, above the ids that no slot goes with. Those, or none, are what an
    environment past `MAX_ENV` gets, so it has none that another has.
    This is why `env_free()`, which looks for the *domain* first, notices every
    second free of an *environment*.
  - `Sound` adds `Tables` (a page table lies between two positions of the heap
    pointer, which only moves up, so two tables are apart) and `PoolsFull` (each
    slot is in its pool or has had an environment; until an allocation past `MAX_ENV`,
    no id that goes with no slot was taken). `IdsSound` follows.
    The heap's rounding is read with `HeapAssumption`: a page table is a power of
    two of bytes, and the heap ends below where `roundup()` would wrap.
  - `EntriesAlwaysStayRight` follows from `Sound`, which says that a new table is never
    the one that the registers point to (`FillAgrees`), and from `mmu_map_section()`
    refusing a section that is mapped already (`MapAgrees`). It has no hypothesis.

**EchoUntilProofs**. `TypeCorrect`, `NoFalseShutdown`, `AlwaysEndsSoundly`,
`CleanExitHeard`. The invariant relates the matcher's position to the text: the
last `pos` characters taken are the first `pos` of the exit string, and wherever
an exit string with a clean start has begun, `pos` is how much of it has been
seen. It holds as long as no zero byte hides anything (`Unhidden`), which once
false stays false.

**PwmProofs**. `TypeCorrect`, `NeverPastTheEnd`, `NeverOutside`, `SpreadsEvenly`,
without any hypothesis. The invariant: `err` is the exact distance from the line,
and lies within one step of the longer side; so each round steps along the longer
side, and at its end there is no room for the other to be anywhere but at its own
end.

**InterruptsProofs, threads alone**. `QueuesAlwaysHold`, `ThreadsWaitOnce`,
`ThreadsAlwaysSound`, of the specification of `Threads`, for any number of threads, forks and yields. That `Q_append()` to one queue leaves the
other alone depends on the two having no thread in common, and that it keeps its own
list linked on the thread not being in it: so the invariant (`IInv`) says, beside
that each linked list holds its sequence (`Good`), that all threads in the queues are
distinct, were made, and are not the one that runs. `PopHolds`, `PopOthers`,
`AppendHolds` and `AppendOthers` are about one queue of any memory, `GoodPop` and
`GoodAppend` about both, `Made` about `mk_thread()`; one lemma per action follows
from them. That `rpi_thread_start()` finds a thread in the run queue needs a last
part: before the start it holds as many as were forked. `Accounts` adds that every
thread that was made is in a queue, runs, or was a scheduler's (`Somewhere`), and
that `thread_count` and the threads that have not run yet are together those forked
(`Counting`): so `part2()` counts them all.

**InterruptsProofs, all programs**. The same of the programs of `Interrupts`, and
what concerns interrupts, clock and pins. `TimeAlwaysKept`, `VectorsAlwaysInPlace`, `ThreadsOfProgramsSound`
have no hypothesis; `PinsAlwaysAsAsked` and `EventsAlwaysKept` have `TwoBanks`: the
pins are those that the two banks of registers have, and pulls are asked for only in
the first (`pin_pull()` clears the first clock register only, section 5). The parts
of the invariant, each kept by every action:
  - `Placed`: where main program and handler stand; that interrupts are unmasked, in
    the programs whose handlers are copied, only with the last vector in place, and in
    `syscall` those of the GPU are off from `int_init()`'s first step on; so an interrupt
    is lost (`Lost`) only before it;
  - `Handled`: table, vectors and accepted words agree as far as `int_init()` has got
    (`InForce`), and the system call has its handler's answer or has gone astray
    (`Answered`);
  - `Timed`: count, flag and the readings that the handler and the waits hold; the
    interesting part is the arithmetic of differences modulo the clock, over one wrap
    (`Clocks`, `Measured`, `DelayWaits`, `TimerWaits`);
  - `Registered` and `PinsKept`: a call stands between its read and its writes with
    what it has read; a register has for every pin what was asked, and for the pin
    under way what the call has got to. That a word with one field changed has the
    fields of the other pins as before is `OwnBit` and the lemmas beside it, pin by
    pin;
  - `PullUnderWay`: between its three steps `pin_pull()` has driven, clocked and taken
    away what it must.

**Cp15Proofs**. `AsidAlwaysOwnsEntries`, `LoadsAlwaysSeeLastStore`,
`WalksAlwaysSeeTables`, `RoutinesAlwaysSound`, all from `CpAlwaysInv`, for any
number of environments and stores and without hypothesis. What must hold in the
middle of a routine depends on the instructions around: a dirty line is no harm if a
clean follows, and a stale entry of the TLB none if it is about to be invalidated. So
`CpInv` speaks of the state *and of the instructions still to be done*. For each of
five subjects it has a condition on the code left, and one on the state:
  - switching (`SwitchingCode`; `Matched`, `Owned`): TTBR0 is written only while the
    ASID in effect is 0, and an ASID only with its own table in effect, each with a
    prefetch flush in between; so no walk pairs the two wrongly;
  - caching (`CachingCode`; `Caching`): where the control register is written, the
    data cache is not in use yet, stays in use, or is cleaned before or after with
    nothing between but stores to the stack; so it holds the last stores while it is
    on and nothing while it is off, except right before a clean;
  - walking (`WalkingCode`; `Walking`): a store to a page table is followed by clean,
    barrier and invalidation, in that order; so with the MMU on every descriptor is
    settled or its store is under way;
  - checking (`CheckingCode`; `Checking`): what the two programs expect of the control
    register is what they wrote there last, and they never turn a cache on;
  - fetching (`FetchingCode`; `Fetching`): a routine that turns the MMU off
    invalidates the instruction cache later, and all end in `CP15_SYNC` or, as
    `cp15_set_procid_ttbr0()`, in a barrier alone.

Executing an instruction keeps the code conditions for what is left: one that is met
by an instruction already done becomes one on the state (`ASID_SET(0)` ahead of a
write to TTBR0 turns into an ASID in effect of 0). Each routine, and both programs,
are shown to be such code by spelling them out (`SyncxSpelled`, …, `Part1Sound`,
`IntPart1Sound`). TLC checked `CpInv` on the configuration of the run `Cp15` (982 733
distinct states) before it was proved.

**Fat32Proofs**. `Invariant`, `CardsAlwaysSound`, `DirectoryAlwaysRead`,
`LayoutsAlwaysFit`, `EveryEntryTyped`, `CharactersAlwaysKept`, for any files and cards, sizes of
directory and sector and number of edits. The assumptions on the constants say what
a host writes: 8.3 names of eleven bytes that differ and do not begin like a free
entry, long names of 1 to 255 characters of 16 bits, a file system as mkfs leaves it
(`Formatted`). The invariant (`IInv`) has four parts:
  - `Ranges`: types;
  - `CardsAccepted` and `PanicsOnlyOnUnhandled`, as the run checks them;
  - `Steady`: there is a place for each file such that the runs of the files in the
    directory lie apart, each holding that file's entries, and every other slot is
    free (`Tiled`), but for at most one run, which the host is writing or erasing and
    has got one sector of (`Half`); what the host has still to do is a whole job or the
    rest of that one; and the walk, while it goes, stands at the start of a run or on a
    free slot and has printed exactly the runs behind it (`Walked`). This is what makes
    the walk count on the entry after a long name being the one that the name is for.

Each action has its lemma; that `fat32_dir_print()` steps over just one run is
`PrintsRun`, and that it does not panic on the way rests on `ChecksumsAgree`: the
checksum of `lfn_checksum()` is the rotated sum that the host stores.
`DirectoryAlwaysRead` follows where the walk is done and no write was cut in half
(`AllPrinted`): the runs printed are one per file, in order, as many as
`fat32_dir_cnt_entries()` counts. That each has its file's name is `NamesShown`: the
entries of a long name are read from the last to the first, each part to its
terminator, so that after each part the text is what the host shows of the name up to
there (`PartAppended`, `EntryAppended`, `LongNameAppended`); a short name is its base
without the spaces, a dot and the extension (`ShortNameShown`). Under it lies the
conversion: `to_utf8()` gives every code point the bytes of UTF-8 (`Encoded`), and
`to_cp()` gives it back (`Decoded`). `DirectoryRead` has two conditions that the code
calls for: the extension of an 8.3 name has three letters (spaces are left out of the
base only), and `fat32_dir_filename()` does not assert
(`fat32_dir_filename_panics`). The walk refuses long names of three entries or more,
so that no name overflows the 512 bytes that `lfn_get_name()` builds it in.
`LayoutsAlwaysFit` is about constants: the places of fields are followed through each
structure by `PlacesFollow`; `EveryEntryTyped` has the type of every 32-bit entry of
the FAT, where the run looks at the ends of the ranges.

Writing the proofs corrected the models: `Call` in `Gpio` and `Meaning` in `Printk`
were CASE expressions whose arms overlap, where TLA+ leaves the choice open and TLC
takes the first; both now say which arm applies. In `Fat32` the assumptions on names
and cards were less than the properties rest on, and `NamesReconstructed` asked for a
name where `fat32_dir_filename()` asserts; both are stated now.

Induction over data. The library's induction theorems take an operator as parameter,
which no installed backend instantiates. `Fat32Proofs` does without them: the
induction is over *sets* (`SetInduction`, from the least element of a set of naturals,
`LeastElement`, and this from `NatLessThanWellFounded`), and `Recursion` gives the
function that a recursive definition asks for. With both the checksum, the places of
fields, `FlattenSeq` and the names are proved for inputs of every length.

Only model-checked:
  - liveness (`Completes`, `EndSeen`, `CountsToGoal`, `Finishes`, `Terminates`): the
    prover does not do fairness or `ENABLED`;
  - the properties of `Shell` and `Printk` and with them what `Strings` and `Wire`
    compute: they rest on strings taken apart character by character and on selections
    of sequences (`SelectSeq`), which the provers do not reason about, and are checked
    over bounded inputs;
  - those of `Processes`, which are about fourteen fixed programs and have nothing to
    generalize.

No module declares a RECURSIVE operator.

## 5. Where the code and its documentation disagree

Shown by a run (`findings` in `PROJECT.json` quotes the sentence): the livelock
after a drained ACK. `unix-xmodem.c:79-80` drains the line whenever a reply is not
an ACK and may throw away an ACK.

Seen while modelling. The model has what the code does, and the properties of the
passing runs are stated for the callers, images and texts that stay clear of it:

- *Boot loader.* The receiver reads a packet that it refuses at its block number
  on as commands (`pi-xmodem.c:70,92`): a payload byte 4 is taken for EOT and
  starts a program half loaded. `PlainImages` have no such byte. Starting the
  sender again without a reset has the same effect. `tty.c:39` casts before it
  multiplies, so a timeout below a second becomes a read that does not wait,
  though `tty.c:16` allows it.
- *Exit string.* After a partial match the character that broke it is skipped
  (`shell-support.c:79`, `my-install.c:46`), so `DDONE!!!` is missed, against
  `shell-support.c:94-95`; a piece is scanned up to its first zero byte only
  (`my-install.c:42`); `fstat()` of an open descriptor succeeds when the device is
  gone (`shell-support.c:106`, `my-install.c:69`, `echo.c:56`; `pi-cat.c:114` uses
  `stat()` of the name, which fails as intended).
- *Heap.* `kfree_all()` goes back to the linker's symbol and not to the address
  that `kmalloc_set_start()` gave (`cs140e-kmalloc.c:51`, against `rpi.h:99` and
  `driver.c:201`). A size within seven bytes of 2^32 is rounded to 0 (`:26`), and
  alignment 0 passes `is_pow2()` (`:38`); `Modest` excludes both. `rpi.h:94-95`
  names the second argument of `kmalloc_aligned()` a number of bits.
- *Address spaces.* `mmu_map_section()` makes global mappings (`mmu.c:90`) that its
  caller does not change (`driver.c:174-175`), and nothing that `env_switch_to()` calls
  invalidates the TLB, so the next environment is served the former's sections, against
  `vm-asm.S:245-247` ("if we do change pt, then we will have cleaned the tlb anyway").
  `EntriesStayRight` is therefore about the time between two switches. An asid is given
  back (`driver.c:55`) while the TLB may hold entries under it. `bvec.c:12-14` returns -1
  before the `demand` that should stop there ("ran out"), and `driver.c:38-49` fills in
  `envs[-1]` and returns it, with a page table, a pid, and a domain and an asid that
  are lost (`EnvAllocStray`); `IdsAccounted` counts up to that allocation, and
  `IdsDistinct` and `TablesDisjoint` hold past it as long as nothing in use was
  overwritten. The domain
  register is set to all ones at once (`driver.c:62-63`). `is_aligned()` wants an
  alignment and gets a number of bits (`mmu.c:83`, `helper-macros.h:4`), so an address
  such as 32 is mapped as section 0; `mmu.c:114` has `demand(sz = 4096)`.
- *Coprocessor.* `cp15_set_procid_ttbr0()` leaves branch predictor and prefetch
  buffer as they are, which its comment wonders about (`vm-asm.S:170`); the
  properties ask for neither. `cp15_ttbr1_wr` writes TTBR0 (`vm-asm.S:134`) and has
  no caller. `mmu_all_cache_off()` lets compiled code store past dirty lines
  (`mmu.c:148-150`). The functions that check the layouts are never called.
- *Interrupts.* `gprof.c:116-117` initialises the profiler before the heap, against
  the comment at line 33. A microsecond reading of 0 is taken for no tick yet
  (`timer.c:36-38`). An edge between read and write of `gpio.c:317-319` is lost.
  `pin_pull()` clears only the first clock register (`gpio.c:350`), so pulls are
  modelled for pins below 32. `gpio_function_valid()` accepts three of eight
  functions (`gpio.c:192`). `delay_ms()` of more than 4 294 967 wraps.
  `timer.c:65` reads the period twice, an interrupt apart.
- *Waits.* `usleep()` that should end as the clock wraps to exactly 0 has a trigger
  that no reading is below, and never returns; `usleep(0)` waits for a whole wrap;
  a poll that misses the time between wrap and trigger costs another wrap
  (`platform.c:79-102`). `WaitsAsAsked` exempts these.
- *Exceptions.* `int_set_handler()` writes to the table before it refuses
  (`interrupts-c.c:47`), and to the word that lab 7's table, and the layout that
  `rpi-interrupts.h:58-67` repeats, has an instruction in: a handler set in time, as
  `rpi-interrupts.h:81` asks for, is not run, its address is, as an instruction. An
  interrupt that the firmware left enabled may come before `int_init()`, with no vector
  in place (`vm-start.s:6-7`); `VectorsInPlace` exempts it.
- *Threads.* `Q.h` never changes `n`, so `Q_size()` is always 0;
  `rpi-thread.c:84` takes a thread before it looks at the run queue, and that
  thread is never freed: each round loses one. The homework's `Q.c:34` has the
  like: `Q_pop()` does not count down.
- *Replay.* `write_exact()` panics on a closed pipe although `check_crashes()`
  ignores SIGPIPE for it (`replay.c:65-71`, `replay-driver.c:69`); `replay-driver.c:42`
  kills a child that may have been waited for.
- *FAT32.* `fat32_dir_print()` does not ask whether the entry after a long name is
  free (`fat32-helpers.c:428-441`), so a torn deletion prints a file that is gone
  (`Torn` exempts it). Names of more than 26 characters, and some combinations of
  attributes, panic (`:385-391`); `%s` prints fields without terminator (`:159`).
  `unicode-utf8.c` takes the two halves of a surrogate pair for two characters,
  and its loops over the table run past its end for a byte or code point that
  fits no row.
- *Shell and output.* A line of exactly 1023 characters fits the Pi's `readline`,
  and its newline does not fit `printk()`'s buffer: the shell takes the silence for
  a Pi that is gone. A longer one makes the Pi panic, and its message is taken for
  the echo. The last line of a file without newline, or one cut by `fgets`, loses
  its last character (`pi-shell.c:153`). `strncmp()` does not stop at the end of the
  strings (`cs140e-stdlib.c:52-60`). `va_printk()` returns a length that counts the
  terminator, against the header comment; `snprintk()` with n = 0 writes a byte.
  The lab's README has the Pi say `PI REBOOT!!!`; `reboot.c:50` says `DONE!!!`.

## 6. What is not modelled

Bodies that are `unimplemented()` and whose callers do not say what they rely on:
the virtual machine monitor, the protocol of the simple boot loader, the FUSE
handlers (their helpers, file buffers and permissions, have no caller yet), most of the shell's commands, reading a FAT32 card, the profiler.
Option parsing and opening of devices; test scaffolding; vendored files; start-up
code; the electrical side of the serial line (bytes are neither lost nor altered
there). Code that runs inside an environment of lab 15; `int_part1`'s second half,
which is disabled; floating point output, which is not compiled in; the processor
mode in `cs140e-reboot.c` and the watchdog. `PROJECT.json` gives the reason for
each component.

## 7. The plan

What is left, the most valuable first:

1. Proofs: that what the shell's two ends hold of a line agrees (`EchoComesBack`) as
   far as it does not rest on string routines; the integer formats of `Printk`, with
   the induction of `Fat32Proofs`.
2. Restart of the sender in `XModem`, with its own images.
3. The queue of `Q.h` as a refinement of a module of sequences, shared with the
   homework's `Q.c`.
4. File buffers and permissions of the Pi file system, once its handlers exist.
