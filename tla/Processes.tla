----------------------------- MODULE Processes -----------------------------
(* The Unix-side programs that fork, talk over pipes and sockets and wait   *)
(* for each other: the examples of labs/lab5-replay/useful-examples and the *)
(* driver that runs a redirected shell in labs/lab11-fuse-fs; and, of       *)
(* homeworks/1-bootloader, the trace that the Unix side prints, the reader  *)
(* of it and the driver that is to replay it (how, its reader has to write: *)
(* replay() and mk_endpoint_proc() are external).                           *)
(*                                                                          *)
(* Every program is the sequence of the system calls its functions make, in *)
(* order; every system call is an action, translated from how the programs  *)
(* use it (the kernel is external).  Processes interleave call by call.     *)
(*                                                                          *)
(* A file descriptor leads to an end: the channel it reads and the channel  *)
(* it writes.  A channel is named by the descriptor number at which pipe()  *)
(* or socketpair() handed out its reading side; channel 0 is the keyboard   *)
(* and the screen.  sys_die, panic, error and a failing assert exit with    *)
(* status 1.                                                                *)
EXTENDS Integers, Sequences, FiniteSets

CONSTANTS
    Examples,       \* the programs that may be started
    Rounds,         \* socket-ex.c counts to 10
    Sockets,        \* local-socket.c opens 10 socket pairs
    KeyboardLines,  \* lines the user types at select-ex.c
    Trace           \* what the traced program reads and writes: <<op, value>>

ReadOps == {"READ32", "READ8"}
Ops == ReadOps \cup {"WRITE32"}

ASSUME ProcessesAssumption ==
    /\ Rounds \in Nat \ {0} /\ Sockets \in Nat \ {0} /\ KeyboardLines \in Nat
    /\ Trace \in Seq(Ops \X Nat) /\ Len(Trace) <= Sockets

VARIABLES
    prog,     \* the program that runs
    todo,     \* the calls each process still has to make
    status,   \* Unborn, Running, Signalled, or the exit status
    fds,      \* the descriptor table of each process
    buf,      \* the items in each channel
    val,      \* each process's counter: val of socket-ex.c, n_offset of trace.c,
              \*   nlines of parse-input.c
    log,      \* the replay log, a struct Q
    screen,   \* what each process printed
    reaped,   \* the processes whose status was collected
    ignoring  \* the processes that ignore SIGPIPE

vars == <<prog, todo, status, fds, buf, val, log, screen, reaped, ignoring>>

Kids     == 4 + Sockets
Pids     == 0 .. Kids          \* 0 is main(), the others are its children
MaxFd    == 6 + 2 * Sockets
Fds      == 0 .. MaxFd
Unborn    == -3
Running   == -2
Signalled == -1
Anything  == Signalled .. 255  \* any status of a process that ended

NoChannel == -1
Channels  == Fds
End(in, out) == [in |-> in, out |-> out]
Shut     == End(NoChannel, NoChannel)
Terminal == End(0, 0)

(* What is written: letters, and words and lines that nobody tells apart.   *)
NL == "newline"
Hello == <<"H", "i">>
Eot == "^D"
Prompt == "PIX:> "

---------------------------------------------------------------------------
(* The calls.                                                               *)

close(fd)            == [call |-> "close", fd |-> fd]
dup2(old, new)       == [call |-> "dup2", fd |-> old, new |-> new]
pipe(r, w)           == [call |-> "pipe", fd |-> r, peer |-> w]
socketpair(a, b)     == [call |-> "socketpair", fd |-> a, peer |-> b]
fork(pid, body)      == [call |-> "fork", pid |-> pid, body |-> body]
exit(code)           == [call |-> "exit", code |-> code]
write(fd, items)     == [call |-> "write", fd |-> fd, items |-> items]
put(fd, must)        == [call |-> "put", fd |-> fd, must |-> must]
get(fd)              == [call |-> "get", fd |-> fd]
increment            == [call |-> "increment"]
while_below(n, body) == [call |-> "while", n |-> n, body |-> body]
echo(fd)             == [call |-> "echo", fd |-> fd]
read_some(fd)        == [call |-> "read_some", fd |-> fd]
read_nothing(fd)     == [call |-> "read_nothing", fd |-> fd]
read_eof(fd)         == [call |-> "read_eof", fd |-> fd]
select(fd)           == [call |-> "select", fd |-> fd]
command(fd)          == [call |-> "command", fd |-> fd]
ignore_sigpipe       == [call |-> "ignore_sigpipe"]
is_open(fd, yes)     == [call |-> "is_open", fd |-> fd, yes |-> yes]
waitpid(pid, codes)  == [call |-> "waitpid", pid |-> pid, codes |-> codes]
wait_any(pid, codes) == [call |-> "wait_any", pid |-> pid, codes |-> codes]
trace(op, u)         == [call |-> "trace", op |-> op, u |-> u]
read_input(fd, emit) == [call |-> "read_input", fd |-> fd, emit |-> emit]
print_log            == [call |-> "print_log"]
pop_log              == [call |-> "pop_log"]
corrupt_from(n)      == [call |-> "corrupt_from", n |-> n]
echo_until(fd, found) == [call |-> "echo_until", fd |-> fd, found |-> found]

---------------------------------------------------------------------------
(* The programs, after their files.                                         *)

pipe_ex_child == <<close(3), write(4, Hello), exit(10)>>
pipe_ex_unclosed == <<pipe(3, 4), fork(1, pipe_ex_child), echo(3), waitpid(1, Anything), exit(0)>>
pipe_ex ==
    <<pipe(3, 4), fork(1, pipe_ex_child), close(4), echo(3), waitpid(1, Anything), exit(0)>>

pipe_read_exit_ex_child == <<close(3), write(4, Hello), exit(10)>>
pipe_read_exit_ex ==
    <<pipe(3, 4), fork(1, pipe_read_exit_ex_child), close(4), waitpid(1, Anything), echo(3), exit(0)>>

signal_ex ==
    <<pipe(3, 4), fork(1, <<close(3), exit(0)>>), close(3), waitpid(1, Anything),
      write(4, <<"c">>), exit(0)>>

select_ex == <<select(0), select(0), select(0), exit(0)>>

make_kid(pid, code) == fork(pid, <<exit(code)>>)
wait_ex ==
    <<make_kid(1, 10), waitpid(1, {10}),    make_kid(2, 11), wait_any(2, {11}),
      make_kid(3, 12), wait_any(3, {12}),   make_kid(4, 13), wait_any(4, {13}), exit(0)>>

socket_ex_child == <<close(3), while_below(Rounds, <<put(4, TRUE), get(4)>>), exit(10)>>
socket_ex_parent ==
    <<while_below(Rounds, <<get(3), increment, put(3, TRUE)>>), read_eof(3),
      waitpid(1, {10, Signalled}), ignore_sigpipe, put(3, FALSE), exit(0)>>
socket_ex == <<socketpair(3, 4), fork(1, socket_ex_child), close(4)>> \o socket_ex_parent

fork_echo_hasty(i, a, b) ==
    <<socketpair(a, b), fork(i, <<write(b, Hello), read_nothing(b), exit(0)>>),
      read_some(a), write(a, <<"b">>), waitpid(i, {0})>>
fork_echo(i, a, b) ==
    <<socketpair(a, b), fork(i, <<write(b, Hello), read_nothing(b), exit(0)>>),
      read_some(a), waitpid(i, {0}), write(a, <<"b">>)>>
local_socket ==
    LET iteration[i \in 0 .. Sockets] ==
            IF i = Sockets THEN <<exit(0)>>
            ELSE fork_echo(i + 1, 2 * i + 3, 2 * i + 4) \o iteration[i + 1]
    IN  iteration[0]

test_redirect == <<write(2, <<"world">>), read_some(0), write(1, <<"hello", "got">>), exit(0)>>
is_fd_open == <<is_open(0, TRUE), is_open(1, TRUE), is_open(2, TRUE), is_open(3, FALSE), exit(0)>>
test_pi_shell_redirect == <<write(2, <<Prompt>>), command(0)>>

redir_no_stderr(program) ==
    <<pipe(3, 4), pipe(5, 6),
      fork(1, <<dup2(3, 0), dup2(6, 1), close(3), close(4), close(5), close(6)>> \o program),
      close(6), close(3)>>
redir(program) ==
    <<pipe(3, 4), pipe(5, 6),
      fork(1, <<dup2(3, 0), dup2(6, 1), dup2(6, 2), close(3), close(4), close(5), close(6)>>
              \o program),
      close(6), close(3)>>
dup2_redirect(program) == redir(program) \o <<write(4, <<"h">>), echo(5), exit(0)>>

fd_puts(fd, string) == [i \in 1 .. Len(string) |-> write(fd, <<string[i]>>)]
send_reply(found, cmd) == fd_puts(4, cmd) \o <<echo_until(5, found)>>
driver_trivial == redir(test_redirect) \o fd_puts(4, <<"h", "e">>) \o <<echo(5), exit(0)>>
driver_fancier ==
    redir(test_pi_shell_redirect) \o <<echo_until(5, BOOLEAN)>>
        \o send_reply({TRUE}, <<"echo", NL>>) \o send_reply({FALSE}, <<"reboot", NL>>) \o <<exit(0)>>

(* The trace comes through descriptor 3, which the shell made for it.       *)
traced == [i \in 1 .. Len(Trace) |-> trace(Trace[i][1], Trace[i][2])]
traced_into(program) ==
    <<pipe(3, 4), fork(1, <<close(3), dup2(4, 1), close(4)>> \o traced \o <<exit(0)>>), close(4)>>
        \o program
parse_input == <<read_input(3, TRUE), print_log, pop_log, exit(0)>>

(* replay() with nothing or operation n corrupted: the process it runs ends *)
(* as it should, or fails.                                                  *)
NoCorruption == -1
ReplayEnds(kid, corrupt_op) ==
    IF corrupt_op = NoCorruption THEN <<read_eof(4), waitpid(kid, {0})>>
    ELSE <<waitpid(kid, Anything \ {0})>>
Endpoint(kid, corrupt_op) ==
    <<socketpair(4, 5), fork(kid, <<close(4), exit(IF corrupt_op = NoCorruption THEN 0 ELSE 10)>>),
      close(5)>> \o ReplayEnds(kid, corrupt_op) \o <<close(4)>>
check_success == Endpoint(2, NoCorruption)
check_crashes == <<ignore_sigpipe, corrupt_from(0)>>
replay_driver == <<read_input(3, FALSE)>> \o check_success \o check_crashes \o <<exit(0)>>

Program(name) ==
    CASE name = "pipe-ex"                   -> pipe_ex
      [] name = "pipe-read-exit-ex"         -> pipe_read_exit_ex
      [] name = "signal-ex"                 -> signal_ex
      [] name = "select-ex"                 -> select_ex
      [] name = "wait-ex"                   -> wait_ex
      [] name = "socket-ex"                 -> socket_ex
      [] name = "local-socket"              -> local_socket
      [] name = "is-fd-open"                -> is_fd_open
      [] name = "dup2-redirect test-redirect" -> dup2_redirect(test_redirect)
      [] name = "dup2-redirect is-fd-open"  -> dup2_redirect(is_fd_open)
      [] name = "parse-input"               -> traced_into(parse_input)
      [] name = "replay-driver"             -> traced_into(replay_driver)
      [] name = "driver test-redirect"      -> driver_trivial
      [] name = "driver test-pi-shell-redirect" -> driver_fancier

---------------------------------------------------------------------------
(* The replay log and the lines it is written in: fields up to a colon or a *)
(* blank, and the rest.                                                     *)

mk_Q == [q |-> <<>>, nreads |-> 0, nwrites |-> 0]
Q_append(Q, op, cnt, u) ==
    [q |-> Append(Q.q, <<op, cnt, u>>),
     nreads |-> Q.nreads + (IF op \in ReadOps THEN 1 ELSE 0),
     nwrites |-> Q.nwrites + (IF op \in ReadOps THEN 0 ELSE 1)]

Line(op, n, u) == <<"TRACE", op, n, u, "rest">>
Parses(line, nlines) ==
    Len(line) = 5 /\ line[1] = "TRACE" /\ line[2] \in Ops /\ line[3] = nlines /\ line[4] \in Nat

---------------------------------------------------------------------------
(* The kernel: what each call does.                                         *)

Init ==
    /\ prog \in Examples
    /\ todo = [p \in Pids |-> IF p = 0 THEN Program(prog) ELSE <<>>]
    /\ status = [p \in Pids |-> IF p = 0 THEN Running ELSE Unborn]
    /\ fds = [p \in Pids |-> [fd \in Fds |-> IF p = 0 /\ fd < 3 THEN Terminal ELSE Shut]]
    /\ buf = [c \in Channels |-> <<>>]
    /\ val = [p \in Pids |-> 0]
    /\ log = mk_Q
    /\ screen = [p \in Pids |-> <<>>]
    /\ reaped = {}
    /\ ignoring = {}

Writer(c) == c = 0 \/ \E p \in Pids, fd \in Fds : fds[p][fd].out = c
Reader(c) == c = 0 \/ \E p \in Pids, fd \in Fds : fds[p][fd].in = c
Eof(c) == buf[c] = <<>> /\ ~Writer(c)
Ended(p) == status[p] >= Signalled

Call(p) == Head(todo[p])
Makes(p, name) == status[p] = Running /\ todo[p] # <<>> /\ Call(p).call = name
In(p) == fds[p][Call(p).fd].in
Out(p) == fds[p][Call(p).fd].out

Return(p) ==
    /\ todo' = [todo EXCEPT ![p] = Tail(@)]
    /\ UNCHANGED <<status, fds>>
ExitWith(p, code) ==
    /\ status' = [status EXCEPT ![p] = code]
    /\ todo' = [todo EXCEPT ![p] = <<>>]
    /\ fds' = [fds EXCEPT ![p] = [fd \in Fds |-> Shut]]
sys_die(p) == ExitWith(p, 1)
Demand(p, condition) == IF condition THEN Return(p) ELSE sys_die(p)

(* pipe() and socketpair() hand out the two lowest free descriptors.        *)
Open(p) ==
    LET a == Call(p).fd
        b == Call(p).peer
    IN  /\ Makes(p, "pipe") \/ Makes(p, "socketpair")
        /\ fds[p][a] = Shut /\ fds[p][b] = Shut
        /\ \A fd \in 0 .. b : fds[p][fd] = Shut => fd \in {a, b}
        /\ fds' = [fds EXCEPT ![p][a] = End(a, IF Call(p).call = "pipe" THEN NoChannel ELSE b),
                              ![p][b] = End(IF Call(p).call = "pipe" THEN NoChannel ELSE b, a)]
        /\ todo' = [todo EXCEPT ![p] = Tail(@)]
        /\ UNCHANGED <<prog, log, status, buf, val, screen, reaped, ignoring>>

Close(p) ==
    /\ Makes(p, "close")
    /\ IF fds[p][Call(p).fd] = Shut THEN sys_die(p)
       ELSE /\ fds' = [fds EXCEPT ![p][Call(p).fd] = Shut]
            /\ todo' = [todo EXCEPT ![p] = Tail(@)]
            /\ UNCHANGED status
    /\ UNCHANGED <<prog, log, buf, val, screen, reaped, ignoring>>

Dup2(p) ==
    /\ Makes(p, "dup2")
    /\ IF fds[p][Call(p).fd] = Shut THEN sys_die(p)
       ELSE /\ fds' = [fds EXCEPT ![p][Call(p).new] = fds[p][Call(p).fd]]
            /\ todo' = [todo EXCEPT ![p] = Tail(@)]
            /\ UNCHANGED status
    /\ UNCHANGED <<prog, log, buf, val, screen, reaped, ignoring>>

(* The child gets copies of its parent's descriptors and variables.         *)
Fork(p) ==
    LET kid == Call(p).pid
    IN  /\ Makes(p, "fork")
        /\ status[kid] = Unborn
        /\ status' = [status EXCEPT ![kid] = Running]
        /\ fds' = [fds EXCEPT ![kid] = fds[p]]
        /\ todo' = [todo EXCEPT ![p] = Tail(@), ![kid] = Call(p).body]
        /\ val' = [val EXCEPT ![kid] = val[p]]
        /\ UNCHANGED <<prog, log, buf, screen, reaped, ignoring>>

Exit(p) ==
    /\ Makes(p, "exit")
    /\ ExitWith(p, Call(p).code)
    /\ UNCHANGED <<prog, log, buf, val, screen, reaped, ignoring>>

(* Writing where nobody can read: SIGPIPE, or EPIPE if it is ignored.       *)
WriteItems(p, items, must) ==
    /\ CASE Out(p) = NoChannel ->
                Demand(p, ~must) /\ UNCHANGED <<buf, screen>>
         [] Out(p) = 0 ->
                Return(p) /\ screen' = [screen EXCEPT ![p] = @ \o items] /\ UNCHANGED buf
         [] Out(p) > 0 /\ Reader(Out(p)) ->
                Return(p) /\ buf' = [buf EXCEPT ![Out(p)] = @ \o items] /\ UNCHANGED screen
         [] OTHER ->
                /\ IF p \in ignoring THEN Demand(p, ~must) ELSE ExitWith(p, Signalled)
                /\ UNCHANGED <<buf, screen>>
    /\ UNCHANGED <<prog, log, val, reaped, ignoring>>
Write(p) == Makes(p, "write") /\ WriteItems(p, Call(p).items, TRUE)
Put(p) == Makes(p, "put") /\ WriteItems(p, <<val[p]>>, Call(p).must)

(* A read waits until there is something to read or nobody left to write.   *)
Got(p) == IF In(p) = NoChannel THEN <<>> ELSE buf[In(p)]
BadFd(p) == In(p) = NoChannel
AtEof(p) == ~BadFd(p) /\ Eof(In(p))
Consume(p, n) == buf' = [buf EXCEPT ![In(p)] = SubSeq(@, n + 1, Len(@))]
Show(p, items) == screen' = [screen EXCEPT ![p] = @ \o items]

Get(p) ==
    /\ Makes(p, "get")
    /\ \/ Got(p) # <<>> /\ Return(p) /\ Consume(p, 1) /\ val' = [val EXCEPT ![p] = Head(Got(p))]
       \/ (BadFd(p) \/ AtEof(p)) /\ sys_die(p) /\ UNCHANGED <<buf, val>>
    /\ UNCHANGED <<prog, log, screen, reaped, ignoring>>

Increment(p) ==
    /\ Makes(p, "increment")
    /\ val' = [val EXCEPT ![p] = @ + 1]
    /\ Return(p)
    /\ UNCHANGED <<prog, log, buf, screen, reaped, ignoring>>

While(p) ==
    /\ Makes(p, "while")
    /\ todo' = [todo EXCEPT ![p] = IF val[p] < Call(p).n THEN Call(p).body \o @ ELSE Tail(@)]
    /\ UNCHANGED <<prog, log, status, fds, buf, val, screen, reaped, ignoring>>

(* while((ret = read(fd, &c, 1)) == 1) putchar(c), and what follows.        *)
Echo(p) ==
    /\ Makes(p, "echo")
    /\ \/ /\ Got(p) # <<>>
          /\ Consume(p, 1) /\ Show(p, <<Head(Got(p))>>)
          /\ UNCHANGED <<todo, status, fds>>
       \/ (BadFd(p) \/ AtEof(p)) /\ Demand(p, AtEof(p)) /\ UNCHANGED <<buf, screen>>
    /\ UNCHANGED <<prog, log, val, reaped, ignoring>>

(* One read() of up to a kilobyte, printed.                                 *)
ReadSome(p) ==
    /\ Makes(p, "read_some")
    /\ \/ Got(p) # <<>> /\ Return(p) /\ Consume(p, Len(Got(p))) /\ Show(p, Got(p))
       \/ (BadFd(p) \/ AtEof(p)) /\ Demand(p, AtEof(p)) /\ UNCHANGED <<buf, screen>>
    /\ UNCHANGED <<prog, log, val, reaped, ignoring>>

(* async_read() without a timeout, which is to find nothing.                *)
ReadNothing(p) ==
    /\ Makes(p, "read_nothing")
    /\ Demand(p, Got(p) = <<>> /\ ~BadFd(p))
    /\ UNCHANGED <<prog, log, buf, val, screen, reaped, ignoring>>

ReadEof(p) ==
    /\ Makes(p, "read_eof")
    /\ Got(p) # <<>> \/ BadFd(p) \/ AtEof(p)
    /\ Demand(p, AtEof(p))
    /\ UNCHANGED <<prog, log, buf, val, screen, reaped, ignoring>>

(* select() with five seconds, and the read() of the line it announced: it  *)
(* fails, or finds nothing, when the user typed ^D.                         *)
Select(p) ==
    /\ Makes(p, "select")
    /\ \/ /\ Got(p) # <<>> /\ Head(Got(p)) # Eot
          /\ Consume(p, 1) /\ Show(p, <<Head(Got(p))>>) /\ Return(p)
       \/ /\ BadFd(p) \/ (Got(p) # <<>> /\ Head(Got(p)) = Eot)
          /\ sys_die(p) /\ UNCHANGED <<buf, screen>>
       \/ Got(p) = <<>> /\ Return(p) /\ UNCHANGED <<buf, screen>>
    /\ UNCHANGED <<prog, log, val, reaped, ignoring>>

(* echo_until(): to the prompt, or to the end of the child's output.        *)
EchoUntilPrompt(p) ==
    /\ Makes(p, "echo_until")
    /\ \/ /\ Got(p) # <<>>
          /\ Consume(p, 1) /\ Show(p, <<Head(Got(p))>>)
          /\ IF Head(Got(p)) = Prompt THEN Demand(p, TRUE \in Call(p).found)
             ELSE UNCHANGED <<todo, status, fds>>
       \/ /\ BadFd(p) \/ AtEof(p)
          /\ Demand(p, FALSE \in Call(p).found) /\ UNCHANGED <<buf, screen>>
    /\ UNCHANGED <<prog, log, val, reaped, ignoring>>

(* fgets() of a command, and the answer.                                    *)
Command(p) ==
    LET ends == {n \in 1 .. Len(Got(p)) : Got(p)[n] = NL}
        first == CHOOSE n \in ends : \A k \in ends : n <= k
        then(calls) == todo' = [todo EXCEPT ![p] = calls] /\ UNCHANGED <<status, fds>>
    IN  /\ Makes(p, "command")
        /\ \/ /\ ends # {}
              /\ Consume(p, first)
              /\ IF Got(p)[1] = "reboot" THEN then(<<write(2, <<"saw a reboot">>), exit(0)>>)
                 ELSE then(<<write(2, <<"got">>)>> \o test_pi_shell_redirect)
           \/ ends = {} /\ (BadFd(p) \/ AtEof(p)) /\ sys_die(p) /\ UNCHANGED buf
        /\ UNCHANGED <<prog, log, val, screen, reaped, ignoring>>

(* trace_emit_*(): a line on standard output.                               *)
TraceLine(p) ==
    /\ Makes(p, "trace")
    /\ Reader(fds[p][1].out)
    /\ buf' = [buf EXCEPT ![fds[p][1].out] = Append(@, Line(Call(p).op, val[p], Call(p).u))]
    /\ val' = [val EXCEPT ![p] = @ + 1]
    /\ Return(p)
    /\ UNCHANGED <<prog, log, screen, reaped, ignoring>>

(* read_input(): one line of it, or the end.                                *)
ReadLog(p) ==
    LET line == Head(Got(p))
    IN  /\ Makes(p, "read_input")
        /\ \/ /\ Got(p) # <<>> /\ Parses(line, val[p])
              /\ Consume(p, 1)
              /\ log' = Q_append(log, line[2], val[p], line[4])
              /\ val' = [val EXCEPT ![p] = @ + 1]
              /\ IF Call(p).emit THEN Show(p, <<Line(line[2], val[p], line[4])>>) ELSE UNCHANGED screen
              /\ UNCHANGED <<todo, status, fds>>
           \/ Got(p) # <<>> /\ ~Parses(line, val[p]) /\ sys_die(p) /\ UNCHANGED <<buf, val, log, screen>>
           \/ (BadFd(p) \/ AtEof(p)) /\ Return(p) /\ UNCHANGED <<buf, val, log, screen>>
        /\ UNCHANGED <<prog, reaped, ignoring>>

(* The log from Q_start() by Q_next(), and then by Q_pop(), as parse-input  *)
(* prints it.                                                               *)
PrintLog(p) ==
    /\ Makes(p, "print_log")
    /\ Show(p, log.q) /\ Return(p)
    /\ UNCHANGED <<prog, log, buf, val, reaped, ignoring>>
PopLog(p) ==
    /\ Makes(p, "pop_log")
    /\ \/ /\ log.q # <<>>
          /\ log' = [log EXCEPT !.q = Tail(@)] /\ Show(p, <<Head(log.q)>>)
          /\ UNCHANGED <<todo, status, fds>>
       \/ log.q = <<>> /\ Return(p) /\ UNCHANGED <<log, screen>>
    /\ UNCHANGED <<prog, buf, val, reaped, ignoring>>

(* check_crashes() from operation n: READ32s are corrupted, one at a time,  *)
(* up to the first READ8.                                                   *)
CorruptFrom(p) ==
    LET n == Call(p).n
        op == log.q[n + 1][1]
        then(calls) == todo' = [todo EXCEPT ![p] = calls \o Tail(@)] /\ UNCHANGED <<status, fds>>
    IN  /\ Makes(p, "corrupt_from")
        /\ \/ /\ n = Len(log.q)
              /\ Return(p) /\ UNCHANGED screen
           \/ /\ n < Len(log.q) /\ op = "READ8"
              /\ Return(p) /\ UNCHANGED screen
           \/ /\ n < Len(log.q) /\ op = "WRITE32"
              /\ then(<<corrupt_from(n + 1)>>) /\ UNCHANGED screen
           \/ /\ n < Len(log.q) /\ op = "READ32"
              /\ then(Endpoint(n + 3, n) \o <<corrupt_from(n + 1)>>) /\ Show(p, <<n>>)
        /\ UNCHANGED <<prog, log, buf, val, reaped, ignoring>>

IsOpen(p) ==
    /\ Makes(p, "is_open")
    /\ Demand(p, (fds[p][Call(p).fd] # Shut) = Call(p).yes)
    /\ UNCHANGED <<prog, log, buf, val, screen, reaped, ignoring>>

IgnoreSigpipe(p) ==
    /\ Makes(p, "ignore_sigpipe")
    /\ ignoring' = ignoring \cup {p}
    /\ Return(p)
    /\ UNCHANGED <<prog, log, buf, val, screen, reaped>>

(* Only main() has children.  wait(&status) and waitpid(-1, ...) take any   *)
(* child that ended; polling with WNOHANG leaves everything as it is until  *)
(* there is one.                                                            *)
Children == {k \in Pids \ {0} : status[k] # Unborn /\ k \notin reaped}
Collect(p, pids) ==
    /\ \/ /\ pids = {}
          /\ sys_die(p) /\ UNCHANGED reaped
       \/ \E k \in pids :
            /\ Ended(k)
            /\ reaped' = reaped \cup {k}
            /\ Demand(p, k = Call(p).pid /\ status[k] \in Call(p).codes)
    /\ UNCHANGED <<prog, log, buf, val, screen, ignoring>>
Waitpid(p) == Makes(p, "waitpid") /\ Collect(p, Children \cap {Call(p).pid})
WaitAny(p) == Makes(p, "wait_any") /\ Collect(p, Children)

(* The user at select-ex.c's keyboard.                                      *)
Type ==
    /\ prog = "select-ex" /\ status[0] = Running
    /\ Len(buf[0]) + Len(screen[0]) < KeyboardLines
    /\ \E typed \in {"line", Eot} : buf' = [buf EXCEPT ![0] = Append(@, typed)]
    /\ UNCHANGED <<prog, log, todo, status, fds, val, screen, reaped, ignoring>>

Over == \A p \in Pids : status[p] = Unborn \/ Ended(p)

Step(p) ==
    \/ Open(p) \/ Close(p) \/ Dup2(p) \/ Fork(p) \/ Exit(p) \/ Write(p) \/ Put(p) \/ Get(p)
    \/ Increment(p) \/ While(p) \/ Echo(p) \/ ReadSome(p) \/ ReadNothing(p) \/ ReadEof(p)
    \/ Select(p) \/ EchoUntilPrompt(p) \/ Command(p) \/ IsOpen(p) \/ IgnoreSigpipe(p)
    \/ Waitpid(p) \/ WaitAny(p) \/ TraceLine(p) \/ ReadLog(p) \/ PrintLog(p) \/ PopLog(p)
    \/ CorruptFrom(p)
Next == Type \/ \E p \in Pids : Step(p)

(* Every process that can run is scheduled sooner or later.                 *)
Spec == Init /\ [][Next]_vars /\ \A p \in Pids : WF_vars(Step(p))

---------------------------------------------------------------------------

(* Every variable stays in its range, and a process that ended holds no     *)
(* descriptor and has nothing left to do: what the others' read() == 0 and  *)
(* SIGPIPE come from.                                                       *)
TypeOK ==
    /\ prog \in Examples
    /\ status \in [Pids -> {Unborn, Running} \cup Anything]
    /\ \A p \in Pids, fd \in Fds :
           fds[p][fd].in \in Channels \cup {NoChannel} /\ fds[p][fd].out \in Channels \cup {NoChannel}
    /\ val \in [Pids -> 0 .. Rounds + Len(Trace)]
    /\ log.nreads + log.nwrites = val[0] \/ prog = "socket-ex"
    /\ reaped \subseteq Pids /\ ignoring \subseteq Pids
    /\ \A p \in Pids :
           Ended(p) => todo[p] = <<>> /\ \A fd \in Fds : fds[p][fd] = Shut

(* No sys_die, panic, error or assert of any program is reached, in any     *)
(* interleaving: every status is the one the parent asserts, every read of  *)
(* a closed socket finds its end, async_read() of a socket nobody wrote to  *)
(* finds nothing.  Only select-ex.c ends for a ^D, which it takes for an    *)
(* error of read() (select-ex.c:46-47).                                     *)
TypedEot == prog = "select-ex" /\ buf[0] # <<>> /\ Head(buf[0]) = Eot
NoneFails == \A p \in Pids : status[p] = 1 => TypedEot

(* Programs whose parent writes to a child that may have ended already.     *)
MayBreak == {"dup2-redirect is-fd-open", "driver test-redirect"}

(* signal-ex.c always dies of SIGPIPE, which is what it is to show; nothing *)
(* else does, but for the two parents that write to a child that may be     *)
(* gone.                                                                    *)
SigpipeWhereMeant ==
    /\ \A p \in Pids : status[p] = Signalled => prog \in MayBreak \cup {"signal-ex"}
    /\ prog = "signal-ex" /\ Ended(0) => status[0] = Signalled

(* Every program ends as its author means it to.                            *)
EndsAsMeant == TypeOK /\ NoneFails /\ SigpipeWhereMeant

Traced == [i \in 1 .. Len(Trace) |-> Line(Trace[i][1], i - 1, Trace[i][2])]
Logged == [i \in 1 .. Len(Trace) |-> <<Trace[i][1], i - 1, Trace[i][2]>>]
(* What check_crashes() corrupts: every READ32 that no READ8 comes before.  *)
Attempts ==
    LET n == {i \in 1 .. Len(Trace) :
                Trace[i][1] = "READ32" /\ \A j \in 1 .. i : Trace[j][1] # "READ8"}
    IN  [k \in 1 .. Cardinality(n) |->
            (CHOOSE i \in n : Cardinality({j \in n : j <= i}) = k) - 1]

(* A parent that ends in good order printed all its child wrote, in order:  *)
(* also what was still in the pipe when the child ended, and what the child *)
(* printed to stderr before what it printed to stdout.  What parse-input    *)
(* prints of a trace is that trace (parse-input.c:118-123), its log is the  *)
(* trace's however it is walked, and replay-driver tries what its comment   *)
(* says (replay-driver.c:47-64).                                            *)
OutputEchoed ==
    status[0] = 0 =>
        CASE prog \in {"pipe-ex", "pipe-read-exit-ex"} -> screen[0] = Hello
          [] prog \in {"dup2-redirect test-redirect", "driver test-redirect"} ->
                 screen[0] = <<"world", "hello", "got">>
          [] prog = "parse-input" -> screen[0] = Traced \o Logged \o Logged
          [] prog = "replay-driver" -> screen[0] = Attempts
          [] prog = "driver test-pi-shell-redirect" ->
                 screen[0] = <<Prompt, "got", Prompt, "saw a reboot">>
          [] OTHER -> TRUE

(* Every program and every child of it ends: nobody waits for the end of a  *)
(* pipe that somebody alive forgot to close, or for a child that waits too. *)
Finishes == <>Over

=============================================================================
