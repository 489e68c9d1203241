---------------------------- MODULE MCProcesses ----------------------------
(* Instance of Processes for TLC: every program, with its own loop bounds.  *)
EXTENDS Processes

MCExamples ==
    {"pipe-ex", "pipe-read-exit-ex", "signal-ex", "select-ex", "wait-ex", "socket-ex",
     "local-socket", "is-fd-open", "dup2-redirect test-redirect", "dup2-redirect is-fd-open",
     "parse-input", "replay-driver", "driver test-redirect", "driver test-pi-shell-redirect"}

(* A program is sent in two words and answered, then prints two bytes.      *)
MCTrace == <<<<"WRITE32", 7>>, <<"READ32", 3>>, <<"READ32", 7>>, <<"WRITE32", 5>>, <<"READ32", 6>>,
             <<"READ8", 1>>, <<"READ32", 6>>, <<"READ8", 2>>>>

=============================================================================
