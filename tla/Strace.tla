------------------------------- MODULE Strace -------------------------------
(***************************************************************************)
(* The system call tracer: main() attaches to or forks the tracee, parent() *)
(* waits for its stops, prints a line per call and resumes it, detach() is  *)
(* the handler of SIGTERM and SIGINT of an attached tracer.                 *)
(*                                                                         *)
(* parent() does not know a stop before a call from one after it: it takes  *)
(* rax = -ENOSYS for the first, which is what the kernel puts there.        *)
(* Arguments of calls are abstracted to the first, rdi.                     *)
(***************************************************************************)
EXTENDS Integers, Sequences, FiniteSets

CONSTANTS
  Modes,       \* ways to start: "fork", "attach"
  Calls,       \* numbers of the calls the tracee makes
  Rets,        \* what calls return, and what rax may hold outside of calls
  Args,        \* first arguments of calls
  Threads,     \* whether another thread of the tracee may end it
  ExecFails,   \* whether execvp() may fail
  MaxCalls, MaxSignals  \* bounds: calls the tracee makes, signals it gets

EXECVE == 59
EXIT == 231         \* exit_group
ENOSYS == 38
ERESTARTSYS == 512  \* in rax when a signal interrupted the call
NoCall == -1        \* orig_rax outside of calls

ASSUME StraceAssumption ==
  /\ Modes \subseteq {"fork", "attach"}
  /\ Calls \subseteq Nat /\ Rets \subseteq Int /\ Args \subseteq Nat
  /\ {MaxCalls, MaxSignals} \subseteq Nat
  /\ {Threads, ExecFails} \subseteq BOOLEAN

VARIABLES
  mode,     \* how the tracer was started
  t,        \* the tracee: "user", "kernel", "interrupted", "restart" run;
            \* "enter", "exit", "signal" are stops; "zombie", "killed",
            \* "reaped" ended; "free" is no longer traced
  news,     \* waitpid() has something to return
  intr,     \* the call of the tracee was interrupted
  frame,    \* the tracee's registers
  code,     \* its exit status
  pc,       \* the tracer: "wait", "waited", "stopped", "resume",
            \* "detach", "done"
  resp,
  regs,     \* its copy of the registers
  name,     \* the line that is begun: the call's name, or << >>
  out,      \* lines printed
  ended,    \* what was printed as the exit status, or << >>
  kind,     \* of the stop waitpid() returned last
  done,     \* calls the tracee made, with their results
  own,      \* the tracee ended by an exit_group() of its own
  odd,      \* rax was -ENOSYS at a stop that is not before a call
  calls, signals  \* counters of the bounds

tracee == <<t, news, intr, frame, code>>
tracer == <<pc, resp, regs, name>>
log == <<out, ended, kind, done, own, odd>>
env == <<mode, calls, signals>>
vars == <<tracee, tracer, log, env>>

Stopped == t \in {"enter", "exit", "signal"}
Running == t \in {"user", "kernel", "interrupted", "restart"}
Reg(orig, rax, rdi) == [orig_rax |-> orig, rax |-> rax, rdi |-> rdi]

\* The table has names for 0 .. 335; 335 has the name of 329.
SyscallToString(id) ==
  IF id \in 0 .. 335 THEN [named |-> IF id = 335 THEN 329 ELSE id] ELSE [number |-> id]

\* Before the first stop: a new program stops after execve(), an attached
\* process where SIGSTOP finds it.  After a failed execvp() the child exits
\* with 0 before any stop, and regs is read uninitialised (88-91).
Begun ==
  \/ /\ mode = "fork"
     /\ t = "signal" /\ intr = FALSE /\ code = 0
     /\ frame = Reg(EXECVE, 0, 0)
  \/ /\ mode = "fork" /\ ExecFails
     /\ t = "zombie" /\ intr = FALSE /\ code = 0
     /\ frame = Reg(EXIT, 0, 0)
  \/ /\ mode = "attach"
     /\ t = "signal" /\ code = 0
     /\ \/ intr = FALSE /\ \E r \in Rets, a \in Args : frame = Reg(NoCall, r, a)
        \/ intr = TRUE /\ \E c \in Calls \ {EXIT}, a \in Args :
             frame = Reg(c, -ERESTARTSYS, a)

Init ==
  /\ mode \in Modes /\ Begun /\ news = TRUE
  /\ pc = "wait" /\ resp = 0 /\ name = << >>
  /\ \E a \in Args : regs = Reg(NoCall, 0, a)
  /\ out = << >> /\ ended = << >> /\ kind = t /\ done = << >>
  /\ own = FALSE /\ odd = (frame.rax = -ENOSYS)
  /\ calls = 0 /\ signals = 0

-----------------------------------------------------------------------------
\* The tracee, as the kernel runs it.

Stop(where, f) ==
  /\ t' = where /\ news' = TRUE /\ frame' = f
  /\ odd' = (odd \/ (where # "enter" /\ f.rax = -ENOSYS))

Enter(c, a) ==
  /\ t = "user" /\ calls < MaxCalls
  /\ Stop("enter", Reg(c, -ENOSYS, a))
  /\ calls' = calls + 1
  /\ UNCHANGED <<intr, code, tracer, out, ended, kind, own, done, mode, signals>>

Returns(r) ==
  /\ t = "kernel" /\ frame.orig_rax # EXIT
  /\ Stop("exit", [frame EXCEPT !.rax = r])
  /\ done' = Append(done, <<frame.orig_rax, r>>)
  /\ UNCHANGED <<intr, code, tracer, out, ended, kind, own, env>>

Exits ==
  /\ t = "kernel" /\ frame.orig_rax = EXIT
  /\ t' = "zombie" /\ news' = TRUE /\ code' = frame.rdi % 256 /\ own' = TRUE
  /\ UNCHANGED <<intr, frame, tracer, out, ended, kind, done, odd, env>>

\* A signal that finds the tracee in a call ends the call first.
Interrupted ==
  /\ t = "kernel" /\ frame.orig_rax # EXIT /\ signals < MaxSignals
  /\ Stop("exit", [frame EXCEPT !.rax = -ERESTARTSYS])
  /\ intr' = TRUE /\ signals' = signals + 1
  /\ done' = Append(done, <<frame.orig_rax, -ERESTARTSYS>>)
  /\ UNCHANGED <<code, tracer, out, ended, kind, own, mode, calls>>

InterruptedStops ==
  /\ t = "interrupted" /\ Stop("signal", frame)
  /\ UNCHANGED <<intr, code, tracer, out, ended, kind, own, done, env>>

\* The tracer resumes with signal 0: nothing was delivered, so that the kernel
\* makes the interrupted call again.
Restarts ==
  /\ t = "restart" /\ intr' = FALSE
  /\ Stop("enter", [frame EXCEPT !.rax = -ENOSYS])
  /\ UNCHANGED <<code, tracer, out, ended, kind, own, done, env>>

Signalled(r) ==
  /\ t = "user" /\ signals < MaxSignals
  /\ \E c \in {NoCall, frame.orig_rax} : Stop("signal", Reg(c, r, frame.rdi))
  /\ signals' = signals + 1
  /\ UNCHANGED <<intr, code, tracer, out, ended, kind, own, done, mode, calls>>

\* SIGKILL does not stop: the tracee is dead, also out of a stop.
Killed ==
  /\ Stopped \/ Running
  /\ signals < MaxSignals
  /\ t' = "killed" /\ news' = TRUE /\ signals' = signals + 1
  /\ UNCHANGED <<intr, frame, code, tracer, log, mode, calls>>

\* Another thread, which is not traced, calls exit_group().
OtherExits(a) ==
  /\ Threads /\ (Stopped \/ Running)
  /\ t' = "zombie" /\ news' = TRUE /\ code' = a % 256
  /\ UNCHANGED <<intr, frame, tracer, log, env>>

\* PTRACE_SYSCALL.
Resumed ==
  CASE t = "enter" -> "kernel"
    [] t = "exit" -> IF intr THEN "interrupted" ELSE "user"
    [] t = "signal" -> IF intr THEN "restart" ELSE "user"

-----------------------------------------------------------------------------
\* The tracer.

\* When the tracer ends, a tracee that is still there runs on by itself.
TracerEnds ==
  /\ pc' = "done"
  /\ t' = IF Stopped \/ Running THEN "free" ELSE IF t = "reaped" THEN t ELSE "reaped"

\* A variant with a bug: the loop goes on after an error.
PrinterrorReturns == pc' = "wait" /\ UNCHANGED t

Printerror == TracerEnds

\* The name on the line: begun at the stop before, or taken from regs (97).
Called == IF resp = 1 THEN name ELSE SyscallToString(regs.orig_rax)

\* A variant with a bug: the status is taken from the wrong register.
WaitExitedRax ==
  /\ pc = "wait" /\ news /\ t = "zombie"
  /\ news' = FALSE
  /\ out' = Append(out, [call |-> Called, value |-> "?", at |-> "end"])
  /\ ended' = <<regs.rax>>
  /\ TracerEnds
  /\ UNCHANGED <<intr, frame, code, resp, regs, name, kind, done, own, odd, env>>

\* waitpid() and WIFEXITED.
WaitExited ==
  /\ pc = "wait" /\ news /\ t = "zombie"
  /\ news' = FALSE
  /\ out' = Append(out, [call |-> Called, value |-> "?", at |-> "end"])
  /\ ended' = <<regs.rdi>>
  /\ TracerEnds
  /\ UNCHANGED <<intr, frame, code, resp, regs, name, kind, done, own, odd, env>>

WaitStopped ==
  /\ pc = "wait" /\ news /\ Stopped
  /\ news' = FALSE /\ pc' = "waited" /\ kind' = t
  /\ UNCHANGED <<t, intr, frame, code, resp, regs, name, out, ended, done, own, odd, env>>

\* PTRACE_GETREGS: an error if the tracee died in its stop.
GetRegs ==
  /\ pc = "waited"
  /\ IF Stopped
       THEN pc' = "stopped" /\ regs' = frame /\ UNCHANGED t
       ELSE Printerror /\ UNCHANGED regs
  /\ UNCHANGED <<news, intr, frame, code, resp, name, log, env>>

\* The end by a signal is not asked for: PTRACE_GETREGS fails.
WaitKilled ==
  /\ pc = "wait" /\ news /\ t = "killed"
  /\ news' = FALSE
  /\ Printerror
  /\ UNCHANGED <<intr, frame, code, resp, regs, name, log, env>>

\* Lines 106-110.
Shown(rax) == IF rax < 0 THEN rax + 1 ELSE rax

\* A variant with a bug: every stop ends what the one before it began.
BeforeToggles == resp = 0

Before == regs.rax = -ENOSYS

\* A variant with a bug: resp counts.
PrintCounts ==
  /\ pc = "stopped" /\ pc' = "resume"
  /\ IF Before
       THEN resp' = resp + 1 /\ name' = Called /\ UNCHANGED out
       ELSE /\ resp' = 0 /\ name' = << >>
            /\ out' = Append(out, [call |-> Called, value |-> Shown(regs.rax), at |-> kind])
  /\ UNCHANGED <<tracee, regs, ended, kind, done, own, odd, env>>

\* Lines 97-112.
PrintLine ==
  /\ pc = "stopped" /\ pc' = "resume"
  /\ IF Before
       THEN resp' = 1 /\ name' = Called /\ UNCHANGED out
       ELSE /\ resp' = 0 /\ name' = << >>
            /\ out' = Append(out, [call |-> Called, value |-> Shown(regs.rax), at |-> kind])
  /\ UNCHANGED <<tracee, regs, ended, kind, done, own, odd, env>>

\* A variant with a bug: back to waitpid() without PTRACE_SYSCALL.
ResumeSkips == pc' = "wait" /\ UNCHANGED t

ResumeTracee == pc' = "wait" /\ t' = Resumed

Resume ==
  /\ pc = "resume"
  /\ IF Stopped THEN ResumeTracee ELSE Printerror
  /\ UNCHANGED <<news, intr, frame, code, resp, regs, name, log, env>>

\* SIGTERM or SIGINT: an attached tracer runs detach(), another one dies.
Signal ==
  /\ pc \in {"wait", "waited", "stopped", "resume"}
  /\ IF mode = "attach" THEN pc' = "detach" /\ UNCHANGED t ELSE TracerEnds
  /\ UNCHANGED <<news, intr, frame, code, resp, regs, name, log, env>>

\* detach(): waitpid(), then PTRACE_DETACH, or its error.
Detach ==
  /\ pc = "detach" /\ news
  /\ news' = FALSE
  /\ TracerEnds
  /\ UNCHANGED <<intr, frame, code, resp, regs, name, log, env>>

Tracee ==
  \/ \E c \in Calls, a \in Args : Enter(c, a)
  \/ \E r \in Rets : Returns(r)
  \/ Exits \/ InterruptedStops \/ Restarts
Outside ==
  \/ Interrupted \/ Killed
  \/ \E r \in Rets : Signalled(r)
  \/ \E a \in Args : OtherExits(a)
Tracer == WaitExited \/ WaitStopped \/ WaitKilled \/ GetRegs \/ PrintLine \/ Resume \/ Detach

Next == Tracee \/ Outside \/ Tracer \/ Signal

Spec == Init /\ [][Next]_vars

\* Both processes run; nobody has to send signals.
FairSpec == Spec /\ WF_vars(Tracee) /\ WF_vars(Tracer)

-----------------------------------------------------------------------------
\* Properties.

\* The states of the two processes; in particular resp stays a flag and a
\* begun line has a name.
TypeOK ==
  /\ t \in {"user", "kernel", "interrupted", "restart", "enter", "exit", "signal",
           "zombie", "killed", "reaped", "free"}
  /\ mode \in Modes /\ {news, intr, own, odd} \subseteq BOOLEAN
  /\ pc \in {"wait", "waited", "stopped", "resume", "detach", "done"}
  /\ resp \in {0, 1} /\ (resp = 1 => name # << >>)
  /\ code \in 0 .. 255
  /\ calls \in 0 .. MaxCalls /\ signals \in 0 .. MaxSignals

\* As long as rax was never -ENOSYS but before a call, the test of line 100
\* keeps step with the tracee, over signals and interrupted and repeated calls:
\* resp is 1 in waitpid() exactly when the tracee is in a call.
InStep ==
  ~odd /\ pc = "wait" /\ (Stopped \/ Running) =>
    (resp = 1 <=> t = "kernel" \/ (t = "exit" /\ news))

\* The lines printed after calls, among the first n.
CallLines(n) == {m \in 1 .. n : out[m].at = "exit"}

\* The k-th of them has the name of the k-th call, and a value that fits its
\* result.
Reported(fits(_, _)) ==
  \A n \in DOMAIN out : out[n].at = "exit" =>
    LET k == Cardinality(CallLines(n)) IN
    /\ k <= Len(done)
    /\ out[n].call = SyscallToString(done[k][1])
    /\ fits(out[n].value, done[k][2])

\* The value is the result of a call that succeeded.
Succeeded(value, r) == r >= 0 => value = r

\* As long as rax was never -ENOSYS but before a call (LinesAlwaysMatch), the
\* lines printed after calls are those calls, in their order, each with its own
\* name and, if the call succeeded, its own result, and at most the last is not
\* printed yet (lines 97-112).  Of a call that failed only the name is claimed:
\* its result is printed one too high (ReturnShown).
LinesMatch ==
  ~odd => Reported(Succeeded) /\ Cardinality(CallLines(Len(out))) + 1 >= Len(done)

\* The same whatever the calls returned: false, a result of -ENOSYS is taken
\* for the stop before a call (line 100).
LinesAlwaysMatch == Reported(Succeeded)

\* Every value is the return value, as line 73 promises ("syscall_name(...) =
\* syscall_return_value"): false for errors, to which lines 106-108 add 1, so
\* that -1, EPERM, is printed as 0.
ReturnShown == ~odd => Reported(LAMBDA value, r : value = r)

\* The tracer ends with the status of a tracee that ended by itself, also in
\* the middle of what it was attached to (90-91 pass on the rdi of the last
\* stop, which is that before exit_group()).
ExitPassedOn == ended # << >> /\ own => ended[1] % 256 = code

\* The same however the tracee ended: false when another of its threads calls
\* exit_group(), or when its execvp() failed.
ExitAlwaysPassedOn == ended # << >> => ended[1] % 256 = code

\* A tracee that stopped is resumed or let go, unless detach() waits for it.
NotStranded == Stopped ~> ~Stopped \/ pc = "detach"

\* The tracer ends when the tracee did, also by a signal it does not ask for.
FollowsTracee == t \in {"zombie", "killed"} ~> pc = "done"

\* detach() ends (43 and 44 install it for a proper closing).
DetachEnds == pc = "detach" ~> pc = "done"
=============================================================================
