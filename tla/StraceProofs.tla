---------------------------- MODULE StraceProofs ----------------------------
(***************************************************************************)
(* Proofs about Strace, for every set of calls, results and arguments and   *)
(* every number of calls and signals.                                       *)
(***************************************************************************)
EXTENDS Strace, TLAPS, FiniteSetTheorems, SequenceTheorems

\* The two copies of the registers; arguments are natural numbers.
RegsOK ==
  /\ frame.rdi \in Nat /\ regs.rdi \in Nat
  /\ \A a \in Args : a \in Nat

\* waitpid() and the stops: between two calls of it the tracee is stopped or
\* dead, and every stop of a waiting tracer is still to be reported.
Waits ==
  /\ pc = "wait" => (Stopped => news) /\ (Running => ~news)
  /\ pc \in {"waited", "stopped", "resume"} => ~Running /\ (Stopped => ~news)

\* rax is -ENOSYS at stops before calls, and only there until odd is set.
Marked ==
  /\ t = "enter" => frame.rax = -ENOSYS
  /\ ~odd /\ t \in {"exit", "signal"} => frame.rax # -ENOSYS

\* The tracer's copy is the tracee's while that one is stopped or runs on.
Copied ==
  /\ pc \in {"stopped", "resume"} /\ Stopped => regs = frame
  /\ pc = "wait" /\ Running => regs = frame

\* What resp is at each step of parent().
Toggle ==
  ~odd =>
    /\ pc = "wait" /\ Running => (resp = 1 <=> t = "kernel")
    /\ pc \in {"wait", "waited", "stopped"} /\ Stopped => (resp = 1 <=> t = "exit")
    /\ pc = "resume" /\ Stopped => (resp = 1 <=> t = "enter")

\* A tracee that exited by itself left its argument in the tracer's copy.
Status ==
  /\ own => ~Stopped /\ ~Running
  /\ own => pc \in {"wait", "detach", "done"}
  /\ own /\ pc = "wait" => regs.rdi % 256 = code
  /\ ended # << >> => pc = "done" /\ t = "reaped"

Inv == TypeOK /\ RegsOK /\ Waits /\ Marked /\ Copied /\ Toggle /\ Status /\ ExitPassedOn

-----------------------------------------------------------------------------
\* All of the invariant but the types, which need other facts.
Safe == Waits /\ Marked /\ Copied /\ Toggle /\ Status /\ ExitPassedOn

LEMMA InitSafe == ASSUME Init PROVE Safe
<1>1. t \in {"signal", "zombie"}
  BY DEF Init, Begun
<1>2. /\ pc = "wait" /\ news = TRUE /\ resp = 0 /\ ended = << >> /\ own = FALSE
      /\ odd <=> frame.rax = -ENOSYS
  BY DEF Init
<1> QED
  BY <1>1, <1>2 DEF Safe, Waits, Marked, Copied, Toggle, Status, ExitPassedOn, Stopped, Running

\* The steps of the kernel: a stop of the tracee, or its end.
LEMMA TraceeSafe ==
  ASSUME Inv, Tracee
  PROVE  Safe'
<1> USE DEF Inv, TypeOK, Safe, Waits, Marked, Copied, Toggle, Status, ExitPassedOn, Stopped, Running,
       tracer, log, env, Stop, Reg
<1>1. ASSUME NEW c \in Calls, NEW a \in Args, Enter(c, a) PROVE Safe'
  BY <1>1 DEF Enter
<1>2. ASSUME NEW r \in Rets, Returns(r) PROVE Safe'
  BY <1>2 DEF Returns
<1>3. CASE Exits
  BY <1>3 DEF Exits
<1>4. CASE InterruptedStops
  BY <1>4 DEF InterruptedStops
<1>5. CASE Restarts
  BY <1>5 DEF Restarts
<1> QED BY <1>1, <1>2, <1>3, <1>4, <1>5 DEF Tracee

LEMMA OutsideSafe ==
  ASSUME Inv, Outside
  PROVE  Safe'
<1> USE DEF Inv, TypeOK, Safe, Waits, Marked, Copied, Toggle, Status, ExitPassedOn, Stopped, Running,
       tracer, log, env, Stop, Reg
<1>1. CASE Interrupted
  BY <1>1 DEF Interrupted
<1>2. CASE Killed
  BY <1>2 DEF Killed
<1>3. ASSUME NEW r \in Rets, Signalled(r) PROVE Safe'
  BY <1>3 DEF Signalled
<1>4. ASSUME NEW a \in Args, OtherExits(a) PROVE Safe'
  BY <1>4 DEF OtherExits
<1> QED BY <1>1, <1>2, <1>3, <1>4 DEF Outside

\* The steps of parent() and detach().
LEMMA TracerSafe ==
  ASSUME Inv, Tracer \/ Signal
  PROVE  Safe'
<1> USE DEF Inv, TypeOK, Safe, Waits, Marked, Copied, Toggle, Status, ExitPassedOn, Stopped, Running,
       tracee, tracer, log, env, TracerEnds, Printerror
<1>1. CASE WaitExited
  BY <1>1 DEF WaitExited
<1>2. CASE WaitStopped
  BY <1>2 DEF WaitStopped
<1>3. CASE GetRegs
  BY <1>3 DEF GetRegs
<1>4. CASE WaitKilled
  BY <1>4 DEF WaitKilled
<1>5. CASE PrintLine
  BY <1>5 DEF PrintLine, Before
<1>6. CASE Resume
  BY <1>6 DEF Resume, ResumeTracee, Resumed
<1>7. CASE Signal
  BY <1>7 DEF Signal
<1>8. CASE Detach
  BY <1>8 DEF Detach
<1> QED BY <1>1, <1>2, <1>3, <1>4, <1>5, <1>6, <1>7, <1>8 DEF Tracer

-----------------------------------------------------------------------------
(* Types. *)

Types == TypeOK /\ RegsOK

LEMMA ArgFacts ==
  /\ \A a \in Args : a \in Nat /\ a % 256 \in 0 .. 255
  /\ \A a \in Nat : a % 256 \in 0 .. 255
  /\ MaxCalls \in Nat /\ MaxSignals \in Nat
BY StraceAssumption

LEMMA InitTypes == ASSUME Init PROVE Types
<1>1. /\ mode \in Modes /\ pc = "wait" /\ resp = 0 /\ news = TRUE /\ own = FALSE
      /\ odd = (frame.rax = -ENOSYS) /\ calls = 0 /\ signals = 0
      /\ \E a \in Args : regs = Reg(NoCall, 0, a)
  BY DEF Init
<1>2. t \in {"signal", "zombie"} /\ intr \in BOOLEAN /\ code = 0
  BY DEF Init, Begun
<1>3. frame.rdi \in Nat
  <2>1. PICK n \in Nat : \E c, r \in Int : frame = [orig_rax |-> c, rax |-> r, rdi |-> n]
    BY ArgFacts, StraceAssumption DEF Init, Begun, Reg, EXECVE, EXIT, NoCall, ERESTARTSYS
  <2> QED BY <2>1
<1>4. regs.rdi \in Nat
  BY <1>1, ArgFacts DEF Reg
<1>5. odd \in BOOLEAN
  <2>1. (frame.rax = -ENOSYS) \in BOOLEAN
    OBVIOUS
  <2> QED BY <1>1, <2>1
<1>6. {news, intr, own, odd} \subseteq BOOLEAN
  BY <1>1, <1>2, <1>5
<1>7. RegsOK
  BY <1>3, <1>4, ArgFacts DEF RegsOK
<1>8. calls \in 0 .. MaxCalls /\ signals \in 0 .. MaxSignals /\ code \in 0 .. 255
  BY <1>1, <1>2, ArgFacts
<1> QED BY <1>1, <1>2, <1>6, <1>7, <1>8 DEF Types, TypeOK

\* Steps that only move the two processes.
LEMMA MovesTyped ==
  ASSUME Types, UNCHANGED <<intr, frame, regs, resp, name, code, own, odd, env>>, news' \in BOOLEAN,
         pc' \in {"wait", "waited", "stopped", "resume", "detach", "done"},
         t' \in {"user", "kernel", "interrupted", "restart", "enter", "exit", "signal",
                "zombie", "killed", "reaped", "free"}
  PROVE  Types'
<1>1. {news', intr', own', odd'} \subseteq BOOLEAN
  BY DEF Types, TypeOK
<1>2. RegsOK'
  BY DEF Types, RegsOK
<1> QED BY <1>1, <1>2 DEF Types, TypeOK, env

LEMMA TypesStep ==
  ASSUME Inv, [Next]_vars
  PROVE  Types'
<1> USE ArgFacts DEF Inv, TypeOK, RegsOK, Types, tracee, tracer, log, env, Stop, Reg
<1>1. ASSUME NEW c \in Calls, NEW a \in Args, Enter(c, a) PROVE Types'
  BY <1>1 DEF Enter
<1>2. ASSUME NEW r \in Rets, Returns(r) PROVE Types'
  BY <1>2 DEF Returns
<1>3. CASE Exits
  <2>1. code' \in 0 .. 255
    BY <1>3 DEF Exits
  <2> QED BY <1>3, <2>1 DEF Exits
<1>4. CASE InterruptedStops
  BY <1>4 DEF InterruptedStops
<1>5. CASE Restarts
  <2>1. odd' = odd
    BY <1>5 DEF Restarts
  <2>2. frame'.rdi \in Nat
    BY <1>5 DEF Restarts
  <2> QED BY <1>5, <2>1, <2>2 DEF Restarts
<1>6. CASE Interrupted
  BY <1>6 DEF Interrupted
<1>7. CASE Killed
  BY <1>7 DEF Killed
<1>8. ASSUME NEW r \in Rets, Signalled(r) PROVE Types'
  BY <1>8 DEF Signalled
<1>9. ASSUME NEW a \in Args, OtherExits(a) PROVE Types'
  BY <1>9 DEF OtherExits
<1>10. CASE WaitExited
  BY <1>10 DEF WaitExited, TracerEnds
<1>11. CASE WaitStopped
  BY <1>11 DEF WaitStopped
<1>12. CASE GetRegs
  BY <1>12 DEF GetRegs, Printerror, TracerEnds
<1>13. CASE WaitKilled
  BY <1>13 DEF WaitKilled, Printerror, TracerEnds
<1>14. CASE PrintLine
  <2>1. \A id : SyscallToString(id) # << >>
    BY DEF SyscallToString
  <2> QED BY <1>14, <2>1 DEF PrintLine, Called
<1>15. CASE Resume
  BY <1>15 DEF Resume, ResumeTracee, Resumed, Stopped, Printerror, TracerEnds
<1>16. CASE Signal
  BY <1>16 DEF Signal, TracerEnds
<1>17. CASE Detach
  <2>1. Types /\ UNCHANGED <<intr, frame, regs, resp, name, code, own, odd, env>>
    BY <1>17 DEF Detach
  <2>2. news' = FALSE /\ pc' = "done" /\ t' \in {"free", "reaped"}
    BY <1>17 DEF Detach, TracerEnds
  <2> HIDE DEF Inv, TypeOK, RegsOK, Types, env
  <2> QED BY <2>1, <2>2, MovesTyped
<1>18. CASE UNCHANGED vars
  BY <1>18 DEF vars
<1> QED
  BY <1>1, <1>2, <1>3, <1>4, <1>5, <1>6, <1>7, <1>8, <1>9, <1>10, <1>11, <1>12,
     <1>13, <1>14, <1>15, <1>16, <1>17, <1>18
  DEF Next, Tracee, Outside, Tracer

-----------------------------------------------------------------------------
(* The lines.  What they are compared with grows in the kernel, line by line  *)
(* in parent(): the types of both, then where each step leaves them.          *)

Registers == [orig_rax : Int, rax : Int, rdi : Nat]
Names == {SyscallToString(id) : id \in Int}
Kinds == {"enter", "exit", "signal", "zombie", "end"}
OutLines == [call : Names, value : Int \cup {"?"}, at : Kinds]

LineTypes ==
  /\ frame \in Registers /\ regs \in Registers
  /\ resp = 1 => name \in Names
  /\ kind \in Kinds
  /\ done \in Seq(Int \X Int)
  /\ out \in Seq(OutLines)

Last == done[Len(done)]
Printed == Cardinality(CallLines(Len(out)))

\* The registers at a stop after a call, and the copy that is printed, are of
\* the call the tracee made last.
LastCall ==
  /\ t = "exit" => done # << >> /\ Last = <<frame.orig_rax, frame.rax>>
  /\ pc = "stopped" /\ kind = "exit" => done # << >> /\ Last = <<regs.orig_rax, regs.rax>>
  /\ pc \in {"waited", "stopped", "resume"} /\ Stopped => kind = t

\* The begun line names the call the tracee is in.
Begins ==
  ~odd =>
    /\ pc = "stopped" /\ kind = "exit" =>
         regs.rax # -ENOSYS /\ (resp = 1 => name = SyscallToString(regs.orig_rax))
    /\ resp = 1 /\ pc \notin {"detach", "done"} /\ (Stopped \/ Running) =>
         name = SyscallToString(frame.orig_rax)

\* How many lines there are: one is missing exactly from the stop after a call
\* until its line is printed.
Counts ==
  ~odd =>
    /\ Printed <= Len(done) /\ Len(done) <= Printed + 1
    /\ pc = "stopped" /\ kind = "exit" => Len(done) = Printed + 1
    /\ Running \/ (Stopped /\ (t # "exit" \/ pc = "resume")) => Len(done) = Printed
    /\ t = "exit" /\ pc \in {"wait", "waited", "stopped"} => Len(done) = Printed + 1

Lines == LastCall /\ Begins /\ Counts /\ (~odd => Reported(Succeeded))
LineInv == LineTypes /\ Lines

\* The registers, the begun line and the two lists keep their types.
LEMMA InitLineTypes == ASSUME Init PROVE LineTypes
<1>1. frame \in Registers
  BY StraceAssumption DEF Init, Begun, Reg, Registers, EXECVE, EXIT, NoCall, ERESTARTSYS
<1>2. regs \in Registers
  BY StraceAssumption DEF Init, Reg, Registers, NoCall
<1>3. resp = 0 /\ done = << >> /\ out = << >> /\ kind = t
  BY DEF Init
<1>4. t \in Kinds
  BY DEF Init, Begun, Kinds
<1> QED BY <1>1, <1>2, <1>3, <1>4 DEF LineTypes

LEMMA CalledName == ASSUME Inv, LineTypes PROVE Called \in Names
BY DEF Called, Inv, TypeOK, LineTypes, Registers, Names

LEMMA ShownNumber == \A r \in Int : Shown(r) \in Int
BY DEF Shown

LEMMA LineTypesStep == ASSUME Inv, LineTypes, [Next]_vars PROVE LineTypes'
<1> USE StraceAssumption
    DEF LineTypes, tracee, tracer, log, env, Stop, TracerEnds, Printerror
<1>0. -ERESTARTSYS \in Int /\ -ENOSYS \in Int
  BY DEF ERESTARTSYS, ENOSYS
<1>1. ASSUME NEW c \in Calls, NEW a \in Args, Enter(c, a) PROVE LineTypes'
  BY <1>1 DEF Enter, Reg, Registers, ENOSYS
<1>2. ASSUME NEW r \in Rets, Returns(r) PROVE LineTypes'
  <2>1. frame' \in Registers
    BY <1>2 DEF Returns, Registers
  <2>2. done' \in Seq(Int \X Int)
    BY <1>2 DEF Returns, Registers
  <2> QED BY <1>2, <2>1, <2>2 DEF Returns
<1>3. CASE Interrupted
  <2>1. frame' \in Registers
    BY <1>3, <1>0 DEF Interrupted, Registers
  <2>2. done' \in Seq(Int \X Int)
    <3>1. <<frame.orig_rax, -ERESTARTSYS>> \in Int \X Int
      BY <1>0 DEF Registers
    <3> QED BY <1>3, <3>1 DEF Interrupted
  <2> QED BY <1>3, <2>1, <2>2 DEF Interrupted
<1>4. CASE Exits
  BY <1>4 DEF Exits
<1>5. CASE InterruptedStops
  BY <1>5 DEF InterruptedStops
<1>6. CASE Restarts
  <2>1. frame' \in Registers
    BY <1>6, <1>0 DEF Restarts, Registers
  <2> QED BY <1>6, <2>1 DEF Restarts
<1>7. CASE Killed
  BY <1>7 DEF Killed
<1>8. ASSUME NEW r \in Rets, Signalled(r) PROVE LineTypes'
  BY <1>8 DEF Signalled, Reg, Registers, NoCall
<1>9. ASSUME NEW a \in Args, OtherExits(a) PROVE LineTypes'
  BY <1>9 DEF OtherExits
<1>10. CASE WaitExited
  <2>1. [call |-> Called, value |-> "?", at |-> "end"] \in OutLines
    BY CalledName DEF OutLines, Kinds
  <2>2. out' \in Seq(OutLines)
    BY <1>10, <2>1 DEF WaitExited
  <2> QED BY <1>10, <2>2 DEF WaitExited
<1>11. CASE WaitStopped
  BY <1>11 DEF WaitStopped, Stopped, Kinds
<1>12. CASE GetRegs
  BY <1>12 DEF GetRegs
<1>13. CASE WaitKilled
  BY <1>13 DEF WaitKilled
<1>14. CASE PrintLine
  <2> DEFINE l == [call |-> Called, value |-> Shown(regs.rax), at |-> kind]
  <2>1. l \in OutLines
    BY CalledName, ShownNumber DEF OutLines, Registers
  <2>2. out' \in Seq(OutLines)
    <3>1. out' = out \/ out' = Append(out, l)
      BY <1>14 DEF PrintLine
    <3>2. out \in Seq(OutLines)
      OBVIOUS
    <3> HIDE DEF l, LineTypes, OutLines
    <3> QED BY <2>1, <3>1, <3>2
  <2>3. resp' = 1 => name' \in Names
    BY <1>14, CalledName DEF PrintLine
  <2> QED BY <1>14, <2>2, <2>3 DEF PrintLine
<1>15. CASE Resume
  BY <1>15 DEF Resume
<1>16. CASE Signal
  BY <1>16 DEF Signal
<1>17. CASE Detach
  BY <1>17 DEF Detach
<1>18. CASE UNCHANGED vars
  BY <1>18 DEF vars
<1> QED
  BY <1>1, <1>2, <1>3, <1>4, <1>5, <1>6, <1>7, <1>8, <1>9, <1>10, <1>11, <1>12,
     <1>13, <1>14, <1>15, <1>16, <1>17, <1>18
  DEF Next, Tracee, Outside, Tracer

\* The lines printed after calls are counted: one more line is one more exactly
\* if it was printed after a call.
LEMMA CountLines ==
  ASSUME out \in Seq(OutLines)
  PROVE  \A n \in 0 .. Len(out) :
           IsFiniteSet(CallLines(n)) /\ Cardinality(CallLines(n)) \in Nat
<1> TAKE n \in 0 .. Len(out)
<1>1. IsFiniteSet(1 .. n) /\ CallLines(n) \subseteq 1 .. n
  BY FS_Interval DEF CallLines
<1> QED BY <1>1, FS_Subset, FS_CardinalityType

LEMMA AddLine ==
  ASSUME out \in Seq(OutLines), NEW l \in OutLines, out' = Append(out, l)
  PROVE  /\ Len(out') = Len(out) + 1 /\ out'[Len(out')] = l
         /\ \A n \in 0 .. Len(out) : CallLines(n)' = CallLines(n)
         /\ \A n \in 1 .. Len(out) : out'[n] = out[n]
         /\ l.at = "exit" => Printed' = Printed + 1
         /\ l.at # "exit" => Printed' = Printed
<1>1. /\ Len(out') = Len(out) + 1 /\ out'[Len(out')] = l /\ Len(out) \in Nat
      /\ \A n \in 1 .. Len(out) : out'[n] = out[n]
  OBVIOUS
<1>2. \A n \in 0 .. Len(out) : CallLines(n)' = CallLines(n)
  BY <1>1 DEF CallLines
<1>3. ASSUME l.at = "exit" PROVE CallLines(Len(out))' = CallLines(Len(out)) \cup {Len(out) + 1}
  BY <1>1, <1>3 DEF CallLines
<1>4. ASSUME l.at # "exit" PROVE CallLines(Len(out))' = CallLines(Len(out))
  BY <1>1, <1>4 DEF CallLines
<1>5. Len(out) + 1 \notin CallLines(Len(out)) /\ IsFiniteSet(CallLines(Len(out)))
  BY <1>1, CountLines DEF CallLines
<1>6. l.at = "exit" => Printed' = Printed + 1
  BY <1>3, <1>5, FS_AddElement DEF Printed
<1>7. l.at # "exit" => Printed' = Printed
  BY <1>4 DEF Printed
<1> QED BY <1>1, <1>2, <1>6, <1>7

\* A call more leaves the lines that are printed as they are.
LEMMA ReportedGrows ==
  ASSUME LineTypes, Reported(Succeeded), out' = out, NEW e \in Int \X Int, done' = Append(done, e)
  PROVE  Reported(Succeeded)'
<1>1. Len(done') = Len(done) + 1 /\ \A k \in 1 .. Len(done) : done'[k] = done[k]
  BY DEF LineTypes
<1>2. \A n \in DOMAIN out : CallLines(n)' = CallLines(n)
  BY DEF CallLines
<1>3. \A n \in DOMAIN out : out[n].at = "exit" => Cardinality(CallLines(n)) \in 1 .. Len(done)
  <2> TAKE n \in DOMAIN out
  <2> HAVE out[n].at = "exit"
  <2>1. n \in 1 .. Len(out) /\ n \in CallLines(n)
    BY DEF CallLines, LineTypes
  <2>2. Cardinality(CallLines(n)) # 0 /\ Cardinality(CallLines(n)) \in Nat
    BY <2>1, CountLines, FS_EmptySet DEF LineTypes
  <2> QED BY <2>2 DEF Reported
<1> QED BY <1>1, <1>2, <1>3 DEF Reported

LEMMA InitLines == ASSUME Init PROVE Lines
<1>1. t \in {"signal", "zombie"}
  BY DEF Init, Begun
<1>2. pc = "wait" /\ resp = 0 /\ out = << >> /\ done = << >>
  BY DEF Init
<1>3. CallLines(0) = {} /\ Len(out) = 0 /\ Len(done) = 0 /\ DOMAIN out = {}
  BY <1>2 DEF CallLines
<1>4. Printed = 0
  BY <1>3, FS_EmptySet DEF Printed
<1> QED
  BY <1>1, <1>2, <1>3, <1>4 DEF Lines, LastCall, Begins, Counts, Reported, Stopped, Running

\* Calls that end: one more of them, and none of its line.
LEMMA CallEnds ==
  ASSUME Inv, LineInv, t = "kernel", NEW r \in Int,
         Stop("exit", [frame EXCEPT !.rax = r]),
         done' = Append(done, <<frame.orig_rax, r>>),
         UNCHANGED <<tracer, out, kind>>
  PROVE  Lines'
<1>1. /\ Len(done') = Len(done) + 1 /\ Len(done) \in Nat
      /\ done'[Len(done')] = <<frame.orig_rax, r>> /\ done' # << >>
  BY DEF LineInv, LineTypes
<1>2. /\ frame'.orig_rax = frame.orig_rax /\ frame'.rax = r
      /\ t' = "exit" /\ (~odd' => ~odd)
  BY DEF LineInv, LineTypes, Registers, Stop
<1>3. Printed' = Printed
  BY DEF Printed, CallLines
<1>4. pc \in {"wait", "detach", "done"} /\ pc' = pc
  BY DEF Inv, TypeOK, Waits, Running, tracer
<1>5. LastCall'
  BY <1>1, <1>2, <1>4 DEF LastCall, Last
<1>6. Begins'
  BY <1>2, <1>4 DEF LineInv, Lines, Begins, Running, tracer
<1>7. Counts'
  BY <1>1, <1>2, <1>3, <1>4 DEF LineInv, Lines, Counts, Running, Stopped
<1>8. ~odd' => Reported(Succeeded)'
  BY <1>2, ReportedGrows DEF LineInv, Lines, LineTypes, Registers
<1> QED BY <1>5, <1>6, <1>7, <1>8 DEF Lines

\* Steps that neither end a call nor print.
LEMMA NothingPrinted ==
  ASSUME UNCHANGED <<out, done>>
  PROVE  /\ Printed' = Printed /\ Last' = Last
         /\ Reported(Succeeded) => Reported(Succeeded)'
BY DEF Printed, CallLines, Reported, Last

LEMMA TraceeLines ==
  ASSUME Inv, LineInv, Tracee \/ Outside
  PROVE  Lines'
<1> USE DEF tracer, log, env
<1>a. Waits /\ Toggle /\ pc \in {"wait", "waited", "stopped", "resume", "detach", "done"}
  BY DEF Inv, TypeOK
<1>1. ASSUME NEW c \in Calls, NEW a \in Args, Enter(c, a) PROVE Lines'
  <2>1. t' = "enter" /\ frame' = Reg(c, -ENOSYS, a) /\ (~odd' => ~odd)
    BY <1>1 DEF Enter, Stop
  <2>2. /\ UNCHANGED <<tracer, kind, out, done>> /\ t = "user"
        /\ Printed' = Printed /\ Last' = Last /\ (Reported(Succeeded) => Reported(Succeeded)')
    BY <1>1, NothingPrinted DEF Enter
  <2> QED BY <1>a, <2>1, <2>2
    DEF LineInv, Lines, LastCall, Begins, Counts, Waits, Toggle, Stopped, Running
<1>2. ASSUME NEW r \in Rets, Returns(r) PROVE Lines'
  BY <1>2, CallEnds, StraceAssumption DEF Returns
<1>3. CASE Interrupted
  <2>1. -ERESTARTSYS \in Int
    BY DEF ERESTARTSYS
  <2> QED BY <1>3, <2>1, CallEnds DEF Interrupted
<1>4. CASE Exits
  BY <1>4, <1>a, NothingPrinted
  DEF Exits, LineInv, Lines, LastCall, Begins, Counts, Waits, Toggle, Stopped, Running
<1>5. CASE InterruptedStops
  <2>1. t' = "signal" /\ frame' = frame /\ (~odd' => ~odd)
    BY <1>5 DEF InterruptedStops, Stop
  <2>2. /\ UNCHANGED <<tracer, kind, out, done>> /\ t = "interrupted"
        /\ Printed' = Printed /\ Last' = Last /\ (Reported(Succeeded) => Reported(Succeeded)')
    BY <1>5, NothingPrinted DEF InterruptedStops
  <2> QED BY <1>a, <2>1, <2>2
    DEF LineInv, Lines, LastCall, Begins, Counts, Waits, Toggle, Stopped, Running
<1>6. CASE Restarts
  <2>1. t' = "enter" /\ frame' = [frame EXCEPT !.rax = -ENOSYS] /\ (~odd' => ~odd)
    BY <1>6 DEF Restarts, Stop
  <2>2. /\ UNCHANGED <<tracer, kind, out, done>> /\ t = "restart"
        /\ Printed' = Printed /\ Last' = Last /\ (Reported(Succeeded) => Reported(Succeeded)')
    BY <1>6, NothingPrinted DEF Restarts
  <2> QED BY <1>a, <2>1, <2>2
    DEF LineInv, Lines, LastCall, Begins, Counts, Waits, Toggle, Stopped, Running
<1>7. CASE Killed
  BY <1>7, <1>a, NothingPrinted
  DEF Killed, LineInv, Lines, LastCall, Begins, Counts, Waits, Toggle, Stopped, Running
<1>8. ASSUME NEW r \in Rets, Signalled(r) PROVE Lines'
  <2>1. t' = "signal" /\ frame.orig_rax = frame.orig_rax /\ (~odd' => ~odd)
    BY <1>8 DEF Signalled, Stop
  <2>2. /\ UNCHANGED <<tracer, kind, out, done>> /\ t = "user"
        /\ Printed' = Printed /\ Last' = Last /\ (Reported(Succeeded) => Reported(Succeeded)')
    BY <1>8, NothingPrinted DEF Signalled
  <2> QED BY <1>a, <2>1, <2>2
    DEF LineInv, Lines, LastCall, Begins, Counts, Waits, Toggle, Stopped, Running, Reg
<1>9. ASSUME NEW a \in Args, OtherExits(a) PROVE Lines'
  BY <1>9, <1>a, NothingPrinted
  DEF OtherExits, LineInv, Lines, LastCall, Begins, Counts, Waits, Toggle, Stopped, Running
<1> QED
  BY <1>1, <1>2, <1>3, <1>4, <1>5, <1>6, <1>7, <1>8, <1>9 DEF Tracee, Outside

\* PrintLine: the line is that of the call which ended last.
LEMMA PrintLines ==
  ASSUME Inv, LineInv, PrintLine
  PROVE  Lines'
<1> USE DEF LineInv, Lines
<1>1. /\ pc = "stopped" /\ pc' = "resume"
      /\ UNCHANGED <<t, frame, regs, kind, done, odd>>
  BY DEF PrintLine, tracee
<1>2. Stopped' = Stopped /\ Running' = Running /\ (Stopped => kind = t)
  BY <1>1 DEF Stopped, Running, LastCall
<1>3. CASE Before
  <2>1. resp' = 1 /\ name' = Called /\ out' = out
    BY <1>3 DEF PrintLine
  <2>2. ~odd => kind # "exit"
    BY <1>1, <1>3 DEF Begins, Before
  <2>3. LastCall'
    BY <1>1, <1>2 DEF LastCall, Last, Stopped
  <2>4. Begins'
    <3>1. ASSUME ~odd, Stopped PROVE resp = 0 /\ regs = frame
      BY <1>1, <1>2, <2>2, <3>1 DEF Inv, TypeOK, Toggle, Copied
    <3>2. ~Running
      BY <1>1 DEF Inv, Waits
    <3> QED BY <1>1, <1>2, <2>1, <3>1, <3>2 DEF Begins, Called
  <2>5. Printed' = Printed /\ (~odd' => Reported(Succeeded)')
    BY <1>1, <2>1, NothingPrinted
  <2>6. Counts'
    BY <1>1, <1>2, <2>2, <2>5 DEF Counts, Stopped
  <2> QED BY <2>3, <2>4, <2>5, <2>6
<1>4. CASE ~Before
  <2> DEFINE l == [call |-> Called, value |-> Shown(regs.rax), at |-> kind]
  <2>1. resp' = 0 /\ out' = Append(out, l)
    BY <1>4 DEF PrintLine
  <2>2. l \in OutLines /\ out \in Seq(OutLines)
    BY CalledName, ShownNumber DEF OutLines, LineTypes, Registers
  <2>3. l.at = kind
    OBVIOUS
  <2>4. /\ Len(out') = Len(out) + 1 /\ out'[Len(out')] = l
        /\ \A n \in 0 .. Len(out) : CallLines(n)' = CallLines(n)
        /\ \A n \in 1 .. Len(out) : out'[n] = out[n]
        /\ kind = "exit" => Printed' = Printed + 1
        /\ kind # "exit" => Printed' = Printed
    BY <2>1, <2>2, <2>3, AddLine
  <2>5. LastCall'
    BY <1>1, <1>2 DEF LastCall, Last, Stopped
  <2>6. Begins'
    BY <1>1, <2>1 DEF Begins
  <2>7. ~Running /\ (~odd => Printed <= Len(done)) /\ Printed \in Nat /\ Len(done) \in Nat
    BY <1>1, <2>2, CountLines DEF Inv, Waits, Counts, Printed, LineTypes
  <2>8. Counts'
    BY <1>1, <1>2, <2>4, <2>7 DEF Counts, Stopped
  <2>9. ASSUME ~odd PROVE Reported(Succeeded)'
    <3> SUFFICES ASSUME NEW n \in 1 .. Len(out'), out'[n].at = "exit"
                 PROVE  LET k == Cardinality(CallLines(n)') IN
                        /\ k <= Len(done')
                        /\ out'[n].call = SyscallToString(done'[k][1])
                        /\ Succeeded(out'[n].value, done'[k][2])
      BY <2>1, <2>2 DEF Reported
    <3>1. CASE n \in 1 .. Len(out)
      BY <1>1, <2>2, <2>4, <2>9, <3>1 DEF Reported
    <3>2. CASE n = Len(out')
      <4>1. kind = "exit" /\ Printed' = Len(done) /\ out'[n] = l
        BY <1>1, <2>3, <2>4, <2>7, <2>9, <3>2 DEF Counts
      <4>2. Cardinality(CallLines(n)') = Len(done)
        BY <3>2, <4>1 DEF Printed
      <4>3. Last = <<regs.orig_rax, regs.rax>> /\ Called = SyscallToString(regs.orig_rax)
        BY <1>1, <2>9, <4>1 DEF LastCall, Begins, Called
      <4>4. l.call = SyscallToString(Last[1]) /\ Succeeded(l.value, Last[2])
        <5>1. regs.rax >= 0 => Shown(regs.rax) = regs.rax
          BY DEF Shown, LineTypes, Registers
        <5> QED BY <4>1, <4>3, <5>1 DEF Succeeded
      <4> QED BY <1>1, <2>7, <4>1, <4>2, <4>4 DEF Last
    <3> QED BY <2>2, <2>4, <3>1, <3>2
  <2> QED BY <1>1, <2>5, <2>6, <2>8, <2>9
<1> QED BY <1>3, <1>4

\* The other steps of parent() and detach().
LEMMA TracerLines ==
  ASSUME Inv, LineInv, Tracer \/ Signal
  PROVE  Lines'
<1> USE DEF LineInv, Lines, tracee, tracer, log, env, TracerEnds, Printerror
<1>a. Waits /\ Toggle /\ Copied
  BY DEF Inv
<1>1. CASE WaitExited
  <2> DEFINE l == [call |-> Called, value |-> "?", at |-> "end"]
  <2>1. l \in OutLines /\ out \in Seq(OutLines) /\ l.at # "exit"
    BY CalledName DEF OutLines, LineTypes, Kinds
  <2>2. out' = Append(out, l) /\ done' = done /\ odd' = odd /\ pc' = "done" /\ t' = "reaped"
    BY <1>1 DEF WaitExited, Stopped, Running
  <2>3. /\ Len(out') = Len(out) + 1 /\ out'[Len(out')] = l
        /\ \A n \in 0 .. Len(out) : CallLines(n)' = CallLines(n)
        /\ \A n \in 1 .. Len(out) : out'[n] = out[n]
        /\ Printed' = Printed
    BY <2>1, <2>2, AddLine
  <2>4. LastCall' /\ Begins' /\ Counts'
    BY <2>2, <2>3 DEF LastCall, Begins, Counts, Stopped, Running
  <2>5. ASSUME ~odd PROVE Reported(Succeeded)'
    BY <2>1, <2>2, <2>3, <2>5 DEF Reported
  <2> QED BY <2>2, <2>4, <2>5
<1>2. CASE WaitStopped
  BY <1>2, <1>a, NothingPrinted DEF WaitStopped, LastCall, Begins, Counts, Stopped, Running
<1>3. CASE GetRegs
  <2>1. CASE Stopped
    BY <1>3, <1>a, <2>1, NothingPrinted
    DEF GetRegs, LastCall, Begins, Counts, Toggle, Stopped, Running, Inv, Marked
  <2>2. CASE ~Stopped
    BY <1>3, <1>a, <2>2, NothingPrinted DEF GetRegs, LastCall, Begins, Counts, Stopped, Running
  <2> QED BY <2>1, <2>2
<1>4. CASE WaitKilled
  BY <1>4, NothingPrinted DEF WaitKilled, LastCall, Begins, Counts, Stopped, Running
<1>5. CASE PrintLine
  BY <1>5, PrintLines
<1>6. CASE Resume
  BY <1>6, <1>a, NothingPrinted
  DEF Resume, ResumeTracee, Resumed, LastCall, Begins, Counts, Toggle, Stopped, Running
<1>7. CASE Signal
  BY <1>7, NothingPrinted DEF Signal, LastCall, Begins, Counts, Stopped, Running
<1>8. CASE Detach
  BY <1>8, NothingPrinted DEF Detach, LastCall, Begins, Counts, Stopped, Running
<1> QED BY <1>1, <1>2, <1>3, <1>4, <1>5, <1>6, <1>7, <1>8 DEF Tracer

-----------------------------------------------------------------------------
(* The theorems. *)

LEMMA InvHolds == Spec => []Inv
<1>1. Init => Inv
  BY InitTypes, InitSafe DEF Types, Safe, Inv
<1>2. Inv /\ [Next]_vars => Inv'
  <2> SUFFICES ASSUME Inv, [Next]_vars PROVE Inv'
    OBVIOUS
  <2>1. CASE UNCHANGED vars
    BY <2>1 DEF vars, tracee, tracer, log, env, Inv, TypeOK, RegsOK, Waits, Marked, Copied,
      Toggle, Status, ExitPassedOn, Stopped, Running
  <2>2. CASE Next
    BY <2>2, TypesStep, TraceeSafe, OutsideSafe, TracerSafe DEF Next, Types, Safe, Inv
  <2> QED BY <2>1, <2>2
<1> QED BY <1>1, <1>2, PTL DEF Spec

LEMMA LineInvHolds == Spec => []LineInv
<1>1. Init => LineInv
  BY InitLineTypes, InitLines DEF LineInv
<1>2. Inv /\ LineInv /\ [Next]_vars => LineInv'
  <2> SUFFICES ASSUME Inv, LineInv, [Next]_vars PROVE LineInv'
    OBVIOUS
  <2>1. LineTypes'
    BY LineTypesStep DEF LineInv
  <2>2. CASE Next
    BY <2>1, <2>2, TraceeLines, TracerLines DEF Next, LineInv
  <2>3. CASE UNCHANGED vars
    BY <2>1, <2>3, NothingPrinted DEF vars, tracee, tracer, log, env, LineInv, Lines,
      LastCall, Begins, Counts, Stopped, Running
  <2> QED BY <2>2, <2>3
<1> QED BY <1>1, <1>2, InvHolds, PTL DEF Spec

\* resp stays a flag, and a line that is begun has a name.
THEOREM TypeCorrect == Spec => []TypeOK
BY InvHolds, PTL DEF Inv

\* While rax was -ENOSYS only before calls, the one flag resp is enough to know
\* whether the tracee is in a call, over signals and repeated calls.
THEOREM KeepsStep == Spec => []InStep
<1>1. Inv => InStep
  BY DEF Inv, InStep, Toggle, Waits, Stopped, Running
<1> QED BY <1>1, InvHolds, PTL

\* The status of a tracee that exits by itself is passed on.
THEOREM StatusPassedOn == Spec => []ExitPassedOn
BY InvHolds, PTL DEF Inv

\* Every line printed after a call is that call, with its name and, if it
\* succeeded, its result, and at most the line of the last call is not printed
\* yet, while rax was -ENOSYS only before calls.
THEOREM EveryCallReported == Spec => []LinesMatch
<1>1. LineInv => LinesMatch
  <2> SUFFICES ASSUME LineInv, ~odd PROVE Reported(Succeeded) /\ Printed + 1 >= Len(done)
    BY DEF LinesMatch, Printed
  <2>1. Len(done) \in Nat /\ Printed \in Nat
    BY CountLines DEF LineInv, LineTypes, Printed
  <2> QED BY <2>1 DEF LineInv, Lines, Counts
<1> QED BY <1>1, LineInvHolds, PTL
=============================================================================
