-------------------------- MODULE CommandExecution --------------------------
(***************************************************************************)
(* One child command, as execution.py (execute_command) and               *)
(* bounded_subprocess.py (run_bounded_command) run it: the calling thread,*)
(* a reader thread per output pipe, the sampling thread of                *)
(* runtime_collector.py, the child's process tree and the kernel's pipes  *)
(* and signals.  The child leads a process group of its own; one of its   *)
(* descendants may leave the group, ignore SIGTERM, or keep the pipes     *)
(* open.  A KeyboardInterrupt may reach the calling thread at any step.    *)
(*                                                                         *)
(* Output is counted in units; Limit units of a stream are kept.          *)
(***************************************************************************)
EXTENDS Integers, FiniteSets

CONSTANTS Root,           \* the process Popen starts
          Descendants,    \* the children it may start in turn
          Streams,        \* its output pipes
          Limit,          \* units kept of a stream (capture_limit_bytes, max_output_bytes)
          PipeCapacity,   \* units the kernel buffers of a stream
          MaxWritten,     \* units the tree writes to a stream, at most
          MaxInterrupts   \* Ctrl-Cs, at most

ASSUME CommandAssumption ==
    /\ Root \notin Descendants
    /\ Limit \in Nat /\ PipeCapacity \in Nat /\ MaxWritten \in Nat /\ MaxInterrupts \in Nat

Procs == {Root} \cup Descendants

VARIABLES call,        \* the command: which function runs it, and how
          pc,          \* the calling thread
          proc,        \* the process tree
          rc,          \* the root's exit: "zero", "nonzero", "signal"; "none" before
          stream,      \* per stream: units in the pipe, written, kept; truncation; its reader
          taken,       \* the tree has read its standard input
          seen,        \* the processes the collector has sampled
          interrupted, \* execute_command's flag; run_bounded_command's timed_out
          interrupts,  \* Ctrl-Cs so far
          result       \* what the call returned

commandVars == <<call, pc, proc, rc, stream, taken, seen, interrupted, interrupts, result>>

-----------------------------------------------------------------------------
Calls ==
    [api : {"execute"}, limited : BOOLEAN, collector : {"off", "procfs", "unsupported"},
     input : {"none"}]
    \cup [api : {"bounded"}, limited : {TRUE}, collector : {"off"},
          input : {"none", "small", "large"}]

Absent == [phase |-> "none", group |-> FALSE, stubborn |-> FALSE, holds |-> FALSE]
FreshStream == [pipe |-> 0, written |-> 0, capture |-> 0, cut |-> FALSE, reader |-> "none"]
NoResult == [status |-> "none", signal |-> FALSE, launch_error |-> FALSE]

CommandInit ==
    /\ call \in Calls
    /\ pc = "idle"
    /\ proc = [p \in Procs |-> Absent]
    /\ rc = "none"
    /\ stream = [s \in Streams |-> FreshStream]
    /\ taken = FALSE
    /\ seen = {}
    /\ interrupted = FALSE
    /\ interrupts = 0
    /\ result = NoResult

\* A process of the tree that has not exited; one SIGTERM ends is "dying" first.
Alive(p) == proc[p].phase \in {"live", "dying"}
Holders == {p \in Procs : Alive(p) /\ proc[p].holds}
Ended == pc \in {"done", "raised"}

-----------------------------------------------------------------------------
\* Popen, with start_new_session; an OSError is execute_command's launch_error and
\* run_bounded_command's exception.
Launch ==
    /\ pc = "start"
    /\ \E stubborn \in BOOLEAN :
          proc' = [proc EXCEPT ![Root] =
                      [phase |-> "live", group |-> TRUE, stubborn |-> stubborn, holds |-> TRUE]]
    /\ pc' = "spawned"
    /\ UNCHANGED <<call, rc, stream, taken, seen, interrupted, interrupts, result>>

LaunchFails ==
    /\ pc = "start"
    /\ IF call.api = "execute"
       THEN /\ pc' = "done"
            /\ result' = [status |-> "failed", signal |-> FALSE, launch_error |-> TRUE]
       ELSE pc' = "raised" /\ UNCHANGED result
    /\ UNCHANGED <<call, proc, rc, stream, taken, seen, interrupted, interrupts>>

\* _sample: /proc of the root, a zombie's too, and of its running children.
Sampled ==
    seen \cup IF proc[Root].phase \in {"live", "dying"}
              THEN {p \in Procs : Alive(p)}
              ELSE {p \in {Root} : proc[p].phase = "zombie"}

\* ProcessRuntimeCollector.start: a first sample, then the sampling thread.
StartCollector ==
    /\ pc = "spawned"
    /\ seen' = IF call.collector = "procfs" THEN Sampled ELSE seen
    /\ pc' = "collecting"
    /\ UNCHANGED <<call, proc, rc, stream, taken, interrupted, interrupts, result>>

\* _run: the sampling thread, until finish() sets its event.
Sample ==
    /\ call.collector = "procfs"
    /\ pc \in {"collecting", "wait", "stopping", "kill", "reap", "join", "join_raise", "finish"}
    /\ seen' = Sampled
    /\ UNCHANGED <<call, pc, proc, rc, stream, taken, interrupted, interrupts, result>>

StartReaders ==
    /\ pc = "collecting"
    /\ stream' = [s \in Streams |-> [stream[s] EXCEPT !.reader = "reading"]]
    /\ pc' = IF call.input = "none" THEN "wait" ELSE "input"
    /\ UNCHANGED <<call, proc, rc, taken, seen, interrupted, interrupts, result>>

\* process.stdin.write: input the pipe buffers returns at once, more waits for the
\* tree to read it or to close its end (BrokenPipeError).
WriteInput ==
    /\ pc = "input"
    /\ call.input = "small" \/ taken \/ Holders = {}
    /\ pc' = "wait"
    /\ UNCHANGED <<call, proc, rc, stream, taken, seen, interrupted, interrupts, result>>

\* process.wait returns: the root is reaped.
WaitReturns ==
    /\ pc \in {"wait", "stopping", "reap"}
    /\ proc[Root].phase = "zombie"
    /\ proc' = [proc EXCEPT ![Root].phase = "gone"]
    /\ pc' = "join"
    /\ UNCHANGED <<call, rc, stream, taken, seen, interrupted, interrupts, result>>

\* process.wait(timeout=...) of a bounded command, and of a command being stopped.
WaitTimesOut ==
    /\ pc = "stopping" \/ (pc = "wait" /\ call.api = "bounded")
    /\ Alive(Root)
    /\ interrupted' = TRUE
    /\ pc' = "kill"
    /\ UNCHANGED <<call, proc, rc, stream, taken, seen, interrupts, result>>

\* Mutant: past its timeout the child is waited for again.
KillGroupSpares ==
    /\ pc = "kill"
    /\ pc' = "reap"
    /\ UNCHANGED <<call, proc, rc, stream, taken, seen, interrupted, interrupts, result>>

\* killpg(SIGKILL): whoever is still in the group is gone; the root awaits its reaping.
KillGroup ==
    /\ pc = "kill"
    /\ proc' = [p \in Procs |->
                   IF Alive(p) /\ proc[p].group
                   THEN [proc[p] EXCEPT !.phase = IF p = Root THEN "zombie" ELSE "gone"]
                   ELSE proc[p]]
    /\ rc' = IF Alive(Root) THEN "signal" ELSE rc
    /\ pc' = "reap"
    /\ UNCHANGED <<call, stream, taken, seen, interrupted, interrupts, result>>

\* Mutant: process.terminate(), to the child alone.
TerminatedRoot ==
    IF proc[Root].phase = "live" /\ ~proc[Root].stubborn
    THEN [proc EXCEPT ![Root].phase = "dying"]
    ELSE proc

\* killpg(SIGTERM): the members of the group that do not ignore it will exit.
Terminated ==
    [p \in Procs |->
        IF proc[p].phase = "live" /\ proc[p].group /\ ~proc[p].stubborn
        THEN [proc[p] EXCEPT !.phase = "dying"]
        ELSE proc[p]]

\* KeyboardInterrupt in the calling thread.  Only execute_command's wait handles it;
\* past that wait, `finally` still joins the readers, and then the exception leaves.
Interrupt ==
    /\ interrupts < MaxInterrupts
    /\ interrupts' = interrupts + 1
    /\ \/ /\ pc = "wait" /\ call.api = "execute"
          /\ interrupted' = TRUE
          /\ proc' = Terminated
          /\ pc' = "stopping"
       \/ /\ pc \in {"stopping", "kill", "reap"} \/ (pc = "wait" /\ call.api = "bounded")
          /\ pc' = "join_raise"
          /\ UNCHANGED <<proc, interrupted>>
       \/ /\ pc \in {"start", "spawned", "collecting", "input", "join", "join_raise", "finish"}
          /\ pc' = "raised"
          /\ UNCHANGED <<proc, interrupted>>
    /\ UNCHANGED <<call, rc, stream, taken, seen, result>>

\* _pump_stream and drain: a chunk of k units, of which what is left of the limit is kept.
Remaining(s, k) ==
    IF ~call.limited THEN k
    ELSE IF stream[s].capture < Limit THEN Limit - stream[s].capture ELSE 0

Read(s, k) ==
    /\ stream[s].reader = "reading"
    /\ k <= stream[s].pipe
    /\ stream' = [stream EXCEPT ![s].pipe = @ - k,
                                ![s].capture = @ + IF Remaining(s, k) < k
                                                   THEN Remaining(s, k) ELSE k,
                                ![s].cut = @ \/ Remaining(s, k) < k]
    /\ UNCHANGED <<call, pc, proc, rc, taken, seen, interrupted, interrupts, result>>

\* An empty read: nobody holds the other end, and the pipe is drained.
Eof(s) ==
    /\ stream[s].reader = "reading"
    /\ stream[s].pipe = 0
    /\ Holders = {}
    /\ stream' = [stream EXCEPT ![s].reader = "ended"]
    /\ UNCHANGED <<call, pc, proc, rc, taken, seen, interrupted, interrupts, result>>

\* Mutant: reader.join(timeout), whose return says nothing.
ReadersJoinedInTime == TRUE

\* reader.join() of every reader.
ReadersJoined ==
    \A s \in Streams : stream[s].reader = "ended"

Join ==
    /\ pc \in {"join", "join_raise"}
    /\ ReadersJoined
    /\ pc' = IF pc = "join" THEN "finish" ELSE "raised"
    /\ UNCHANGED <<call, proc, rc, stream, taken, seen, interrupted, interrupts, result>>

\* collector.finish() samples once more; the outcome follows the root's return code.
Finish ==
    /\ pc = "finish"
    /\ seen' = IF call.collector = "procfs" THEN Sampled ELSE seen
    /\ result' =
          IF call.api = "bounded"
          THEN [status |-> IF interrupted THEN "timed_out" ELSE rc, signal |-> FALSE,
                launch_error |-> FALSE]
          ELSE [status |-> IF interrupted THEN "interrupted"
                           ELSE IF rc = "zero" THEN "completed" ELSE "failed",
                signal |-> interrupted \/ rc = "signal",
                launch_error |-> FALSE]
    /\ pc' = "done"
    /\ UNCHANGED <<call, proc, rc, stream, taken, interrupted, interrupts>>

-----------------------------------------------------------------------------
\* The process tree: it writes, reads its input, forks and exits as it likes.
Write(s) ==
    /\ Holders # {}
    /\ stream[s].written < MaxWritten
    /\ stream[s].pipe < PipeCapacity
    /\ stream' = [stream EXCEPT ![s].pipe = @ + 1, ![s].written = @ + 1]
    /\ UNCHANGED <<call, pc, proc, rc, taken, seen, interrupted, interrupts, result>>

TakeInput ==
    /\ pc = "input" /\ ~taken
    /\ Holders # {}
    /\ taken' = TRUE
    /\ UNCHANGED <<call, pc, proc, rc, stream, seen, interrupted, interrupts, result>>

Fork(p) ==
    /\ proc[p].phase = "none"
    /\ proc[Root].phase = "live"
    /\ \E group, stubborn, holds \in BOOLEAN :
          proc' = [proc EXCEPT ![p] = [phase |-> "live", group |-> group, stubborn |-> stubborn,
                                    holds |-> holds]]
    /\ UNCHANGED <<call, pc, rc, stream, taken, seen, interrupted, interrupts, result>>

Exit(p) ==
    /\ Alive(p)
    /\ proc' = [proc EXCEPT ![p].phase = IF p = Root THEN "zombie" ELSE "gone"]
    /\ IF p = Root
       THEN rc' \in IF proc[p].phase = "dying" THEN {"signal"} ELSE {"zero", "nonzero", "signal"}
       ELSE UNCHANGED rc
    /\ UNCHANGED <<call, pc, stream, taken, seen, interrupted, interrupts, result>>

DyingExits(p) == proc[p].phase = "dying" /\ Exit(p)

-----------------------------------------------------------------------------
CallerStep ==
    \/ Launch \/ LaunchFails \/ StartCollector \/ StartReaders \/ WriteInput
    \/ WaitReturns \/ WaitTimesOut \/ KillGroup \/ Join \/ Finish

ReaderStep == \E s \in Streams : Eof(s) \/ \E k \in 1..PipeCapacity : Read(s, k)

TreeStep ==
    \/ TakeInput
    \/ \E s \in Streams : Write(s)
    \/ \E p \in Procs : Exit(p)
    \/ \E p \in Descendants : Fork(p)

CommandNext == CallerStep \/ ReaderStep \/ Interrupt \/ Sample \/ TreeStep

-----------------------------------------------------------------------------
CommandTypeOK ==
    /\ call \in Calls
    /\ pc \in {"idle", "start", "spawned", "collecting", "input", "wait", "stopping", "kill",
               "reap", "join", "join_raise", "finish", "done", "raised"}
    /\ proc \in [Procs -> [phase : {"none", "live", "dying", "zombie", "gone"},
                           group : BOOLEAN, stubborn : BOOLEAN, holds : BOOLEAN]]
    /\ rc \in {"none", "zero", "nonzero", "signal"}
    /\ stream \in [Streams -> [pipe : 0..PipeCapacity, written : 0..MaxWritten,
                               capture : 0..MaxWritten, cut : BOOLEAN,
                               reader : {"none", "reading", "ended"}]]
    /\ taken \in BOOLEAN /\ interrupted \in BOOLEAN
    /\ seen \subseteq Procs
    /\ interrupts \in 0..MaxInterrupts
    /\ result \in [status : {"none", "completed", "failed", "interrupted", "timed_out",
                             "zero", "nonzero", "signal"},
                   signal : BOOLEAN, launch_error : BOOLEAN]

\* When execute_command or run_bounded_command returns, each stream's capture holds
\* everything the whole process tree wrote up to the limit, and the truncation flag is set
\* exactly when there was more: the readers run beside the child, its descendants and the
\* signals, and only the joins order them before the result.  The telemetry covers the
\* root, however soon it exits: its first sample precedes whatever can reap it.
CaptureIsFaithful ==
    pc = "done" =>
        /\ \A s \in Streams :
              LET kept == IF call.limited /\ stream[s].written > Limit
                          THEN Limit ELSE stream[s].written
              IN  /\ stream[s].capture = kept
                  /\ stream[s].cut <=> stream[s].written > kept
        /\ call.collector = "procfs" /\ ~result.launch_error => Root \in seen

\* A command reported as interrupted leaves no member of its process group running unless
\* one of them ignores SIGTERM: the signal goes to the group, not to the child alone.
InterruptStopsGroup ==
    (pc = "done" /\ result.status = "interrupted"
     /\ ~\E p \in Procs : proc[p].group /\ proc[p].stubborn)
        => ~\E p \in Procs : proc[p].group /\ proc[p].phase = "live"

\* A live process that holds the pipes keeps the readers' join waiting for ever.
HeldOpen == pc \in {"join", "join_raise"} /\ Holders # {}

\* Once a bounded command waits for its child, or an interrupted one has been sent
\* SIGTERM, the call ends: by its timeout and SIGKILL at the latest.  The exception is a
\* process that keeps the pipes open while the readers are joined, a join without a
\* timeout: a descendant that outlives the child, in its group or not, or, after a second
\* Ctrl-C (the first, for a bounded command), the child itself.
CommandEnds ==
    [](pc = "stopping" \/ (pc = "wait" /\ call.api = "bounded")
         => <>(pc \in {"idle", "done", "raised"} \/ []HeldOpen))

=============================================================================
