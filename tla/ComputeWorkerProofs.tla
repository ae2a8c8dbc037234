------------------------- MODULE ComputeWorkerProofs ------------------------
(***************************************************************************)
(* Proofs about a command (CommandExecution) and the compute worker that   *)
(* runs it (ComputeWorker): for every process tree, every number of        *)
(* streams, limits, interrupts, edits and restarts of the job.             *)
(***************************************************************************)
EXTENDS ComputeWorker, AllocationProofs

-----------------------------------------------------------------------------
\* The command.

\* What a reader keeps of n units it has taken out of its pipe.
Kept(n) == IF call.limited /\ n > Limit THEN Limit ELSE n

\* The units in the pipe are those written and not yet read; a reader that has ended has
\* read everything, and nobody is left who could write more.
StreamInv ==
    \A s \in Streams :
        /\ stream[s].pipe <= stream[s].written
        /\ stream[s].capture = Kept(stream[s].written - stream[s].pipe)
        /\ stream[s].cut <=> stream[s].written - stream[s].pipe > stream[s].capture
        /\ stream[s].reader = "ended" => stream[s].pipe = 0 /\ Holders = {}

\* The root leads its group and holds the pipes; nothing runs or is written before it.
TreeInv ==
    /\ proc[Root].phase # "none" => proc[Root].group /\ proc[Root].holds
    /\ \A p \in Procs : proc[p].phase = "none" => ~proc[p].group
    /\ pc \in {"idle", "start"} =>
        /\ \A p \in Procs : proc[p].phase = "none"
        /\ \A s \in Streams : stream[s].pipe = 0
    /\ pc = "spawned" => proc[Root].phase \in {"live", "dying", "zombie"}

\* The joins order the readers before the result.
JoinInv ==
    /\ pc \in {"idle", "start", "spawned", "collecting"} =>
        \A s \in Streams : stream[s].reader = "none"
    /\ pc = "finish" => ReadersJoined
    /\ pc = "done" => \A s \in Streams : stream[s].pipe = 0

SeenInv ==
    call.collector = "procfs" =>
        /\ pc \in {"collecting", "input", "wait", "stopping", "kill", "reap", "join",
                   "join_raise", "finish"} => Root \in seen
        /\ pc = "done" /\ ~result.launch_error => Root \in seen

\* Once the group has been sent SIGTERM only a process that ignores it is live in it.
InterruptInv ==
    /\ pc \in {"idle", "start", "spawned", "collecting", "input"} => ~interrupted
    /\ pc = "stopping" => call.api = "execute" /\ interrupted
    /\ pc = "wait" /\ call.api = "execute" => ~interrupted
    /\ /\ call.api = "execute" /\ interrupted
       /\ \A p \in Procs : ~(proc[p].group /\ proc[p].stubborn)
       => \A p \in Procs : ~(proc[p].group /\ proc[p].phase = "live")

ResultInv ==
    pc = "done" =>
        /\ result.status = "interrupted" => call.api = "execute" /\ interrupted /\ result.signal
        /\ call.api = "execute" => result.status \in {"completed", "failed", "interrupted"}

CInv ==
    /\ CommandTypeOK /\ StreamInv /\ TreeInv /\ JoinInv /\ SeenInv /\ InterruptInv /\ ResultInv

\* A step of the calling or the sampling thread that touches neither tree nor pipes.
LEMMA ThreadStep ==
    ASSUME CInv, UNCHANGED <<call, proc, stream>>, CommandTypeOK',
           pc' \notin {"idle", "start", "spawned"},
           pc' = "collecting" => pc = "spawned" \/ pc = "collecting",
           pc' = "finish" => ReadersJoined,
           pc' = "done" => \A s \in Streams : stream[s].pipe = 0,
           SeenInv', InterruptInv', ResultInv'
    PROVE  CInv'
<1>1. StreamInv'
  BY DEF CInv, StreamInv, Kept, Holders, Alive
<1>2. TreeInv'
  BY DEF CInv, TreeInv
<1>3. JoinInv'
  BY DEF CInv, JoinInv, ReadersJoined
<1> QED
  BY <1>1, <1>2, <1>3 DEF CInv

Phases == {"none", "live", "dying", "zombie", "gone"}
ProcStates == [phase : Phases, group : BOOLEAN, stubborn : BOOLEAN, holds : BOOLEAN]

\* A step of the tree's processes: no process begins to hold the pipes unless one does, none
\* is revived, and no live one joins a group that has been told to end.
LEMMA TreeMove ==
    ASSUME CInv, UNCHANGED <<call, stream, seen, result, taken, interrupts>>,
           proc' \in [Procs -> ProcStates], rc' \in {"none", "zero", "nonzero", "signal"},
           Holders = {} => Holders' = {},
           proc'[Root].group = proc[Root].group, proc'[Root].holds = proc[Root].holds,
           proc'[Root].phase = "none" <=> proc[Root].phase = "none",
           \A p \in Procs : proc'[p].phase = "none" =>
               proc[p].phase = "none" /\ proc'[p].group = proc[p].group,
           pc \in {"idle", "start"} => UNCHANGED proc,
           pc = "spawned" => proc'[Root].phase \in {"live", "dying", "zombie"},
           InterruptInv',
           \/ UNCHANGED <<pc, interrupted>> /\ pc # "done"
           \/ pc' \in {"stopping", "reap", "join"} /\ interrupted' \in BOOLEAN
              /\ pc \in {"wait", "stopping", "kill", "reap"}
    PROVE  CInv'
<1>1. CommandTypeOK'
  BY DEF CInv, CommandTypeOK, ProcStates, Phases
<1>2. StreamInv'
  BY DEF CInv, StreamInv, Kept
<1>3. TreeInv'
  BY DEF CInv, TreeInv
<1>4. JoinInv' /\ SeenInv' /\ ResultInv'
  BY DEF CInv, JoinInv, ReadersJoined, SeenInv, ResultInv
<1> QED
  BY <1>1, <1>2, <1>3, <1>4 DEF CInv

LEMMA LaunchInv ==
    ASSUME CInv, Launch
    PROVE  CInv'
<1>1. PICK stubborn \in BOOLEAN :
        proc' = [proc EXCEPT ![Root] = [phase |-> "live", group |-> TRUE, stubborn |-> stubborn,
                                        holds |-> TRUE]]
  BY DEF Launch
<1>2. /\ UNCHANGED <<call, rc, stream, taken, seen, interrupted, interrupts, result>>
      /\ pc = "start" /\ pc' = "spawned" /\ Root \in Procs
  BY DEF Launch, Procs
<1>3. CommandTypeOK'
  BY <1>1, <1>2 DEF CInv, CommandTypeOK
<1>4. StreamInv' /\ JoinInv'
  BY <1>2 DEF CInv, StreamInv, Kept, JoinInv
<1>5. TreeInv'
  <2>1. /\ proc'[Root].group /\ proc'[Root].holds /\ proc'[Root].phase = "live"
        /\ \A p \in Procs \ {Root} : proc'[p] = proc[p]
    BY <1>1, <1>2 DEF CInv, CommandTypeOK
  <2> QED
    BY <1>2, <2>1 DEF CInv, TreeInv
<1>6. SeenInv' /\ InterruptInv' /\ ResultInv'
  BY <1>2 DEF CInv, SeenInv, InterruptInv, ResultInv
<1> QED
  BY <1>3, <1>4, <1>5, <1>6 DEF CInv

LEMMA LaunchFailsInv ==
    ASSUME CInv, LaunchFails
    PROVE  CInv'
<1>1. /\ UNCHANGED <<call, proc, rc, stream, taken, seen, interrupted, interrupts>>
      /\ pc = "start" /\ pc' \in {"done", "raised"}
      /\ pc' = "done" => result' = [status |-> "failed", signal |-> FALSE, launch_error |-> TRUE]
      /\ pc' # "done" => result' = result
  BY DEF LaunchFails
<1>2. CommandTypeOK'
  <2>1. result' \in [status : {"none", "completed", "failed", "interrupted", "timed_out",
                               "zero", "nonzero", "signal"},
                     signal : BOOLEAN, launch_error : BOOLEAN]
    <3>1. CASE pc' = "done"
      <4>1. result' = [status |-> "failed", signal |-> FALSE, launch_error |-> TRUE]
        BY <1>1, <3>1
      <4> QED
        BY <4>1
    <3>2. CASE pc' # "done"
      BY <1>1, <3>2 DEF CInv, CommandTypeOK
    <3> QED
      BY <3>1, <3>2
  <2> QED
    BY <1>1, <2>1 DEF CInv, CommandTypeOK
<1>3. SeenInv' /\ InterruptInv' /\ ResultInv'
  BY <1>1 DEF CInv, SeenInv, InterruptInv, ResultInv
<1>4. pc' = "done" => \A s \in Streams : stream[s].pipe = 0
  BY <1>1 DEF CInv, TreeInv
<1> QED
  BY <1>1, <1>2, <1>3, <1>4, ThreadStep

\* A sample keeps what was seen, and sees the root until it has been reaped.
LEMMA SampleSees ==
    ASSUME CInv
    PROVE  /\ seen \subseteq Sampled /\ Sampled \subseteq Procs
           /\ pc = "spawned" => Root \in Sampled
BY DEF CInv, CommandTypeOK, TreeInv, Sampled, Alive, Procs

LEMMA StartCollectorInv ==
    ASSUME CInv, StartCollector
    PROVE  CInv'
<1>1. /\ UNCHANGED <<call, proc, rc, stream, taken, interrupted, interrupts, result>>
      /\ pc = "spawned" /\ pc' = "collecting"
      /\ seen' = IF call.collector = "procfs" THEN Sampled ELSE seen
  BY DEF StartCollector
<1>2. CommandTypeOK'
  BY <1>1, SampleSees DEF CInv, CommandTypeOK
<1>3. SeenInv' /\ InterruptInv' /\ ResultInv'
  BY <1>1, SampleSees DEF CInv, SeenInv, InterruptInv, ResultInv
<1> QED
  BY <1>1, <1>2, <1>3, ThreadStep

LEMMA SampleInv ==
    ASSUME CInv, Sample
    PROVE  CInv'
<1>1. /\ UNCHANGED <<call, pc, proc, rc, stream, taken, interrupted, interrupts, result>>
      /\ pc \in {"collecting", "wait", "stopping", "kill", "reap", "join", "join_raise",
                 "finish"}
      /\ seen \subseteq seen' /\ seen' \subseteq Procs
  BY SampleSees DEF Sample
<1>2. CommandTypeOK'
  BY <1>1 DEF CInv, CommandTypeOK
<1>3. SeenInv' /\ InterruptInv' /\ ResultInv'
  BY <1>1 DEF CInv, SeenInv, InterruptInv, ResultInv
<1>4. pc = "finish" => ReadersJoined
  BY DEF CInv, JoinInv
<1> QED
  BY <1>1, <1>2, <1>3, <1>4, ThreadStep

LEMMA StartReadersInv ==
    ASSUME CInv, StartReaders
    PROVE  CInv'
<1>1. /\ UNCHANGED <<call, proc, rc, taken, seen, interrupted, interrupts, result>>
      /\ pc = "collecting" /\ pc' \in {"wait", "input"}
      /\ stream' = [s \in Streams |-> [stream[s] EXCEPT !.reader = "reading"]]
  BY DEF StartReaders
<1>2. \A s \in Streams : /\ stream'[s].reader = "reading" /\ stream'[s].pipe = stream[s].pipe
                         /\ stream'[s].written = stream[s].written
                         /\ stream'[s].capture = stream[s].capture
                         /\ stream'[s].cut = stream[s].cut
  BY <1>1 DEF CInv, CommandTypeOK
<1>3. CommandTypeOK'
  BY <1>1 DEF CInv, CommandTypeOK
<1>4. StreamInv'
  BY <1>1, <1>2 DEF CInv, StreamInv, Kept
<1>5. TreeInv' /\ JoinInv'
  BY <1>1 DEF CInv, TreeInv, JoinInv
<1>6. SeenInv' /\ InterruptInv' /\ ResultInv'
  BY <1>1 DEF CInv, SeenInv, InterruptInv, ResultInv
<1> QED
  BY <1>3, <1>4, <1>5, <1>6 DEF CInv

LEMMA WriteInputInv ==
    ASSUME CInv, WriteInput
    PROVE  CInv'
<1>1. /\ UNCHANGED <<call, proc, rc, stream, taken, seen, interrupted, interrupts, result>>
      /\ pc = "input" /\ pc' = "wait"
  BY DEF WriteInput
<1>2. CommandTypeOK'
  BY <1>1 DEF CInv, CommandTypeOK
<1>3. SeenInv' /\ InterruptInv' /\ ResultInv'
  BY <1>1 DEF CInv, SeenInv, InterruptInv, ResultInv
<1> QED
  BY <1>1, <1>2, <1>3, ThreadStep

LEMMA WaitTimesOutInv ==
    ASSUME CInv, WaitTimesOut
    PROVE  CInv'
<1>1. /\ UNCHANGED <<call, proc, rc, stream, taken, seen, interrupts, result>>
      /\ pc \in {"wait", "stopping"} /\ pc' = "kill" /\ interrupted' = TRUE
      /\ pc = "stopping" \/ call.api = "bounded"
  BY DEF WaitTimesOut
<1>2. CommandTypeOK'
  BY <1>1 DEF CInv, CommandTypeOK
<1>3. SeenInv' /\ ResultInv'
  BY <1>1 DEF CInv, SeenInv, ResultInv
<1>4. InterruptInv'
  BY <1>1 DEF CInv, InterruptInv
<1> QED
  BY <1>1, <1>2, <1>3, <1>4, ThreadStep

LEMMA JoinStepInv ==
    ASSUME CInv, Join
    PROVE  CInv'
<1>1. /\ UNCHANGED <<call, proc, rc, stream, taken, seen, interrupted, interrupts, result>>
      /\ pc \in {"join", "join_raise"} /\ pc' \in {"finish", "raised"} /\ ReadersJoined
  BY DEF Join
<1>2. CommandTypeOK'
  BY <1>1 DEF CInv, CommandTypeOK
<1>3. SeenInv' /\ InterruptInv' /\ ResultInv'
  BY <1>1 DEF CInv, SeenInv, InterruptInv, ResultInv
<1> QED
  BY <1>1, <1>2, <1>3, ThreadStep

\* The result is made of what has been drained and joined.
LEMMA FinishInv ==
    ASSUME CInv, Finish
    PROVE  CInv'
<1>1. /\ UNCHANGED <<call, proc, rc, stream, taken, interrupted, interrupts>>
      /\ pc = "finish" /\ pc' = "done"
      /\ seen \subseteq seen' /\ seen' \subseteq Procs
  BY SampleSees DEF Finish, CInv, CommandTypeOK
<1>2. /\ result' \in [status : {"none", "completed", "failed", "interrupted", "timed_out",
                                "zero", "nonzero", "signal"},
                      signal : BOOLEAN, launch_error : BOOLEAN]
      /\ ~result'.launch_error
      /\ call.api # "execute" => result'.status \in {"timed_out", rc}
      /\ call.api = "execute" => result'.status \in {"completed", "failed", "interrupted"}
      /\ result'.status = "interrupted" => call.api = "execute" /\ interrupted /\ result'.signal
  <2>1. call.api \in {"execute", "bounded"} /\ rc \in {"none", "zero", "nonzero", "signal"}
        /\ interrupted \in BOOLEAN
    BY DEF CInv, CommandTypeOK, Calls
  <2>2. CASE call.api = "bounded"
    <3>1. result' = [status |-> IF interrupted THEN "timed_out" ELSE rc, signal |-> FALSE,
                     launch_error |-> FALSE]
      BY <2>2 DEF Finish
    <3> QED
      BY <2>1, <2>2, <3>1
  <2>3. CASE call.api = "execute"
    <3>1. result' = [status |-> IF interrupted THEN "interrupted"
                                ELSE IF rc = "zero" THEN "completed" ELSE "failed",
                     signal |-> interrupted \/ rc = "signal", launch_error |-> FALSE]
      BY <2>3 DEF Finish
    <3>2. (interrupted \/ rc = "signal") \in BOOLEAN
      OBVIOUS
    <3> QED
      BY <2>1, <2>3, <3>1, <3>2
  <2> QED
    BY <2>1, <2>2, <2>3
<1>3. CommandTypeOK'
  BY <1>1, <1>2 DEF CInv, CommandTypeOK
<1>4. SeenInv' /\ InterruptInv' /\ ResultInv'
  BY <1>1, <1>2 DEF CInv, SeenInv, InterruptInv, ResultInv
<1>5. \A s \in Streams : stream[s].pipe = 0
  BY <1>1 DEF CInv, JoinInv, ReadersJoined, StreamInv
<1> QED
  BY <1>1, <1>3, <1>4, <1>5, ThreadStep

\* The readers.  A chunk of k units moves from the pipe to what was read.
LEMMA ReadInv ==
    ASSUME CInv, ~Ended, NEW s \in Streams, NEW k \in 1..PipeCapacity, Read(s, k)
    PROVE  CInv'
<1> DEFINE n == stream[s].written - stream[s].pipe
<1>0. /\ UNCHANGED <<call, pc, proc, rc, taken, seen, interrupted, interrupts, result>>
      /\ stream[s].reader = "reading" /\ k <= stream[s].pipe
  BY DEF Read
<1>1. /\ stream \in [Streams -> [pipe : 0..PipeCapacity, written : 0..MaxWritten,
                                 capture : 0..MaxWritten, cut : BOOLEAN,
                                 reader : {"none", "reading", "ended"}]]
      /\ Limit \in Nat /\ PipeCapacity \in Nat /\ MaxWritten \in Nat /\ k \in Nat /\ k >= 1
      /\ call.limited \in BOOLEAN
  <2>1. call.limited \in BOOLEAN
    BY DEF CInv, CommandTypeOK, Calls
  <2> QED
    BY <2>1, CommandAssumption DEF CInv, CommandTypeOK
<1>2. /\ stream'[s].pipe = stream[s].pipe - k
      /\ stream'[s].written = stream[s].written
      /\ stream'[s].capture = stream[s].capture + IF Remaining(s, k) < k
                                                  THEN Remaining(s, k) ELSE k
      /\ stream'[s].cut = (stream[s].cut \/ Remaining(s, k) < k)
      /\ stream'[s].reader = "reading"
      /\ \A t \in Streams \ {s} : stream'[t] = stream[t]
      /\ stream' \in [Streams -> [pipe : Int, written : 0..MaxWritten, capture : Int,
                                  cut : BOOLEAN, reader : {"none", "reading", "ended"}]]
  <2>1. Remaining(s, k) \in Int
    BY <1>1 DEF Remaining
  <2>2. PICK c \in Int : c = IF Remaining(s, k) < k THEN Remaining(s, k) ELSE k
    BY <1>1, <2>1
  <2>3. PICK t \in BOOLEAN : t = (stream[s].cut \/ Remaining(s, k) < k)
    OBVIOUS
  <2> DEFINE r == [stream[s] EXCEPT !.pipe = @ - k, !.capture = @ + c, !.cut = t]
  <2>4. stream' = [stream EXCEPT ![s] = r]
    BY <1>1, <2>2, <2>3 DEF Read
  <2>5. stream[s] \in [pipe : 0..PipeCapacity, written : 0..MaxWritten, capture : 0..MaxWritten,
                       cut : BOOLEAN, reader : {"none", "reading", "ended"}]
    BY <1>1
  <2>6. /\ r.pipe = stream[s].pipe - k /\ r.written = stream[s].written
        /\ r.capture = stream[s].capture + c /\ r.cut = t /\ r.reader = "reading"
    BY <1>0, <2>5
  <2>7. r \in [pipe : Int, written : 0..MaxWritten, capture : Int,
               cut : BOOLEAN, reader : {"none", "reading", "ended"}]
    <3>1. stream[s].pipe - k \in Int /\ stream[s].capture + c \in Int
      BY <1>1, <2>5
    <3>2. \A x, y \in Int, z \in BOOLEAN :
            [stream[s] EXCEPT !.pipe = x, !.capture = y, !.cut = z]
            \in [pipe : Int, written : 0..MaxWritten, capture : Int,
                cut : BOOLEAN, reader : {"none", "reading", "ended"}]
      BY <2>5
    <3> QED
      BY <3>1, <3>2
  <2> HIDE DEF r
  <2> QED
    BY <1>1, <2>2, <2>3, <2>4, <2>6, <2>7
<1>3. /\ stream[s].pipe <= stream[s].written /\ stream[s].capture = Kept(n)
      /\ stream[s].cut <=> n > stream[s].capture
  BY DEF CInv, StreamInv
<1>4. /\ stream'[s].capture = Kept(n + k)
      /\ (stream[s].cut \/ Remaining(s, k) < k) <=> n + k > stream'[s].capture
  <2>1. CASE ~call.limited
    BY <1>0, <1>1, <1>2, <1>3, <2>1 DEF Kept, Remaining
  <2>2. CASE call.limited
    BY <1>0, <1>1, <1>2, <1>3, <2>2 DEF Kept, Remaining
  <2> QED
    BY <1>1, <2>1, <2>2
<1>5. /\ n + k = stream'[s].written - stream'[s].pipe
      /\ 0 <= stream'[s].pipe /\ stream'[s].pipe <= stream'[s].written
      /\ stream'[s].pipe <= PipeCapacity
      /\ 0 <= stream'[s].capture /\ stream'[s].capture <= MaxWritten
  BY <1>0, <1>1, <1>2, <1>3, <1>4 DEF Kept
<1>6. StreamInv'
  <2>1. ASSUME NEW t \in Streams PROVE StreamInv!(t)'
    <3>1. CASE t = s
      BY <1>0, <1>2, <1>4, <1>5, <3>1 DEF Kept
    <3>2. CASE t # s
      BY <1>0, <1>2, <3>2 DEF CInv, StreamInv, Kept, Holders, Alive
    <3> QED
      BY <3>1, <3>2
  <2> QED
    BY <2>1 DEF StreamInv
<1>7. CommandTypeOK'
  <2>1. stream' \in [Streams -> [pipe : 0..PipeCapacity, written : 0..MaxWritten,
                                 capture : 0..MaxWritten, cut : BOOLEAN,
                                 reader : {"none", "reading", "ended"}]]
    BY <1>1, <1>2, <1>5
  <2> QED
    BY <1>0, <2>1 DEF CInv, CommandTypeOK
<1>8. TreeInv' /\ JoinInv'
  BY <1>0, <1>1, <1>2, <1>3 DEF CInv, TreeInv, JoinInv, ReadersJoined, Ended
<1>9. SeenInv' /\ InterruptInv' /\ ResultInv'
  BY <1>0 DEF CInv, SeenInv, InterruptInv, ResultInv
<1> QED
  BY <1>6, <1>7, <1>8, <1>9 DEF CInv

LEMMA EofInv ==
    ASSUME CInv, ~Ended, NEW s \in Streams, Eof(s)
    PROVE  CInv'
<1>0. /\ UNCHANGED <<call, pc, proc, rc, taken, seen, interrupted, interrupts, result>>
      /\ stream[s].reader = "reading" /\ stream[s].pipe = 0 /\ Holders = {}
      /\ stream' = [stream EXCEPT ![s].reader = "ended"]
  BY DEF Eof
<1>1. CommandTypeOK'
  BY <1>0 DEF CInv, CommandTypeOK
<1>2. \A t \in Streams : /\ stream'[t].pipe = stream[t].pipe
                         /\ stream'[t].written = stream[t].written
                         /\ stream'[t].capture = stream[t].capture
                         /\ stream'[t].cut = stream[t].cut
                         /\ stream'[t].reader = IF t = s THEN "ended" ELSE stream[t].reader
  BY <1>0 DEF CInv, CommandTypeOK
<1>3. StreamInv'
  <2>1. Holders' = Holders
    BY <1>0 DEF Holders, Alive
  <2> QED
    BY <1>0, <1>2, <2>1 DEF CInv, StreamInv, Kept
<1>4. TreeInv' /\ JoinInv'
  BY <1>0, <1>2 DEF CInv, TreeInv, JoinInv, ReadersJoined
<1>5. SeenInv' /\ InterruptInv' /\ ResultInv'
  BY <1>0 DEF CInv, SeenInv, InterruptInv, ResultInv
<1> QED
  BY <1>1, <1>3, <1>4, <1>5 DEF CInv

\* The tree writes only while somebody holds the pipes, that is, before any reader ends.
LEMMA WriteInv ==
    ASSUME CInv, ~Ended, NEW s \in Streams, Write(s)
    PROVE  CInv'
<1>0. /\ UNCHANGED <<call, pc, proc, rc, taken, seen, interrupted, interrupts, result>>
      /\ Holders # {} /\ stream[s].written < MaxWritten /\ stream[s].pipe < PipeCapacity
      /\ stream' = [stream EXCEPT ![s].pipe = @ + 1, ![s].written = @ + 1]
  BY DEF Write
<1>1. /\ stream \in [Streams -> [pipe : 0..PipeCapacity, written : 0..MaxWritten,
                                 capture : 0..MaxWritten, cut : BOOLEAN,
                                 reader : {"none", "reading", "ended"}]]
      /\ PipeCapacity \in Nat /\ MaxWritten \in Nat
  BY CommandAssumption DEF CInv, CommandTypeOK
<1>2. CommandTypeOK'
  <2>1. stream' \in [Streams -> [pipe : 0..PipeCapacity, written : 0..MaxWritten,
                                 capture : 0..MaxWritten, cut : BOOLEAN,
                                 reader : {"none", "reading", "ended"}]]
    BY <1>0, <1>1
  <2> QED
    BY <1>0, <2>1 DEF CInv, CommandTypeOK
<1>3. \A t \in Streams : /\ stream'[t].capture = stream[t].capture
                         /\ stream'[t].cut = stream[t].cut
                         /\ stream'[t].reader = stream[t].reader
                         /\ t # s => stream'[t] = stream[t]
  BY <1>0, <1>1
<1>4. stream'[s].pipe = stream[s].pipe + 1 /\ stream'[s].written = stream[s].written + 1
  BY <1>0, <1>1
<1>5. \A t \in Streams : /\ stream'[t].written - stream'[t].pipe = stream[t].written - stream[t].pipe
                         /\ stream'[t].pipe <= stream'[t].written <=> stream[t].pipe <= stream[t].written
  BY <1>1, <1>3, <1>4
<1>6. \A t \in Streams : stream[t].reader # "ended"
  BY <1>0 DEF CInv, StreamInv
<1>7. StreamInv'
  BY <1>0, <1>3, <1>5, <1>6 DEF CInv, StreamInv, Kept
<1>8. pc \notin {"idle", "start"}
  BY <1>0 DEF CInv, TreeInv, Holders, Alive
<1>9. TreeInv' /\ JoinInv'
  BY <1>0, <1>3, <1>6, <1>8 DEF CInv, TreeInv, JoinInv, ReadersJoined, Ended
<1>10. SeenInv' /\ InterruptInv' /\ ResultInv'
  BY <1>0 DEF CInv, SeenInv, InterruptInv, ResultInv
<1> QED
  BY <1>2, <1>7, <1>9, <1>10 DEF CInv

LEMMA TakeInputInv ==
    ASSUME CInv, TakeInput
    PROVE  CInv'
<1>1. /\ UNCHANGED <<call, pc, proc, rc, stream, seen, interrupted, interrupts, result>>
      /\ pc = "input" /\ taken' = TRUE
  BY DEF TakeInput
<1>2. CommandTypeOK'
  BY <1>1 DEF CInv, CommandTypeOK
<1>3. SeenInv' /\ InterruptInv' /\ ResultInv'
  BY <1>1 DEF CInv, SeenInv, InterruptInv, ResultInv
<1> QED
  BY <1>1, <1>2, <1>3, ThreadStep

\* The process tree and the signals.
LEMMA WaitReturnsInv ==
    ASSUME CInv, WaitReturns
    PROVE  CInv'
<1>1. /\ UNCHANGED <<call, rc, stream, taken, seen, interrupted, interrupts, result>>
      /\ pc \in {"wait", "stopping", "reap"} /\ pc' = "join" /\ Root \in Procs
      /\ proc[Root].phase = "zombie" /\ proc' = [proc EXCEPT ![Root].phase = "gone"]
  BY DEF WaitReturns, Procs
<1>2. /\ proc \in [Procs -> ProcStates] /\ rc \in {"none", "zero", "nonzero", "signal"}
      /\ interrupted \in BOOLEAN
  BY DEF CInv, CommandTypeOK, ProcStates, Phases
<1>3. /\ proc' \in [Procs -> ProcStates]
      /\ proc'[Root].phase = "gone" /\ proc'[Root].group = proc[Root].group
      /\ proc'[Root].stubborn = proc[Root].stubborn /\ proc'[Root].holds = proc[Root].holds
      /\ \A p \in Procs \ {Root} : proc'[p] = proc[p]
  BY <1>1, <1>2 DEF ProcStates, Phases
<1>4. Holders = {} => Holders' = {}
  BY <1>1, <1>3 DEF Holders, Alive
<1>5. InterruptInv'
  BY <1>1, <1>3 DEF CInv, InterruptInv
<1> QED
  BY <1>1, <1>2, <1>3, <1>4, <1>5, TreeMove

LEMMA KillGroupInv ==
    ASSUME CInv, KillGroup
    PROVE  CInv'
<1>1. /\ UNCHANGED <<call, stream, taken, seen, interrupted, interrupts, result>>
      /\ pc = "kill" /\ pc' = "reap" /\ Root \in Procs
      /\ rc' \in {"signal", rc}
  BY DEF KillGroup, Procs
<1>2. /\ proc \in [Procs -> ProcStates] /\ rc \in {"none", "zero", "nonzero", "signal"}
      /\ interrupted \in BOOLEAN
  BY DEF CInv, CommandTypeOK, ProcStates, Phases
<1>3. /\ proc' \in [Procs -> ProcStates]
      /\ \A p \in Procs : /\ \/ proc'[p].phase = proc[p].phase
                             \/ Alive(p) /\ proc'[p].phase \in {"zombie", "gone"}
                          /\ proc'[p].group = proc[p].group /\ proc'[p].holds = proc[p].holds
                          /\ proc'[p].stubborn = proc[p].stubborn
  <2>1. proc' = [p \in Procs |->
                    IF Alive(p) /\ proc[p].group
                    THEN [proc[p] EXCEPT !.phase = IF p = Root THEN "zombie" ELSE "gone"]
                    ELSE proc[p]]
    BY DEF KillGroup
  <2>2. ASSUME NEW p \in Procs
        PROVE  /\ proc'[p] \in ProcStates
               /\ \/ proc'[p].phase = proc[p].phase
                  \/ Alive(p) /\ proc'[p].phase \in {"zombie", "gone"}
               /\ proc'[p].group = proc[p].group /\ proc'[p].holds = proc[p].holds
               /\ proc'[p].stubborn = proc[p].stubborn
    <3>1. proc[p] \in ProcStates
      BY <1>2
    <3>2. CASE Alive(p) /\ proc[p].group
      <4>1. PICK x \in {"zombie", "gone"} : proc'[p] = [proc[p] EXCEPT !.phase = x]
        BY <2>1, <3>2
      <4> QED
        BY <3>1, <3>2, <4>1 DEF ProcStates, Phases
    <3>3. CASE ~(Alive(p) /\ proc[p].group)
      BY <2>1, <3>1, <3>3
    <3> QED
      BY <3>2, <3>3
  <2> QED
    BY <2>1, <2>2
<1>4. Holders = {} => Holders' = {}
  BY <1>3 DEF Holders, Alive
<1>5. proc'[Root].phase = "none" <=> proc[Root].phase = "none"
  BY <1>1, <1>3 DEF Alive
<1>6. InterruptInv'
  BY <1>1, <1>3 DEF CInv, InterruptInv
<1> QED
  BY <1>1, <1>2, <1>3, <1>4, <1>5, <1>6, TreeMove

LEMMA ExitInv ==
    ASSUME CInv, ~Ended, NEW p \in Procs, Exit(p)
    PROVE  CInv'
<1>1. /\ UNCHANGED <<call, pc, stream, taken, seen, interrupted, interrupts, result>>
      /\ Alive(p) /\ Root \in Procs /\ pc # "done"
  BY DEF Exit, Procs, Ended
<1>2. /\ proc \in [Procs -> ProcStates] /\ rc \in {"none", "zero", "nonzero", "signal"}
      /\ interrupted \in BOOLEAN
  BY DEF CInv, CommandTypeOK, ProcStates, Phases
<1>3. rc' \in {"none", "zero", "nonzero", "signal"}
  BY <1>2 DEF Exit
<1>4. PICK x \in {"zombie", "gone"} :
        proc' = [proc EXCEPT ![p].phase = x] /\ (p = Root => x = "zombie")
  BY DEF Exit
<1>5. /\ proc' \in [Procs -> ProcStates]
      /\ proc'[p].phase = x
      /\ \A q \in Procs : /\ q # p => proc'[q].phase = proc[q].phase
                          /\ proc'[q].group = proc[q].group /\ proc'[q].holds = proc[q].holds
                          /\ proc'[q].stubborn = proc[q].stubborn
  BY <1>2, <1>4 DEF ProcStates, Phases
<1>6. Holders = {} => Holders' = {}
  BY <1>4, <1>5 DEF Holders, Alive
<1>7. /\ proc'[Root].phase = "none" <=> proc[Root].phase = "none"
      /\ pc = "spawned" => proc'[Root].phase \in {"live", "dying", "zombie"}
  BY <1>1, <1>4, <1>5 DEF Alive, CInv, TreeInv
<1>8. pc \notin {"idle", "start"}
  BY <1>1 DEF CInv, TreeInv, Alive
<1>9. InterruptInv'
  BY <1>1, <1>4, <1>5 DEF CInv, InterruptInv
<1> QED
  BY <1>1, <1>2, <1>3, <1>5, <1>6, <1>7, <1>8, <1>9, TreeMove

\* A root that is told to end forks no more; one that is not is stubborn.
LEMMA ForkInv ==
    ASSUME CInv, ~Ended, NEW p \in Descendants, Fork(p)
    PROVE  CInv'
<1>1. /\ UNCHANGED <<call, pc, rc, stream, taken, seen, interrupted, interrupts, result>>
      /\ proc[Root].phase = "live" /\ Root \in Procs /\ p \in Procs /\ p # Root
      /\ pc # "done"
  BY CommandAssumption DEF Fork, Procs, Ended
<1>2. /\ proc \in [Procs -> ProcStates] /\ rc \in {"none", "zero", "nonzero", "signal"}
      /\ interrupted \in BOOLEAN
  BY DEF CInv, CommandTypeOK, ProcStates, Phases
<1>3. PICK s \in ProcStates : proc' = [proc EXCEPT ![p] = s] /\ s.phase = "live"
  <2>1. PICK group, stubborn, holds \in BOOLEAN :
          proc' = [proc EXCEPT ![p] = [phase |-> "live", group |-> group, stubborn |-> stubborn,
                                       holds |-> holds]]
    BY DEF Fork
  <2>2. [phase |-> "live", group |-> group, stubborn |-> stubborn, holds |-> holds] \in ProcStates
    BY DEF ProcStates, Phases
  <2> QED
    BY <2>1, <2>2
<1>4. /\ proc' \in [Procs -> ProcStates] /\ proc'[p] = s
      /\ \A q \in Procs \ {p} : proc'[q] = proc[q]
  BY <1>1, <1>2, <1>3
<1>5. proc[Root].group /\ proc[Root].holds
  BY <1>1 DEF CInv, TreeInv
<1>6. Holders # {}
  BY <1>1, <1>5 DEF Holders, Alive
<1>7. proc[p].phase = "none" /\ pc \notin {"idle", "start"}
  BY <1>1 DEF Fork, CInv, TreeInv
<1>8. InterruptInv'
  <2>1. ASSUME call.api = "execute", interrupted,
               \A q \in Procs : ~(proc'[q].group /\ proc'[q].stubborn)
        PROVE  FALSE
    <3>1. proc[p].group /\ proc[p].stubborn
      <4>1. \E q \in Procs : proc[q].group /\ proc[q].stubborn
        BY <1>1, <1>5, <2>1 DEF CInv, InterruptInv
      <4> QED
        BY <1>4, <2>1, <4>1
    <3> QED
      BY <1>1, <1>7, <3>1 DEF CInv, TreeInv
  <2> QED
    BY <1>1, <2>1 DEF CInv, InterruptInv
<1>9. UNCHANGED <<pc, interrupted>>
  BY <1>1
<1> QED
  BY <1>1, <1>2, <1>3, <1>4, <1>6, <1>7, <1>8, <1>9, TreeMove

LEMMA InterruptStep ==
    ASSUME CInv, Interrupt
    PROVE  CInv'
<1>0. /\ UNCHANGED <<call, rc, stream, taken, seen, result>>
      /\ interrupts' \in 0..MaxInterrupts
  BY CommandAssumption DEF Interrupt, CInv, CommandTypeOK
<1>1. CASE /\ pc = "wait" /\ call.api = "execute" /\ interrupted' = TRUE
           /\ proc' = Terminated /\ pc' = "stopping"
  <2>1. proc \in [Procs -> ProcStates] /\ Root \in Procs
    BY DEF CInv, CommandTypeOK, ProcStates, Phases, Procs
  <2>2. ASSUME NEW p \in Procs
        PROVE  /\ proc'[p] \in ProcStates
               /\ \/ proc'[p].phase = proc[p].phase
                  \/ proc[p].phase = "live" /\ proc'[p].phase = "dying"
               /\ proc'[p].group = proc[p].group /\ proc'[p].holds = proc[p].holds
               /\ proc'[p].stubborn = proc[p].stubborn
               /\ proc'[p].phase = "live" /\ proc'[p].group => proc'[p].stubborn
    <3>1. proc[p] \in ProcStates
      BY <2>1
    <3>2. CASE proc[p].phase = "live" /\ proc[p].group /\ ~proc[p].stubborn
      <4>1. proc'[p] = [proc[p] EXCEPT !.phase = "dying"]
        BY <1>1, <3>2 DEF Terminated
      <4> QED
        BY <3>1, <3>2, <4>1 DEF ProcStates, Phases
    <3>3. CASE ~(proc[p].phase = "live" /\ proc[p].group /\ ~proc[p].stubborn)
      BY <1>1, <3>1, <3>3 DEF Terminated
    <3> QED
      BY <3>2, <3>3
  <2>3. proc' \in [Procs -> ProcStates]
    BY <1>1, <2>2 DEF Terminated
  <2>4. Holders = {} => Holders' = {}
    BY <2>2 DEF Holders, Alive
  <2>5. CommandTypeOK'
    BY <1>0, <1>1, <2>3 DEF CInv, CommandTypeOK, ProcStates, Phases
  <2>6. StreamInv'
    BY <1>0, <2>4 DEF CInv, StreamInv, Kept
  <2>7. TreeInv'
    BY <1>0, <1>1, <2>1, <2>2 DEF CInv, TreeInv
  <2>8. JoinInv' /\ SeenInv' /\ ResultInv'
    BY <1>0, <1>1 DEF CInv, JoinInv, SeenInv, ResultInv
  <2>9. InterruptInv'
    BY <1>0, <1>1, <2>2 DEF InterruptInv
  <2> QED
    BY <2>5, <2>6, <2>7, <2>8, <2>9 DEF CInv
<1>2. CASE /\ pc' \in {"join_raise", "raised"} /\ UNCHANGED <<proc, interrupted>>
           /\ pc' = "join_raise" => pc \in {"stopping", "kill", "reap", "wait"}
  <2>1. CommandTypeOK'
    BY <1>0, <1>2 DEF CInv, CommandTypeOK
  <2>2. SeenInv' /\ InterruptInv' /\ ResultInv'
    BY <1>0, <1>2 DEF CInv, SeenInv, InterruptInv, ResultInv
  <2> QED
    BY <1>0, <1>2, <2>1, <2>2, ThreadStep
<1> QED
  BY <1>1, <1>2 DEF Interrupt

\* A command that has not been called, or whose locals are gone.
Fresh ==
    /\ call \in Calls
    /\ result \in [status : {"none", "completed", "failed", "interrupted", "timed_out",
                             "zero", "nonzero", "signal"},
                   signal : BOOLEAN, launch_error : BOOLEAN]
    /\ pc = "idle" /\ proc = [p \in Procs |-> Absent] /\ rc = "none"
    /\ stream = [s \in Streams |-> FreshStream] /\ taken = FALSE /\ seen = {}
    /\ interrupted = FALSE /\ interrupts = 0

LEMMA FreshInv == Fresh => CInv
<1> SUFFICES ASSUME Fresh PROVE CInv
  OBVIOUS
<1> USE DEF Fresh
<1>1. /\ \A p \in Procs : proc[p].phase = "none" /\ ~proc[p].group
      /\ Root \in Procs
      /\ proc \in [Procs -> [phase : {"none", "live", "dying", "zombie", "gone"},
                             group : BOOLEAN, stubborn : BOOLEAN, holds : BOOLEAN]]
  BY DEF Absent, Procs
<1>2. /\ \A s \in Streams : /\ stream[s].pipe = 0 /\ stream[s].written = 0
                            /\ stream[s].capture = 0 /\ ~stream[s].cut
                            /\ stream[s].reader = "none"
      /\ stream \in [Streams -> [pipe : 0..PipeCapacity, written : 0..MaxWritten,
                                 capture : 0..MaxWritten, cut : BOOLEAN,
                                 reader : {"none", "reading", "ended"}]]
  BY CommandAssumption DEF FreshStream
<1>3. CommandTypeOK
  <2>1. taken \in BOOLEAN /\ interrupted \in BOOLEAN /\ seen \subseteq Procs
    OBVIOUS
  <2>2. interrupts \in 0..MaxInterrupts
    BY CommandAssumption
  <2> QED
    BY <1>1, <1>2, <2>1, <2>2 DEF CommandTypeOK
<1>4. StreamInv
  BY <1>2, CommandAssumption DEF StreamInv, Kept
<1>5. TreeInv /\ JoinInv
  BY <1>1, <1>2 DEF TreeInv, JoinInv
<1>6. SeenInv /\ InterruptInv /\ ResultInv
  BY DEF SeenInv, InterruptInv, ResultInv
<1> QED
  BY <1>3, <1>4, <1>5, <1>6 DEF CInv

LEMMA CommandNextInv ==
    ASSUME CInv, ~Ended, CommandNext
    PROVE  CInv'
<1>1. CASE CallerStep
  BY <1>1, LaunchInv, LaunchFailsInv, StartCollectorInv, StartReadersInv, WriteInputInv,
     WaitReturnsInv, WaitTimesOutInv, KillGroupInv, JoinStepInv, FinishInv DEF CallerStep
<1>2. CASE ReaderStep
  BY <1>2, EofInv, ReadInv DEF ReaderStep
<1>3. CASE TreeStep
  BY <1>3, TakeInputInv, WriteInv, ExitInv, ForkInv DEF TreeStep
<1> QED
  BY <1>1, <1>2, <1>3, InterruptStep, SampleInv DEF CommandNext

LEMMA CommandIsFaithful == CInv => CaptureIsFaithful /\ InterruptStopsGroup
<1> SUFFICES ASSUME CInv PROVE CaptureIsFaithful /\ InterruptStopsGroup
  OBVIOUS
<1>1. ASSUME pc = "done", NEW s \in Streams
      PROVE  LET kept == IF call.limited /\ stream[s].written > Limit
                         THEN Limit ELSE stream[s].written
             IN  /\ stream[s].capture = kept
                 /\ stream[s].cut <=> stream[s].written > kept
  <2>1. /\ stream[s].pipe = 0 /\ stream[s].written \in Nat
        /\ stream[s].capture = Kept(stream[s].written - stream[s].pipe)
        /\ stream[s].cut <=> stream[s].written - stream[s].pipe > stream[s].capture
    BY <1>1, CommandAssumption DEF CInv, JoinInv, StreamInv, CommandTypeOK
  <2>2. stream[s].written - stream[s].pipe = stream[s].written
    BY <2>1
  <2> QED
    BY <2>1, <2>2 DEF Kept
<1>2. CaptureIsFaithful
  BY <1>1 DEF CInv, SeenInv, CaptureIsFaithful
<1>3. InterruptStopsGroup
  BY DEF CInv, ResultInv, InterruptInv, InterruptStopsGroup
<1> QED
  BY <1>2, <1>3

-----------------------------------------------------------------------------
\* The worker.

FileStates == [kind : FileKinds, data : [1..2 -> Nat], size : Nat, mtime : 0..MaxEdits]
HashStates == [pc : {"idle", "hash"}, size : Nat, mtime : Nat, digest : Seq(Nat)]

\* The phases of the three callers; what has been published in this start of the job.
ControlInv ==
    /\ caller = "bounded" <=> call.api = "bounded"
    /\ caller = "bounded" => phase = "command"
    /\ caller = "run" => phase \in {"command", "capture", "assess", "exited"}
    /\ phase \notin {"command", "exited"} => pc = "idle"
    /\ phase \notin {"exited", "killed"} => published < incarnation
    /\ phase \in {"capture", "assess"} =>
        /\ result.status \in {"completed", "failed", "interrupted"}
        /\ result.status = "interrupted" => result.signal

\* While the file has the time of modification of the first stat, what has been hashed is
\* what it holds.
HashInv ==
    /\ file \in FileStates /\ hashing \in HashStates
    /\ hashing.pc = "idle" => hashing.digest = <<>>
    /\ hashing.pc = "hash" =>
        /\ phase = "capture" /\ hashing.mtime <= file.mtime
        /\ hashing.mtime = file.mtime =>
            \A i \in 1..Len(hashing.digest) : hashing.digest[i] = file.data[i]

ArtifactInv ==
    artifact.existence = "present" /\ artifact.status = "complete"
        => artifact.digest = artifact.data

\* The result being written, or just published, follows from the records it was made of.
Reporting ==
    phase \in {"encode", "publish", "link"} \/ (phase = "exited" /\ published = incarnation)

FullReport ==
    /\ report.state = result.status
    /\ result.status \in {"completed", "failed", "interrupted"}
    /\ result.status = "interrupted" => result.signal
    /\ report.cwd \in {"canonical", "symlinked"}
    /\ report.met \subseteq report.checks \ {"output_exists"}
    /\ report.verification = Aggregate(report.checks, report.met)
    /\ report.unavailable = IF report.mode = "summary" THEN Unavailable(report.inputs) ELSE {}
    /\ report.termination = TerminationEvidence(report.mode, report.verification)

ReportInv == Reporting => report.state = "preflight_failed" \/ FullReport

ExitStatusInv ==
    caller = "worker" /\ phase = "exited" /\ exit = 0
        => published = incarnation /\ report.state = "completed"

WInv ==
    /\ CInv /\ WorkerTypeOK /\ ControlInv /\ HashInv /\ ArtifactInv /\ ReportInv
    /\ ExitStatusInv

LEMMA CommandStays ==
    ASSUME CInv, UNCHANGED commandVars
    PROVE  CInv'
<1>1. UNCHANGED call /\ UNCHANGED pc /\ UNCHANGED proc /\ UNCHANGED rc /\ UNCHANGED stream
      /\ UNCHANGED taken /\ UNCHANGED seen /\ UNCHANGED interrupted /\ UNCHANGED interrupts
      /\ UNCHANGED result
  BY DEF commandVars
<1>2. CommandTypeOK'
  BY <1>1 DEF CInv, CommandTypeOK
<1>3. StreamInv' /\ TreeInv' /\ JoinInv'
  BY <1>1 DEF CInv, StreamInv, Kept, Holders, Alive, TreeInv, JoinInv, ReadersJoined
<1>4. SeenInv' /\ InterruptInv' /\ ResultInv'
  BY <1>1 DEF CInv, SeenInv, InterruptInv, ResultInv
<1> QED
  BY <1>2, <1>3, <1>4 DEF CInv

\* A step of the worker outside of the command and the capture.
LEMMA PhaseStep ==
    ASSUME WInv, UNCHANGED <<commandVars, caller, file, hashing, artifact>>,
           phase # "capture", WorkerTypeOK', ControlInv', ReportInv', ExitStatusInv'
    PROVE  WInv'
<1>1. CInv'
  BY CommandStays DEF WInv
<1>2. HashInv'
  BY DEF WInv, HashInv
<1>3. ArtifactInv'
  BY DEF WInv, ArtifactInv
<1> QED
  BY <1>1, <1>2, <1>3 DEF WInv

\* The type invariant without the parts that only few steps touch.
LEMMA WorkerTypes ==
    ASSUME WInv
    PROVE  /\ incarnation \in Nat /\ published \in Nat /\ published <= incarnation
           /\ incarnation >= 1 /\ incarnation <= MaxIncarnations
           /\ MaxIncarnations \in Nat
BY WorkerAssumption DEF WInv, WorkerTypeOK

LEMMA FailInv ==
    ASSUME WInv, Fail, phase \notin {"command", "capture", "exited", "killed"}
    PROVE  WInv'
<1>1. /\ UNCHANGED <<commandVars, caller, incarnation, alloc, output, file, hashing, artifact,
                     report, leftover, published, saved, imported>>
      /\ phase' = "exited" /\ exit' = 70
  BY DEF Fail
<1>2. WorkerTypeOK'
  BY <1>1 DEF WInv, WorkerTypeOK, CommandTypeOK, commandVars
<1>3. ControlInv'
  BY <1>1 DEF WInv, ControlInv, commandVars
<1>4. ReportInv' /\ ExitStatusInv'
  BY <1>1, WorkerTypes DEF WInv, ControlInv, ReportInv, Reporting, ExitStatusInv
<1> QED
  BY <1>1, <1>2, <1>3, <1>4, PhaseStep

LEMMA LoadInv ==
    ASSUME WInv, Load
    PROVE  WInv'
<1>1. CASE Fail
  BY <1>1, FailInv DEF Load
<1>2. CASE ~Fail
  <2>1. /\ UNCHANGED <<commandVars, caller, incarnation, alloc, output, file, hashing, artifact,
                       report, leftover, published, saved, exit, imported>>
        /\ phase = "load" /\ phase' = "preflight"
    BY <1>2 DEF Load
  <2>2. WorkerTypeOK'
    BY <2>1 DEF WInv, WorkerTypeOK, CommandTypeOK, commandVars
  <2>3. ControlInv'
    BY <2>1 DEF WInv, ControlInv, commandVars
  <2>4. ReportInv' /\ ExitStatusInv'
    BY <2>1 DEF ReportInv, Reporting, ExitStatusInv
  <2> QED
    BY <2>1, <2>2, <2>3, <2>4, PhaseStep
<1> QED
  BY <1>1, <1>2

LEMMA PreflightInv ==
    ASSUME WInv, Preflight
    PROVE  WInv'
<1>0. phase = "preflight"
  BY DEF Preflight
<1>1. CASE Fail
  BY <1>0, <1>1, FailInv
<1>2. CASE ~Fail
  <2>1. /\ UNCHANGED <<commandVars, caller, incarnation, output, file, hashing, artifact,
                       leftover, published, saved, exit, imported>>
        /\ phase' \in {"command", "publish"}
        /\ alloc' \in MisreadAllocations \cup {NoAlloc}
        /\ report'.state \in {report.state, "preflight_failed"}
        /\ phase' = "publish" => report'.state = "preflight_failed"
    BY <1>2 DEF Preflight, WInv, WorkerTypeOK
  <2>2. WorkerTypeOK'
    BY <2>1 DEF WInv, WorkerTypeOK, CommandTypeOK, commandVars
  <2>3. ControlInv'
    BY <1>0, <2>1 DEF WInv, ControlInv, commandVars
  <2>4. ReportInv' /\ ExitStatusInv'
    BY <2>1 DEF ReportInv, Reporting, ExitStatusInv
  <2> QED
    BY <1>0, <2>1, <2>2, <2>3, <2>4, PhaseStep
<1> QED
  BY <1>1, <1>2

\* While the command runs, the worker has nothing else.
LEMMA CommandPhase ==
    ASSUME WInv, phase = "command", UNCHANGED workerVars, UNCHANGED call, CInv'
    PROVE  WInv'
<1>1. UNCHANGED <<caller, phase, incarnation, alloc, output, file, hashing, artifact, report,
                  leftover, published, saved, exit, imported>>
  BY DEF workerVars
<1>2. WorkerTypeOK'
  BY <1>1 DEF WInv, WorkerTypeOK, CInv
<1>3. ControlInv' /\ HashInv' /\ ArtifactInv'
  BY <1>1 DEF WInv, ControlInv, HashInv, ArtifactInv
<1>4. ReportInv' /\ ExitStatusInv'
  BY <1>1 DEF ReportInv, Reporting, ExitStatusInv
<1> QED
  BY <1>2, <1>3, <1>4 DEF WInv

LEMMA CallInv ==
    ASSUME WInv, Call
    PROVE  WInv'
<1>1. /\ UNCHANGED <<call, proc, rc, stream, taken, seen, interrupted, interrupts, result>>
      /\ UNCHANGED workerVars /\ phase = "command" /\ pc = "idle" /\ pc' = "start"
  BY DEF Call
<1>2. CommandTypeOK'
  BY <1>1 DEF WInv, CInv, CommandTypeOK
<1>3. StreamInv' /\ TreeInv' /\ JoinInv'
  BY <1>1 DEF WInv, CInv, StreamInv, Kept, Holders, Alive, TreeInv, JoinInv
<1>4. SeenInv' /\ InterruptInv' /\ ResultInv'
  BY <1>1 DEF WInv, CInv, SeenInv, InterruptInv, ResultInv
<1> QED
  BY <1>1, <1>2, <1>3, <1>4, CommandPhase DEF CInv

LEMMA CommandStepInv ==
    ASSUME WInv, CommandStep
    PROVE  WInv'
<1>1. CInv'
  BY CommandNextInv DEF WInv, CommandStep, Running
<1>2. UNCHANGED call
  BY DEF CommandStep, CommandNext, CallerStep, ReaderStep, TreeStep, Interrupt, Sample, Launch,
         LaunchFails, StartCollector, StartReaders, WriteInput, WaitReturns, WaitTimesOut,
         KillGroup, Join, Finish, Eof, Read, TakeInput, Write, Exit, Fork
<1> QED
  BY <1>1, <1>2, CommandPhase DEF CommandStep, Running

LEMMA CommandReturnsInv ==
    ASSUME WInv, CommandReturns
    PROVE  WInv'
<1>1. /\ UNCHANGED <<call, result, caller, incarnation, alloc, hashing, artifact, report,
                     leftover, published, saved, exit, imported>>
      /\ phase = "command" /\ pc = "done" /\ caller # "bounded" /\ phase' = "capture"
      /\ output' = [s \in Streams |-> stream[s].capture]
      /\ file' \in {[NoFile EXCEPT !.kind = k] : k \in FileKinds}
      /\ Forget
  BY DEF CommandReturns
<1>2. /\ call \in Calls
      /\ result \in [status : {"none", "completed", "failed", "interrupted", "timed_out",
                               "zero", "nonzero", "signal"},
                     signal : BOOLEAN, launch_error : BOOLEAN]
      /\ \A s \in Streams : stream[s].capture \in 0..MaxWritten
  BY DEF WInv, CInv, CommandTypeOK
<1>3. CInv'
  <2>1. Fresh' => CInv'
    BY FreshInv, PTL
  <2>2. Fresh'
    BY <1>1, <1>2 DEF Fresh, Forget
  <2> QED
    BY <2>1, <2>2
<1>4. file' \in FileStates /\ file'.mtime = 0
  <2>1. <<0, 0>> \in [1..2 -> Nat]
    OBVIOUS
  <2>2. PICK k \in FileKinds : file' = [NoFile EXCEPT !.kind = k]
    BY <1>1
  <2>3. NoFile \in FileStates /\ NoFile.mtime = 0
    BY <2>1, WorkerAssumption DEF NoFile, FileStates, FileKinds
  <2> QED
    BY <2>2, <2>3 DEF FileStates
<1>5. WorkerTypeOK'
  <2>1. output' \in [Streams -> 0..MaxWritten]
    BY <1>1, <1>2
  <2> QED
    BY <1>1, <1>3, <1>4, <2>1 DEF WInv, WorkerTypeOK, CInv, FileStates
<1>6. ControlInv'
  <2>1. call.api \in {"execute", "bounded"}
    BY <1>2 DEF Calls
  <2> QED
    BY <1>1, <2>1 DEF WInv, ControlInv, CInv, ResultInv, Forget
<1>7. HashInv'
  BY <1>1, <1>4 DEF WInv, HashInv
<1>8. ArtifactInv' /\ ReportInv' /\ ExitStatusInv'
  BY <1>1 DEF WInv, ArtifactInv, ReportInv, Reporting, ExitStatusInv
<1> QED
  BY <1>3, <1>5, <1>6, <1>7, <1>8 DEF WInv

LEMMA CommandRaisesInv ==
    ASSUME WInv, CommandRaises
    PROVE  WInv'
<1>1. /\ UNCHANGED <<commandVars, caller, incarnation, alloc, output, file, hashing, artifact,
                     report, leftover, published, saved, imported>>
      /\ phase = "command" /\ caller # "bounded" /\ phase' = "exited" /\ exit' = 1
  BY DEF CommandRaises
<1>2. WorkerTypeOK'
  BY <1>1 DEF WInv, WorkerTypeOK, CommandTypeOK, commandVars
<1>3. ControlInv'
  BY <1>1 DEF WInv, ControlInv, commandVars
<1>4. ReportInv' /\ ExitStatusInv'
  BY <1>1, WorkerTypes DEF WInv, ControlInv, ReportInv, Reporting, ExitStatusInv
<1> QED
  BY <1>1, <1>2, <1>3, <1>4, PhaseStep

LEMMA NothingCaptured == NoFile \in FileStates /\ NotHashing \in HashStates
<1>1. <<0, 0>> \in [1..2 -> Nat]
  OBVIOUS
<1> QED
  BY <1>1, WorkerAssumption DEF NoFile, FileStates, FileKinds, NotHashing, HashStates

\* The capture ends with a record of the file.
LEMMA CapturedInv ==
    ASSUME WInv, phase = "capture", NEW existence \in {"missing", "unknown", "present"},
           NEW status \in {"complete", "unreadable", "unsupported", "changed"},
           Captured(existence, status),
           UNCHANGED <<commandVars, caller, incarnation, alloc, output, report, leftover,
                       published, saved, exit, imported>>,
           existence = "present" /\ status = "complete" => hashing.digest = file.data
    PROVE  WInv'
<1>1. /\ artifact'.existence = existence /\ artifact'.status = status
      /\ status = "complete" => artifact'.digest = hashing.digest /\ artifact'.data = file.data
      /\ hashing' = NotHashing /\ file' = NoFile /\ phase' = "assess"
  BY DEF Captured
<1>2. NotHashing \in HashStates /\ NotHashing.pc = "idle" /\ NotHashing.digest = <<>>
  BY DEF NotHashing, HashStates
<1>3. NoFile \in FileStates
  <2>1. <<0, 0>> \in [1..2 -> Nat]
    OBVIOUS
  <2> QED
    BY <2>1, WorkerAssumption DEF NoFile, FileStates, FileKinds
<1>4. CInv'
  BY CommandStays DEF WInv
<1>5. WorkerTypeOK'
  <2>1. Len(hashing'.digest) <= 2
    BY <1>1, <1>2
  <2> QED
    BY <1>1, <1>2, <1>3, <1>4, <2>1 DEF WInv, WorkerTypeOK, CInv, FileStates
<1>6. ControlInv'
  BY <1>1 DEF WInv, ControlInv, commandVars
<1>7. HashInv'
  BY <1>1, <1>2, <1>3 DEF HashInv
<1>8. ArtifactInv'
  BY <1>1 DEF ArtifactInv
<1>9. ReportInv' /\ ExitStatusInv'
  BY <1>1 DEF ReportInv, Reporting, ExitStatusInv
<1> QED
  BY <1>4, <1>5, <1>6, <1>7, <1>8, <1>9 DEF WInv

\* The file is hashed, or edited while it is.
LEMMA HashingInv ==
    ASSUME WInv, phase = "capture", HashInv',
           UNCHANGED <<commandVars, caller, phase, incarnation, alloc, output, artifact, report,
                       leftover, published, saved, exit, imported>>,
           Len(hashing'.digest) <= 2
    PROVE  WInv'
<1>1. CInv'
  BY CommandStays DEF WInv
<1>2. WorkerTypeOK'
  BY <1>1 DEF WInv, WorkerTypeOK, CInv, HashInv, FileStates, HashStates
<1>3. ControlInv'
  BY DEF WInv, ControlInv, commandVars
<1>4. ArtifactInv' /\ ReportInv' /\ ExitStatusInv'
  BY DEF WInv, ArtifactInv, ReportInv, Reporting, ExitStatusInv
<1> QED
  BY <1>1, <1>2, <1>3, <1>4 DEF WInv

LEMMA StatBeforeInv ==
    ASSUME WInv, StatBefore
    PROVE  WInv'
<1>0. /\ phase = "capture" /\ hashing.pc = "idle"
      /\ UNCHANGED <<commandVars, caller, incarnation, alloc, output, report, leftover,
                     published, saved, exit, imported>>
      /\ file \in FileStates
  BY DEF StatBefore, WInv, HashInv
<1>1. CASE Captured("missing", "complete")
  BY <1>0, <1>1, CapturedInv
<1>2. CASE Captured("unknown", "unreadable")
  BY <1>0, <1>2, CapturedInv
<1>3. CASE Captured("present", "unsupported")
  BY <1>0, <1>3, CapturedInv
<1>4. CASE /\ hashing' = [pc |-> "hash", size |-> file.size, mtime |-> file.mtime,
                          digest |-> <<>>]
           /\ UNCHANGED <<file, artifact, phase>>
  <2>1. /\ hashing' \in HashStates /\ hashing'.pc = "hash" /\ hashing'.mtime = file.mtime
        /\ hashing'.digest = <<>> /\ Len(hashing'.digest) = 0
    BY <1>0, <1>4, WorkerAssumption DEF FileStates, HashStates
  <2>2. HashInv'
    BY <1>0, <1>4, <2>1, WorkerAssumption DEF HashInv, FileStates
  <2> QED
    BY <1>0, <1>4, <2>1, <2>2, HashingInv
<1> QED
  BY <1>1, <1>2, <1>3, <1>4 DEF StatBefore

LEMMA HashChunkInv ==
    ASSUME WInv, HashChunk
    PROVE  WInv'
<1>0. /\ hashing.pc = "hash" /\ phase = "capture" /\ Len(hashing.digest) < 2
      /\ UNCHANGED <<commandVars, caller, incarnation, alloc, output, report, leftover,
                     published, saved, exit, imported>>
      /\ file \in FileStates /\ hashing \in HashStates
  BY DEF HashChunk, WInv, HashInv
<1>1. CASE Captured("present", "unreadable")
  BY <1>0, <1>1, CapturedInv
<1>2. CASE /\ hashing' = [hashing EXCEPT !.digest = Append(@, file.data[Len(@) + 1])]
           /\ UNCHANGED <<file, artifact, phase>>
  <2> DEFINE d == hashing.digest
             x == file.data[Len(d) + 1]
  <2>1. d \in Seq(Nat) /\ Len(d) \in {0, 1} /\ x \in Nat
    <3>1. d \in Seq(Nat) /\ file.data \in [1..2 -> Nat]
      BY <1>0 DEF FileStates, HashStates
    <3>2. Len(d) \in Nat /\ Len(d) < 2
      BY <1>0, <3>1
    <3>3. Len(d) \in {0, 1} /\ Len(d) + 1 \in 1..2
      <4>1. \A n \in Nat : n < 2 => n \in {0, 1} /\ n + 1 \in 1..2
        OBVIOUS
      <4> QED
        BY <3>2, <4>1
    <3> QED
      BY <3>1, <3>3
  <2>2. /\ Append(d, x) \in Seq(Nat) /\ Len(Append(d, x)) = Len(d) + 1
        /\ \A i \in 1..Len(d) : Append(d, x)[i] = d[i]
        /\ Append(d, x)[Len(d) + 1] = x
    BY <2>1
  <2>3. /\ hashing' \in HashStates /\ hashing'.pc = "hash" /\ hashing'.mtime = hashing.mtime
        /\ hashing'.digest = Append(d, x)
    BY <1>0, <1>2, <2>2 DEF HashStates
  <2>4. HashInv'
    <3>1. ASSUME hashing.mtime = file.mtime, NEW i \in 1..(Len(d) + 1)
          PROVE  Append(d, x)[i] = file.data[i]
      BY <1>0, <2>1, <2>2, <3>1 DEF WInv, HashInv
    <3> QED
      BY <1>0, <1>2, <2>2, <2>3, <3>1 DEF WInv, HashInv
  <2>5. Len(hashing'.digest) <= 2
    BY <2>1, <2>2, <2>3
  <2> QED
    BY <1>0, <1>2, <2>4, <2>5, HashingInv
<1> QED
  BY <1>1, <1>2 DEF HashChunk

LEMMA StatAfterInv ==
    ASSUME WInv, StatAfter
    PROVE  WInv'
<1>0. /\ hashing.pc = "hash" /\ phase = "capture" /\ Len(hashing.digest) = 2
      /\ UNCHANGED <<commandVars, caller, incarnation, alloc, output, report, leftover,
                     published, saved, exit, imported>>
      /\ file \in FileStates /\ hashing \in HashStates
  BY DEF StatAfter, WInv, HashInv
<1>1. CASE Captured("present", "unreadable")
  BY <1>0, <1>1, CapturedInv
<1>2. CASE Captured("present", "changed")
  BY <1>0, <1>2, CapturedInv
<1>3. CASE Captured("present", "complete") /\ ~Changed
  <2>1. \A i \in 1..2 : hashing.digest[i] = file.data[i]
    BY <1>0, <1>3 DEF WInv, HashInv, Changed
  <2>2. hashing.digest \in [1..2 -> Nat] /\ file.data \in [1..2 -> Nat]
    <3>1. hashing.digest \in Seq(Nat) /\ file.data \in [1..2 -> Nat]
      BY <1>0 DEF FileStates, HashStates
    <3>2. \A s \in Seq(Nat) : s \in [1..Len(s) -> Nat]
      OBVIOUS
    <3>3. hashing.digest \in [1..Len(hashing.digest) -> Nat]
      BY <3>1, <3>2
    <3> QED
      BY <1>0, <3>1, <3>3
  <2>3. hashing.digest = file.data
    BY <2>1, <2>2
  <2> QED
    BY <1>0, <1>3, <2>3, CapturedInv
<1> QED
  BY <1>1, <1>2, <1>3 DEF StatAfter

\* An edit gives the file a later time than the first stat saw.
LEMMA EditFileInv ==
    ASSUME WInv, EditFile
    PROVE  WInv'
<1>0. /\ hashing.pc = "hash" /\ phase = "capture" /\ file.mtime < MaxEdits
      /\ UNCHANGED <<commandVars, caller, phase, incarnation, alloc, output, hashing, artifact,
                     report, leftover, published, saved, exit, imported>>
      /\ file \in FileStates /\ hashing \in HashStates /\ hashing.mtime <= file.mtime
  BY DEF EditFile, WInv, HashInv
<1>1. /\ file.mtime \in Nat /\ file.mtime + 1 \in 0..MaxEdits /\ file.size \in Nat
      /\ file.data \in [1..2 -> Nat] /\ hashing.mtime \in Nat
  BY <1>0, WorkerAssumption DEF FileStates, HashStates
<1>2. file' \in FileStates /\ file'.mtime = file.mtime + 1
  <2>1. ASSUME NEW i \in 1..2, NEW n \in Nat,
               file' = [file EXCEPT !.mtime = @ + 1, !.data[i] = file.mtime + 1, !.size = n]
        PROVE  file' \in FileStates /\ file'.mtime = file.mtime + 1
    <3>1. [file.data EXCEPT ![i] = file.mtime + 1] \in [1..2 -> Nat]
      BY <1>1
    <3>2. file' = [kind |-> file.kind, data |-> [file.data EXCEPT ![i] = file.mtime + 1],
                   size |-> n, mtime |-> file.mtime + 1]
      BY <1>0, <2>1 DEF FileStates
    <3> QED
      BY <1>0, <1>1, <3>1, <3>2 DEF FileStates
  <2>2. CASE file' = [file EXCEPT !.mtime = @ + 1, !.kind = "missing"]
    BY <1>0, <1>1, <2>2 DEF FileStates, FileKinds
  <2>3. CASE file' = [kind |-> "regular", data |-> <<file.mtime + 1, file.mtime + 1>>,
                      size |-> 1, mtime |-> file.mtime + 1]
    <3>1. <<file.mtime + 1, file.mtime + 1>> \in [1..2 -> Nat]
      BY <1>1
    <3> QED
      BY <1>1, <2>3, <3>1 DEF FileStates, FileKinds
  <2>4. CASE \E i \in 1..2, grown \in BOOLEAN :
                file' = [file EXCEPT !.mtime = @ + 1, !.data[i] = file.mtime + 1,
                                     !.size = IF grown THEN @ + 1 ELSE @]
    <3>1. PICK i \in 1..2, grown \in BOOLEAN :
                file' = [file EXCEPT !.mtime = @ + 1, !.data[i] = file.mtime + 1,
                                     !.size = IF grown THEN file.size + 1 ELSE file.size]
      BY <2>4
    <3>2. (IF grown THEN file.size + 1 ELSE file.size) \in Nat
      BY <1>1
    <3> QED
      BY <2>1, <3>1, <3>2
  <2> QED
    BY <2>2, <2>3, <2>4 DEF EditFile
<1>3. HashInv'
  BY <1>0, <1>1, <1>2 DEF WInv, HashInv
<1>4. Len(hashing'.digest) <= 2
  BY <1>0 DEF WInv, WorkerTypeOK
<1> QED
  BY <1>0, <1>3, <1>4, HashingInv

\* The result is made of the command's result and the record of the file.
LEMMA AssessInv ==
    ASSUME WInv, Assess
    PROVE  WInv'
<1>0. phase = "assess"
  BY DEF Assess
<1>1. CASE Fail
  BY <1>0, <1>1, FailInv
<1>2. CASE ~Fail
  <2>1. /\ UNCHANGED <<commandVars, caller, incarnation, alloc, output, file, hashing,
                       artifact, leftover, published, saved, exit, imported>>
        /\ phase' = "encode" /\ caller = "worker"
    BY <1>2 DEF Assess
  <2>2. PICK mode \in {"none", "off", "summary"}, inputs \in {"known", "unknown"},
             checks \in SUBSET CheckTypes, cwd \in WorkingDirectories,
             met \in SUBSET CheckTypes :
          /\ met \subseteq checks \ {"output_exists"}
          /\ report' = [state |-> result.status, version |-> IF mode = "none" THEN 1 ELSE 3,
                        mode |-> mode, inputs |-> inputs, checks |-> checks, met |-> met,
                        cwd |-> cwd,
                        verification |-> Aggregate(checks, met),
                        unavailable |-> IF mode = "summary" THEN Unavailable(inputs) ELSE {},
                        coverage |-> ProcessCoverage(mode),
                        termination |-> TerminationEvidence(mode, Aggregate(checks, met))]
    BY <1>2 DEF Assess
  <2>3. /\ report'.state = result.status /\ report'.mode = mode /\ report'.inputs = inputs
        /\ report'.checks = checks /\ report'.met = met /\ report'.cwd = cwd
        /\ report'.verification = Aggregate(checks, met)
        /\ report'.unavailable = IF mode = "summary" THEN Unavailable(inputs) ELSE {}
        /\ report'.termination = TerminationEvidence(mode, Aggregate(checks, met))
    BY <2>2
  <2>4. /\ result.status \in {"completed", "failed", "interrupted"}
        /\ result.status = "interrupted" => result.signal
    BY <1>0 DEF WInv, ControlInv
  <2>5. /\ UNCHANGED result
        /\ UNCHANGED artifact
    BY <2>1 DEF commandVars
  <2>6. WorkerTypeOK'
    BY <2>1, <2>3, <2>4 DEF WInv, WorkerTypeOK, CommandTypeOK, commandVars
  <2>7. ControlInv'
    BY <1>0, <2>1 DEF WInv, ControlInv, commandVars
  <2>8. FullReport'
    <3>1. (report.verification = Aggregate(report.checks, report.met))'
      BY <2>3, <2>5 DEF Aggregate, CheckState
    <3>2. (report.unavailable = IF report.mode = "summary"
                                THEN Unavailable(report.inputs) ELSE {})'
      BY <2>3, <2>5 DEF Unavailable
    <3>3. (report.termination = TerminationEvidence(report.mode, report.verification))'
      BY <2>3, <2>5 DEF TerminationEvidence
    <3>4. report'.cwd \in {"canonical", "symlinked"}
      BY <2>3, WorkerAssumption
    <3> QED
      BY <2>2, <2>3, <2>4, <2>5, <3>1, <3>2, <3>3, <3>4 DEF FullReport
  <2>9. ReportInv' /\ ExitStatusInv'
    BY <2>1, <2>8 DEF ReportInv, ExitStatusInv
  <2> QED
    BY <1>0, <2>1, <2>6, <2>7, <2>9, PhaseStep
<1> QED
  BY <1>1, <1>2

\* A result on its way to the result path.
LEMMA PublishingStep ==
    ASSUME WInv, UNCHANGED <<commandVars, caller, incarnation, alloc, output, file, hashing,
                             artifact, report, saved, imported>>,
           phase \in {"encode", "publish", "link"},
           phase' \in {"publish", "link", "exited"},
           leftover' \in BOOLEAN, exit' \in {None, 0, 1, 70, 75, 130},
           published' \in {published, incarnation},
           phase' # "exited" => published' = published,
           phase' = "exited" /\ exit' = 0 => published' = incarnation /\ report.state = "completed"
    PROVE  WInv'
<1>1. WorkerTypeOK'
  BY WorkerTypes DEF WInv, WorkerTypeOK, CommandTypeOK, commandVars
<1>2. ControlInv'
  BY DEF WInv, ControlInv, commandVars
<1>3. ReportInv'
  <2>1. report.state = "preflight_failed" \/ FullReport
    BY DEF WInv, ReportInv, Reporting
  <2>2. FullReport => FullReport'
    <3>1. /\ UNCHANGED result
          /\ UNCHANGED artifact
          /\ UNCHANGED report
      BY DEF commandVars
    <3> QED
      BY <3>1 DEF FullReport, Aggregate, CheckState, Unavailable, TerminationEvidence
  <2> QED
    BY <2>1, <2>2 DEF ReportInv
<1>4. ExitStatusInv'
  BY DEF ExitStatusInv
<1> QED
  BY <1>1, <1>2, <1>3, <1>4, PhaseStep

LEMMA EncodeInv ==
    ASSUME WInv, Encode
    PROVE  WInv'
<1>0. phase = "encode"
  BY DEF Encode
<1>1. CASE Fail
  BY <1>0, <1>1, FailInv
<1>2. CASE ~Fail
  <2>1. /\ UNCHANGED <<commandVars, caller, incarnation, alloc, output, file, hashing,
                       artifact, report, leftover, published, saved, exit, imported>>
        /\ phase' = "publish"
    BY <1>2 DEF Encode
  <2>2. leftover \in BOOLEAN /\ exit \in {None, 0, 1, 70, 75, 130}
    BY DEF WInv, WorkerTypeOK
  <2> QED
    BY <1>0, <2>1, <2>2, PublishingStep
<1> QED
  BY <1>1, <1>2

LEMMA WriteTemporaryInv ==
    ASSUME WInv, WriteTemporary
    PROVE  WInv'
<1>1. /\ UNCHANGED <<commandVars, caller, incarnation, alloc, output, file, hashing, artifact,
                     report, published, saved, imported>>
      /\ phase = "publish" /\ phase' \in {"link", "exited"}
      /\ leftover' \in {leftover, FALSE} /\ exit' \in {exit, 70}
      /\ phase' = "exited" => exit' = 70
  BY DEF WriteTemporary
<1>2. leftover \in BOOLEAN /\ exit \in {None, 0, 1, 70, 75, 130}
  BY DEF WInv, WorkerTypeOK
<1>3. leftover' \in BOOLEAN
  BY <1>1, <1>2
<1>4. exit' \in {None, 0, 1, 70, 75, 130}
  BY <1>1, <1>2
<1>5. ~(phase' = "exited" /\ exit' = 0)
  BY <1>1
<1> QED
  BY <1>1, <1>3, <1>4, <1>5, PublishingStep

LEMMA LinkInv ==
    ASSUME WInv, Link
    PROVE  WInv'
<1>0. phase = "link"
  BY DEF Link
<1>1. CASE Fail
  BY <1>0, <1>1, FailInv
<1>2. CASE ~Fail
  <2>1. /\ UNCHANGED <<commandVars, caller, incarnation, alloc, output, file, hashing,
                       artifact, report, leftover, saved, imported>>
        /\ phase' = "exited" /\ published' = incarnation /\ exit' = ExitStatus
    BY <1>2 DEF Link
  <2>2. leftover \in BOOLEAN
    BY DEF WInv, WorkerTypeOK
  <2>3. /\ ExitStatus \in {0, 1, 75, 130}
        /\ ExitStatus = 0 => report.state = "completed"
    BY DEF ExitStatus
  <2> QED
    BY <1>0, <2>1, <2>2, <2>3, PublishingStep
<1> QED
  BY <1>1, <1>2

LEMMA SaveRecordInv ==
    ASSUME WInv, SaveRecord
    PROVE  WInv'
<1>1. /\ UNCHANGED <<commandVars, caller, incarnation, alloc, output, file, hashing, artifact,
                     report, leftover, published, imported>>
      /\ phase = "assess" /\ caller = "run" /\ phase' = "exited" /\ saved' = TRUE
      /\ exit' \in {0, 1}
  BY DEF SaveRecord
<1>2. WorkerTypeOK'
  BY <1>1 DEF WInv, WorkerTypeOK, CommandTypeOK, commandVars
<1>3. ControlInv'
  BY <1>1 DEF WInv, ControlInv, commandVars
<1>4. ReportInv' /\ ExitStatusInv'
  BY <1>1, WorkerTypes DEF WInv, ControlInv, ReportInv, Reporting, ExitStatusInv
<1> QED
  BY <1>1, <1>2, <1>3, <1>4, PhaseStep

LEMMA KillInv ==
    ASSUME WInv, Kill
    PROVE  WInv'
<1>1. /\ UNCHANGED <<call, caller, incarnation, published, saved, imported>>
      /\ caller = "worker" /\ phase' = "killed" /\ Forget /\ result' = NoResult
      /\ alloc' = NoAlloc /\ output' = NoOutput /\ file' = NoFile /\ hashing' = NotHashing
      /\ artifact' = NoArtifact /\ report' = NoReport /\ exit' = None
      /\ leftover' = (leftover \/ phase = "link")
  BY DEF Kill
<1>2. CInv'
  <2>1. Fresh' => CInv'
    BY FreshInv, PTL
  <2>2. Fresh'
    BY <1>1 DEF Fresh, Forget, NoResult, WInv, CInv, CommandTypeOK
  <2> QED
    BY <2>1, <2>2
<1>3. NoFile \in FileStates /\ NotHashing \in HashStates
  BY NothingCaptured
<1>4. WorkerTypeOK'
  <2>1. output' \in [Streams -> 0..MaxWritten]
    BY <1>1, CommandAssumption DEF NoOutput
  <2>2. leftover' \in BOOLEAN /\ saved' \in BOOLEAN
    BY <1>1 DEF WInv, WorkerTypeOK
  <2>3. /\ NotHashing.pc = "idle" /\ Len(NotHashing.digest) <= 2
        /\ NoFile.kind \in FileKinds /\ NoFile.mtime \in 0..MaxEdits
        /\ NoArtifact.existence = "none" /\ NoArtifact.status = "none"
        /\ NoReport.state = "none"
    BY <1>3 DEF NotHashing, NoArtifact, NoReport, FileStates
  <2> QED
    BY <1>1, <1>2, <2>1, <2>2, <2>3 DEF WInv, WorkerTypeOK, CInv
<1>5. ControlInv'
  BY <1>1 DEF WInv, ControlInv, Forget
<1>6. HashInv' /\ ArtifactInv'
  BY <1>1, <1>3 DEF HashInv, ArtifactInv, NotHashing, NoArtifact
<1>7. ReportInv' /\ ExitStatusInv'
  BY <1>1 DEF ReportInv, Reporting, ExitStatusInv
<1> QED
  BY <1>2, <1>4, <1>5, <1>6, <1>7 DEF WInv

LEMMA RequeueInv ==
    ASSUME WInv, Requeue
    PROVE  WInv'
<1>1. /\ UNCHANGED <<commandVars, caller, alloc, output, file, hashing, artifact, report,
                     leftover, published, saved, exit, imported>>
      /\ phase = "killed" /\ phase' = "load"
      /\ incarnation < MaxIncarnations /\ incarnation' = incarnation + 1
  BY DEF Requeue
<1>2. incarnation' \in 1..MaxIncarnations /\ published' \in 0..incarnation'
      /\ published' < incarnation'
  BY <1>1, WorkerTypes
<1>3. WorkerTypeOK'
  BY <1>1, <1>2 DEF WInv, WorkerTypeOK, CommandTypeOK, commandVars
<1>4. ControlInv'
  BY <1>1, <1>2 DEF WInv, ControlInv, commandVars
<1>5. ReportInv' /\ ExitStatusInv'
  BY <1>1 DEF ReportInv, Reporting, ExitStatusInv
<1> QED
  BY <1>1, <1>3, <1>4, <1>5, PhaseStep

\* Nothing moves but the controller's verdict.
LEMMA WorkerStays ==
    ASSUME WInv, UNCHANGED <<commandVars, caller, phase, incarnation, alloc, output, file,
                             hashing, artifact, report, leftover, published, saved, exit>>,
           imported' \in {"none", "accepted", "rejected"}
    PROVE  WInv'
<1>1. CInv'
  BY CommandStays DEF WInv
<1>2. WorkerTypeOK'
  BY <1>1 DEF WInv, WorkerTypeOK, CInv
<1>3. ControlInv'
  BY DEF WInv, ControlInv, commandVars
<1>4. HashInv' /\ ArtifactInv'
  BY DEF WInv, HashInv, ArtifactInv
<1>5. ReportInv'
  <2>1. Reporting' => Reporting
    BY DEF Reporting
  <2>2. report.state = "preflight_failed" => report'.state = "preflight_failed"
    OBVIOUS
  <2>3. FullReport => FullReport'
    <3>1. /\ UNCHANGED result
          /\ UNCHANGED artifact
          /\ UNCHANGED report
      BY DEF commandVars
    <3> QED
      BY <3>1 DEF FullReport, Aggregate, CheckState, Unavailable, TerminationEvidence
  <2> QED
    BY <2>1, <2>2, <2>3 DEF WInv, ReportInv
<1>6. ExitStatusInv'
  BY DEF WInv, ExitStatusInv
<1> QED
  BY <1>1, <1>2, <1>3, <1>4, <1>5, <1>6 DEF WInv

LEMMA WInit == Init => WInv
<1> SUFFICES ASSUME Init PROVE WInv
  OBVIOUS
<1>1. /\ caller \in {"worker", "run", "bounded"} /\ call \in CallOf(caller)
      /\ phase = FirstPhase(caller) /\ incarnation = 1 /\ alloc = NoAlloc /\ output = NoOutput
      /\ file = NoFile /\ hashing = NotHashing /\ artifact = NoArtifact /\ report = NoReport
      /\ leftover = FALSE /\ published = 0 /\ saved = FALSE /\ exit = None /\ imported = "none"
      /\ CommandInit
  BY DEF Init
<1>2. call \in Calls /\ (caller = "bounded" <=> call.api = "bounded")
  BY <1>1 DEF CallOf
<1>3. CInv
  <2>1. Fresh
    BY <1>1, <1>2 DEF Fresh, CommandInit, NoResult
  <2> QED
    BY <2>1, FreshInv
<1>4. NoFile \in FileStates /\ NotHashing \in HashStates
  BY NothingCaptured
<1>5. WorkerTypeOK
  <2>1. output \in [Streams -> 0..MaxWritten]
    BY <1>1, CommandAssumption DEF NoOutput
  <2>2. leftover \in BOOLEAN /\ saved \in BOOLEAN
    BY <1>1
  <2>3. /\ NotHashing.pc = "idle" /\ Len(NotHashing.digest) <= 2
        /\ NoFile.kind \in FileKinds /\ NoFile.mtime \in 0..MaxEdits
        /\ NoArtifact.existence = "none" /\ NoArtifact.status = "none"
        /\ NoReport.state = "none"
    BY <1>4 DEF NotHashing, NoArtifact, NoReport, FileStates
  <2>4. phase \in {"load", "command"}
    BY <1>1 DEF FirstPhase
  <2>5. incarnation \in 1..MaxIncarnations /\ published \in 0..incarnation
    BY <1>1, WorkerAssumption
  <2> QED
    BY <1>1, <1>3, <2>1, <2>2, <2>3, <2>4, <2>5 DEF WorkerTypeOK, CInv
<1>6. ControlInv
  <2>1. pc = "idle"
    BY <1>1 DEF CommandInit
  <2> QED
    BY <1>1, <1>2, <2>1 DEF ControlInv, FirstPhase
<1>7. HashInv /\ ArtifactInv
  BY <1>1, <1>4 DEF HashInv, ArtifactInv, NotHashing, NoArtifact
<1>8. ReportInv /\ ExitStatusInv
  BY <1>1 DEF ReportInv, Reporting, ExitStatusInv, FirstPhase
<1> QED
  BY <1>3, <1>5, <1>6, <1>7, <1>8 DEF WInv

LEMMA WNext == WInv /\ [Next]_vars => WInv'
<1> SUFFICES ASSUME WInv, [Next]_vars PROVE WInv'
  OBVIOUS
<1>1. CASE WorkerStep
  BY <1>1, LoadInv, PreflightInv, CallInv, CommandReturnsInv, CommandRaisesInv, StatBeforeInv,
     HashChunkInv, StatAfterInv, AssessInv, EncodeInv, WriteTemporaryInv, LinkInv, SaveRecordInv
  DEF WorkerStep
<1>2. CASE Import
  BY <1>2, WorkerStays DEF Import
<1>3. CASE UNCHANGED vars
  <2>1. UNCHANGED <<commandVars, caller, phase, incarnation, alloc, output, file, hashing,
                    artifact, report, leftover, published, saved, exit, imported>>
    BY <1>3 DEF vars, workerVars
  <2>2. imported' \in {"none", "accepted", "rejected"}
    BY <2>1 DEF WInv, WorkerTypeOK
  <2> QED
    BY <2>1, <2>2, WorkerStays
<1> QED
  BY <1>1, <1>2, <1>3, CommandStepInv, EditFileInv, KillInv, RequeueInv DEF Next

LEMMA WorkerInvariant == Spec => []WInv
BY WInit, WNext, PTL DEF Spec

-----------------------------------------------------------------------------
\* What execute_command and run_bounded return of a stream is what the command wrote to it,
\* up to the limit, with the cut reported exactly where there is one, and a procfs collector
\* has sampled the command itself: for any limit, pipe capacity, number of processes and
\* number of interrupts.
THEOREM CapturesAreFaithful == Spec => []CaptureIsFaithful
<1>1. WInv => CaptureIsFaithful
  BY CommandIsFaithful DEF WInv
<1> QED
  BY <1>1, WorkerInvariant, PTL

\* A command that execute_command reports as interrupted leaves no member of its process
\* group running, unless one of them ignores SIGTERM.
THEOREM InterruptsStopTheGroup == Spec => []InterruptStopsGroup
<1>1. WInv => InterruptStopsGroup
  BY CommandIsFaithful DEF WInv
<1> QED
  BY <1>1, WorkerInvariant, PTL

\* A job that is granted what its script asks for is refused for want of resources only where
\* the observation is known to be narrower than the request: whatever the plan's counts of
\* nodes, CPUs, ranks and GPUs, and whichever variables the scheduler sets (_preflight,
\* _observe_allocation).
THEOREM NoShortfallIsFalse == Spec => []NoFalseShortfall
<1>1. WInv => NoFalseShortfall
  <2> SUFFICES ASSUME WInv, alloc # NoAlloc PROVE KnownMisread(alloc.family, alloc.shape)
    BY DEF NoFalseShortfall
  <2>1. alloc \in MisreadAllocations
    BY DEF WInv, WorkerTypeOK
  <2>2. PICK f \in Families : \E h \in Shapes(f) :
            /\ alloc = [family |-> f, shape |-> h]
            /\ Directives(f, h).rendered
            /\ \E visible \in SUBSET Variables(f) :
                  Shortfall(h, Observed(Grant(f, Directives(f, h)), visible))
    BY <2>1 DEF MisreadAllocations
  <2>3. PICK h \in Shapes(f) :
            /\ alloc = [family |-> f, shape |-> h]
            /\ Directives(f, h).rendered
            /\ \E visible \in SUBSET Variables(f) :
                  Shortfall(h, Observed(Grant(f, Directives(f, h)), visible))
    BY <2>2
  <2>4. PICK visible \in SUBSET Variables(f) :
            Shortfall(h, Observed(Grant(f, Directives(f, h)), visible))
    BY <2>3
  <2>5. PICK n, c, r, g : /\ n \in NodeCounts \cup (IF f = "lsf" THEN {None} ELSE {})
                          /\ c \in CpuCounts \cup {None} /\ r \in RankCounts \cup {None}
                          /\ g \in GpuCounts \cup {None}
                          /\ Divisible(n, c, r, g) /\ h = DerivedShape(n, c, r, g)
    BY <2>3 DEF Shapes
  <2>6. /\ n \in Positive \cup {None} /\ c \in Positive \cup {None} /\ r \in Positive \cup {None}
        /\ g \in Nat \cup {None} /\ (n = None => f = "lsf")
    BY <2>5, CountsAssumption DEF Positive, None
  <2>7. LaidOut(h, f, g)
    BY <2>5, <2>6 DEF LaidOut
  <2>8. KnownMisread(f, h)
    BY <2>3, <2>4, <2>6, <2>7, ShortfallIsKnown
  <2> QED
    BY <2>3, <2>8
<1> QED
  BY <1>1, WorkerInvariant, PTL

\* A published verification that passed a size or digest check rests on a complete capture
\* whose digest is that of the file, whatever other programs did to it meanwhile and however
\* often the job was started (_check_state, capture_artifact).
THEOREM PassedMeansCaptured == Spec => []VerificationIsJustified
<1>1. WInv => VerificationIsJustified
  <2> SUFFICES ASSUME WInv, phase = "exited", published = incarnation,
                      report.state # "preflight_failed",
                      report.verification = "passed", report.checks # {"output_exists"}
               PROVE  /\ artifact.status = "complete"
                      /\ artifact.digest = artifact.data
                      /\ report.checks \ {"output_exists"} = report.met
    BY DEF VerificationIsJustified
  <2>1. FullReport
    BY DEF WInv, ReportInv, Reporting
  <2>2. Aggregate(report.checks, report.met) = "passed"
    BY <2>1 DEF FullReport
  <2>3. /\ report.checks # {}
        /\ \A t \in report.checks : CheckState(t, t \in report.met) \notin {"failed", "unknown"}
    BY <2>2 DEF Aggregate
  <2>4. ASSUME NEW t \in report.checks, t # "output_exists"
        PROVE  /\ artifact.existence = "present" /\ artifact.status = "complete"
               /\ t \in report.met
    <3>1. CheckState(t, t \in report.met) \notin {"failed", "unknown"}
      BY <2>3
    <3> QED
      BY <2>4, <3>1 DEF CheckState
  <2>5. PICK t \in report.checks : t # "output_exists"
    BY <2>3
  <2>6. artifact.existence = "present" /\ artifact.status = "complete"
    BY <2>4, <2>5
  <2>7. report.met \subseteq report.checks \ {"output_exists"}
    BY <2>1 DEF FullReport
  <2>8. report.checks \ {"output_exists"} = report.met
    BY <2>4, <2>7
  <2> QED
    BY <2>6, <2>8 DEF WInv, ArtifactInv
<1> QED
  BY <1>1, WorkerInvariant, PTL

\* A published termination of "completed" is one, but for the interrupted command of a request
\* with telemetry off (_termination_evidence); the worker exits 0 only after it linked a
\* completed result itself (main, _write_immutable).
THEOREM VerdictsAreTrue == Spec => []VerdictIsTrue
<1>1. WInv => VerdictIsTrue
  <2> SUFFICES ASSUME WInv PROVE VerdictIsTrue
    OBVIOUS
  <2>1. WorkerTypeOK
    BY DEF WInv
  <2>2. ASSUME published = incarnation, phase = "exited", report.state # "preflight_failed",
               report.termination \in {"completed", "verification_failed"}
        PROVE  \/ result.status = "completed"
               \/ report.mode # "summary" /\ result.status = "interrupted"
    <3>1. FullReport
      BY <2>2 DEF WInv, ReportInv, Reporting
    <3> QED
      BY <2>2, <3>1 DEF FullReport, TerminationEvidence
  <2>3. (caller = "worker" /\ phase = "exited" /\ exit = 0)
           => published = incarnation /\ report.state = "completed"
    BY DEF WInv, ExitStatusInv
  <2> QED
    BY <2>1, <2>2, <2>3 DEF VerdictIsTrue
<1> QED
  BY <1>1, WorkerInvariant, PTL

\* However often the scheduler starts the job, its first published result stays; and the
\* controller's second evaluation of the outcomes agrees with the worker's, so that it
\* refuses a published result only for its working directory
\* (_validate_result_against_plan, _validate_request_outcomes).
THEOREM PublishedResultsAreAccepted == Spec => PublishedIsAccepted
<1>1. ASSUME WInv, Next, published # 0
      PROVE  published' = published
  BY <1>1 DEF Next, WorkerStep, CommandStep, workerVars, EditFile, Kill, Requeue, Import, Load,
     Fail, Preflight, Call, CommandReturns, CommandRaises, StatBefore, HashChunk, StatAfter,
     Assess, Encode, WriteTemporary, Link, SaveRecord
<1>2. ASSUME WInv, Next, imported = "none", imported' = "rejected"
      PROVE  report.cwd = "symlinked"
  <2>1. Import /\ ~Accepted
    BY <1>2 DEF Next, WorkerStep, CommandStep, workerVars, EditFile, Kill, Requeue, Import, Load,
       Fail, Preflight, Call, CommandReturns, CommandRaises, StatBefore, HashChunk, StatAfter,
       Assess, Encode, WriteTemporary, Link, SaveRecord
  <2>2. report.state = "preflight_failed" \/ FullReport
    BY <1>2, <2>1 DEF Import, WInv, ReportInv, Reporting
  <2>3. report.state # "preflight_failed"
    BY <2>1 DEF Accepted, ParsedState
  <2>4. ParsedState /\ OutcomesMatch /\ report.cwd \in {"canonical", "symlinked"}
    BY <2>2, <2>3 DEF FullReport, ParsedState, OutcomesMatch
  <2> QED
    BY <2>1, <2>4 DEF Accepted
<1>3. WInv /\ [Next]_vars =>
        [/\ published # 0 => published' = published
         /\ imported = "none" /\ imported' = "rejected" => report.cwd = "symlinked"]_vars
  BY <1>1, <1>2
<1> QED
  BY <1>3, WorkerInvariant, PTL DEF Spec, PublishedIsAccepted

=============================================================================
