------------------------------- MODULE Launcher -------------------------------
(***************************************************************************)
(* The npm launcher of the MCP server (packages/mcp/src): selectRuntime    *)
(* finds a Python with the exact bourneprov, or makes one in a private     *)
(* cache all launchers of a user share; launchServer runs the server in    *)
(* it, forwards signals and hands on how it ended.  Nothing locks the      *)
(* cache, the steps of a bootstrap are child processes, and a signal       *)
(* during one ends the launcher and not always the child.                  *)
(*                                                                         *)
(* venv and pip are external.  pip installs a package's dependencies       *)
(* first, skips what its metadata says is installed, and writes a          *)
(* package's metadata after its files.                                     *)
(***************************************************************************)
EXTENDS Integers, Sequences, FiniteSets

CONSTANTS
    Launchers,
    Pythons,        \* the sequences of interpreters a machine may have, each as probed
    MaxFaults,      \* failed bootstrap steps and timed-out probes
    MaxKills,       \* launchers killed outright
    MaxSignals      \* signals to one launcher

ASSUME BoundsAreNatural == {MaxFaults, MaxKills, MaxSignals} \subseteq Nat
\* What a probe can answer.
Probes == [supported : BOOLEAN, bourne : {"none", "other", "exact"}, mcp : BOOLEAN]
ASSUME PythonsAreProbed == \A p \in Pythons : p \in Seq(Probes)

VARIABLES
    pythons,        \* this machine's, in the order of pythonCandidates
    venv,           \* the cache: "absent", "bare" (a python without pip) or "ready"
    package,        \* its packages: recorded by metadata, files intact
    run,            \* each launcher
    step,           \* its bootstrap child, which may outlive it
    server,         \* its server
    overlapped,     \* two bootstrap steps have run at once
    faults, kills

vars == <<pythons, venv, package, run, step, server, overlapped, faults, kills>>

Packages == {"mcp", "bourne"}
\* A dependency comes before the package that needs it.
First(todo) == IF "mcp" \in todo THEN "mcp" ELSE "bourne"
NoStep == [kind |-> "none", at |-> "none", todo |-> {}]
Active(s) == s.at \in {"begin", "linked", "copy", "record"}
\* signals: received so far; forwarded: child.killed; early: one came before its handler
Fresh == [pc |-> "start", mode |-> "none", runtime |-> "none", signals |-> 0,
          forwarded |-> FALSE, early |-> FALSE, killed |-> FALSE, exit |-> -1,
          faulted |-> FALSE]
\* A server's process, until it has ended.
Alive == {"running", "interrupted", "stopping"}

Init ==
    /\ pythons \in Pythons
    /\ venv = "absent"
    /\ package = [p \in Packages |-> [recorded |-> FALSE, files |-> "none"]]
    /\ run = [l \in Launchers |-> Fresh]
    /\ step = [l \in Launchers |-> NoStep]
    /\ server = [l \in Launchers |-> "none"]
    /\ overlapped = FALSE /\ faults = 0 /\ kills = 0

Exit(l, code) == run' = [run EXCEPT ![l].pc = "ended", ![l].exit = code]

-----------------------------------------------------------------------------
\* cli main
Start(l, mode) ==
    /\ run[l].pc = "start"
    /\ run' = [run EXCEPT ![l].mode = mode, ![l].pc = "probe"]
    /\ UNCHANGED <<pythons, venv, package, step, server, overlapped, faults, kills>>

\* Mutant: any version will do.
CompatibleAnyVersion(probe) == probe.supported /\ probe.bourne # "none" /\ probe.mcp

\* isCompatibleRuntime
Compatible(probe) == probe.supported /\ probe.bourne = "exact" /\ probe.mcp

\* probePython of the cache: metadata for bourne, a findable module for mcp
CacheProbe ==
    [supported |-> venv # "absent",
     bourne |-> IF package["bourne"].recorded THEN "exact" ELSE "none",
     mcp |-> package["mcp"].files # "none"]

\* The interpreters are probed in turn; a probe may take more than its ten seconds.
\* --doctor stops here and at the cache, whatever it finds.
ProbeInstalled(l) ==
    /\ run[l].pc = "probe"
    /\ \E slow \in SUBSET DOMAIN pythons :
          LET answers == {i \in DOMAIN pythons : i \notin slow}
              usable  == {i \in answers : Compatible(pythons[i])}
              able    == \E i \in answers : pythons[i].supported
          IN  /\ faults + Cardinality(slow) <= MaxFaults
              /\ faults' = faults + Cardinality(slow)
              /\ IF run[l].mode # "doctor" /\ usable # {}
                 THEN run' = [run EXCEPT ![l].pc = "launch", ![l].runtime = "installed"]
                 ELSE run' = [run EXCEPT ![l].pc = IF able THEN "cache" ELSE "cache_only",
                                         ![l].faulted = @ \/ slow # {}]
    /\ UNCHANGED <<pythons, venv, package, step, server, overlapped, kills>>

\* Mutant: an interpreter that is there is not made again.
FirstStepUnlessPresent == IF venv = "absent" THEN "venv" ELSE "pip"

\* A bootstrap begins with venv, whatever the cache holds.
FirstStep == "venv"

Begin(l, kind) ==
    /\ step' = [step EXCEPT ![l] = [kind |-> kind, at |-> "begin", todo |-> {}]]
    /\ overlapped' = (overlapped \/ \E m \in Launchers \ {l} : Active(step[m]))

MayBootstrap(l) == run[l].mode # "no_bootstrap" /\ run[l].pc # "cache_only"

\* ... then the cache, then what the options and the interpreters allow.
ProbeCache(l) ==
    /\ run[l].pc \in {"cache", "cache_only"}
    /\ \/ /\ run[l].mode = "doctor"
          /\ Exit(l, 0)
          /\ UNCHANGED faults
       \/ /\ run[l].mode # "doctor" /\ Compatible(CacheProbe)
          /\ run' = [run EXCEPT ![l].pc = "launch", ![l].runtime = "cache"]
          /\ UNCHANGED faults
       \/ \E slow \in {FALSE, TRUE} :
             /\ run[l].mode # "doctor" /\ (slow \/ ~Compatible(CacheProbe))
             /\ slow => venv # "absent" /\ faults < MaxFaults
             /\ faults' = IF slow THEN faults + 1 ELSE faults
             /\ IF MayBootstrap(l) THEN run' = [run EXCEPT ![l].pc = "mkdir"] ELSE Exit(l, 1)
    /\ UNCHANGED <<pythons, venv, package, step, server, overlapped, kills>>

\* mkdirSync of the cache, which may fail, and the first step.
MakeCache(l) ==
    /\ run[l].pc = "mkdir"
    /\ \/ /\ run' = [run EXCEPT ![l].pc = FirstStep] /\ Begin(l, FirstStep)
          /\ UNCHANGED faults
       \/ /\ faults < MaxFaults /\ faults' = faults + 1
          /\ run' = [run EXCEPT ![l].pc = "ended", ![l].exit = 1, ![l].faulted = TRUE]
          /\ UNCHANGED <<step, overlapped>>
    /\ UNCHANGED <<pythons, venv, package, server, kills>>

\* runBootstrapStep has its child's status: the next step, the final probe, or an error.
StepReturns(l) ==
    /\ run[l].pc \in {"venv", "pip"} /\ step[l].at \in {"done", "failed"}
    /\ IF step[l].at = "failed" THEN Exit(l, 1) /\ step' = [step EXCEPT ![l] = NoStep]
                                     /\ UNCHANGED overlapped
       ELSE IF run[l].pc = "venv" THEN run' = [run EXCEPT ![l].pc = "pip"] /\ Begin(l, "pip")
       ELSE /\ run' = [run EXCEPT ![l].pc = "final"]
            /\ step' = [step EXCEPT ![l] = NoStep]
            /\ UNCHANGED overlapped
    /\ UNCHANGED <<pythons, venv, package, server, faults, kills>>

FinalProbe(l) ==
    /\ run[l].pc = "final"
    /\ \/ /\ Compatible(CacheProbe)
          /\ run' = [run EXCEPT ![l].pc = "launch", ![l].runtime = "cache"]
          /\ UNCHANGED faults
       \/ /\ ~Compatible(CacheProbe) /\ Exit(l, 1) /\ UNCHANGED faults
       \/ /\ faults < MaxFaults /\ faults' = faults + 1
          /\ run' = [run EXCEPT ![l].pc = "ended", ![l].exit = 1, ![l].faulted = TRUE]
    /\ UNCHANGED <<pythons, venv, package, step, server, overlapped, kills>>

-----------------------------------------------------------------------------
\* venv (external): the interpreter, then ensurepip
VenvStep(l) ==
    /\ step[l].kind = "venv" /\ step[l].at \in {"begin", "linked"}
    /\ venv' = IF step[l].at = "linked" THEN "ready"
               ELSE IF venv = "absent" THEN "bare" ELSE venv
    /\ step' = [step EXCEPT ![l].at = IF @ = "begin" THEN "linked" ELSE "done"]
    /\ UNCHANGED <<pythons, package, run, server, overlapped, faults, kills>>

\* pip (external): what to install is decided once, ...
PipResolve(l) ==
    /\ step[l].kind = "pip" /\ step[l].at = "begin"
    /\ LET todo == {p \in Packages : ~package[p].recorded}
       IN  step' = [step EXCEPT ![l].todo = todo,
                                ![l].at = IF venv # "ready" THEN "failed"
                                          ELSE IF todo = {} THEN "done" ELSE "copy"]
    /\ UNCHANGED <<pythons, venv, package, run, server, overlapped, faults, kills>>

\* ... and each package's files are written, over those that are there, before it is
\* recorded.
PipCopy(l) ==
    /\ step[l].at = "copy"
    /\ package' = [package EXCEPT ![First(step[l].todo)].files = "torn"]
    /\ step' = [step EXCEPT ![l].at = "record"]
    /\ UNCHANGED <<pythons, venv, run, server, overlapped, faults, kills>>

PipRecord(l) ==
    /\ step[l].at = "record"
    /\ LET p == First(step[l].todo)
           others == {m \in Launchers \ {l} : step[m].kind = "pip" /\ step[m].at = "record"}
       IN  package' = [package EXCEPT ![p].recorded = TRUE,
                          ![p].files = IF \E m \in others : First(step[m].todo) = p
                                       THEN "torn" ELSE "intact"]
    /\ LET rest == step[l].todo \ {First(step[l].todo)}
       IN  step' = [step EXCEPT ![l].todo = rest,
                                ![l].at = IF rest = {} THEN "done" ELSE "copy"]
    /\ UNCHANGED <<pythons, venv, run, server, overlapped, faults, kills>>

\* No disk, no network, or killed: the step fails where it is.
StepFails(l) ==
    /\ Active(step[l]) /\ faults < MaxFaults
    /\ step' = [step EXCEPT ![l].at = "failed"]
    /\ run' = [run EXCEPT ![l].faulted = TRUE]
    /\ faults' = faults + 1
    /\ UNCHANGED <<pythons, venv, package, server, overlapped, kills>>

BootstrapStep(l) == VenvStep(l) \/ PipResolve(l) \/ PipCopy(l) \/ PipRecord(l)

-----------------------------------------------------------------------------
\* launchServer: spawn, ...
Launch(l) ==
    /\ run[l].pc = "launch"
    /\ \/ /\ run' = [run EXCEPT ![l].pc = "spawned"]
          /\ server' = [server EXCEPT ![l] = "running"]
          /\ UNCHANGED faults
       \/ /\ faults < MaxFaults /\ faults' = faults + 1
          /\ run' = [run EXCEPT ![l].pc = "ended", ![l].exit = 1, ![l].faulted = TRUE]
          /\ UNCHANGED server
    /\ UNCHANGED <<pythons, venv, package, step, overlapped, kills>>

\* ... and then the handlers; until they are there a signal ends Node by its default action.
InstallHandlers(l) ==
    /\ run[l].pc = "spawned"
    /\ run' = [run EXCEPT ![l].pc = "serve"]
    /\ UNCHANGED <<pythons, venv, package, step, server, overlapped, faults, kills>>

Live(l) == run[l].pc \notin {"start", "ended"}
Signals == {"SIGINT", "SIGTERM"}

\* Mutant: no handler, so the signal ends the launcher.
ForwardNothing(l, sig) ==
    run' = [run EXCEPT ![l].signals = @ + 1, ![l].pc = "ended"] /\ UNCHANGED server

\* Mutant: the handler is there and does not forward.
Swallow(l, sig) == run' = [run EXCEPT ![l].signals = @ + 1] /\ UNCHANGED server

\* The handler forwards while child.killed is false: what follows the first signal is lost.
\* SIGTERM (and SIGHUP) has its default action in the server; SIGINT cancels its event loop,
\* which waits for the threads that run a tool or read its input.
Forward(l, sig) ==
    /\ run' = [run EXCEPT ![l].signals = @ + 1, ![l].forwarded = TRUE]
    /\ server' = [server EXCEPT ![l] =
                     IF run[l].forwarded \/ @ \notin Alive THEN @
                     ELSE IF sig = "SIGINT" THEN "interrupted" ELSE "stopping"]

\* A signal to the launcher: forwarded by its handler, and fatal before there is one.
Signal(l, sig) ==
    /\ Live(l) /\ run[l].signals < MaxSignals
    /\ \/ run[l].pc = "serve" /\ Forward(l, sig)
       \/ /\ run[l].pc # "serve"
          /\ run' = [run EXCEPT ![l].signals = @ + 1, ![l].pc = "ended", ![l].early = TRUE]
          /\ UNCHANGED server
    /\ UNCHANGED <<pythons, venv, package, step, overlapped, faults, kills>>

\* SIGKILL leaves both the bootstrap step and the server.
Kill(l) ==
    /\ Live(l) /\ kills < MaxKills
    /\ kills' = kills + 1
    /\ run' = [run EXCEPT ![l].killed = TRUE, ![l].pc = "ended"]
    /\ UNCHANGED <<pythons, venv, package, step, server, overlapped, faults>>

\* The server ends by itself or by the signal it got.
ServerEnds(l) ==
    /\ server[l] \in Alive
    /\ server' = [server EXCEPT ![l] = IF @ = "running" THEN "exited" ELSE "terminated"]
    /\ UNCHANGED <<pythons, venv, package, run, step, overlapped, faults, kills>>

\* The exit event: the same code, or the same signal raised again.
HandOn(l) ==
    /\ run[l].pc = "serve" /\ server[l] \in {"terminated", "exited"}
    /\ Exit(l, IF server[l] = "exited" THEN 0 ELSE -2)
    /\ UNCHANGED <<pythons, venv, package, step, server, overlapped, faults, kills>>

LauncherStep(l) ==
    \/ ProbeInstalled(l) \/ ProbeCache(l) \/ MakeCache(l) \/ StepReturns(l) \/ FinalProbe(l)
    \/ Launch(l) \/ InstallHandlers(l) \/ HandOn(l)

Next ==
    \E l \in Launchers :
        \/ \E mode \in {"default", "no_bootstrap", "doctor"} : Start(l, mode)
        \/ LauncherStep(l) \/ BootstrapStep(l) \/ StepFails(l)
        \/ (\E sig \in Signals : Signal(l, sig)) \/ Kill(l) \/ ServerEnds(l)

\* Processes run on, and the default action of SIGTERM ends a server.  Nothing makes an
\* interrupted one end: a tool may wait for a job without a timeout.
Fairness ==
    \A l \in Launchers : /\ WF_vars(LauncherStep(l)) /\ WF_vars(BootstrapStep(l))
                         /\ WF_vars(server[l] = "stopping" /\ ServerEnds(l))

Spec == Init /\ [][Next]_vars /\ Fairness

-----------------------------------------------------------------------------
\* The launchers' state is well formed; a launcher waits for a step exactly when it began one
\* that has not been reported, and an ended launcher's server is not waited for.
LauncherTypeOK ==
    /\ venv \in {"absent", "bare", "ready"}
    /\ \A p \in DOMAIN package :
          package[p] \in [recorded : BOOLEAN, files : {"none", "torn", "intact"}]
    /\ \A l \in Launchers :
          /\ run[l].pc \in {"start", "probe", "cache", "cache_only", "mkdir", "venv", "pip",
                            "final", "launch", "spawned", "serve", "ended"}
          /\ run[l].exit \in -2..1
          /\ run[l].pc \in {"venv", "pip"} => step[l].kind = run[l].pc
          /\ server[l] # "none" => run[l].pc \in {"spawned", "serve", "ended"}
    /\ faults \in 0..MaxFaults /\ kills \in 0..MaxKills

\* A server, orphaned or not, runs only on the exact version with MCP support: on an
\* interpreter that has them both, or on a cache every package of which is complete - unless
\* two bootstraps wrote the cache at once.  Launchers killed at any point of a bootstrap leave
\* nothing that is taken for a runtime, and later ones do not disturb it.
ServerHasItsRuntime ==
    \A l \in Launchers : server[l] \in Alive =>
        \/ /\ run[l].runtime = "installed"
           /\ \E i \in DOMAIN pythons : /\ pythons[i].supported /\ pythons[i].mcp
                                        /\ pythons[i].bourne = "exact"
        \/ /\ run[l].runtime = "cache"
           /\ overlapped \/ \A p \in DOMAIN package : package[p] = [recorded |-> TRUE,
                                                                   files |-> "intact"]

\* A launcher that may bootstrap and has an interpreter to do it with gives up only over a
\* failed step, a slow probe or another bootstrap beside it: what a killed one left in the
\* cache is repaired.
CacheIsRepaired ==
    \A l \in Launchers :
        /\ run[l].pc = "ended" /\ run[l].exit = 1 /\ run[l].mode = "default"
        /\ \E i \in DOMAIN pythons : pythons[i].supported
        => run[l].faulted \/ overlapped

\* The launchers' state is well formed, and a server never outlives its launcher, unless the
\* launcher was killed outright or signalled before it had its handlers (between spawn and
\* process.on): later signals are handed on, and the launcher waits for the server's end.
ServerHasLauncher ==
    /\ LauncherTypeOK
    /\ \A l \in Launchers :
          server[l] \in Alive =>
              run[l].pc \in {"spawned", "serve"} \/ run[l].killed \/ run[l].early

\* A launcher that is signalled ends, whatever it was doing, unless SIGINT went to a server
\* that does not end of it; once such a server has ended, so does the launcher.
SignalEndsLauncher ==
    \A l \in Launchers :
        run[l].signals > 0 /\ server[l] # "interrupted" ~> run[l].pc = "ended"

=============================================================================
