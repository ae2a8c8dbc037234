---------------------------- MODULE LauncherProofs ----------------------------
(***************************************************************************)
(* Proofs about Launcher, for any number of launchers, faults and kills.   *)
(*                                                                         *)
(* Nothing locks the cache, so all that can be said of it is said of the   *)
(* time before two bootstraps first overlap: then at most one of them      *)
(* works on the cache, what it still has to install is what is not yet     *)
(* recorded, and what is recorded is whole.  A cache that passes the probe *)
(* is therefore complete, and stays so; one that does not is repaired by   *)
(* the bootstrap that finds it, wherever an earlier one was killed.        *)
(***************************************************************************)
EXTENDS Launcher, FiniteSetTheorems, TLAPS

Phases == {"start", "probe", "cache", "cache_only", "mkdir", "venv", "pip", "final", "launch",
           "spawned", "serve", "ended"}
RunStates == [pc : Phases, mode : {"none", "default", "no_bootstrap", "doctor"},
              runtime : {"none", "installed", "cache"}, signals : Nat, forwarded : BOOLEAN,
              early : BOOLEAN, killed : BOOLEAN, exit : -2..1, faulted : BOOLEAN]
ServerStates == {"none", "terminated", "exited"} \cup Alive
StepStates == [kind : {"none", "venv", "pip"},
               at : {"none", "begin", "linked", "copy", "record", "done", "failed"},
               todo : SUBSET Packages]
PackageStates == [recorded : BOOLEAN, files : {"none", "torn", "intact"}]

TypeInv ==
    /\ pythons \in Pythons
    /\ venv \in {"absent", "bare", "ready"}
    /\ package \in [Packages -> PackageStates]
    /\ run \in [Launchers -> RunStates]
    /\ step \in [Launchers -> StepStates]
    /\ server \in [Launchers -> ServerStates]
    /\ overlapped \in BOOLEAN
    /\ faults \in 0..MaxFaults
    /\ kills \in 0..MaxKills

\* The cache is a whole runtime.
Complete == \A p \in Packages : package[p].recorded /\ package[p].files = "intact"
Supported == \E i \in DOMAIN pythons : pythons[i].supported
HasExact == \E i \in DOMAIN pythons : Compatible(pythons[i])

\* The cache, until two bootstraps have overlapped.
CacheInv ==
    ~overlapped =>
        /\ \A l, m \in Launchers : Active(step[l]) /\ Active(step[m]) => l = m
        /\ \A p \in Packages : package[p].recorded => package[p].files = "intact"
        /\ package["bourne"].recorded => package["mcp"].recorded
        /\ \A l \in Launchers : step[l].at \in {"copy", "record"} =>
               step[l].todo = {p \in Packages : ~package[p].recorded}

\* A bootstrap step.
StepInv(l) ==
    /\ step[l].at \in {"copy", "record"} => step[l].kind = "pip" /\ step[l].todo # {}
    /\ step[l].at = "failed" => run[l].faulted
    /\ step[l].kind = "pip" => venv = "ready"
    /\ step[l].kind = "venv" /\ step[l].at = "done" => venv = "ready"
    /\ step[l].kind = "pip" /\ step[l].at = "done" => overlapped \/ Complete

\* A launcher.
RunInv(l) ==
    /\ run[l].pc \in {"venv", "pip"} => step[l].kind = run[l].pc
    /\ server[l] # "none" => run[l].pc \in {"spawned", "serve", "ended"}
    /\ server[l] \in Alive => run[l].pc \in {"spawned", "serve"} \/ run[l].killed \/ run[l].early
    /\ run[l].pc = "launch" \/ server[l] \in Alive =>
           \/ run[l].runtime = "installed" /\ HasExact
           \/ run[l].runtime = "cache" /\ (overlapped \/ Complete)
    /\ run[l].pc = "cache_only" => run[l].faulted \/ ~Supported
    /\ run[l].pc = "final" => venv = "ready" /\ (overlapped \/ Complete)
    /\ run[l].exit = 1 => run[l].pc = "ended"
    /\ run[l].pc = "ended" /\ run[l].exit = 1 /\ run[l].mode = "default" /\ Supported
           => run[l].faulted \/ overlapped

IInv == TypeInv /\ CacheInv /\ \A l \in Launchers : StepInv(l) /\ RunInv(l)

-----------------------------------------------------------------------------
\* A step of one launcher does not disturb another.
LEMMA OthersStay ==
    ASSUME IInv, NEW m \in Launchers,
           run'[m] = run[m], step'[m] = step[m], server'[m] = server[m], UNCHANGED pythons,
           venv = "ready" => venv' = "ready",
           overlapped => overlapped',
           Complete => overlapped' \/ Complete'
    PROVE  StepInv(m)' /\ RunInv(m)'
<1>1. StepInv(m) /\ RunInv(m)
  BY DEF IInv
<1>2. StepInv(m)'
  BY <1>1 DEF StepInv
<1>3. HasExact' <=> HasExact
  BY DEF HasExact, Compatible
<1>4. Supported' <=> Supported
  BY DEF Supported
<1>5. RunInv(m)'
  BY <1>1, <1>3, <1>4 DEF RunInv
<1> QED
  BY <1>2, <1>5

\* A step that leaves the cache alone, and the launcher's bootstrap child or forgets it.
LEMMA RunStep ==
    ASSUME IInv, NEW l \in Launchers, NEW r \in RunStates,
           run' = [run EXCEPT ![l] = r],
           UNCHANGED <<pythons, venv, package, overlapped>>,
           step' \in {step, [step EXCEPT ![l] = NoStep]},
           server' \in [Launchers -> ServerStates],
           \A m \in Launchers \ {l} : server'[m] = server[m],
           faults' \in 0..MaxFaults, kills' \in 0..MaxKills,
           run[l].faulted => r.faulted,
           RunInv(l)'
    PROVE  IInv'
<1>1. run \in [Launchers -> RunStates]
  BY DEF IInv, TypeInv
<1>2. /\ run' \in [Launchers -> RunStates] /\ run'[l] = r
      /\ \A m \in Launchers \ {l} : run'[m] = run[m]
  BY <1>1
<1>3. /\ step' \in [Launchers -> StepStates] /\ step'[l] \in {step[l], NoStep}
      /\ \A m \in Launchers \ {l} : step'[m] = step[m]
      /\ NoStep.at = "none" /\ NoStep.kind = "none"
  <2>1. step \in [Launchers -> StepStates] /\ NoStep \in StepStates
    BY DEF IInv, TypeInv, NoStep, StepStates
  <2> QED
    BY <2>1 DEF NoStep
<1>4. TypeInv' /\ CacheInv'
  <2>1. TypeInv'
    BY <1>2, <1>3 DEF IInv, TypeInv
  <2>2. \A m \in Launchers : \/ step'[m] = step[m]
                             \/ step'[m].at = "none"
    BY <1>3
  <2>3. CacheInv'
    BY <2>2 DEF IInv, CacheInv, Active
  <2> QED
    BY <2>1, <2>3
<1>5. Complete' <=> Complete
  BY DEF Complete
<1>6. ASSUME NEW m \in Launchers, m # l
      PROVE  StepInv(m)' /\ RunInv(m)'
  BY <1>2, <1>3, <1>5, <1>6, OthersStay
<1>7. StepInv(l)'
  <2>1. StepInv(l)
    BY DEF IInv
  <2> QED
    BY <1>2, <1>3, <1>5, <2>1 DEF StepInv
<1> QED
  BY <1>4, <1>6, <1>7 DEF IInv

LEMMA LInit == Init => IInv
<1> SUFFICES ASSUME Init PROVE IInv
  OBVIOUS
<1>1. Fresh \in RunStates /\ NoStep \in StepStates
  BY DEF Fresh, RunStates, Phases, NoStep, StepStates
<1>2. /\ package \in [Packages -> PackageStates]
      /\ \A p \in Packages : ~package[p].recorded
      /\ "bourne" \in Packages
  BY DEF Init, PackageStates, Packages
<1>3. /\ \A l \in Launchers : run[l] = Fresh /\ step[l] = NoStep /\ server[l] = "none"
      /\ run \in [Launchers -> RunStates] /\ step \in [Launchers -> StepStates]
      /\ server \in [Launchers -> ServerStates]
  BY <1>1 DEF Init, ServerStates
<1>4. overlapped \in BOOLEAN /\ venv = "absent" /\ pythons \in Pythons
  BY DEF Init
<1>5. faults \in 0..MaxFaults /\ kills \in 0..MaxKills
  BY BoundsAreNatural DEF Init
<1>6. TypeInv
  BY <1>2, <1>3, <1>4, <1>5 DEF TypeInv
<1>7. CacheInv
  BY <1>2, <1>3 DEF CacheInv, NoStep, Active
<1>8. ASSUME NEW l \in Launchers PROVE StepInv(l) /\ RunInv(l)
  BY <1>3 DEF StepInv, RunInv, NoStep, Fresh, Alive
<1> QED
  BY <1>6, <1>7, <1>8 DEF IInv

LEMMA StartInv ==
    ASSUME IInv, NEW l \in Launchers, NEW mode \in {"default", "no_bootstrap", "doctor"},
           Start(l, mode)
    PROVE  IInv'
<1> DEFINE r == [run[l] EXCEPT !.mode = mode, !.pc = "probe"]
<1>1. run \in [Launchers -> RunStates] /\ run[l] \in RunStates
  BY DEF IInv, TypeInv
<1>2. r \in RunStates
  BY <1>1 DEF RunStates, Phases
<1>3. run' = [run EXCEPT ![l] = r]
  BY <1>1 DEF Start
<1>4. UNCHANGED <<pythons, venv, package, step, server, overlapped, faults, kills>>
  BY DEF Start
<1>5. /\ r.pc = "probe" /\ (run[l].faulted => r.faulted) /\ run'[l] = r
      /\ r.exit = run[l].exit
  BY <1>1, <1>3 DEF RunStates
<1>6. RunInv(l)'
  BY <1>4, <1>5 DEF Start, IInv, RunInv, Alive
<1>7. /\ server' \in [Launchers -> ServerStates]
      /\ faults' \in 0..MaxFaults
      /\ kills' \in 0..MaxKills
  BY <1>4 DEF IInv, TypeInv
<1> HIDE DEF r
<1> QED
  BY <1>2, <1>3, <1>4, <1>5, <1>6, <1>7, RunStep

\* The shared facts of a step that leaves the cache and the bootstrap children alone.
LEMMA RunTypes ==
    ASSUME IInv, NEW l \in Launchers
    PROVE  /\ run \in [Launchers -> RunStates] /\ run[l] \in RunStates
           /\ run[l].faulted \in BOOLEAN
           /\ server \in [Launchers -> ServerStates]
           /\ faults \in 0..MaxFaults
           /\ kills \in 0..MaxKills
BY DEF IInv, TypeInv, RunStates

\* The launcher ends with an exit status; an error has a reason.
LEMMA ExitStep ==
    ASSUME IInv, NEW l \in Launchers, NEW code \in -2..1, NEW faulted \in BOOLEAN,
           run' = [run EXCEPT ![l] = [run[l] EXCEPT !.pc = "ended", !.exit = code,
                                                    !.faulted = faulted]],
           run[l].faulted => faulted,
           UNCHANGED <<pythons, venv, package, server, overlapped>>,
           step' \in {step, [step EXCEPT ![l] = NoStep]},
           faults' \in 0..MaxFaults, kills' \in 0..MaxKills,
           server[l] \notin Alive,
           code = 1 => faulted \/ overlapped \/ run[l].mode # "default" \/ ~Supported
    PROVE  IInv'
<1> DEFINE r == [run[l] EXCEPT !.pc = "ended", !.exit = code, !.faulted = faulted]
<1>1. r \in RunStates
  BY RunTypes DEF RunStates, Phases
<1>2. /\ r.pc = "ended" /\ r.exit = code /\ r.mode = run[l].mode
      /\ r.faulted = faulted
      /\ run'[l] = r
  BY RunTypes DEF RunStates
<1>3. Supported' <=> Supported
  BY DEF Supported
<1>4. RunInv(l)'
  BY <1>2, <1>3 DEF RunInv
<1>5. run' = [run EXCEPT ![l] = r] /\ (run[l].faulted => r.faulted)
  BY <1>2
<1> HIDE DEF r
<1> QED
  BY <1>1, <1>4, <1>5, RunTypes, RunStep

LEMMA CleanExit ==
    ASSUME IInv, NEW l \in Launchers, NEW code \in -2..1, Exit(l, code),
           UNCHANGED <<pythons, venv, package, server, overlapped, kills>>,
           step' \in {step, [step EXCEPT ![l] = NoStep]},
           faults' \in 0..MaxFaults,
           server[l] \notin Alive,
           code = 1 => run[l].faulted \/ overlapped \/ run[l].mode # "default" \/ ~Supported
    PROVE  IInv'
<1>1. PICK f \in BOOLEAN : f = run[l].faulted
  BY RunTypes
<1>2. run' = [run EXCEPT ![l] = [run[l] EXCEPT !.pc = "ended", !.exit = code, !.faulted = f]]
  BY <1>1, RunTypes DEF Exit, RunStates
<1>3. run[l].faulted => f
  BY <1>1
<1>4. code = 1 => f \/ overlapped \/ run[l].mode # "default" \/ ~Supported
  BY <1>1
<1>5. kills' \in 0..MaxKills
  BY RunTypes
<1> QED
  BY <1>2, <1>3, <1>4, <1>5, ExitStep

LEMMA FaultyExit ==
    ASSUME IInv, NEW l \in Launchers, faults < MaxFaults, faults' = faults + 1,
           run' = [run EXCEPT ![l].pc = "ended", ![l].exit = 1, ![l].faulted = TRUE],
           UNCHANGED <<pythons, venv, package, step, server, overlapped, kills>>,
           server[l] \notin Alive
    PROVE  IInv'
<1>1. run' = [run EXCEPT ![l] = [run[l] EXCEPT !.pc = "ended", !.exit = 1, !.faulted = TRUE]]
  BY RunTypes
<1>2. faults' \in 0..MaxFaults
  BY RunTypes, BoundsAreNatural
<1>3. kills' \in 0..MaxKills
  BY RunTypes
<1>4. TRUE \in BOOLEAN /\ 1 \in -2..1
  OBVIOUS
<1> QED
  BY <1>1, <1>2, <1>3, <1>4, ExitStep

\* The probes: an exact interpreter, or the cache next; "cache_only" where none can bootstrap.
LEMMA ProbeInstalledInv ==
    ASSUME IInv, NEW l \in Launchers, ProbeInstalled(l)
    PROVE  IInv'
<1>1. /\ run[l].pc = "probe"
      /\ UNCHANGED <<pythons, venv, package, step, server, overlapped, kills>>
  BY DEF ProbeInstalled
<1> DEFINE answers(slow) == {i \in DOMAIN pythons : i \notin slow}
<1>2. PICK slow \in SUBSET DOMAIN pythons :
        /\ faults + Cardinality(slow) <= MaxFaults
        /\ faults' = faults + Cardinality(slow)
        /\ IF run[l].mode # "doctor" /\ {i \in answers(slow) : Compatible(pythons[i])} # {}
           THEN run' = [run EXCEPT ![l].pc = "launch", ![l].runtime = "installed"]
           ELSE run' = [run EXCEPT ![l].pc = IF \E i \in answers(slow) : pythons[i].supported
                                             THEN "cache" ELSE "cache_only",
                                   ![l].faulted = @ \/ slow # {}]
  BY DEF ProbeInstalled
<1>3. faults' \in 0..MaxFaults
  <2>1. pythons \in Seq(Probes)
    BY PythonsAreProbed DEF IInv, TypeInv
  <2>2. DOMAIN pythons = 1..Len(pythons) /\ Len(pythons) \in Nat
    BY <2>1
  <2>3. IsFiniteSet(DOMAIN pythons)
    BY <2>2, FS_Interval
  <2>4. IsFiniteSet(slow)
    BY <2>3, FS_Subset
  <2>5. Cardinality(slow) \in Nat
    BY <2>4, FS_CardinalityType
  <2> QED
    BY <1>2, <2>5, BoundsAreNatural DEF IInv, TypeInv
<1>4. server[l] = "none" /\ run[l].exit # 1
  BY <1>1 DEF IInv, TypeInv, RunInv
<1>5. CASE run' = [run EXCEPT ![l].pc = "launch", ![l].runtime = "installed"] /\ HasExact
  <2> DEFINE r == [run[l] EXCEPT !.pc = "launch", !.runtime = "installed"]
  <2>1. r \in RunStates /\ run' = [run EXCEPT ![l] = r]
    BY <1>5, RunTypes DEF RunStates, Phases
  <2>2. /\ r.pc = "launch" /\ r.runtime = "installed" /\ r.exit = run[l].exit /\ run'[l] = r
        /\ run[l].faulted => r.faulted
    BY <2>1, RunTypes DEF RunStates
  <2>3. HasExact'
    BY <1>1, <1>5 DEF HasExact, Compatible
  <2>4. RunInv(l)'
    BY <1>1, <1>4, <2>2, <2>3 DEF RunInv, Alive
  <2> HIDE DEF r
  <2> QED
    BY <1>1, <1>3, <2>1, <2>2, <2>4, RunTypes, RunStep
<1>6. CASE run' = [run EXCEPT ![l].pc = IF \E i \in answers(slow) : pythons[i].supported
                                        THEN "cache" ELSE "cache_only",
                              ![l].faulted = @ \/ slow # {}]
  <2>1. PICK pc \in {"cache", "cache_only"} :
          pc = IF \E i \in answers(slow) : pythons[i].supported THEN "cache" ELSE "cache_only"
    OBVIOUS
  <2>2. PICK faulted \in BOOLEAN : faulted <=> run[l].faulted \/ slow # {}
    OBVIOUS
  <2>3. (run[l].faulted \/ slow # {}) = faulted
    BY <2>2, RunTypes
  <2> DEFINE r == [run[l] EXCEPT !.pc = pc, !.faulted = faulted]
  <2>4. run' = [run EXCEPT ![l] = r]
    BY <1>6, <2>1, <2>3, RunTypes
  <2>5. r \in RunStates
    BY RunTypes DEF RunStates, Phases
  <2>6. /\ r.pc = pc /\ r.exit = run[l].exit /\ run'[l] = r
        /\ r.faulted = faulted
    BY <2>4, RunTypes DEF RunStates
  <2>7. pc = "cache_only" => faulted \/ ~Supported
    BY <2>1, <2>2 DEF Supported
  <2>8. Supported' <=> Supported
    BY <1>1 DEF Supported
  <2>9. RunInv(l)'
    BY <1>1, <1>4, <2>6, <2>7, <2>8 DEF RunInv, Alive
  <2>10. run[l].faulted => r.faulted
    BY <2>2, <2>6
  <2> HIDE DEF r
  <2> QED
    BY <1>1, <1>3, <2>4, <2>5, <2>9, <2>10, RunTypes, RunStep
<1> QED
  BY <1>2, <1>5, <1>6 DEF HasExact

-----------------------------------------------------------------------------
\* What the probe accepts is complete, and what is complete is accepted.
LEMMA AcceptedIsComplete ==
    ASSUME IInv, Compatible(CacheProbe)
    PROVE  overlapped \/ Complete
<1>1. /\ package["bourne"].recorded
      /\ "bourne" \in Packages /\ "mcp" \in Packages
  BY DEF Compatible, CacheProbe, Packages
<1>2. ~overlapped => \A p \in Packages : package[p].recorded
  BY <1>1 DEF IInv, CacheInv, Packages
<1> QED
  BY <1>2 DEF IInv, CacheInv, Complete

LEMMA CompleteIsAccepted ==
    ASSUME Complete, venv = "ready"
    PROVE  Compatible(CacheProbe)
BY DEF Complete, Compatible, CacheProbe, Packages

\* A launcher begins a step of its bootstrap.
LEMMA BeginInv ==
    ASSUME IInv, NEW l \in Launchers, NEW kind \in {"venv", "pip"}, Begin(l, kind),
           run' = [run EXCEPT ![l].pc = kind],
           UNCHANGED <<pythons, venv, package, server, kills>>, faults' \in 0..MaxFaults,
           server[l] = "none", run[l].exit # 1, kind = "pip" => venv = "ready"
    PROVE  IInv'
<1> DEFINE r == [run[l] EXCEPT !.pc = kind]
           s == [kind |-> kind, at |-> "begin", todo |-> {}]
<1>1. /\ step' = [step EXCEPT ![l] = s]
      /\ overlapped' = (overlapped \/ \E m \in Launchers \ {l} : Active(step[m]))
  BY DEF Begin
<1>2. r \in RunStates /\ run' = [run EXCEPT ![l] = r] /\ r.pc = kind /\ run'[l] = r
      /\ r.exit = run[l].exit
  BY RunTypes DEF RunStates, Phases
<1>3. s \in StepStates /\ s.kind = kind /\ s.at = "begin"
  BY DEF StepStates
<1>4. step \in [Launchers -> StepStates] /\ overlapped \in BOOLEAN
  BY DEF IInv, TypeInv
<1> HIDE DEF r, s
<1>5. /\ run' \in [Launchers -> RunStates] /\ step' \in [Launchers -> StepStates]
      /\ step'[l] = s
      /\ \A m \in Launchers \ {l} : run'[m] = run[m] /\ step'[m] = step[m]
  BY <1>1, <1>2, <1>3, <1>4, RunTypes
<1>6. /\ overlapped' \in BOOLEAN
      /\ overlapped => overlapped'
      /\ ~overlapped' => \A m \in Launchers \ {l} : ~Active(step[m])
  BY <1>1, <1>4
<1>7. TypeInv'
  BY <1>5, <1>6 DEF IInv, TypeInv
<1>8. Complete' <=> Complete
  BY DEF Complete
<1>9. CacheInv'
  <2> SUFFICES ASSUME ~overlapped' PROVE CacheInv'
    BY DEF CacheInv
  <2>1. ~overlapped /\ \A m \in Launchers \ {l} : ~Active(step'[m])
    BY <1>5, <1>6
  <2>2. \A k, m \in Launchers : Active(step'[k]) /\ Active(step'[m]) => k = m
    BY <2>1
  <2>3. \A m \in Launchers : step'[m].at \notin {"copy", "record"}
    BY <1>3, <1>5, <2>1 DEF Active
  <2> QED
    BY <2>1, <2>2, <2>3 DEF IInv, CacheInv, Active
<1>10. ASSUME NEW m \in Launchers, m # l
       PROVE  StepInv(m)' /\ RunInv(m)'
  BY <1>5, <1>6, <1>8, <1>10, OthersStay
<1>11. StepInv(l)'
  BY <1>3, <1>5 DEF StepInv
<1>12. RunInv(l)'
  BY <1>2, <1>3, <1>5 DEF RunInv, Alive
<1> QED
  BY <1>7, <1>9, <1>10, <1>11, <1>12 DEF IInv

LEMMA ProbeCacheInv ==
    ASSUME IInv, NEW l \in Launchers, ProbeCache(l)
    PROVE  IInv'
<1>1. /\ run[l].pc \in {"cache", "cache_only"}
      /\ UNCHANGED <<pythons, venv, package, step, server, overlapped, kills>>
  BY DEF ProbeCache
<1>2. server[l] = "none" /\ run[l].exit # 1
  BY <1>1 DEF IInv, TypeInv, RunInv
<1>3. CASE Exit(l, 0) /\ UNCHANGED faults
  <2>1. faults' \in 0..MaxFaults /\ 0 \in -2..1
    BY <1>3, RunTypes
  <2> QED
    BY <1>1, <1>2, <1>3, <2>1, CleanExit DEF Alive
<1>4. CASE /\ Compatible(CacheProbe) /\ UNCHANGED faults
           /\ run' = [run EXCEPT ![l].pc = "launch", ![l].runtime = "cache"]
  <2> DEFINE r == [run[l] EXCEPT !.pc = "launch", !.runtime = "cache"]
  <2>1. r \in RunStates /\ run' = [run EXCEPT ![l] = r]
    BY <1>4, RunTypes DEF RunStates, Phases
  <2>2. /\ r.pc = "launch" /\ r.runtime = "cache" /\ r.exit = run[l].exit /\ run'[l] = r
        /\ run[l].faulted => r.faulted
    BY <2>1, RunTypes DEF RunStates
  <2>3. overlapped' \/ Complete'
    BY <1>1, <1>4, AcceptedIsComplete DEF Complete
  <2>4. RunInv(l)'
    BY <1>1, <1>2, <2>2, <2>3 DEF RunInv, Alive
  <2> HIDE DEF r
  <2> QED
    BY <1>1, <1>4, <2>1, <2>2, <2>4, RunTypes, RunStep
<1>5. CASE /\ faults' \in 0..MaxFaults
           /\ run' = [run EXCEPT ![l].pc = "mkdir"]
  <2> DEFINE r == [run[l] EXCEPT !.pc = "mkdir"]
  <2>1. r \in RunStates /\ run' = [run EXCEPT ![l] = r]
    BY <1>5, RunTypes DEF RunStates, Phases
  <2>2. /\ r.pc = "mkdir" /\ r.exit = run[l].exit /\ run'[l] = r
        /\ run[l].faulted => r.faulted
    BY <2>1, RunTypes DEF RunStates
  <2>3. RunInv(l)'
    BY <1>1, <1>2, <2>2 DEF RunInv, Alive
  <2> HIDE DEF r
  <2> QED
    BY <1>1, <1>5, <2>1, <2>2, <2>3, RunTypes, RunStep
<1>6. CASE /\ faults' \in 0..MaxFaults /\ ~MayBootstrap(l) /\ Exit(l, 1)
  <2>1. run[l].faulted \/ run[l].mode # "default" \/ ~Supported
    BY <1>6 DEF MayBootstrap, IInv, RunInv
  <2> QED
    BY <1>1, <1>2, <1>6, <2>1, CleanExit DEF Alive
<1>7. ASSUME NEW slow \in {FALSE, TRUE}, slow => faults < MaxFaults,
             faults' = IF slow THEN faults + 1 ELSE faults
      PROVE  faults' \in 0..MaxFaults
  BY <1>7, RunTypes, BoundsAreNatural
<1> QED
  BY <1>3, <1>4, <1>5, <1>6, <1>7 DEF ProbeCache

\* The cache's directory is made, and the first step begun; or it cannot be made.
LEMMA MakeCacheInv ==
    ASSUME IInv, NEW l \in Launchers, MakeCache(l)
    PROVE  IInv'
<1>1. run[l].pc = "mkdir" /\ UNCHANGED <<pythons, venv, package, server, kills>>
  BY DEF MakeCache
<1>2. server[l] = "none" /\ run[l].exit # 1
  BY <1>1 DEF IInv, TypeInv, RunInv
<1>3. CASE /\ run' = [run EXCEPT ![l].pc = FirstStep] /\ Begin(l, FirstStep)
           /\ UNCHANGED faults
  BY <1>1, <1>2, <1>3, RunTypes, BeginInv DEF FirstStep
<1>4. CASE /\ faults < MaxFaults /\ faults' = faults + 1 /\ UNCHANGED <<step, overlapped>>
           /\ run' = [run EXCEPT ![l].pc = "ended", ![l].exit = 1, ![l].faulted = TRUE]
  BY <1>1, <1>2, <1>4, FaultyExit DEF Alive
<1> QED
  BY <1>3, <1>4 DEF MakeCache

LEMMA FinalProbeInv ==
    ASSUME IInv, NEW l \in Launchers, FinalProbe(l)
    PROVE  IInv'
<1>1. /\ run[l].pc = "final"
      /\ UNCHANGED <<pythons, venv, package, step, server, overlapped, kills>>
  BY DEF FinalProbe
<1>2. /\ server[l] = "none" /\ run[l].exit # 1 /\ venv = "ready"
      /\ overlapped \/ Complete
  BY <1>1 DEF IInv, TypeInv, RunInv
<1>3. CASE /\ Compatible(CacheProbe) /\ UNCHANGED faults
           /\ run' = [run EXCEPT ![l].pc = "launch", ![l].runtime = "cache"]
  <2> DEFINE r == [run[l] EXCEPT !.pc = "launch", !.runtime = "cache"]
  <2>1. r \in RunStates /\ run' = [run EXCEPT ![l] = r]
    BY <1>3, RunTypes DEF RunStates, Phases
  <2>2. /\ r.pc = "launch" /\ r.runtime = "cache" /\ r.exit = run[l].exit /\ run'[l] = r
        /\ run[l].faulted => r.faulted
    BY <2>1, RunTypes DEF RunStates
  <2>3. overlapped' \/ Complete'
    BY <1>1, <1>2 DEF Complete
  <2>4. RunInv(l)'
    BY <1>1, <1>2, <2>2, <2>3 DEF RunInv, Alive
  <2> HIDE DEF r
  <2> QED
    BY <1>1, <1>3, <2>1, <2>2, <2>4, RunTypes, RunStep
<1>4. CASE ~Compatible(CacheProbe) /\ Exit(l, 1) /\ UNCHANGED faults
  <2>1. overlapped
    BY <1>2, <1>4, CompleteIsAccepted
  <2>2. faults' \in 0..MaxFaults
    BY <1>4, RunTypes
  <2> QED
    BY <1>1, <1>2, <1>4, <2>1, <2>2, CleanExit DEF Alive
<1>5. CASE /\ faults < MaxFaults /\ faults' = faults + 1
           /\ run' = [run EXCEPT ![l].pc = "ended", ![l].exit = 1, ![l].faulted = TRUE]
  BY <1>1, <1>2, <1>5, FaultyExit DEF Alive
<1> QED
  BY <1>3, <1>4, <1>5 DEF FinalProbe

\* A step of the bootstrap has ended: the next one, the final probe, or an error, which has
\* its fault.
LEMMA StepReturnsInv ==
    ASSUME IInv, NEW l \in Launchers, StepReturns(l)
    PROVE  IInv'
<1>1. /\ run[l].pc \in {"venv", "pip"} /\ step[l].at \in {"done", "failed"}
      /\ UNCHANGED <<pythons, venv, package, server, faults, kills>>
      /\ step[l].kind = run[l].pc
  BY DEF StepReturns, IInv, RunInv
<1>2. server[l] = "none" /\ run[l].exit # 1
  BY <1>1 DEF IInv, TypeInv, RunInv
<1>3. faults' \in 0..MaxFaults
  BY <1>1, RunTypes
<1>4. CASE /\ step[l].at = "failed" /\ Exit(l, 1) /\ step' = [step EXCEPT ![l] = NoStep]
           /\ UNCHANGED overlapped
  <2>1. run[l].faulted /\ 1 \in -2..1
    BY <1>4 DEF IInv, StepInv
  <2> QED
    BY <1>1, <1>2, <1>3, <1>4, <2>1, CleanExit DEF Alive
<1>5. CASE /\ step[l].at = "done" /\ run[l].pc = "venv" /\ Begin(l, "pip")
           /\ run' = [run EXCEPT ![l].pc = "pip"]
  <2>1. venv = "ready"
    BY <1>1, <1>5 DEF IInv, StepInv
  <2> QED
    BY <1>1, <1>2, <1>3, <1>5, <2>1, BeginInv
<1>6. CASE /\ step[l].at = "done" /\ run[l].pc = "pip"
           /\ run' = [run EXCEPT ![l].pc = "final"]
           /\ step' = [step EXCEPT ![l] = NoStep] /\ UNCHANGED overlapped
  <2> DEFINE r == [run[l] EXCEPT !.pc = "final"]
  <2>1. r \in RunStates /\ run' = [run EXCEPT ![l] = r]
    BY <1>6, RunTypes DEF RunStates, Phases
  <2>2. /\ r.pc = "final" /\ r.exit = run[l].exit /\ run'[l] = r
        /\ run[l].faulted => r.faulted
    BY <2>1, RunTypes DEF RunStates
  <2>3. venv' = "ready" /\ (overlapped' \/ Complete')
    BY <1>1, <1>6 DEF IInv, StepInv, Complete
  <2>4. RunInv(l)'
    BY <1>1, <1>2, <2>2, <2>3 DEF RunInv, Alive
  <2> HIDE DEF r
  <2> QED
    BY <1>1, <1>6, <2>1, <2>2, <2>4, RunTypes, RunStep
<1> QED
  BY <1>1, <1>4, <1>5, <1>6 DEF StepReturns

-----------------------------------------------------------------------------
\* A bootstrap child moves on.
LEMMA ChildStep ==
    ASSUME IInv, NEW l \in Launchers, NEW s \in StepStates,
           step' = [step EXCEPT ![l] = s], s.kind = step[l].kind,
           UNCHANGED <<pythons, server, overlapped, kills>>,
           run' \in [Launchers -> RunStates], faults' \in 0..MaxFaults,
           \A m \in Launchers : /\ run'[m].pc = run[m].pc /\ run'[m].mode = run[m].mode
                                /\ run'[m].runtime = run[m].runtime
                                /\ run'[m].exit = run[m].exit
                                /\ run[m].killed => run'[m].killed
                                /\ run[m].early => run'[m].early
                                /\ run[m].faulted => run'[m].faulted,
           package' \in [Packages -> PackageStates], venv' \in {"absent", "bare", "ready"},
           venv = "ready" => venv' = "ready",
           Complete => overlapped \/ Complete',
           CacheInv', StepInv(l)'
    PROVE  IInv'
<1>1. /\ step' \in [Launchers -> StepStates] /\ step'[l] = s
      /\ \A m \in Launchers \ {l} : step'[m] = step[m]
  BY DEF IInv, TypeInv
<1>2. TypeInv'
  BY <1>1 DEF IInv, TypeInv
<1>3. HasExact' <=> HasExact
  BY DEF HasExact, Compatible
<1>4. Supported' <=> Supported
  BY DEF Supported
<1>5. ASSUME NEW m \in Launchers
      PROVE  RunInv(m)'
  <2>1. RunInv(m) /\ step'[m].kind = step[m].kind
    BY <1>1 DEF IInv
  <2> QED
    BY <1>3, <1>4, <2>1 DEF RunInv
<1>6. ASSUME NEW m \in Launchers, m # l
      PROVE  StepInv(m)'
  <2>1. StepInv(m) /\ step'[m] = step[m]
    BY <1>1, <1>6 DEF IInv
  <2> QED
    BY <2>1 DEF StepInv
<1> QED
  BY <1>2, <1>5, <1>6 DEF IInv

\* The child's types, and what an unchanged launcher is.
LEMMA ChildTypes ==
    ASSUME IInv, NEW l \in Launchers
    PROVE  /\ step \in [Launchers -> StepStates] /\ step[l] \in StepStates
           /\ package \in [Packages -> PackageStates]
           /\ venv \in {"absent", "bare", "ready"}
BY DEF IInv, TypeInv

LEMMA VenvStepInv ==
    ASSUME IInv, NEW l \in Launchers, VenvStep(l)
    PROVE  IInv'
<1>1. /\ step[l].kind = "venv" /\ step[l].at \in {"begin", "linked"}
      /\ UNCHANGED <<pythons, package, run, server, overlapped, faults, kills>>
      /\ venv' = IF step[l].at = "linked" THEN "ready"
                 ELSE IF venv = "absent" THEN "bare" ELSE venv
  BY DEF VenvStep
<1>2. PICK at \in {"linked", "done"} :
        /\ at = "done" <=> step[l].at = "linked"
        /\ step' = [step EXCEPT ![l].at = at]
  BY <1>1 DEF VenvStep
<1> DEFINE s == [step[l] EXCEPT !.at = at]
<1>3. s \in StepStates /\ step' = [step EXCEPT ![l] = s]
  BY <1>2, ChildTypes DEF StepStates
<1>4. s.kind = "venv" /\ s.at = at /\ step'[l] = s
  BY <1>1, <1>3, ChildTypes DEF StepStates
<1>5. \A m \in Launchers \ {l} : step'[m] = step[m]
  BY <1>2, ChildTypes
<1> HIDE DEF s
<1>6. /\ venv' \in {"absent", "bare", "ready"} /\ (venv = "ready" => venv' = "ready")
      /\ at = "done" => venv' = "ready"
  BY <1>1, <1>2, ChildTypes
<1>7. Complete' <=> Complete
  BY <1>1 DEF Complete
<1>8. CacheInv'
  <2>1. \A m \in Launchers : /\ Active(step'[m]) => Active(step[m])
                             /\ step'[m].at \in {"copy", "record"} => step'[m] = step[m]
    BY <1>1, <1>4, <1>5 DEF Active
  <2> QED
    BY <1>1, <2>1 DEF IInv, CacheInv
<1>9. StepInv(l)'
  BY <1>4, <1>6 DEF StepInv
<1> QED
  BY <1>1, <1>3, <1>4, <1>6, <1>7, <1>8, <1>9, ChildStep, ChildTypes, RunTypes

LEMMA PipResolveInv ==
    ASSUME IInv, NEW l \in Launchers, PipResolve(l)
    PROVE  IInv'
<1>1. /\ step[l].kind = "pip" /\ step[l].at = "begin"
      /\ UNCHANGED <<pythons, venv, package, run, server, overlapped, faults, kills>>
      /\ venv = "ready"
  BY DEF PipResolve, IInv, StepInv
<1>2. PICK todo \in SUBSET Packages : todo = {p \in Packages : ~package[p].recorded}
  OBVIOUS
<1>3. PICK at \in {"done", "copy"} :
        /\ at = "done" <=> todo = {}
        /\ step' = [step EXCEPT ![l].todo = todo, ![l].at = at]
  BY <1>1, <1>2 DEF PipResolve
<1> DEFINE s == [step[l] EXCEPT !.todo = todo, !.at = at]
<1>4. s \in StepStates /\ step' = [step EXCEPT ![l] = s]
  BY <1>3, ChildTypes DEF StepStates
<1>5. s.kind = "pip" /\ s.at = at /\ s.todo = todo /\ step'[l] = s
  BY <1>1, <1>4, ChildTypes DEF StepStates
<1>6. \A m \in Launchers \ {l} : step'[m] = step[m]
  BY <1>3, ChildTypes
<1> HIDE DEF s
<1>7. Complete' <=> Complete
  BY <1>1 DEF Complete
<1>8. CacheInv'
  <2>1. \A m \in Launchers :
          /\ Active(step'[m]) => Active(step[m])
          /\ step'[m].at \in {"copy", "record"} => \/ step'[m] = step[m]
                                                   \/ step'[m].todo = todo
    BY <1>1, <1>5, <1>6 DEF Active
  <2> QED
    BY <1>1, <1>2, <2>1 DEF IInv, CacheInv
<1>9. StepInv(l)'
  <2>1. todo = {} => overlapped \/ Complete
    BY <1>2 DEF IInv, CacheInv, Complete
  <2> QED
    BY <1>1, <1>3, <1>5, <1>7, <2>1 DEF StepInv
<1> QED
  BY <1>1, <1>4, <1>5, <1>7, <1>8, <1>9, ChildStep, ChildTypes, RunTypes

\* What pip is to copy is there to copy.
LEMMA FirstIsOne ==
    ASSUME NEW todo \in SUBSET Packages, todo # {}
    PROVE  First(todo) \in todo /\ First(todo) \in Packages
BY DEF First, Packages

LEMMA PipCopyInv ==
    ASSUME IInv, NEW l \in Launchers, PipCopy(l)
    PROVE  IInv'
<1>1. /\ step[l].at = "copy" /\ step[l].kind = "pip" /\ step[l].todo # {}
      /\ step[l].todo \in SUBSET Packages
      /\ UNCHANGED <<pythons, venv, run, server, overlapped, faults, kills>>
      /\ package' = [package EXCEPT ![First(step[l].todo)].files = "torn"]
      /\ step' = [step EXCEPT ![l].at = "record"]
      /\ venv = "ready"
  BY ChildTypes DEF PipCopy, IInv, StepInv, StepStates
<1>2. PICK p \in Packages : p = First(step[l].todo) /\ p \in step[l].todo
  BY <1>1, FirstIsOne
<1> DEFINE s == [step[l] EXCEPT !.at = "record"]
<1>3. s \in StepStates /\ step' = [step EXCEPT ![l] = s]
  BY <1>1, ChildTypes DEF StepStates
<1>4. s.kind = "pip" /\ s.at = "record" /\ s.todo = step[l].todo /\ step'[l] = s
  BY <1>1, <1>3, ChildTypes DEF StepStates
<1>5. \A m \in Launchers \ {l} : step'[m] = step[m]
  BY <1>1, ChildTypes
<1> HIDE DEF s
<1>6. /\ package' \in [Packages -> PackageStates]
      /\ \A q \in Packages \ {p} : package'[q] = package[q]
      /\ \A q \in Packages : package'[q].recorded = package[q].recorded
  <2>1. package' = [package EXCEPT ![p] = [package[p] EXCEPT !.files = "torn"]]
    BY <1>1, <1>2, ChildTypes
  <2>2. /\ [package[p] EXCEPT !.files = "torn"] \in PackageStates
        /\ [package[p] EXCEPT !.files = "torn"].recorded = package[p].recorded
    BY ChildTypes DEF PackageStates
  <2> QED
    BY <2>1, <2>2, ChildTypes
<1>7. ~overlapped => ~package[p].recorded
  BY <1>1, <1>2 DEF IInv, CacheInv
<1>8. Complete => overlapped \/ Complete'
  BY <1>7 DEF Complete
<1>9. CacheInv'
  <2>1. \A m \in Launchers :
          /\ Active(step'[m]) => Active(step[m])
          /\ step'[m].at \in {"copy", "record"} => /\ step'[m].todo = step[m].todo
                                                   /\ step[m].at \in {"copy", "record"}
    BY <1>1, <1>4, <1>5 DEF Active
  <2>2. {q \in Packages : ~package'[q].recorded} = {q \in Packages : ~package[q].recorded}
    BY <1>6
  <2>3. ~overlapped => \A q \in Packages : package'[q].recorded => package'[q].files = "intact"
    BY <1>6, <1>7 DEF IInv, CacheInv
  <2>4. ~overlapped => (package'["bourne"].recorded => package'["mcp"].recorded)
    BY <1>6 DEF IInv, CacheInv, Packages
  <2> QED
    BY <1>1, <2>1, <2>2, <2>3, <2>4 DEF IInv, CacheInv
<1>10. StepInv(l)'
  BY <1>1, <1>4 DEF StepInv
<1>11. /\ venv' \in {"absent", "bare", "ready"} /\ faults' \in 0..MaxFaults
       /\ run' \in [Launchers -> RunStates]
  BY <1>1, ChildTypes, RunTypes
<1> QED
  BY <1>1, <1>3, <1>4, <1>6, <1>8, <1>9, <1>10, <1>11, ChildStep

LEMMA PipRecordInv ==
    ASSUME IInv, NEW l \in Launchers, PipRecord(l)
    PROVE  IInv'
<1>1. /\ step[l].at = "record" /\ step[l].kind = "pip" /\ step[l].todo # {}
      /\ step[l].todo \in SUBSET Packages
      /\ UNCHANGED <<pythons, venv, run, server, overlapped, faults, kills>>
      /\ venv = "ready"
  BY ChildTypes DEF PipRecord, IInv, StepInv, StepStates
<1>2. PICK p \in Packages : p = First(step[l].todo) /\ p \in step[l].todo
  BY <1>1, FirstIsOne
<1>3. PICK rest \in SUBSET Packages : rest = step[l].todo \ {p}
  BY <1>1
<1>4. PICK at \in {"done", "copy"} :
        /\ at = "done" <=> rest = {}
        /\ step' = [step EXCEPT ![l].todo = rest, ![l].at = at]
  BY <1>2, <1>3 DEF PipRecord
<1> DEFINE s == [step[l] EXCEPT !.todo = rest, !.at = at]
<1>5. s \in StepStates /\ step' = [step EXCEPT ![l] = s]
  BY <1>4, ChildTypes DEF StepStates
<1>6. s.kind = "pip" /\ s.at = at /\ s.todo = rest /\ step'[l] = s
  BY <1>1, <1>5, ChildTypes DEF StepStates
<1>7. \A m \in Launchers \ {l} : step'[m] = step[m]
  BY <1>4, ChildTypes
<1> HIDE DEF s
<1>8. PICK files \in {"torn", "intact"} :
        /\ package' = [package EXCEPT ![p].recorded = TRUE, ![p].files = files]
        /\ ~overlapped => files = "intact"
  <2> DEFINE others == {m \in Launchers \ {l} : step[m].kind = "pip" /\ step[m].at = "record"}
  <2>1. ~overlapped => others = {}
    BY <1>1 DEF IInv, CacheInv, Active
  <2>2. package' = [package EXCEPT ![p].recorded = TRUE,
                                   ![p].files = IF \E m \in others : First(step[m].todo) = p
                                                THEN "torn" ELSE "intact"]
    BY <1>2 DEF PipRecord
  <2> HIDE DEF others
  <2> QED
    BY <2>1, <2>2
<1>9. /\ package' \in [Packages -> PackageStates]
      /\ \A q \in Packages \ {p} : package'[q] = package[q]
      /\ package'[p].recorded
      /\ package'[p].files = files
  <2>1. package' = [package EXCEPT ![p] = [package[p] EXCEPT !.recorded = TRUE, !.files = files]]
    BY <1>8, ChildTypes
  <2>2. /\ [package[p] EXCEPT !.recorded = TRUE, !.files = files] \in PackageStates
        /\ [package[p] EXCEPT !.recorded = TRUE, !.files = files].recorded
        /\ [package[p] EXCEPT !.recorded = TRUE, !.files = files].files = files
    BY ChildTypes DEF PackageStates
  <2> QED
    BY <2>1, <2>2, ChildTypes
<1>10. ~overlapped => /\ step[l].todo = {q \in Packages : ~package[q].recorded}
                      /\ rest = {q \in Packages : ~package'[q].recorded}
                      /\ \A q \in Packages : package'[q].recorded => package'[q].files = "intact"
  <2>1. ~overlapped => step[l].todo = {q \in Packages : ~package[q].recorded}
    BY <1>1 DEF IInv, CacheInv
  <2>2. ~overlapped => rest = {q \in Packages : ~package'[q].recorded}
    BY <1>3, <1>9, <2>1
  <2>3. ~overlapped => \A q \in Packages : package'[q].recorded => package'[q].files = "intact"
    BY <1>8, <1>9 DEF IInv, CacheInv
  <2> QED
    BY <2>1, <2>2, <2>3
<1>11. Complete => overlapped \/ Complete'
  BY <1>8, <1>9 DEF Complete
<1>12. CacheInv'
  <2>1. \A m \in Launchers : Active(step'[m]) => Active(step[m])
    BY <1>1, <1>6, <1>7 DEF Active
  <2>2. ~overlapped => \A m \in Launchers : step'[m].at \in {"copy", "record"} => m = l
    BY <1>1, <1>7 DEF IInv, CacheInv, Active
  <2>3. ~overlapped => (package'["bourne"].recorded => package'["mcp"].recorded)
    BY <1>2, <1>9, <1>10 DEF IInv, CacheInv, First, Packages
  <2> QED
    BY <1>1, <1>6, <1>10, <2>1, <2>2, <2>3 DEF IInv, CacheInv
<1>13. StepInv(l)'
  <2>1. rest = {} => overlapped \/ Complete'
    BY <1>10 DEF Complete
  <2> QED
    BY <1>1, <1>4, <1>6, <2>1 DEF StepInv
<1> QED
  BY <1>1, <1>5, <1>6, <1>9, <1>11, <1>12, <1>13, ChildStep, ChildTypes, RunTypes

LEMMA StepFailsInv ==
    ASSUME IInv, NEW l \in Launchers, StepFails(l)
    PROVE  IInv'
<1>1. /\ Active(step[l]) /\ faults < MaxFaults /\ faults' = faults + 1
      /\ step' = [step EXCEPT ![l].at = "failed"]
      /\ run' = [run EXCEPT ![l].faulted = TRUE]
      /\ UNCHANGED <<pythons, venv, package, server, overlapped, kills>>
  BY DEF StepFails
<1> DEFINE s == [step[l] EXCEPT !.at = "failed"]
           r == [run[l] EXCEPT !.faulted = TRUE]
<1>2. s \in StepStates /\ step' = [step EXCEPT ![l] = s]
  BY <1>1, ChildTypes DEF StepStates
<1>3. s.kind = step[l].kind /\ s.at = "failed" /\ step'[l] = s
  BY <1>2, ChildTypes DEF StepStates
<1>4. \A m \in Launchers \ {l} : step'[m] = step[m]
  BY <1>1, ChildTypes
<1>5. r \in RunStates /\ run' = [run EXCEPT ![l] = r]
  BY <1>1, RunTypes DEF RunStates
<1>6. /\ r.pc = run[l].pc /\ r.mode = run[l].mode /\ r.runtime = run[l].runtime
      /\ r.exit = run[l].exit
      /\ r.killed = run[l].killed /\ r.early = run[l].early
      /\ r.faulted
  BY RunTypes DEF RunStates
<1> HIDE DEF r, s
<1>7. /\ run' \in [Launchers -> RunStates] /\ run'[l] = r
      /\ \A m \in Launchers \ {l} : run'[m] = run[m]
  BY <1>5, RunTypes
<1>8. \A m \in Launchers : /\ run'[m].pc = run[m].pc /\ run'[m].mode = run[m].mode
                           /\ run'[m].runtime = run[m].runtime
                           /\ run'[m].exit = run[m].exit
                           /\ run[m].killed => run'[m].killed
                           /\ run[m].early => run'[m].early
                           /\ run[m].faulted => run'[m].faulted
  BY <1>6, <1>7
<1>9. faults' \in 0..MaxFaults
  BY <1>1, RunTypes, BoundsAreNatural
<1>10. Complete' <=> Complete
  BY <1>1 DEF Complete
<1>11. CacheInv'
  <2>1. \A m \in Launchers : /\ Active(step'[m]) => Active(step[m])
                             /\ step'[m].at \in {"copy", "record"} => step'[m] = step[m]
    BY <1>3, <1>4 DEF Active
  <2> QED
    BY <1>1, <2>1 DEF IInv, CacheInv
<1>12. StepInv(l)'
  BY <1>1, <1>3, <1>6, <1>7 DEF IInv, StepInv
<1> QED
  BY <1>1, <1>2, <1>3, <1>7, <1>8, <1>9, <1>10, <1>11, <1>12, ChildStep, ChildTypes

-----------------------------------------------------------------------------
\* The server.
LEMMA LaunchInv ==
    ASSUME IInv, NEW l \in Launchers, Launch(l)
    PROVE  IInv'
<1>1. /\ run[l].pc = "launch"
      /\ UNCHANGED <<pythons, venv, package, step, overlapped, kills>>
  BY DEF Launch
<1>2. server[l] = "none" /\ run[l].exit # 1
  BY <1>1 DEF IInv, TypeInv, RunInv
<1>3. CASE /\ run' = [run EXCEPT ![l].pc = "spawned"] /\ UNCHANGED faults
           /\ server' = [server EXCEPT ![l] = "running"]
  <2> DEFINE r == [run[l] EXCEPT !.pc = "spawned"]
  <2>1. r \in RunStates /\ run' = [run EXCEPT ![l] = r]
    BY <1>3, RunTypes DEF RunStates, Phases
  <2>2. /\ r.pc = "spawned" /\ r.runtime = run[l].runtime /\ r.exit = run[l].exit
        /\ run'[l] = r
        /\ run[l].faulted => r.faulted
    BY <2>1, RunTypes DEF RunStates
  <2>3. /\ server' \in [Launchers -> ServerStates]
        /\ \A m \in Launchers \ {l} : server'[m] = server[m]
    BY <1>3, RunTypes DEF ServerStates, Alive
  <2>4. /\ HasExact => HasExact'
        /\ Complete => Complete'
    BY <1>1 DEF HasExact, Compatible, Complete
  <2>5. RunInv(l)'
    BY <1>1, <1>2, <1>3, <2>2, <2>4 DEF IInv, RunInv
  <2>6. faults' \in 0..MaxFaults /\ kills' \in 0..MaxKills
    BY <1>1, <1>3, RunTypes
  <2> HIDE DEF r
  <2> QED
    BY <1>1, <2>1, <2>2, <2>3, <2>5, <2>6, RunStep
<1>4. CASE /\ faults < MaxFaults /\ faults' = faults + 1 /\ UNCHANGED server
           /\ run' = [run EXCEPT ![l].pc = "ended", ![l].exit = 1, ![l].faulted = TRUE]
  BY <1>1, <1>2, <1>4, FaultyExit DEF Alive
<1> QED
  BY <1>3, <1>4 DEF Launch

\* Handlers, signals, kills and ends of servers: a launcher that has a server goes on or ends.
LEMMA EndStep ==
    ASSUME IInv, NEW l \in Launchers, NEW r \in RunStates, run' = [run EXCEPT ![l] = r],
           UNCHANGED <<pythons, venv, package, step, overlapped, faults>>,
           server' \in [Launchers -> ServerStates],
           \A m \in Launchers \ {l} : server'[m] = server[m],
           kills' \in 0..MaxKills,
           run[l].faulted => r.faulted,
           \/ r.pc \in {run[l].pc, "ended"}
           \/ run[l].pc = "spawned" /\ r.pc = "serve",
           r.runtime = run[l].runtime, r.mode = run[l].mode, r.exit = run[l].exit,
           run[l].killed => r.killed, run[l].early => r.early,
           server[l] = "none" => server'[l] = "none",
           server'[l] \in Alive => server[l] \in Alive,
           r.pc = "ended" => run[l].pc = "ended" \/ r.killed \/ r.early
    PROVE  IInv'
<1>1. run'[l] = r /\ RunInv(l) /\ faults' \in 0..MaxFaults
  BY RunTypes DEF IInv
<1>2. /\ HasExact' <=> HasExact
      /\ Complete' <=> Complete
      /\ Supported' <=> Supported
  BY DEF HasExact, Compatible, Complete, Supported
<1>3. RunInv(l)'
  <2>1. server'[l] # "none" => r.pc \in {"spawned", "serve", "ended"}
    BY <1>1 DEF RunInv
  <2>2. server'[l] \in Alive => r.pc \in {"spawned", "serve"} \/ r.killed \/ r.early
    BY <1>1 DEF RunInv
  <2>3. r.pc = "launch" \/ server'[l] \in Alive =>
           \/ r.runtime = "installed" /\ HasExact'
           \/ r.runtime = "cache" /\ (overlapped' \/ Complete')
    BY <1>1, <1>2 DEF RunInv
  <2> QED
    BY <1>1, <1>2, <2>1, <2>2, <2>3 DEF RunInv
<1> QED
  BY <1>1, <1>3, RunStep

LEMMA InstallHandlersInv ==
    ASSUME IInv, NEW l \in Launchers, InstallHandlers(l)
    PROVE  IInv'
<1> DEFINE r == [run[l] EXCEPT !.pc = "serve"]
<1>1. /\ run[l].pc = "spawned"
      /\ UNCHANGED <<pythons, venv, package, step, server, overlapped, faults, kills>>
  BY DEF InstallHandlers
<1>2. r \in RunStates /\ run' = [run EXCEPT ![l] = r]
  BY RunTypes DEF InstallHandlers, RunStates, Phases
<1>3. /\ r.pc = "serve" /\ r.runtime = run[l].runtime /\ r.mode = run[l].mode
      /\ r.exit = run[l].exit
      /\ run[l].faulted => r.faulted
      /\ run[l].killed => r.killed
      /\ run[l].early => r.early
  BY RunTypes DEF RunStates
<1> HIDE DEF r
<1> QED
  BY <1>1, <1>2, <1>3, RunTypes, EndStep

LEMMA SignalInv ==
    ASSUME IInv, NEW l \in Launchers, NEW sig \in Signals, Signal(l, sig)
    PROVE  IInv'
<1>0. PICK n \in Nat : n = run[l].signals + 1
  BY RunTypes DEF RunStates
<1>1. UNCHANGED <<pythons, venv, package, step, overlapped, faults, kills>>
  BY DEF Signal
<1>2. kills' \in 0..MaxKills
  BY <1>1, RunTypes
<1>3. CASE run[l].pc = "serve" /\ Forward(l, sig)
  <2> DEFINE r == [run[l] EXCEPT !.signals = n, !.forwarded = TRUE]
  <2>1. r \in RunStates /\ run' = [run EXCEPT ![l] = r]
    BY <1>0, <1>3, RunTypes DEF Forward, RunStates
  <2>2. /\ r.pc = run[l].pc /\ r.runtime = run[l].runtime /\ r.mode = run[l].mode
        /\ r.exit = run[l].exit
        /\ run[l].faulted => r.faulted
        /\ run[l].killed => r.killed
        /\ run[l].early => r.early
    BY RunTypes DEF RunStates
  <2>3. /\ server' \in [Launchers -> ServerStates]
        /\ \A m \in Launchers \ {l} : server'[m] = server[m]
        /\ server[l] = "none" => server'[l] = "none"
        /\ server'[l] \in Alive => server[l] \in Alive
    BY <1>3, RunTypes DEF Forward, ServerStates, Alive
  <2> HIDE DEF r
  <2> QED
    BY <1>1, <1>2, <1>3, <2>1, <2>2, <2>3, EndStep
<1>4. CASE /\ UNCHANGED server
           /\ run' = [run EXCEPT ![l].signals = @ + 1, ![l].pc = "ended", ![l].early = TRUE]
  <2> DEFINE r == [run[l] EXCEPT !.signals = n, !.pc = "ended", !.early = TRUE]
  <2>1. r \in RunStates /\ run' = [run EXCEPT ![l] = r]
    BY <1>0, <1>4, RunTypes DEF RunStates, Phases
  <2>2. /\ r.pc = "ended" /\ r.early
        /\ r.runtime = run[l].runtime /\ r.mode = run[l].mode /\ r.exit = run[l].exit
        /\ run[l].faulted => r.faulted
        /\ run[l].killed => r.killed
    BY RunTypes DEF RunStates
  <2> HIDE DEF r
  <2> QED
    BY <1>1, <1>2, <1>4, <2>1, <2>2, RunTypes, EndStep
<1> QED
  BY <1>3, <1>4 DEF Signal

LEMMA KillInv ==
    ASSUME IInv, NEW l \in Launchers, Kill(l)
    PROVE  IInv'
<1>1. /\ kills < MaxKills /\ kills' = kills + 1
      /\ run' = [run EXCEPT ![l].killed = TRUE, ![l].pc = "ended"]
      /\ UNCHANGED <<pythons, venv, package, step, server, overlapped, faults>>
  BY DEF Kill
<1> DEFINE r == [run[l] EXCEPT !.killed = TRUE, !.pc = "ended"]
<1>2. r \in RunStates /\ run' = [run EXCEPT ![l] = r]
  BY <1>1, RunTypes DEF RunStates, Phases
<1>3. /\ r.pc = "ended" /\ r.runtime = run[l].runtime /\ r.mode = run[l].mode
      /\ r.exit = run[l].exit
      /\ run[l].faulted => r.faulted
      /\ run[l].early => r.early
      /\ r.killed
  BY RunTypes DEF RunStates
<1> HIDE DEF r
<1>4. /\ server' \in [Launchers -> ServerStates]
      /\ kills' \in 0..MaxKills
  BY <1>1, RunTypes, BoundsAreNatural
<1> QED
  BY <1>1, <1>2, <1>3, <1>4, EndStep

LEMMA ServerEndsInv ==
    ASSUME IInv, NEW l \in Launchers, ServerEnds(l)
    PROVE  IInv'
<1>1. /\ server[l] \in Alive
      /\ UNCHANGED <<pythons, venv, package, run, step, overlapped, faults, kills>>
      /\ server' = [server EXCEPT ![l] = IF server[l] = "running" THEN "exited"
                                         ELSE "terminated"]
  BY DEF ServerEnds
<1>2. /\ server' \in [Launchers -> ServerStates]
      /\ \A m \in Launchers \ {l} : server'[m] = server[m]
      /\ server'[l] \in {"terminated", "exited"}
  BY <1>1, RunTypes DEF ServerStates
<1>3. PICK r \in RunStates : r = run[l]
  BY RunTypes
<1>4. run' = [run EXCEPT ![l] = r] /\ kills' \in 0..MaxKills
  BY <1>1, <1>3, RunTypes
<1>5. server[l] # "none" /\ server'[l] \notin Alive
  BY <1>1, <1>2 DEF Alive
<1> QED
  BY <1>1, <1>2, <1>3, <1>4, <1>5, EndStep

LEMMA HandOnInv ==
    ASSUME IInv, NEW l \in Launchers, HandOn(l)
    PROVE  IInv'
<1>1. /\ server[l] \in {"terminated", "exited"}
      /\ UNCHANGED <<pythons, venv, package, step, server, overlapped, faults, kills>>
  BY DEF HandOn
<1>2. PICK code \in {0, -2} : Exit(l, code)
  BY DEF HandOn
<1>3. code \in -2..1 /\ code # 1 /\ faults' \in 0..MaxFaults
  BY <1>1, RunTypes
<1> QED
  BY <1>1, <1>2, <1>3, CleanExit DEF Alive

LEMMA LNext == IInv /\ [Next]_vars => IInv'
<1> SUFFICES ASSUME IInv, [Next]_vars PROVE IInv'
  OBVIOUS
<1>1. CASE UNCHANGED vars
  <2>1. /\ UNCHANGED <<pythons, venv, package, run, step, server, faults, kills>>
        /\ UNCHANGED overlapped
    BY <1>1 DEF vars
  <2>2. TypeInv' /\ CacheInv'
    BY <2>1 DEF IInv, TypeInv, CacheInv, Active
  <2>3. Complete' <=> Complete
    BY <2>1 DEF Complete
  <2>4. ASSUME NEW m \in Launchers PROVE StepInv(m)' /\ RunInv(m)'
    BY <2>1, <2>3, OthersStay
  <2> QED
    BY <2>2, <2>4 DEF IInv
<1>2. CASE Next
  <2>1. PICK l \in Launchers :
          \/ \E mode \in {"default", "no_bootstrap", "doctor"} : Start(l, mode)
          \/ LauncherStep(l) \/ BootstrapStep(l) \/ StepFails(l)
          \/ (\E sig \in Signals : Signal(l, sig)) \/ Kill(l) \/ ServerEnds(l)
    BY <1>2 DEF Next
  <2>2. CASE LauncherStep(l)
    BY <2>2, ProbeInstalledInv, ProbeCacheInv, MakeCacheInv, StepReturnsInv, FinalProbeInv,
       LaunchInv, InstallHandlersInv, HandOnInv
    DEF LauncherStep
  <2>3. CASE BootstrapStep(l)
    BY <2>3, VenvStepInv, PipResolveInv, PipCopyInv, PipRecordInv DEF BootstrapStep
  <2> QED
    BY <2>1, <2>2, <2>3, StartInv, StepFailsInv, SignalInv, KillInv, ServerEndsInv
<1> QED
  BY <1>1, <1>2

LEMMA LauncherInvariant == Spec => []IInv
BY LInit, LNext, PTL DEF Spec

-----------------------------------------------------------------------------
\* However many launchers share the cache and wherever they are killed, a server runs on the
\* exact version with MCP support, and on a whole cache if it runs on the cache - until two
\* bootstraps overlap (selectRuntime, probePython, isCompatibleRuntime).
THEOREM ServersHaveTheirRuntime == Spec => []ServerHasItsRuntime
<1>1. IInv => ServerHasItsRuntime
  <2> SUFFICES ASSUME IInv, NEW l \in Launchers, server[l] \in Alive
               PROVE  \/ /\ run[l].runtime = "installed"
                         /\ \E i \in DOMAIN pythons : /\ pythons[i].supported /\ pythons[i].mcp
                                                      /\ pythons[i].bourne = "exact"
                      \/ /\ run[l].runtime = "cache"
                         /\ overlapped \/ \A p \in DOMAIN package :
                                             package[p] = [recorded |-> TRUE, files |-> "intact"]
    BY DEF ServerHasItsRuntime
  <2>1. \/ run[l].runtime = "installed" /\ HasExact
        \/ run[l].runtime = "cache" /\ (overlapped \/ Complete)
    BY DEF IInv, RunInv
  <2>2. CASE run[l].runtime = "installed" /\ HasExact
    BY <2>2 DEF HasExact, Compatible
  <2>3. Complete => \A p \in DOMAIN package : package[p] = [recorded |-> TRUE, files |-> "intact"]
    <3> SUFFICES ASSUME Complete, NEW p \in DOMAIN package
                 PROVE  package[p] = [recorded |-> TRUE, files |-> "intact"]
      OBVIOUS
    <3>1. package[p] \in PackageStates /\ package[p].recorded /\ package[p].files = "intact"
      BY DEF IInv, TypeInv, Complete
    <3>2. package[p].recorded = TRUE
      BY <3>1 DEF PackageStates
    <3> QED
      BY <3>1, <3>2 DEF PackageStates
  <2> QED
    BY <2>1, <2>2, <2>3
<1> QED
  BY <1>1, LauncherInvariant, PTL

\* A launcher that may bootstrap and can gives up only over a fault or an overlap: a cache
\* that a killed bootstrap left at any point is repaired by the next (selectRuntime).
THEOREM CachesAreRepaired == Spec => []CacheIsRepaired
<1>1. IInv => CacheIsRepaired
  BY DEF IInv, RunInv, CacheIsRepaired, Supported
<1> QED
  BY <1>1, LauncherInvariant, PTL

\* A server outlives its launcher only where the launcher was killed outright, or signalled
\* between the spawn and its handlers (launchServer): whatever signals come after.
THEOREM ServersHaveLaunchers == Spec => []ServerHasLauncher
<1>1. IInv => ServerHasLauncher
  <2> SUFFICES ASSUME IInv PROVE ServerHasLauncher
    OBVIOUS
  <2>1. ASSUME NEW l \in Launchers
        PROVE  /\ run[l].pc \in Phases /\ run[l].exit \in -2..1
               /\ run[l].pc \in {"venv", "pip"} => step[l].kind = run[l].pc
               /\ server[l] # "none" => run[l].pc \in {"spawned", "serve", "ended"}
               /\ server[l] \in Alive =>
                      run[l].pc \in {"spawned", "serve"} \/ run[l].killed \/ run[l].early
    BY RunTypes DEF IInv, RunInv, RunStates
  <2>2. LauncherTypeOK
    BY <2>1 DEF IInv, TypeInv, LauncherTypeOK, PackageStates, Phases
  <2> QED
    BY <2>1, <2>2 DEF ServerHasLauncher
<1> QED
  BY <1>1, LauncherInvariant, PTL

=============================================================================
