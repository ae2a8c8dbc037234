--------------------------- MODULE MigrationProofs --------------------------
(***************************************************************************)
(* Proofs about initialize (Migration), for every number of commands and   *)
(* every number of statements per version, with and without deaths.        *)
(*                                                                         *)
(* The argument: the first statement towards a version succeeds for one    *)
(* command only, which owns the migration from then on.  Whoever holds an  *)
(* older copy of user_version fails at its own first statement, so that    *)
(* the owner's copy is always the file's.                                  *)
(***************************************************************************)
EXTENDS Migration, TLAPS

\* p has executed a statement towards the version after its copy of user_version.
Owns(p) == proc[p].pc = "migrate" /\ proc[p].next > 1

\* Versions up to the file's are complete, and at most one is under way.
FileInv ==
    \A v \in Versions :
        /\ v <= version => applied[v] = Statements[v]
        /\ v > version + 1 => applied[v] = 0

\* What a command's copy of user_version says about the file.
CopyInv ==
    \A p \in Procs :
        /\ proc[p].opened <= proc[p].version /\ proc[p].version <= version
        /\ proc[p].pc # "idle" => proc[p].version < Latest
        /\ proc[p].next \in Nat \ {0}
        /\ proc[p].next > 1 => proc[p].pc = "migrate"
        /\ Owns(p) => /\ version = proc[p].version
                      /\ applied[version + 1] = proc[p].next - 1
                      /\ ~NeedsRebuild(p)

OneOwner == \A p, q \in Procs : Owns(p) /\ Owns(q) => p = q

\* Statements without an owner are those that a death left behind.
OwnedInv ==
    ~died /\ version < Latest /\ applied[version + 1] # 0 => \E p \in Procs : Owns(p)

\* A file with narrow tables was opened at a released schema by everybody.
NarrowInv ==
    narrow => /\ version \in {4, 5, 6}
              /\ \A p \in Procs : proc[p].pc # "idle" => proc[p].opened \in {4, 5, 6}

IInv == TypeOK /\ FileInv /\ CopyInv /\ OneOwner /\ OwnedInv /\ NarrowInv

-----------------------------------------------------------------------------
LEMMA Counts ==
    /\ Latest \in Nat /\ Latest >= 7
    /\ \A v \in Versions : v \in Nat /\ Statements[v] \in Nat \ {0}
    /\ \A n \in Nat : n >= 1 /\ n <= Latest => n \in Versions
BY MigrationAssumption DEF Latest, Versions

LEMMA MigrationInit == Init => IInv
<1> SUFFICES ASSUME Init PROVE IInv
  OBVIOUS
<1> USE Counts DEF Init
<1>1. \A p \in Procs : proc[p] = Idle
  OBVIOUS
<1>2. /\ Idle \in [pc : {"idle", "look", "migrate"}, version : 0..Latest, opened : 0..Latest,
                   next : Nat]
      /\ Idle.pc = "idle" /\ Idle.version = 0 /\ Idle.opened = 0 /\ Idle.next = 1
  BY DEF Idle
<1>3. TypeOK
  <2>1. applied \in [Versions -> Nat] /\ \A v \in Versions : applied[v] <= Statements[v]
    BY DEF Whole
  <2>2. narrow \in BOOLEAN /\ died \in BOOLEAN
    OBVIOUS
  <2>3. proc \in [Procs -> [pc : {"idle", "look", "migrate"}, version : 0..Latest,
                            opened : 0..Latest, next : Nat]]
    BY <1>2
  <2> QED
    BY <2>1, <2>2, <2>3 DEF TypeOK
<1>4. version \in Nat
  OBVIOUS
<1>5. FileInv /\ (version < Latest => applied[version + 1] = 0)
  BY <1>4 DEF FileInv, Whole
<1>6. CopyInv /\ OneOwner
  BY <1>1, <1>2, <1>4 DEF CopyInv, OneOwner, Owns
<1>7. OwnedInv /\ NarrowInv
  BY <1>1, <1>2, <1>5 DEF OwnedInv, NarrowInv
<1> QED
  BY <1>3, <1>5, <1>6, <1>7 DEF IInv

\* A command that owns nothing gives up, or any command dies.
LEMMA LeaveInv ==
    ASSUME IInv, NEW p \in Procs, Leave(p), UNCHANGED <<version, applied, narrow>>,
           \/ ~Owns(p) /\ UNCHANGED died
           \/ died'
    PROVE  IInv'
<1> USE Counts DEF IInv
<1>1. proc'[p] = Idle /\ \A q \in Procs \ {p} : proc'[q] = proc[q]
  BY DEF Leave, TypeOK
<1>2. Idle.pc = "idle" /\ Idle.version = 0 /\ Idle.opened = 0 /\ Idle.next = 1
  BY DEF Idle
<1>3. TypeOK'
  <2>1. Idle \in [pc : {"idle", "look", "migrate"}, version : 0..Latest, opened : 0..Latest,
                  next : Nat]
    BY DEF Idle
  <2>2. died' \in BOOLEAN
    BY DEF TypeOK
  <2> HIDE DEF IInv
  <2>3. TypeOK
    BY DEF IInv
  <2> QED
    BY <2>1, <2>2, <2>3 DEF TypeOK, Leave
<1>4. FileInv'
  BY DEF FileInv
<1>5. ~Owns(p)' /\ \A q \in Procs \ {p} : Owns(q)' <=> Owns(q)
  BY <1>1, <1>2 DEF Owns
<1>6. CopyInv' /\ OneOwner'
  BY <1>1, <1>2, <1>5 DEF CopyInv, OneOwner, TypeOK, NeedsRebuild
<1>7. OwnedInv'
  BY <1>5 DEF OwnedInv
<1>8. NarrowInv'
  BY <1>1, <1>2 DEF NarrowInv
<1> QED
  BY <1>3, <1>4, <1>6, <1>7, <1>8

\* The copy is the file's version when it is made.
LEMMA OpenInv ==
    ASSUME IInv, NEW p \in Procs, Open(p)
    PROVE  IInv'
<1> DEFINE r == [Idle EXCEPT !.pc = IF version = 0 THEN "look" ELSE "migrate",
                             !.version = version, !.opened = version]
<1>0. /\ TypeOK /\ FileInv /\ CopyInv /\ OneOwner /\ OwnedInv /\ NarrowInv
      /\ UNCHANGED <<version, applied, narrow, died>> /\ version < Latest
      /\ version \in 0..Latest /\ proc[p].pc = "idle"
  BY Counts DEF IInv, Open, TypeOK
<1>1. /\ proc' = [proc EXCEPT ![p] = r]
      /\ r.pc \in {"look", "migrate"} /\ r.version = version /\ r.opened = version /\ r.next = 1
      /\ r \in [pc : {"idle", "look", "migrate"}, version : 0..Latest, opened : 0..Latest,
                next : Nat]
  BY <1>0 DEF Open, Idle
<1> HIDE DEF r
<1>2. proc'[p] = r /\ \A q \in Procs \ {p} : proc'[q] = proc[q]
  BY <1>0, <1>1 DEF TypeOK
<1>3. TypeOK' /\ FileInv'
  BY <1>0, <1>1 DEF TypeOK, FileInv
<1>4. ~Owns(p) /\ ~Owns(p)' /\ \A q \in Procs \ {p} : Owns(q)' <=> Owns(q)
  BY <1>0, <1>1, <1>2 DEF Owns
<1>5. CopyInv' /\ OneOwner'
  BY <1>0, <1>1, <1>2, <1>4, Counts DEF CopyInv, OneOwner, NeedsRebuild
<1>6. OwnedInv' /\ NarrowInv'
  BY <1>0, <1>1, <1>2, <1>4 DEF OwnedInv, NarrowInv
<1> QED
  BY <1>3, <1>5, <1>6 DEF IInv

\* An unversioned file without tables may be migrated.
LEMMA LookInv ==
    ASSUME IInv, NEW p \in Procs, LookForTables(p)
    PROVE  IInv'
<1>0. /\ TypeOK /\ FileInv /\ CopyInv /\ OneOwner /\ OwnedInv /\ NarrowInv
      /\ UNCHANGED <<version, applied, narrow, died>> /\ proc[p].pc = "look"
  BY DEF IInv, LookForTables
<1>1. ~Owns(p)
  BY <1>0 DEF Owns
<1>2. CASE Leave(p)
  BY <1>0, <1>1, <1>2, LeaveInv
<1>3. CASE proc' = [proc EXCEPT ![p].pc = "migrate"]
  <2>1. /\ proc'[p].pc = "migrate" /\ proc'[p].version = proc[p].version
        /\ proc'[p].opened = proc[p].opened /\ proc'[p].next = proc[p].next
        /\ \A q \in Procs \ {p} : proc'[q] = proc[q]
    BY <1>0, <1>3 DEF TypeOK
  <2>2. TypeOK' /\ FileInv'
    BY <1>0, <1>3 DEF TypeOK, FileInv
  <2>3. ~Owns(p)' /\ \A q \in Procs \ {p} : Owns(q)' <=> Owns(q)
    BY <1>0, <2>1, Counts DEF Owns, CopyInv
  <2>4. CopyInv' /\ OneOwner'
    BY <1>0, <2>1, <2>3 DEF CopyInv, OneOwner, NeedsRebuild
  <2>5. OwnedInv' /\ NarrowInv'
    BY <1>0, <1>1, <2>1, <2>3 DEF OwnedInv, NarrowInv
  <2> QED
    BY <2>2, <2>4, <2>5 DEF IInv
<1> QED
  BY <1>2, <1>3 DEF LookForTables

\* The first statement makes its command the owner, and fails for every other command.
LEMMA StatementInv ==
    ASSUME IInv, NEW p \in Procs, Statement(p)
    PROVE  IInv'
<1> DEFINE v == proc[p].version + 1
<1>0. /\ TypeOK /\ FileInv /\ CopyInv /\ OneOwner /\ OwnedInv /\ NarrowInv
      /\ UNCHANGED <<version, narrow, died>> /\ proc[p].pc = "migrate" /\ ~NeedsRebuild(p)
      /\ proc[p].next <= Statements[v]
  BY DEF IInv, Statement, Migrating
<1>1. /\ version \in Nat /\ proc[p].version \in Nat /\ v \in Versions
      /\ proc[p].next \in Nat \ {0} /\ applied[v] \in Nat /\ Statements[v] \in Nat
  BY <1>0, Counts DEF TypeOK, CopyInv
<1>2. CASE applied[v] < proc[p].next
  <2>1. version = proc[p].version /\ applied[v] = proc[p].next - 1
    <3>1. CASE proc[p].next > 1
      BY <1>0, <3>1 DEF CopyInv, Owns
    <3>2. CASE proc[p].next = 1
      <4>1. applied[v] = 0
        BY <1>1, <1>2, <3>2
      <4>2. ~(v <= version)
        BY <1>0, <1>1, <4>1, Counts DEF FileInv
      <4> QED
        BY <1>0, <1>1, <3>2, <4>1, <4>2 DEF CopyInv
    <3> QED
      BY <1>1, <3>1, <3>2
  <2>2. /\ applied' = [applied EXCEPT ![v] = @ + 1]
        /\ proc' = [proc EXCEPT ![p].next = @ + 1]
    BY <1>2 DEF Statement
  <2>3. /\ proc'[p].pc = "migrate" /\ proc'[p].version = proc[p].version
        /\ proc'[p].opened = proc[p].opened /\ proc'[p].next = proc[p].next + 1
        /\ \A q \in Procs \ {p} : proc'[q] = proc[q]
    BY <1>0, <2>2 DEF TypeOK
  <2>4. applied'[v] = applied[v] + 1 /\ \A w \in Versions \ {v} : applied'[w] = applied[w]
    BY <1>0, <1>1, <2>2 DEF TypeOK
  <2>5. TypeOK'
    <3>1. proc' \in [Procs -> [pc : {"idle", "look", "migrate"}, version : 0..Latest,
                               opened : 0..Latest, next : Nat]]
      BY <1>0, <2>2 DEF TypeOK
    <3>2. applied' \in [Versions -> Nat] /\ \A w \in Versions : applied'[w] <= Statements[w]
      BY <1>0, <1>1, <2>1, <2>2, <2>4 DEF TypeOK
    <3> QED
      BY <1>0, <3>1, <3>2 DEF TypeOK
  <2>6. FileInv'
    BY <1>0, <1>1, <2>1, <2>4, Counts DEF FileInv
  <2>7. Owns(p)' /\ \A q \in Procs \ {p} : (Owns(q)' <=> Owns(q)) /\ ~Owns(q)
    <3>1. ASSUME NEW q \in Procs \ {p}, Owns(q) PROVE FALSE
      <4>1. /\ version = proc[q].version /\ applied[v] = proc[q].next - 1 /\ proc[q].next > 1
            /\ proc[q].next \in Nat
        BY <1>0, <2>1, <3>1 DEF CopyInv, Owns
      <4>2. proc[p].next > 1
        BY <1>1, <2>1, <4>1
      <4> QED
        BY <1>0, <3>1, <4>2 DEF OneOwner, Owns
    <3> QED
      BY <1>1, <2>3, <3>1 DEF Owns
  <2>8. CopyInv'
    <3>1. ASSUME NEW q \in Procs \ {p} PROVE CopyInv!(q)'
      BY <1>0, <2>3, <2>7 DEF CopyInv
    <3>2. CopyInv!(p)'
      BY <1>0, <1>1, <2>1, <2>3, <2>4 DEF CopyInv, NeedsRebuild
    <3> QED
      BY <3>1, <3>2 DEF CopyInv
  <2>9. OneOwner' /\ OwnedInv'
    BY <2>7 DEF OneOwner, OwnedInv
  <2>10. NarrowInv'
    BY <1>0, <2>3 DEF NarrowInv
  <2> QED
    BY <2>5, <2>6, <2>8, <2>9, <2>10 DEF IInv
<1>3. CASE ~(applied[v] < proc[p].next)
  <2>1. ~Owns(p)
    BY <1>0, <1>1, <1>3 DEF CopyInv
  <2> QED
    BY <1>0, <1>3, <2>1, LeaveInv DEF Statement
<1> QED
  BY <1>2, <1>3

\* Only the owner sets user_version, to the version after the file's.
LEMMA SetVersionInv ==
    ASSUME IInv, NEW p \in Procs, SetVersion(p)
    PROVE  IInv' /\ version' = version + 1
<1> DEFINE v == proc[p].version + 1
<1>0. /\ TypeOK /\ FileInv /\ CopyInv /\ OneOwner /\ OwnedInv /\ NarrowInv
      /\ UNCHANGED <<applied, narrow, died>> /\ proc[p].pc = "migrate" /\ ~NeedsRebuild(p)
      /\ proc[p].next > Statements[v] /\ version' = v
  BY DEF IInv, SetVersion, Migrating
<1>1. /\ version \in Nat /\ proc[p].version \in Nat /\ v \in Versions
      /\ proc[p].next \in Nat \ {0} /\ Statements[v] \in Nat \ {0} /\ applied[v] \in Nat
      /\ applied[v] <= Statements[v]
  BY <1>0, Counts DEF TypeOK, CopyInv
<1>2. Owns(p) /\ version = proc[p].version /\ applied[v] = proc[p].next - 1
  BY <1>0, <1>1 DEF CopyInv, Owns
<1>3. applied[v] = Statements[v] /\ version' = version + 1
  BY <1>0, <1>1, <1>2
<1>4. \A q \in Procs \ {p} : ~Owns(q)
  BY <1>0, <1>2 DEF OneOwner
<1>5. /\ proc'[p].pc \in {"idle", "migrate"} /\ proc'[p].version \in 0..v
      /\ proc'[p].next = 1 /\ proc'[p].opened \in {0, proc[p].opened}
      /\ proc'[p].opened <= proc'[p].version
      /\ proc'[p].pc # "idle" => proc'[p].version < Latest /\ proc'[p].opened = proc[p].opened
      /\ \A q \in Procs \ {p} : proc'[q] = proc[q]
      /\ proc' \in [Procs -> [pc : {"idle", "look", "migrate"}, version : 0..Latest,
                              opened : 0..Latest, next : Nat]]
  <2>1. CASE v = Latest
    BY <1>0, <1>1, <2>1, Counts DEF SetVersion, Leave, Idle, TypeOK
  <2>2. CASE v # Latest
    <3>1. proc' = [proc EXCEPT ![p].version = v, ![p].next = 1]
      BY <2>2 DEF SetVersion
    <3>2. v \in 0..Latest /\ v < Latest /\ proc[p].opened <= v /\ proc[p].opened \in Nat
      BY <1>0, <1>1, <2>2, Counts DEF Versions, CopyInv, TypeOK
    <3> QED
      BY <1>0, <1>1, <3>1, <3>2 DEF TypeOK
  <2> QED
    BY <2>1, <2>2
<1>6. TypeOK' /\ FileInv'
  BY <1>0, <1>1, <1>3, <1>5, Counts DEF TypeOK, FileInv, Versions
<1>7. \A q \in Procs : ~Owns(q)'
  BY <1>4, <1>5 DEF Owns
<1>8. CopyInv'
  <2>1. ASSUME NEW q \in Procs \ {p} PROVE CopyInv!(q)'
    BY <1>0, <1>1, <1>3, <1>5, <1>7 DEF CopyInv, TypeOK
  <2>2. CopyInv!(p)'
    BY <1>1, <1>0, <1>5, <1>7
  <2> QED
    BY <2>1, <2>2 DEF CopyInv
<1>9. OneOwner' /\ OwnedInv'
  <2>1. version' < Latest => applied'[version' + 1] = 0
    BY <1>0, <1>1, <1>3, Counts DEF FileInv
  <2> QED
    BY <1>7, <2>1 DEF OneOwner, OwnedInv
<1>10. NarrowInv'
  <2>1. narrow => proc[p].opened \in {4, 5, 6} /\ version \in {4, 5}
    BY <1>0, <1>1, <1>2 DEF NarrowInv, NeedsRebuild
  <2> QED
    BY <1>0, <1>1, <1>3, <1>5, <2>1 DEF NarrowInv
<1> QED
  BY <1>3, <1>6, <1>8, <1>9, <1>10 DEF IInv

\* The rebuild is one transaction: nobody can be in the middle of schema 7 when it succeeds.
LEMMA RebuildInv ==
    ASSUME IInv, NEW p \in Procs, Rebuild(p)
    PROVE  IInv' /\ version' >= version
<1>0. /\ TypeOK /\ FileInv /\ CopyInv /\ OneOwner /\ OwnedInv /\ NarrowInv
      /\ UNCHANGED died /\ Leave(p) /\ proc[p].pc = "migrate" /\ NeedsRebuild(p)
  BY DEF IInv, Rebuild
<1>1. /\ version \in Nat /\ proc[p].version = 6 /\ version >= 6 /\ 7 \in Versions /\ ~Owns(p)
  BY <1>0, Counts DEF TypeOK, CopyInv, NeedsRebuild
<1>2. CASE applied[7] = 0
  <2>1. /\ applied' = [applied EXCEPT ![7] = Statements[7]]
        /\ version' = 7 /\ narrow' = FALSE
    BY <1>2 DEF Rebuild
  <2>2. version = 6
    BY <1>0, <1>1, <1>2, Counts DEF FileInv
  <2>3. /\ \A q \in Procs \ {p} : proc'[q] = proc[q]
        /\ proc'[p].pc = "idle" /\ proc'[p].version = 0 /\ proc'[p].opened = 0
        /\ proc'[p].next = 1
    BY <1>0 DEF Leave, Idle, TypeOK
  <2>4. \A q \in Procs : ~Owns(q) /\ ~Owns(q)'
    <3>1. ASSUME NEW q \in Procs, Owns(q) PROVE FALSE
      <4>1. applied[7] = proc[q].next - 1 /\ proc[q].next > 1 /\ proc[q].next \in Nat
        BY <1>0, <2>2, <3>1 DEF CopyInv, Owns
      <4> QED
        BY <1>2, <4>1
    <3> QED
      BY <2>3, <3>1 DEF Owns
  <2>5. TypeOK'
    <3>1. proc' \in [Procs -> [pc : {"idle", "look", "migrate"}, version : 0..Latest,
                               opened : 0..Latest, next : Nat]]
      BY <1>0, Counts DEF TypeOK, Leave, Idle
    <3>2. applied' \in [Versions -> Nat] /\ \A w \in Versions : applied'[w] <= Statements[w]
      BY <1>0, <1>1, <2>1, Counts DEF TypeOK
    <3>3. narrow' \in BOOLEAN /\ died' \in BOOLEAN /\ version' \in 0..(Latest + 1)
      <4>1. narrow' \in BOOLEAN
        BY <2>1
      <4>2. died' \in BOOLEAN
        BY <1>0 DEF TypeOK
      <4>3. version' \in 0..(Latest + 1)
        BY <2>1, Counts
      <4> QED
        BY <4>1, <4>2, <4>3
    <3> QED
      BY <3>1, <3>2, <3>3 DEF TypeOK
  <2>6. FileInv'
    BY <1>0, <1>1, <2>1, <2>2, Counts DEF FileInv, TypeOK
  <2>7. CopyInv'
    <3>1. ASSUME NEW q \in Procs \ {p} PROVE CopyInv!(q)'
      BY <1>0, <2>1, <2>2, <2>3, <2>4 DEF CopyInv, TypeOK
    <3>2. CopyInv!(p)'
      BY <2>1, <2>3, <2>4
    <3> QED
      BY <3>1, <3>2 DEF CopyInv
  <2>8. OneOwner' /\ NarrowInv'
    BY <2>1, <2>4 DEF OneOwner, NarrowInv
  <2>9. OwnedInv'
    <3>1. 7 < Latest => applied'[8] = 0
      BY <1>0, <1>1, <2>1, <2>2, Counts DEF FileInv, TypeOK
    <3> QED
      BY <2>1, <3>1 DEF OwnedInv
  <2> QED
    BY <2>1, <2>2, <2>5, <2>6, <2>7, <2>8, <2>9 DEF IInv
<1>3. CASE applied[7] # 0
  BY <1>0, <1>1, <1>3, LeaveInv DEF Rebuild
<1> QED
  BY <1>2, <1>3

LEMMA MigrationNext == IInv /\ [Next]_vars => IInv' /\ version' >= version
<1> SUFFICES ASSUME IInv, [Next]_vars PROVE IInv' /\ version' >= version
  OBVIOUS
<1>0. version \in Nat
  BY Counts DEF IInv, TypeOK
<1>1. CASE UNCHANGED vars
  BY <1>0, <1>1 DEF vars, IInv, TypeOK, FileInv, CopyInv, OneOwner, Owns, OwnedInv, NarrowInv,
                    NeedsRebuild
<1>2. ASSUME NEW p \in Procs, Open(p) PROVE IInv' /\ version' >= version
  <2>1. version' = version
    BY <1>2 DEF Open
  <2> QED
    BY <1>0, <1>2, <2>1, OpenInv
<1>3. ASSUME NEW p \in Procs, LookForTables(p) PROVE IInv' /\ version' >= version
  <2>1. version' = version
    BY <1>3 DEF LookForTables
  <2> QED
    BY <1>0, <1>3, <2>1, LookInv
<1>4. ASSUME NEW p \in Procs, Statement(p) PROVE IInv' /\ version' >= version
  <2>1. version' = version
    BY <1>4 DEF Statement
  <2> QED
    BY <1>0, <1>4, <2>1, StatementInv
<1>5. ASSUME NEW p \in Procs, SetVersion(p) PROVE IInv' /\ version' >= version
  BY <1>0, <1>5, SetVersionInv
<1>6. ASSUME NEW p \in Procs, Rebuild(p) PROVE IInv' /\ version' >= version
  BY <1>6, RebuildInv
<1>7. ASSUME NEW p \in Procs, Crash(p) PROVE IInv' /\ version' >= version
  BY <1>0, <1>7, LeaveInv DEF Crash
<1> QED
  BY <1>1, <1>2, <1>3, <1>4, <1>5, <1>6, <1>7 DEF Next, Step

LEMMA MigrationInvariant == Spec => []IInv
  BY MigrationInit, MigrationNext, PTL DEF Spec

-----------------------------------------------------------------------------
(***************************************************************************)
(* The results.                                                            *)
(***************************************************************************)

\* However many commands race to migrate a file, once they are done and none
\* has died the file has exactly the objects of its user_version.
THEOREM RacesLeaveWholeFile == Spec => []MigrationIsWhole
<1>1. IInv => MigrationIsWhole
  <2> SUFFICES ASSUME IInv, Quiescent, ~died, version <= Latest PROVE applied = Whole(version)
    BY DEF IInv, MigrationIsWhole
  <2>1. \A p \in Procs : ~Owns(p)
    BY DEF Quiescent, Owns
  <2>2. version \in Nat /\ (version < Latest => applied[version + 1] = 0)
    BY <2>1, Counts DEF IInv, OwnedInv, TypeOK
  <2>3. ASSUME NEW w \in Versions PROVE applied[w] = IF w <= version THEN Statements[w] ELSE 0
    <3>1. CASE w <= version
      BY <3>1 DEF IInv, FileInv
    <3>2. CASE w > version + 1
      BY <2>2, <3>2, Counts DEF IInv, FileInv
    <3>3. CASE w = version + 1
      BY <2>2, <3>3, Counts DEF Versions
    <3> QED
      BY <2>2, <3>1, <3>2, <3>3, Counts
  <2> QED
    BY <2>3 DEF IInv, TypeOK, Whole
<1> QED
  BY <1>1, MigrationInvariant, PTL

\* user_version never falls, although every command writes it from a copy
\* that it read before it migrated anything.
THEOREM VersionOnlyRises == Spec => VersionNeverFalls
<1>1. IInv /\ [Next]_vars => [version' >= version]_vars
  BY MigrationNext
<1> QED
  BY <1>1, MigrationInvariant, PTL DEF Spec, VersionNeverFalls

\* A file with the current version has had its narrow tables rebuilt, even if
\* the command that began its migration died and others took it up.
THEOREM CurrentFileIsWide == Spec => []CurrentSchemaIsWide
<1>1. IInv => CurrentSchemaIsWide
  BY Counts DEF IInv, NarrowInv, CurrentSchemaIsWide
<1> QED
  BY <1>1, MigrationInvariant, PTL

=============================================================================
