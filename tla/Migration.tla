------------------------------ MODULE Migration -----------------------------
(***************************************************************************)
(* ExperimentStore.initialize (storage.py): the schema of the SQLite file  *)
(* is brought up to date by whichever command opens it first, one          *)
(* statement after the other.  Python's sqlite3 opens no transaction for   *)
(* CREATE, ALTER or PRAGMA, so that every statement is durable by itself;  *)
(* only the rebuild of released tables (6 to 7) is inside BEGIN ... commit.*)
(*                                                                         *)
(* Commands are processes of their own: two of them can open a file at the *)
(* same time, and each can die between two statements or be refused the    *)
(* file's lock for 10 s.                                                   *)
(***************************************************************************)
EXTENDS Naturals, Sequences

CONSTANTS
    Procs,          \* commands that open the file
    Statements,     \* Statements[v]: number of statements that lead to schema v
    Crashes         \* whether commands die while they migrate

Latest == Len(Statements)
Versions == 1..Latest

ASSUME MigrationAssumption ==
    /\ Statements \in Seq(Nat \ {0}) /\ Latest >= 7
    /\ Crashes \in BOOLEAN

VARIABLES
    version,    \* PRAGMA user_version of the file
    applied,    \* applied[v]: how many statements of schema v the file has
    narrow,     \* the tables were created by a release that knows no LSF
    proc,       \* proc[p]: p's run of initialize
    died        \* whether a command has died while it migrated

vars == <<version, applied, narrow, proc, died>>

Idle == [pc |-> "idle", version |-> 0, opened |-> 0, next |-> 1]

TypeOK ==
    /\ version \in 0..(Latest + 1)
    /\ applied \in [Versions -> Nat]
    /\ \A v \in Versions : applied[v] <= Statements[v]
    /\ narrow \in BOOLEAN /\ died \in BOOLEAN
    /\ proc \in [Procs -> [pc : {"idle", "look", "migrate"}, version : 0..Latest,
                           opened : 0..Latest, next : Nat]]

Whole(v) == [w \in Versions |-> IF w <= v THEN Statements[w] ELSE 0]

\* A file that does not exist yet, one that any release left behind, or one
\* that a newer release has migrated.
Init ==
    /\ version \in 0..(Latest + 1)
    /\ applied = Whole(version)
    /\ narrow \in IF version \in {4, 5, 6} THEN BOOLEAN ELSE {FALSE}
    /\ proc = [p \in Procs |-> Idle]
    /\ died = FALSE

-----------------------------------------------------------------------------
Leave(p) == proc' = [proc EXCEPT ![p] = Idle]

\* user_version is read once; a current file needs nothing and a newer one is
\* refused.  An unversioned file must also have no tables.
Open(p) ==
    /\ proc[p].pc = "idle" /\ version < Latest
    /\ proc' = [proc EXCEPT ![p] = [Idle EXCEPT
            !.pc = IF version = 0 THEN "look" ELSE "migrate",
            !.version = version, !.opened = version]]
    /\ UNCHANGED <<version, applied, narrow, died>>

LookForTables(p) ==
    /\ proc[p].pc = "look"
    /\ IF applied[1] = 0
       THEN proc' = [proc EXCEPT ![p].pc = "migrate"]
       ELSE Leave(p)
    /\ UNCHANGED <<version, applied, narrow, died>>

\* Mutant: only the last released schema is rebuilt.
NeedsRebuildLast(p) == proc[p].version = 6 /\ proc[p].opened = 6

\* The last step of a file that was opened with a released schema 4, 5 or 6
\* rebuilds the tables whose CHECK constraints are too narrow.
NeedsRebuild(p) == proc[p].version = 6 /\ proc[p].opened \in {4, 5, 6}

Migrating(p) == proc[p].pc = "migrate" /\ ~NeedsRebuild(p)

\* Mutant: CREATE ... IF NOT EXISTS.
StatementIfNotExists(p) ==
    LET v == proc[p].version + 1 IN
    /\ Migrating(p) /\ proc[p].next <= Statements[v]
    /\ applied' = [applied EXCEPT ![v] = IF @ < proc[p].next THEN @ + 1 ELSE @]
    /\ proc' = [proc EXCEPT ![p].next = @ + 1]
    /\ UNCHANGED <<version, narrow, died>>

\* One statement.  A table, column or index that is there already raises
\* sqlite3.OperationalError, which ends initialize.
Statement(p) ==
    LET v == proc[p].version + 1 IN
    /\ Migrating(p) /\ proc[p].next <= Statements[v]
    /\ IF applied[v] < proc[p].next
       THEN /\ applied' = [applied EXCEPT ![v] = @ + 1]
            /\ proc' = [proc EXCEPT ![p].next = @ + 1]
       ELSE Leave(p) /\ UNCHANGED applied
    /\ UNCHANGED <<version, narrow, died>>

\* Mutant: the loop over the statements stops one short.
SetVersionEarly(p) ==
    LET v == proc[p].version + 1 IN
    /\ Migrating(p) /\ proc[p].next >= Statements[v]
    /\ version' = v
    /\ IF v = Latest THEN Leave(p)
       ELSE proc' = [proc EXCEPT ![p].version = v, ![p].next = 1]
    /\ UNCHANGED <<applied, narrow, died>>

\* Mutant: "elif" instead of "if", one version for each open.
SetVersionOnce(p) ==
    LET v == proc[p].version + 1 IN
    /\ Migrating(p) /\ proc[p].next > Statements[v]
    /\ version' = v
    /\ Leave(p)
    /\ UNCHANGED <<applied, narrow, died>>

SetVersion(p) ==
    LET v == proc[p].version + 1 IN
    /\ Migrating(p) /\ proc[p].next > Statements[v]
    /\ version' = v
    /\ IF v = Latest THEN Leave(p)
       ELSE proc' = [proc EXCEPT ![p].version = v, ![p].next = 1]
    /\ UNCHANGED <<applied, narrow, died>>

\* BEGIN, copy and rename the tables, create the evidence table of schema 7,
\* set user_version, commit; everything is rolled back if that table exists.
Rebuild(p) ==
    /\ proc[p].pc = "migrate" /\ NeedsRebuild(p)
    /\ IF applied[7] = 0
       THEN /\ applied' = [applied EXCEPT ![7] = Statements[7]]
            /\ version' = 7 /\ narrow' = FALSE
       ELSE UNCHANGED <<version, applied, narrow>>
    /\ Leave(p)
    /\ UNCHANGED died

Step(p) == LookForTables(p) \/ Statement(p) \/ SetVersion(p) \/ Rebuild(p)

\* The command dies, or "database is locked" ends it.
Crash(p) ==
    /\ Crashes
    /\ proc[p].pc # "idle"
    /\ Leave(p)
    /\ died' = TRUE
    /\ UNCHANGED <<version, applied, narrow>>

Next == \E p \in Procs : Open(p) \/ Step(p) \/ Crash(p)

Spec == Init /\ [][Next]_vars

\* A command that is migrating goes on until it is done or fails.
FairSpec == Spec /\ \A p \in Procs : WF_vars(Step(p))

-----------------------------------------------------------------------------
Quiescent == \A p \in Procs : proc[p].pc = "idle"

\* Whenever no command is migrating, the file has exactly the objects that
\* its user_version stands for, so that the next initialize succeeds, however
\* many commands raced for the migration, provided that none of them died.
MigrationIsWhole ==
    /\ TypeOK
    /\ Quiescent /\ ~died /\ version <= Latest => applied = Whole(version)

\* The same even if commands die: the migration is a transaction ("transac-
\* tionally migrate", initialize's docstring).
MigrationIsAtomic == Quiescent /\ version <= Latest => applied = Whole(version)

\* user_version never falls, although initialize writes it from a copy that
\* it read before other commands migrated the file: a command that comes
\* late fails at its first statement.
VersionNeverFalls == [][version' >= version]_vars

\* A file with the current version has no tables that refuse LSF jobs or
\* version 2 requests, whatever release created it and however many commands
\* took part in its migration.
CurrentSchemaIsWide == version = Latest => ~narrow

\* A migration that some command has begun is finished, even if commands that
\* race for it fail, unless one dies.
MigrationCompletes == ~Quiescent ~> version >= Latest \/ died
=============================================================================
