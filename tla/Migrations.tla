----------------------------- MODULE Migrations -----------------------------
(* The ordered migrations of the schema: the commands up, adopt and status    *)
(* (sceneboard-be/src/database/migrations/runner.ts, cli.ts) and the check    *)
(* every server makes before it listens (main.ts).  Each command runs under a *)
(* lock of the database; a DDL statement commits by itself, and the row of a  *)
(* migration is written after its last statement: a run that is cut leaves    *)
(* statements without their row.                                              *)
EXTENDS Naturals, Sequences, FiniteSets

CONSTANTS
    Processes,   \* processes that run a command or serve
    None,        \* no process: the lock is free
    Steps,       \* of every migration, the kinds of its statements in order:
                 \* "again" may be repeated (IF NOT EXISTS, a check dropped and
                 \* added, a row written once), "once" fails the second time
                 \* (CREATE TABLE, ADD COLUMN), "known" fails but is recognised
    Known,       \* how many migrations the build of a process has
    MaxCuts      \* bound on the runs that are cut (CutRun)

Versions == 1..Len(Steps)

MigrationsAssumption ==
    /\ None \notin Processes
    /\ Len(Steps) \in Nat
    /\ \A m \in Versions : Steps[m] \in Seq({"again", "once", "known"})
    /\ Known \in [Processes -> Versions]
    /\ MaxCuts \in Nat

VARIABLES
    schema,      \* the statements the database has: <<migration, statement>>
    ledger,      \* schema_migrations: the versions with a row
    lock,        \* who holds 'leecat-board:migrations:v1'
    at,          \* of every process: where it is
    cuts,        \* runs cut so far
    foreign      \* the schema came from elsewhere, with no row (adopt)

vars == <<schema, ledger, lock, at, cuts, foreign>>

StatementsOf(m) == {<<m, s>> : s \in 1..Len(Steps[m])}
Holds(m) == StatementsOf(m) \subseteq schema
AllHold(n) == \A m \in 1..n : Holds(m)

\* Where a process is.  pc: "idle", "lock" (asked for the lock), "statement"
\* (at statement step of migration version), "row" (its statements are done),
\* "adopt" (rows written up to version - 1), "serving", "done" or "failed".
Idle == [pc |-> "idle", cmd |-> "none", version |-> 0, step |-> 0, why |-> "none"]
Commands == {"up", "adopt", "status", "serve"}
Whys == {"none", "timeout", "ledger", "pending", "schema", "exists"}

TypeOK ==
    /\ schema \subseteq UNION {StatementsOf(m) : m \in Versions}
    /\ ledger \subseteq Versions
    /\ lock \in Processes \cup {None}
    /\ at \in [Processes ->
         [pc : {"idle", "lock", "statement", "row", "adopt", "serving", "done", "failed"},
          cmd : Commands \cup {"none"}, version : 0..Len(Steps) + 1, step : Nat, why : Whys]]
    /\ cuts \in 0..MaxCuts
    /\ foreign \in BOOLEAN

Init ==
    /\ foreign \in BOOLEAN
    /\ schema = IF foreign THEN UNION {StatementsOf(m) : m \in Versions} ELSE {}
    /\ ledger = {}
    /\ lock = None
    /\ at = [p \in Processes |-> Idle]
    /\ cuts = 0

-----------------------------------------------------------------------------
Start(p, c) ==
    /\ at[p].pc \in {"idle", "done", "failed"}
    /\ at' = [at EXCEPT ![p] = [Idle EXCEPT !.pc = "lock", !.cmd = c]]
    /\ UNCHANGED <<schema, ledger, lock, cuts, foreign>>

\* The rows are read against the registry of the build: rows it does not know,
\* or a hole, refuse the command.
Assessed(p, n) == ledger = 1..n /\ n <= Known[p]
LedgerRefused(p) == \A n \in 0..Known[p] : ~Assessed(p, n)

\* The command ends: the lock is released whatever happened.
End(p, pc, why) ==
    /\ lock' = None
    /\ at' = [at EXCEPT ![p].pc = pc, ![p].why = why]

\* The position of up in the migration m, or behind the last one it knows.
AtVersion(r, m) == [r EXCEPT !.pc = "statement", !.version = m, !.step = 1]

\* GET_LOCK has answered 1.
Free(p) == lock = None

\* A status, or the same status before a server listens: every migration the
\* build knows has its row and its postcondition.
StatusAnswer(p, n) ==
    IF n < Known[p] THEN End(p, "failed", "pending")
    ELSE IF ~AllHold(Known[p]) THEN End(p, "failed", "schema")
    ELSE End(p, IF at[p].cmd = "serve" THEN "serving" ELSE "done", "none")

\* Mutant: adoption writes its rows without verifying the schema.
AdoptAnswer_Unverified(p, n) ==
    IF n # 0 THEN End(p, "failed", "ledger")
    ELSE /\ lock' = p
         /\ at' = [at EXCEPT ![p].pc = "adopt", ![p].version = 1]
AdoptAnswer(p, n) ==
    IF n # 0 THEN End(p, "failed", "ledger")
    ELSE IF ~AllHold(Known[p]) THEN End(p, "failed", "schema")
    ELSE /\ lock' = p
         /\ at' = [at EXCEPT ![p].pc = "adopt", ![p].version = 1]

Lock(p) ==
    /\ at[p].pc = "lock"
    /\ Free(p)
    /\ \/ LedgerRefused(p) /\ End(p, "failed", "ledger")
       \/ \E n \in 0..Known[p] :
            /\ Assessed(p, n)
            /\ CASE at[p].cmd = "up" ->
                      /\ lock' = p
                      /\ at' = [at EXCEPT ![p] = AtVersion(at[p], n + 1)]
                 [] at[p].cmd = "adopt" -> AdoptAnswer(p, n)
                 [] OTHER -> StatusAnswer(p, n)
    /\ UNCHANGED <<schema, ledger, cuts, foreign>>

\* The lock was not free for 60 seconds.
LockTimeout(p) ==
    /\ at[p].pc = "lock"
    /\ lock # None
    /\ at' = [at EXCEPT ![p].pc = "failed", ![p].why = "timeout"]
    /\ UNCHANGED <<schema, ledger, lock, cuts, foreign>>

Here(p) == <<at[p].version, at[p].step>>
Kind(p) == Steps[at[p].version][at[p].step]

\* Mutant: only the table of the export audit is recognised when it exists.
Repeatable_Again(p) == Kind(p) = "again"
\* A statement the database has already: done again, recognised, or an error.
Repeatable(p) == Kind(p) \in {"again", "known"}

Statement(p) ==
    /\ at[p].pc = "statement"
    /\ at[p].version <= Known[p]
    /\ at[p].step <= Len(Steps[at[p].version])
    /\ IF Here(p) \in schema /\ ~Repeatable(p)
       THEN /\ End(p, "failed", "exists")
            /\ UNCHANGED schema
       ELSE /\ schema' = schema \cup {Here(p)}
            /\ at' = [at EXCEPT ![p].step = @ + 1]
            /\ UNCHANGED lock
    /\ UNCHANGED <<ledger, cuts, foreign>>

\* The row of the migration is written after its statements and its postcondition.
Record(p) ==
    /\ at[p].pc = "statement"
    /\ at[p].version <= Known[p]
    /\ at[p].step = Len(Steps[at[p].version]) + 1
    /\ IF Holds(at[p].version)
       THEN /\ ledger' = ledger \cup {at[p].version}
            /\ at' = [at EXCEPT ![p] = AtVersion(@, @.version + 1)]
            /\ UNCHANGED lock
       ELSE End(p, "failed", "schema") /\ UNCHANGED ledger
    /\ UNCHANGED <<schema, cuts, foreign>>

Complete(p) == ledger = 1..Known[p] /\ AllHold(Known[p])

\* up read the ledger again and verified every postcondition.
FinishUp(p) ==
    /\ at[p].pc = "statement"
    /\ at[p].version = Known[p] + 1
    /\ IF Complete(p) THEN End(p, "done", "none") ELSE End(p, "failed", "ledger")
    /\ UNCHANGED <<schema, ledger, cuts, foreign>>

AdoptRow(p) ==
    /\ at[p].pc = "adopt"
    /\ IF at[p].version \in ledger
       THEN End(p, "failed", "exists") /\ UNCHANGED ledger
       ELSE /\ ledger' = ledger \cup {at[p].version}
            /\ IF at[p].version = Known[p]
               THEN End(p, "done", "none")
               ELSE at' = [at EXCEPT ![p].version = @ + 1] /\ UNCHANGED lock
    /\ UNCHANGED <<schema, cuts, foreign>>

\* The process or its connection dies: the database ends the session and frees
\* its lock, what was committed stays.  A server that dies is restarted as any.
CutRun(p) ==
    /\ at[p].pc \in {"lock", "statement", "adopt"}
    /\ cuts < MaxCuts
    /\ cuts' = cuts + 1
    /\ lock' = IF lock = p THEN None ELSE lock
    /\ at' = [at EXCEPT ![p] = Idle]
    /\ UNCHANGED <<schema, ledger, foreign>>

StopServing(p) ==
    /\ at[p].pc = "serving"
    /\ at' = [at EXCEPT ![p] = Idle]
    /\ UNCHANGED <<schema, ledger, lock, cuts, foreign>>

Run(p) == Lock(p) \/ Statement(p) \/ Record(p) \/ FinishUp(p) \/ AdoptRow(p)

Next ==
    \E p \in Processes :
        \/ \E c \in Commands : Start(p, c)
        \/ Run(p) \/ LockTimeout(p) \/ CutRun(p) \/ StopServing(p)

Spec == Init /\ [][Next]_vars

-----------------------------------------------------------------------------
\* The ledger tells the truth: its rows have no hole, and a version with a row
\* has every statement of its migration, whoever wrote the row and whichever
\* runs were cut (runner.ts:731 and :784).
LedgerTrue ==
    /\ \E n \in 0..Len(Steps) : ledger = 1..n
    /\ \A m \in ledger : \A s \in 1..Len(Steps[m]) : <<m, s>> \in schema

\* A server listens only on a schema that has everything its build knows
\* (main.ts:28).
ServesItsSchema ==
    \A p \in Processes : at[p].pc = "serving" =>
        \A m \in 1..Known[p] :
            m \in ledger /\ \A s \in 1..Len(Steps[m]) : <<m, s>> \in schema

\* Statements of two runs never mix: without a cut and on an empty database no
\* run finds the work of another in its way, and it leaves at most one migration
\* unfinished (the lock of runner.ts:1810).
RunsAlone ==
    cuts = 0 /\ ~foreign =>
        /\ \A p \in Processes : at[p].why # "exists"
        /\ Cardinality({m \in Versions : m \notin ledger /\ \E s \in 1..Len(Steps[m]) : <<m, s>> \in schema}) <= 1

\* A run that fails because a table exists stands at a statement that cannot be
\* repeated, after a cut or on a schema from elsewhere: the tables of 025 and
\* 029 are recognised (runner.ts:680 and :693).
StuckForCause ==
    \A p \in Processes :
         at[p].why # "exists" /\ at'[p].why = "exists" =>
             /\ Steps[at[p].version][at[p].step] = "once"
             /\ cuts > 0 \/ foreign

\* What servers and operators rely on when they read the rows, and what they may
\* conclude from a run that failed.
LedgerTellsTruth ==
    /\ [](TypeOK /\ LedgerTrue /\ ServesItsSchema /\ RunsAlone)
    /\ [][StuckForCause]_vars

\* With migrations that may be repeated the schema is completed however often
\* runs and adoptions are cut (the promise of 014, 016, 025 and 029).
Converges == <>[](\E p \in Processes : ledger = 1..Known[p] /\ \A m \in 1..Known[p] : \A s \in 1..Len(Steps[m]) : <<m, s>> \in schema)
=============================================================================
